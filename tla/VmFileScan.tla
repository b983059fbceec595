----------------------------- MODULE VmFileScan -----------------------------
(***************************************************************************)
(* Text files of vm_file_win32.c written with vm_file_fputs and read word  *)
(* by word with vm_file_fscanf.  A word is what gettoken cuts from the     *)
(* next line; the file is then moved back to what follows the word, and    *)
(* the next word is cut from a line that starts there.                     *)
(*                                                                         *)
(* Every line is shorter than VM_MAX_TEMP_LINE (VmFileGets has the longer  *)
(* ones) and has its line end when it is read.  Every specifier converts a *)
(* word with %s, and a format has no line end inside it.                   *)
(* Operators named Bug... are mistakes a maintainer could make; nothing    *)
(* uses them but the sensitivity runs the README describes.                *)
(***************************************************************************)
EXTENDS Integers, Sequences, FiniteSets

CONSTANTS
  Strings,      \* what vm_file_fputs is called with
  MaxText,      \* bounds what is written to the file
  Specifiers    \* how many specifiers a format has

Letter    == {"x", "y"}
Character == Letter \union {"blank", "tab", "comma", "cr", "lf"}

ASSUME ScanAssumption ==
  /\ Strings \subseteq Seq(Character)
  /\ MaxText \in Nat
  /\ Specifiers \subseteq Nat \ {0}

VARIABLES
  mode,        \* what the file was opened with, or "closed"
  binary,      \* vm_file.fbin
  contents,    \* the characters on disk
  place,       \* the file pointer: characters before it
  fsize,       \* vm_file.fsize
  wanted,      \* the specifiers of the last vm_file_fscanf
  items,       \* those it has left, 0 when it has returned
  sent,        \* history: the strings written since the file was created
  words,       \* history: the words stored since the file was opened or rewound
  gaveUp       \* history: the last vm_file_fscanf has met no further word

scanVars == <<mode, binary, contents, place, fsize, wanted, items, sent, words, gaveUp>>

ScanTypeOK ==
  /\ mode \in {"closed", "r", "w", "w+", "a"}
  /\ binary \in BOOLEAN
  /\ contents \in Seq(Character)
  /\ place \in 0 .. Len(contents)
  /\ fsize \in Nat
  /\ wanted \in Specifiers \union {0} /\ items \in 0 .. wanted
  /\ sent \in Seq(Character) /\ Len(sent) <= MaxText
  /\ words \in Seq(Seq(Letter))
  /\ gaveUp \in BOOLEAN

ScanInit ==
  /\ mode = "closed" /\ binary = FALSE
  /\ contents = <<>> /\ place = 0 /\ fsize = 0 /\ wanted = 0 /\ items = 0
  /\ sent = <<>> /\ words = <<>> /\ gaveUp = FALSE

Idle == mode # "closed" /\ items = 0

-----------------------------------------------------------------------------
\* vm_file_fopen: vm_file_getinfo reads the size before CREATE_ALWAYS empties
\* the file; "a" goes to its end.
OpenText(m, b) ==
  /\ mode = "closed"
  /\ mode' = m /\ binary' = b
  /\ fsize' = Len(contents)
  /\ contents' = IF m \in {"w", "w+"} THEN <<>> ELSE contents
  /\ sent' = IF m \in {"w", "w+"} THEN <<>> ELSE sent
  /\ place' = IF m = "a" THEN Len(contents) ELSE 0
  /\ words' = <<>> /\ gaveUp' = FALSE
  /\ UNCHANGED <<wanted, items>>

CloseText ==
  /\ Idle
  /\ mode' = "closed"
  /\ UNCHANGED <<binary, contents, place, fsize, wanted, items, sent, words, gaveUp>>

\* vm_file_fseek(fd, 0, VM_FILE_SEEK_SET).
Rewind ==
  /\ Idle
  /\ place' = 0
  /\ words' = <<>> /\ gaveUp' = FALSE
  /\ UNCHANGED <<mode, binary, contents, fsize, wanted, items, sent>>

\* extcpy: in a file that is not binary a carriage return goes before every
\* line end, which moves the k-th character of a string by one place for every
\* line end up to it.
Moved(s, k) == k + Cardinality({i \in 1 .. k : s[i] = "lf"})

Translated(s) ==
  [p \in 1 .. Moved(s, Len(s)) |->
     LET at == {k \in 1 .. Len(s) : Moved(s, k) = p}
     IN IF at = {} THEN "cr" ELSE s[CHOOSE k \in at : TRUE]]

\* vm_file_fputs, by callers that write at the end of the file.
FPuts(s) ==
  /\ Idle /\ mode # "r"
  /\ place = Len(contents)
  /\ Len(sent) + Len(s) <= MaxText
  /\ contents' = contents \o (IF binary THEN s ELSE Translated(s))
  /\ place' = Len(contents')
  /\ sent' = sent \o s
  /\ UNCHANGED <<mode, binary, fsize, wanted, items, words, gaveUp>>

-----------------------------------------------------------------------------
\* vm_file_fscanf with n specifiers.
FScanf(n) ==
  /\ Idle /\ mode # "w"
  /\ contents # <<>> => contents[Len(contents)] = "lf"
  /\ wanted' = n /\ items' = n
  /\ gaveUp' = FALSE
  /\ UNCHANGED <<mode, binary, contents, place, fsize, sent, words>>

\* The place before the first character of C from place p on, the end of the
\* file if there is none.
Before(C, p) ==
  CHOOSE q \in p .. Len(contents) :
    /\ \A k \in p + 1 .. q : contents[k] \notin C
    /\ q < Len(contents) => contents[q + 1] \in C

\* gettoken: the token of the line at the file pointer lies between WordFrom
\* and TokenTo; it is empty when something else than blanks and tabs comes
\* first.  A tab before it is skipped and a tab inside it does not end it.
WordFrom == Before(Character \ {"blank", "tab"}, place)
TokenTo  == Before({"blank", "comma", "cr", "lf"}, WordFrom)

\* %s stores of the token what comes before the first tab.
WordTo == Before(Character \ Letter, WordFrom)

\* Where vm_file_fgets leaves the file: after the line end.
NextLine ==
  LET q == Before({"lf"}, place) IN IF q = Len(contents) THEN q ELSE q + 1

\* vm_file_feof at place p.
AtEnd(p) == p >= fsize

\* What getfiletoken_cvt has read too far is given back by the seek.
BugWord ==
  /\ items > 0 /\ ~gaveUp
  /\ WordFrom < TokenTo
  /\ words' = Append(words, SubSeq(contents, WordFrom + 1, WordTo))
  /\ place' = place + (TokenTo - WordFrom)
  /\ items' = items - 1
  /\ UNCHANGED <<mode, binary, contents, fsize, wanted, sent, gaveUp>>

Word ==
  /\ items > 0 /\ ~gaveUp
  /\ WordFrom < TokenTo
  /\ words' = Append(words, SubSeq(contents, WordFrom + 1, WordTo))
  /\ place' = TokenTo
  /\ items' = items - 1
  /\ UNCHANGED <<mode, binary, contents, fsize, wanted, sent, gaveUp>>

\* A line without a word is dropped: getfiletoken_cvt goes on to the next, or
\* gives up at what it takes for the end of the file.  Without a word for its
\* first specifier vm_file_fscanf never returns: while (!eol) has no body.
NoWord ==
  /\ items > 0 /\ ~gaveUp
  /\ WordFrom = TokenTo
  /\ place' = NextLine
  /\ \/ /\ AtEnd(NextLine)
        /\ gaveUp' = TRUE
        /\ items' = IF items = wanted THEN items ELSE 0
     \/ ~AtEnd(NextLine) /\ UNCHANGED <<gaveUp, items>>
  /\ UNCHANGED <<mode, binary, contents, fsize, wanted, sent, words>>

ScanNext ==
  \/ \E m \in {"r", "w", "w+", "a"}, b \in BOOLEAN : OpenText(m, b)
  \/ CloseText
  \/ Rewind
  \/ \E s \in Strings : FPuts(s)
  \/ \E n \in Specifiers : FScanf(n)
  \/ Word
  \/ NoWord

ScanSpec == ScanInit /\ [][ScanNext]_scanVars

-----------------------------------------------------------------------------
\* Where the words of the strings written start, those that start at a place
\* in S only.
Starts(S) ==
  {i \in S : sent[i] \in Letter /\ (i = 1 \/ sent[i - 1] \notin Letter)}

\* w is the word that starts at place i.
IsWord(w, i) ==
  /\ i + Len(w) <= Len(sent) + 1
  /\ \A k \in 1 .. Len(w) : w[k] = sent[i + k - 1]
  /\ i + Len(w) <= Len(sent) => sent[i + Len(w)] \notin Letter

\* What was read is a first part of the words that start in S, in their order:
\* the n-th word read starts at the n-th of the places.
ComesBack(S) ==
  LET starts == Starts(S)
  IN \A n \in 1 .. Len(words) : \E i \in starts :
       /\ IsWord(words[n], i)
       /\ Cardinality({k \in starts : k <= i}) = n

\* The places with no comma before them on their line, and no carriage return
\* that a caller wrote.
NotBehindComma ==
  {i \in 1 .. Len(sent) :
     \A k \in 1 .. i :
       sent[k] \in {"comma", "cr"} => \E l \in k .. i : sent[l] = "lf"}

\* The places that tabs alone do not join to a word before them: the token of
\* that word takes them along.
NotBehindTab ==
  {i \in 1 .. Len(sent) :
     \A j \in 1 .. i - 1 : sent[j] \in Letter =>
       \E k \in j + 1 .. i - 1 : sent[k] \notin Letter \union {"tab"}}

\* What was written comes back: reading a line again from where the last word
\* ended, in a file whose line ends were translated, neither repeats nor loses
\* a word except behind a comma or glued to another by a tab, and a file that
\* was opened to be read is not given up before its last word.
RoundTrip ==
  LET S == NotBehindComma \cap NotBehindTab
  IN /\ ComesBack(S)
     /\ mode = "r" /\ gaveUp => Len(words) = Cardinality(Starts(S))

\* "default delimiters are ",", "\n"": what is behind a comma is a word too.
\* A tab is not called a delimiter.
CommaDelimits ==
  mode = "r" /\ gaveUp =>
    /\ ComesBack(NotBehindTab)
    /\ Len(words) = Cardinality(Starts(NotBehindTab))
=============================================================================
