----------------------------- MODULE VmFileGets -----------------------------
(***************************************************************************)
(* vm_file_fgets of vm_file_win32.c: it reads the file in chunks of        *)
(* VM_MAX_TEMP_LINE characters through the buffer of the vm_file, copies   *)
(* them until a line end, a null or the end of the caller's buffer, and    *)
(* moves the file back over what it read too far.                          *)
(*                                                                         *)
(* A character is "x", "line end" or "null"; "old" is what the caller's    *)
(* buffer held before.  The file does not change while it is open.         *)
(* Operators named Bug... are mistakes a maintainer could make; nothing    *)
(* uses them but the sensitivity runs the README describes.                *)
(***************************************************************************)
EXTENDS Integers, Sequences

CONSTANTS
  Chunk,     \* VM_MAX_TEMP_LINE
  Texts,     \* the contents of the files
  Rooms      \* the values of nchar

Char == {"x", "line end", "null"}

ASSUME GetsAssumption ==
  /\ Chunk \in Nat \ {0}
  /\ Texts \subseteq Seq(Char)
  /\ Rooms \subseteq Nat \ {0}

VARIABLES
  text,      \* the file
  position,  \* the file pointer: characters before it
  reading,   \* a vm_file_fgets is under way
  nchar,     \* its parameter
  str,       \* its buffer: str[j+1] is the program's str[j]
  stored,    \* j
  from,      \* history: the file pointer at the call
  result     \* what the last call returned: "str", "NULL", or "none" before it

getsVars == <<text, position, reading, nchar, str, stored, from, result>>

GetsTypeOK ==
  /\ text \in Texts
  /\ position \in 0 .. Len(text) /\ from \in 0 .. position
  /\ reading \in BOOLEAN
  /\ nchar \in Rooms
  /\ str \in [1 .. nchar -> Char \union {"old"}]
  /\ stored \in 0 .. nchar
  /\ result \in {"none", "str", "NULL"}

GetsInit ==
  /\ text \in Texts
  /\ nchar \in Rooms /\ str = [k \in 1 .. nchar |-> "old"]
  /\ position = 0 /\ from = 0 /\ stored = 0
  /\ reading = FALSE /\ result = "none"

\* vm_file_fgets(str, n, fd) with a buffer the caller reuses.
Gets(n) ==
  /\ ~reading
  /\ reading' = TRUE
  /\ nchar' = n
  /\ str' = [k \in 1 .. n |-> IF k \in {1, n} THEN "null" ELSE "old"]
  /\ stored' = 0
  /\ from' = position
  /\ UNCHANGED <<text, position, result>>

-----------------------------------------------------------------------------
\* How many characters the next vm_file_fread delivers.
Delivered ==
  IF Chunk <= Len(text) - position THEN Chunk ELSE Len(text) - position

\* Character i of the chunk, counted from 0, ends the call: the buffer is full
\* at j = nchar - 1 and not before.
BugEnds(i) == text[position + i + 1] # "x"
Ends(i) == text[position + i + 1] # "x" \/ stored + i >= nchar - 1

\* str[j] .. str[j + n - 1] are the first n characters of the chunk.
Copied(n) ==
  [k \in 1 .. nchar |->
     IF k > stored /\ k <= stored + n THEN text[position + k - stored] ELSE str[k]]

\* The whole chunk fits, and there is no end in it.
CopyAll ==
  /\ reading /\ Delivered > 0
  /\ \A i \in 0 .. Delivered - 1 : ~Ends(i)
  /\ str' = Copied(Delivered)
  /\ stored' = stored + Delivered
  /\ position' = position + Delivered
  /\ UNCHANGED <<text, reading, nchar, from, result>>

BugCopyToEnd ==
  /\ reading
  /\ \E i \in 0 .. Delivered - 1 :
       /\ Ends(i) /\ \A k \in 0 .. i - 1 : ~Ends(k)
       /\ str' = Copied(i + 1)
       /\ stored' = stored + i
       /\ position' = position + Delivered
  /\ reading' = FALSE
  /\ result' = "str"
  /\ UNCHANGED <<text, nchar, from>>

\* Character i ends the call; a line end gets a null after it while there is
\* room, and vm_file_fseek goes back to what follows character i.
CopyToEnd ==
  /\ reading
  /\ \E i \in 0 .. Delivered - 1 :
       /\ Ends(i) /\ \A k \in 0 .. i - 1 : ~Ends(k)
       /\ LET add == text[position + i + 1] = "line end" /\ stored + i < nchar - 1
              j   == IF add THEN stored + i + 1 ELSE stored + i
          IN /\ str' = IF add THEN [Copied(i + 1) EXCEPT ![j + 1] = "null"]
                              ELSE Copied(i + 1)
             /\ stored' = j
       /\ position' = position + i + 1
  /\ reading' = FALSE
  /\ result' = "str"
  /\ UNCHANGED <<text, nchar, from>>

\* The file ends first: vm_file_feof holds, and with room for it the null is
\* written one place after the next.
EndOfFile ==
  /\ reading /\ Delivered = 0
  /\ \/ /\ stored # 0
        /\ result' = "str"
        /\ \/ /\ stored < nchar - 1
              /\ stored' = stored + 1
              /\ str' = [str EXCEPT ![stored + 2] = "null"]
           \/ stored >= nchar - 1 /\ UNCHANGED <<stored, str>>
     \/ stored = 0 /\ result' = "NULL" /\ UNCHANGED <<stored, str>>
  /\ reading' = FALSE
  /\ UNCHANGED <<text, position, nchar, from>>

GetsNext == (\E n \in Rooms : Gets(n)) \/ CopyAll \/ CopyToEnd \/ EndOfFile

GetsSpec == GetsInit /\ [][GetsNext]_getsVars

-----------------------------------------------------------------------------
\* A call consumes what it stores: however the line lies across the chunks,
\* the characters between the file pointer before it and after it are those at
\* the start of the buffer, so that the next call goes on where this one ended
\* and no character is lost or read twice.
GetsKeepsAll ==
  /\ position - from <= nchar
  /\ \A k \in 1 .. position - from : str[k] = text[from + k]

\* "read characters from input file until newline found, null character found,
\* nchars rad or EOF reached": a call that returned stopped at the first of
\* these, and a line that fits in with a null has its null.
GetsStopsAtEnd ==
  ~reading /\ result # "none" =>
    LET n == position - from IN
      /\ \A k \in 1 .. n - 1 : text[from + k] = "x"
      /\ n = nchar \/ position = Len(text) \/ text[position] # "x"
      /\ n > 0 /\ n < nchar /\ text[position] = "line end" => str[n + 1] = "null"

\* Both: no character lost or read twice, and a line ends where it should.
GetsExact == GetsKeepsAll /\ GetsStopsAtEnd
=============================================================================
