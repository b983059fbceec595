----------------------------- MODULE VmFileName -----------------------------
(***************************************************************************)
(* vm_file.c: a file name is put together from path, base name and suffix  *)
(* and taken apart again.  A name is a sequence of letters, slashes and    *)
(* dots; the program's filename[k] is filename[k + 1] here.                *)
(*                                                                         *)
(* Callers give a buffer that the result fits into, and a name without a   *)
(* dot before its last slash: vm_file_getbasename would copy a negative    *)
(* number of characters.                                                   *)
(***************************************************************************)
EXTENDS Integers, Sequences
Ext == INSTANCE FiniteSetsExt

CONSTANTS
  PathParts, BaseParts, SuffixParts,  \* the arguments of vm_file_makefilename
  NoPart,                             \* NULL, for each of them
  NameRooms,                          \* the values of nchars
  GivenNames                          \* names from elsewhere

SLASH == "/"
NameChar == {"a", "b", SLASH, "."}

ASSUME FileNameAssumption ==
  /\ PathParts \union BaseParts \union SuffixParts \subseteq Seq(NameChar) \union {NoPart}
  /\ GivenNames \subseteq Seq(NameChar)
  /\ NameRooms \subseteq Nat

VARIABLES
  filename,     \* the name
  made,         \* history: what it was made of, or NoPart
  split         \* what the three functions take out of it, or NoPart

nameVars == <<filename, made, split>>

NameTypeOK ==
  /\ filename \in Seq(NameChar)
  /\ made = NoPart \/ made \in
       [path : PathParts, base : BaseParts, suffix : SuffixParts, nchars : NameRooms]
  /\ split = NoPart \/ split \in
       [path : Seq(NameChar), base : Seq(NameChar), suffix : Seq(NameChar)]

NameInit == filename = <<>> /\ made = NoPart /\ split = NoPart

-----------------------------------------------------------------------------
\* ADDPARM: the part and a SLASH, if the part is shorter than nchars as an
\* unsigned number.  From nchars goes the length of the whole name so far.
AddParm(b, part) ==
  IF part = NoPart \/ b.nchars \in 0 .. Len(part) THEN b
  ELSE LET name == b.name \o part
           left == b.nchars - Len(name)
       IN [name   |-> IF left # 0 THEN Append(name, SLASH) ELSE name,
           offs   |-> Len(name) + 1,
           nchars |-> left - 1]

\* filename[offs - 1] is a SLASH.
EndsInSlash(b) == b.offs \in 1 .. Len(b.name) /\ b.name[b.offs] = SLASH

\* The SLASH behind the base name gives way to a dot; without any name there
\* is only the dot.
WithDot(b) ==
  IF b.offs = 0 THEN [name |-> <<".">>, offs |-> 1, nchars |-> b.nchars - 1]
  ELSE IF EndsInSlash(b) THEN [b EXCEPT !.name[b.offs] = "."] ELSE b

\* The buffer of vm_file_makefilename before the last SLASH is removed.
Assembled(path, base, suffix, nchars) ==
  LET empty == [name |-> <<>>, offs |-> 0, nchars |-> nchars]
      named == AddParm(AddParm(empty, path), base)
  IN IF named.nchars = 0 \/ suffix = NoPart THEN named
     ELSE AddParm(WithDot(named), suffix)

MakeFileName(path, base, suffix, nchars) ==
  LET b == Assembled(path, base, suffix, nchars) IN
  /\ b.offs > 0 /\ Len(b.name) < nchars
  /\ filename' = IF EndsInSlash(b) THEN SubSeq(b.name, 1, b.offs - 1) ELSE b.name
  /\ made' = [path |-> path, base |-> base, suffix |-> suffix, nchars |-> nchars]
  /\ split' = NoPart

\* A name that comes from elsewhere.
GiveName(name) == filename' = name /\ made' = NoPart /\ split' = NoPart

-----------------------------------------------------------------------------
PlacesOf(name, char) == {k \in 0 .. Len(name) - 1 : name[k + 1] = char}

\* The search from the end never looks at place 0.
LastPlaceOf(name, char) == Ext!Max({0} \union PlacesOf(name, char))

\* vm_file_getpath counts one place further before it asks whether it found
\* anything: a path of one character gets lost.
GetPath(name) ==
  LET k == LastPlaceOf(name, SLASH) IN IF k > 1 THEN SubSeq(name, 1, k) ELSE <<>>

BugGetSuffix(name) ==
  LET k == LastPlaceOf(name, ".") IN IF k > 1 THEN SubSeq(name, k + 1, Len(name)) ELSE <<>>

\* vm_file_getsuffix, of a name of one character before the dot just as well.
GetSuffix(name) ==
  LET k == LastPlaceOf(name, ".") IN IF k > 1 THEN SubSeq(name, k + 2, Len(name)) ELSE <<>>

FirstDot(name) == Ext!Min({Len(name)} \union PlacesOf(name, "."))

\* vm_file_getbasename: up to the first dot.
GetBaseName(name) ==
  IF PlacesOf(name, SLASH) = {} THEN SubSeq(name, 1, FirstDot(name))
  ELSE SubSeq(name, Ext!Max(PlacesOf(name, SLASH)) + 2, FirstDot(name))

SplitName ==
  /\ split = NoPart
  /\ \A k \in PlacesOf(filename, SLASH) : k < FirstDot(filename)
  /\ split' = [path |-> GetPath(filename), base |-> GetBaseName(filename),
               suffix |-> GetSuffix(filename)]
  /\ UNCHANGED <<filename, made>>

NameNext ==
  \/ \E p \in PathParts, b \in BaseParts, s \in SuffixParts, n \in NameRooms :
       MakeFileName(p, b, s, n)
  \/ \E name \in GivenNames : GiveName(name)
  \/ SplitName

NameSpec == NameInit /\ [][NameNext]_nameVars

-----------------------------------------------------------------------------
Without(name, char) == PlacesOf(name, char) = {}
HowLong(part) == IF part = NoPart THEN 0 ELSE Len(part)
LeadIn(part, char) == IF part = NoPart THEN <<>> ELSE Append(part, char)

\* "return only path of file name", "base file name free of path and all
\* suffixes", "only first from the end": what is taken out of a name is
\* bounded by its last slash and its last dot.  And what was made of parts
\* with plenty of room (twice what it needs: ADDPARM counts what is there
\* again for every part) is those parts, and comes apart into them again, but
\* for a path and a name before the dot of one character.
NamesComposeBack ==
  split # NoPart =>
    /\ split.path # <<>> => \E k \in PlacesOf(filename, SLASH) :
         /\ split.path = SubSeq(filename, 1, k)
         /\ Without(SubSeq(filename, k + 2, Len(filename)), SLASH)
    /\ split.suffix # <<>> => \E k \in PlacesOf(filename, ".") :
         /\ split.suffix = SubSeq(filename, k + 2, Len(filename))
         /\ Without(split.suffix, ".")
    /\ Without(split.base, SLASH) /\ Without(split.base, ".")
    /\ (/\ made # NoPart /\ made.base # NoPart /\ made.suffix # NoPart
        /\ made.nchars > 2 * (HowLong(made.path) + Len(made.base) + Len(made.suffix) + 2))
       => /\ filename = LeadIn(made.path, SLASH) \o LeadIn(made.base, ".") \o made.suffix
          /\ split.base = made.base
          /\ HowLong(made.path) > 1 => split.path = made.path
          /\ HowLong(made.path) + Len(made.base) > 1 => split.suffix = made.suffix
=============================================================================
