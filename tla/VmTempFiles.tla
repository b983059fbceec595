----------------------------- MODULE VmTempFiles ----------------------------
(***************************************************************************)
(* The temporary files of vm_file_win32.c: a doubly linked list with an    *)
(* entry for every vm_file that vm_file_tmpfile opened, walked when such a *)
(* file is closed and by the atexit handler tempfile_delete_all.           *)
(*                                                                         *)
(* Entries and files are addresses malloc gives out, again after they were *)
(* freed.  GetTempFileName makes names that are unique, so a name is the   *)
(* entry whose path holds it.  Operators named Bug... are mistakes a       *)
(* maintainer could make; nothing uses them but the sensitivity runs the   *)
(* README describes.                                                       *)
(***************************************************************************)
CONSTANTS Entry, File, Null

ASSUME TempFilesAssumption == Null \notin Entry \union File

VARIABLES
  head,              \* temp_list_head
  next, prev,        \* vm_temp_file_entry.next and .prev
  holder,            \* vm_temp_file_entry.handle
  entries,           \* the entries allocated
  plain, temporary,  \* the vm_files allocated: with ftemp 0, with the prefix
  disk,              \* the entries whose path names a file on disk
  walking, walk      \* exit() has begun; p of tempfile_delete_all

tempVars ==
  <<head, next, prev, holder, entries, plain, temporary, disk, walking, walk>>
linkVars == <<head, next, prev, holder, entries>>

Link == Entry \union {Null}

\* S holds the head, and with an entry its successor.
Follows(S) ==
  /\ head # Null => head \in S
  /\ \A e \in S : next[e] # Null => next[e] \in S

\* What a walk from the head along next meets: it stays in every such set.
Listed == {e \in Entry : \A S \in SUBSET Entry : Follows(S) => e \in S}

TempTypeOK ==
  /\ head \in Link
  /\ next \in [Entry -> Link] /\ prev \in [Entry -> Link]
  /\ holder \in [Entry -> File \union {Null}]
  /\ entries \subseteq Entry /\ disk \subseteq Entry
  /\ plain \subseteq File /\ temporary \subseteq File
  /\ walking \in BOOLEAN /\ walk \in Link

TempInit ==
  /\ head = Null
  /\ next = [e \in Entry |-> Null] /\ prev = [e \in Entry |-> Null]
  /\ holder = [e \in Entry |-> Null]
  /\ entries = {} /\ disk = {} /\ plain = {} /\ temporary = {}
  /\ walking = FALSE /\ walk = Null

-----------------------------------------------------------------------------
Free == File \ (plain \union temporary)

\* vm_file_fopen of any other file, and its vm_file_fclose.
OpenPlain(f) ==
  /\ ~walking /\ f \in Free
  /\ plain' = plain \union {f}
  /\ UNCHANGED <<linkVars, temporary, disk, walking, walk>>

ClosePlain(f) ==
  /\ ~walking /\ f \in plain
  /\ plain' = plain \ {f}
  /\ UNCHANGED <<linkVars, temporary, disk, walking, walk>>

\* tempfile_add_entry, next and prev of e NULL.
AddEntry(e) ==
  /\ head' = e
  /\ next' = [next EXCEPT ![e] = head]
  /\ prev' = [d \in Entry |-> IF d = e THEN Null ELSE IF d = head THEN e ELSE prev[d]]

\* vm_file_tmpfile.  Without the memory for its buffer vm_file_fopen still
\* returns a vm_file: then there is no file on disk (made is FALSE).
TmpFile(e, f, made) ==
  /\ ~walking /\ e \notin entries /\ f \in Free
  /\ entries' = entries \union {e}
  /\ holder' = [holder EXCEPT ![e] = f]
  /\ temporary' = temporary \union {f}
  /\ disk' = IF made THEN disk \union {e} ELSE disk
  /\ AddEntry(e)
  /\ UNCHANGED <<plain, walking, walk>>

\* tempfile_create_file when vm_file_fopen fails: the entry is neither listed
\* nor freed.
TmpFileFails(e) ==
  /\ ~walking /\ e \notin entries
  /\ entries' = entries \union {e}
  /\ holder' = [holder EXCEPT ![e] = Null]
  /\ next' = [next EXCEPT ![e] = Null] /\ prev' = [prev EXCEPT ![e] = Null]
  /\ UNCHANGED <<head, plain, temporary, disk, walking, walk>>

-----------------------------------------------------------------------------
BugRemoveEntry(r) ==
  /\ entries' = entries \ {r}
  /\ head' = IF prev[r] = Null THEN next[r] ELSE head
  /\ next' = [e \in Entry |-> IF prev[r] = e THEN next[r] ELSE next[e]]
  /\ prev' = [e \in Entry |-> IF prev[r] # Null /\ next[r] = e THEN prev[r] ELSE prev[e]]

\* tempfile_remove_entry of a listed entry: at the head its successor loses
\* its prev, elsewhere its neighbours are joined; then it is freed.
RemoveEntry(r) ==
  /\ entries' = entries \ {r}
  /\ head' = IF prev[r] = Null THEN next[r] ELSE head
  /\ next' = [e \in Entry |-> IF prev[r] = e THEN next[r] ELSE next[e]]
  /\ prev' = [e \in Entry |-> IF next[r] = e THEN prev[r] ELSE prev[e]]

\* vm_file_fclose of a temporary file: tempfile_delete_by_handle removes the
\* file of the entry that holds it, and the entry.
FCloseTemp(f) ==
  /\ f \in temporary
  /\ temporary' = temporary \ {f}
  /\ \/ \E r \in Listed :
          /\ holder[r] = f
          /\ disk' = disk \ {r}
          /\ RemoveEntry(r)
          /\ UNCHANGED holder
     \/ (\A r \in Listed : holder[r] # f) /\ UNCHANGED <<linkVars, disk>>

CloseTemp(f) ==
  /\ ~walking
  /\ FCloseTemp(f)
  /\ UNCHANGED <<plain, walking, walk>>

-----------------------------------------------------------------------------
BeginExit ==
  /\ ~walking
  /\ walking' = TRUE
  /\ walk' = head
  /\ UNCHANGED <<linkVars, plain, temporary, disk>>

\* tempfile_delete_all goes to the next entry before it closes the file,
\* since that frees the entry.
ExitStep ==
  /\ walking /\ walk # Null
  /\ FCloseTemp(holder[walk])
  /\ walk' = next[walk]
  /\ UNCHANGED <<plain, walking>>

TempNext ==
  \/ \E f \in File :
       \/ OpenPlain(f)
       \/ ClosePlain(f)
       \/ CloseTemp(f)
       \/ \E e \in Entry, made \in BOOLEAN : TmpFile(e, f, made)
  \/ \E e \in Entry : TmpFileFails(e)
  \/ BeginExit
  \/ ExitStep

TempSpec == TempInit /\ [][TempNext]_tempVars

-----------------------------------------------------------------------------
\* After any sequence of additions and of removals at the head, in the middle
\* and at the tail, the list hangs together in both directions and holds one
\* allocated entry for every temporary file that is open, and no other.
ListWellFormed ==
  /\ head # Null => prev[head] = Null
  /\ \A e \in Listed : next[e] # Null => prev[next[e]] = e
  /\ Listed \subseteq entries
  /\ temporary = {holder[e] : e \in Listed}
  /\ \A d, e \in Listed : holder[d] = holder[e] => d = e

\* "delete file if temporary file is being closed": every temporary file on
\* disk can still be closed, and when exit has walked the list none is left.
TempFilesRemoved ==
  /\ disk \subseteq Listed
  /\ walking /\ walk = Null => disk = {} /\ temporary = {}

\* Both: whatever the order of removals, each entry can be found by its file
\* and the exit handler finds them all.
TempFilesKept == ListWellFormed /\ TempFilesRemoved
=============================================================================
