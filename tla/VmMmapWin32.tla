----------------------------- MODULE VmMmapWin32 -----------------------------
(***************************************************************************)
(* The mapped file of vm_mmap_win32.c: a file handle, a mapping object of  *)
(* a size fixed at its creation, and a view of it.  A file to write starts *)
(* empty, so its mapping is asked for at a largest size that is halved     *)
(* until the system grants it.  CreateFile, CreateFileMapping and          *)
(* MapViewOfFile may fail; the kernel keeps what was opened.               *)
(***************************************************************************)
EXTENDS Integers, FiniteSets

CONSTANTS
  Granularity,      \* dwAllocationGranularity
  QuadLimit,        \* 2^64: offsets and sizes are Ipp64u
  DWord,            \* 2^32: MapViewOfFile is given the low part of a size
  Largest, Least,   \* 1 GB and 16 MB: the sizes a mapping to write may have
  FileSizes,        \* the sizes of the files that are read
  Places,           \* where the kernel may place a view
  WinOffset, WinSize  \* the offsets and sizes vm_mmap_set_view is called with

ASSUME MmapWin32Assumption ==
  /\ Granularity \in Nat \ {0} /\ DWord \in Nat \ {0}
  /\ QuadLimit \in Nat \ {0} /\ QuadLimit % Granularity = 0 /\ QuadLimit % DWord = 0
  /\ Largest \in 1 .. DWord - 1 /\ Least \in 1 .. Largest
  /\ FileSizes \subseteq 0 .. QuadLimit - 1
  /\ WinOffset \subseteq 0 .. QuadLimit - 1
  /\ WinSize \subseteq 0 .. QuadLimit - 1
  /\ "NULL" \notin Places

VARIABLES
  fd_file,      \* vm_mmap.fd_file: "NULL", "INVALID" (INVALID_HANDLE_VALUE) or "open"
  fd_map,       \* vm_mmap.fd_map: 0 for NULL, else the size of the mapping object
  fAccessAttr,  \* vm_mmap.fAccessAttr
  view,         \* vm_mmap.address: "NULL" or a place
  handles,      \* the handles the process holds: of files and of mappings
  views,        \* the kernel's views: records [at, offset, size]
  wantedView        \* history: offset and size the last view was asked for

mmapWin32Vars == <<fd_file, fd_map, fAccessAttr, view, handles, views, wantedView>>

Access == {"READ", "WRITE"}

MmapWin32TypeOK ==
  /\ fd_file \in {"NULL", "INVALID", "open"}
  /\ fd_map \in 0 .. QuadLimit - 1
  /\ fAccessAttr \in Access \union {"none"}
  /\ view \in Places \union {"NULL"}
  /\ handles \in [file : Nat, map : Nat]
  /\ views \subseteq [at : Places, offset : 0 .. QuadLimit - 1, size : 1 .. QuadLimit - 1]
  /\ wantedView \in [offset : WinOffset \union {0}, size : WinSize \union {0}]

\* vm_mmap_set_invalid.
MmapWin32Init ==
  /\ fd_file = "NULL" /\ fd_map = 0 /\ fAccessAttr = "none" /\ view = "NULL"
  /\ handles = [file |-> 0, map |-> 0] /\ views = {}
  /\ wantedView = [offset |-> 0, size |-> 0]

-----------------------------------------------------------------------------
\* The sizes the loop of vm_mmap_create tries, down to nothing.
Halved == {size \in 0 .. Largest : \E k \in 0 .. Largest : size = Largest \div 2^k}

\* What CreateFileMapping may grant; 0: it fails, as it does for an empty file.
\* A success leaves no error behind for the loop to take for a failure.
Granted(attr) == {0} \union IF attr = "READ" THEN FileSizes ELSE Halved

\* A mapping to write is kept at 16 MB or more.
Kept(attr, size) == size > 0 /\ (attr = "READ" \/ Least <= size)

\* vm_mmap_create: what is not kept goes through vm_mmap_close, the file too.
\* It forgets what the handle holds: callers close it first.
WinCreate(attr, size) ==
  /\ fd_file # "open"
  /\ view' = "NULL"
  /\ fAccessAttr' = attr
  /\ IF Kept(attr, size)
     THEN /\ fd_file' = "open"
          /\ fd_map' = size
          /\ handles' = [file |-> handles.file + 1, map |-> handles.map + 1]
     ELSE /\ fd_file' = "INVALID"
          /\ fd_map' = 0
          /\ UNCHANGED handles
  /\ UNCHANGED <<views, wantedView>>

\* CreateFile fails.
WinCreateFails ==
  /\ fd_file # "open"
  /\ view' = "NULL"
  /\ fd_file' = "INVALID"
  /\ fd_map' = 0
  /\ UNCHANGED <<fAccessAttr, handles, views, wantedView>>

\* UnmapViewOfFile of the handle's view.
Left == {m \in views : m.at # view}

WinAligned(off) == (off \div Granularity) * Granularity
WinExtended(off, size) == (((size + off) % QuadLimit) - WinAligned(off)) % QuadLimit

BugViewed(off, size) == size % DWord
\* How many bytes MapViewOfFile maps: the low part of the size, and all there
\* is from the offset on when that is 0.
Viewed(off, size) ==
  LET low == WinExtended(off, size) % DWord IN
    IF low = 0 THEN fd_map - WinAligned(off) ELSE low

\* vm_mmap_set_view: the old view goes, whatever becomes of the new one.
WinSetView(off, size, where) ==
  /\ \/ /\ where \in Places \ {m.at : m \in Left}
        /\ Viewed(off, size) > 0
        /\ WinAligned(off) + Viewed(off, size) <= fd_map
        /\ view' = where
        /\ views' = Left \union
             {[at |-> where, offset |-> WinAligned(off), size |-> Viewed(off, size)]}
     \/ /\ where = "NULL"
        /\ view' = "NULL"
        /\ views' = Left
  /\ wantedView' = [offset |-> off, size |-> size]
  /\ UNCHANGED <<fd_file, fd_map, fAccessAttr, handles>>

\* vm_mmap_unmap.
WinUnmap ==
  /\ view # "NULL"
  /\ views' = Left
  /\ view' = "NULL"
  /\ UNCHANGED <<fd_file, fd_map, fAccessAttr, handles, wantedView>>

\* vm_mmap_close.  CloseHandle of a NULL file handle does nothing.
WinClose ==
  /\ view # "NULL" \/ fd_file # "INVALID"
  /\ views' = IF view # "NULL" THEN Left ELSE views
  /\ view' = "NULL"
  /\ handles' = [file |-> IF fd_file = "open" THEN handles.file - 1 ELSE handles.file,
                 map |-> IF fd_map # 0 THEN handles.map - 1 ELSE handles.map]
  /\ fd_map' = 0
  /\ fd_file' = "INVALID"
  /\ UNCHANGED <<fAccessAttr, wantedView>>

MmapWin32Next ==
  \/ \E attr \in Access : \E size \in Granted(attr) : WinCreate(attr, size)
  \/ WinCreateFails
  \/ \E off \in WinOffset, size \in WinSize, where \in Places \union {"NULL"} :
       WinSetView(off, size, where)
  \/ WinUnmap
  \/ WinClose

MmapWin32Spec == MmapWin32Init /\ [][MmapWin32Next]_mmapWin32Vars

-----------------------------------------------------------------------------
\* vm_mmap_is_valid tells what is open: a handle without a mapping holds
\* nothing at all, one with a mapping holds its file, one mapping and at most
\* the one view that vm_mmap_close will take back; the view lies in the
\* mapping, starts at a granule and covers every byte that was asked for,
\* as long as the size fits the low part.
MappingHeld ==
  /\ handles = IF fd_map = 0 THEN [file |-> 0, map |-> 0] ELSE [file |-> 1, map |-> 1]
  /\ fd_map = 0 => fd_file # "open" /\ views = {}
  /\ fd_map # 0 => fd_file = "open" /\ (fAccessAttr = "WRITE" => fd_map >= Least)
  /\ \A m \in views :
       /\ views = {m} /\ m.at = view
       /\ m.offset % Granularity = 0 /\ m.offset + m.size <= fd_map
       /\ (/\ wantedView.offset + wantedView.size < QuadLimit
           /\ WinExtended(wantedView.offset, wantedView.size) < DWord)
            => /\ m.offset <= wantedView.offset
               /\ wantedView.offset + wantedView.size <= m.offset + m.size
=============================================================================
