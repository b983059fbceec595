------------------------------- MODULE VmMmap -------------------------------
(***************************************************************************)
(* The mapped file of vm_mmap_linux32.c: a descriptor, a view of the file  *)
(* and the page arithmetic that places it.  The kernel keeps the open      *)
(* descriptors and the mappings; open, mmap and their kin may fail.        *)
(* Operators named Bug... are mistakes a maintainer could make; nothing    *)
(* uses them but the sensitivity runs the README describes.                *)
(***************************************************************************)
EXTENDS Integers, FiniteSets

CONSTANTS
  PageSize,     \* getpagesize()
  Limit,        \* 2^64: offsets and sizes are Ipp64u
  Region,       \* where the kernel may place a mapping
  Offset, Size  \* the offsets and sizes vm_mmap_set_view is called with

ASSUME MmapAssumption ==
  /\ PageSize \in Nat \ {0}
  /\ Limit \in Nat \ {0} /\ Limit % PageSize = 0
  /\ Offset \subseteq 0 .. Limit - 1
  /\ Size \subseteq 0 .. Limit - 1
  /\ {"NULL", "MAP_FAILED"} \intersect Region = {}

VARIABLES
  fd,           \* vm_mmap.fd: "open" or "none" (-1)
  address,      \* vm_mmap.address: "NULL", "MAP_FAILED" ((void *) -1) or a region
  sizet,        \* vm_mmap.sizet
  files,        \* the number of descriptors of the file open in the kernel
  mapped,       \* the kernel's mappings: records [at, offset, size]
  asked         \* history: offset and size the last view was asked for

mmapVars == <<fd, address, sizet, files, mapped, asked>>

MmapTypeOK ==
  /\ fd \in {"open", "none"}
  /\ address \in Region \union {"NULL", "MAP_FAILED"}
  /\ sizet \in 0 .. Limit - 1
  /\ files \in Nat
  /\ mapped \subseteq [at : Region, offset : 0 .. Limit - 1, size : 0 .. Limit - 1]
  /\ asked \in [offset : Offset \union {0}, size : Size \union {0}]

\* vm_mmap_set_invalid; sizet is not set before the first vm_mmap_create.
MmapInit ==
  /\ fd = "none" /\ address = "NULL" /\ sizet = 0
  /\ files = 0 /\ mapped = {}
  /\ asked = [offset |-> 0, size |-> 0]

-----------------------------------------------------------------------------
\* munmap of the handle's view; (void *) -1 is not a mapping: EINVAL.
Unmapped == {m \in mapped : m.at # address}

\* vm_mmap_create forgets what the handle holds: callers close it first.
MmapCreate(ok) ==
  /\ fd = "none"
  /\ fd' = IF ok THEN "open" ELSE "none"
  /\ files' = IF ok THEN files + 1 ELSE files
  /\ address' = "NULL"
  /\ sizet' = 0
  /\ UNCHANGED <<mapped, asked>>

\* The offset is moved down to a page, the size grows by as much.
Aligned(off) == (off \div PageSize) * PageSize
BugExtended(off, size) == size
Extended(off, size) == (((size + off) % Limit) - Aligned(off)) % Limit

\* vm_mmap_set_view: the old view goes, whatever becomes of the new one.
SetView(off, size, where) ==
  /\ sizet' = Extended(off, size)
  /\ \/ /\ fd = "open"
        /\ where \in Region \ {m.at : m \in Unmapped}
        /\ Extended(off, size) > 0
        /\ address' = where
        /\ mapped' = Unmapped \union
             {[at |-> where, offset |-> Aligned(off), size |-> Extended(off, size)]}
     \/ /\ where = "MAP_FAILED"
        /\ address' = "MAP_FAILED"
        /\ mapped' = Unmapped
  /\ asked' = [offset |-> off, size |-> size]
  /\ UNCHANGED <<fd, files>>

\* vm_mmap_unmap.
Unmap ==
  /\ address # "NULL"
  /\ mapped' = Unmapped
  /\ address' = "NULL"
  /\ UNCHANGED <<fd, sizet, files, asked>>

\* vm_mmap_close.
MmapClose ==
  /\ address # "NULL" \/ fd = "open"
  /\ mapped' = IF address # "NULL" THEN Unmapped ELSE mapped
  /\ address' = "NULL"
  /\ files' = IF fd = "open" THEN files - 1 ELSE files
  /\ fd' = "none"
  /\ UNCHANGED <<sizet, asked>>

MmapNext ==
  \/ \E ok \in BOOLEAN : MmapCreate(ok)
  \/ \E off \in Offset, size \in Size, where \in Region \union {"MAP_FAILED"} :
       SetView(off, size, where)
  \/ Unmap
  \/ MmapClose

MmapSpec == MmapInit /\ [][MmapNext]_mmapVars

-----------------------------------------------------------------------------
\* Handle and kernel agree, failed views included: the only mapping is the
\* view the handle holds, with the size munmap will be given, and the only
\* descriptor the one it will close.
HandleOwnsView ==
  /\ files = IF fd = "open" THEN 1 ELSE 0
  /\ \A m \in mapped : m.at = address /\ m.size = sizet
  /\ Cardinality(mapped) <= 1
  /\ address \in Region => mapped # {}

\* "Obtain a view of the mapped file, return the adjusted offset & size": the
\* view starts at a page and covers every byte that was asked for.
ViewCovers ==
  \A m \in mapped :
    /\ m.offset % PageSize = 0
    /\ m.offset <= asked.offset
    /\ asked.offset + asked.size < Limit
         => asked.offset + asked.size <= m.offset + m.size

\* Both: the handle knows the one view there is, and it is what was asked for.
ViewHeld == HandleOwnsView /\ ViewCovers
=============================================================================
