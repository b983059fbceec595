---------------------------- MODULE VmFileProofs ----------------------------
(***************************************************************************)
(* Proofs about the files: mapped ones (VmMmap, VmMmapWin32), temporary    *)
(* ones (VmTempFiles), vm_file_fgets (VmFileGets), vm_file_fscanf          *)
(* (VmFileScan) and the names of files (VmFileName), for any page size,    *)
(* width of the integers, offsets, sizes, files, entries, texts, buffers,  *)
(* chunks, strings, formats and parts of names.                            *)
(*                                                                         *)
(* Mapped files: every mapping is at the handle's address, so unmapping    *)
(* that address leaves none; a handle without a file therefore has no      *)
(* mapping, and vm_mmap_create forgets nothing.                            *)
(* Temporary files: the walk along the list is the smallest set closed     *)
(* under next, so an entry is met only at the head or behind another one,  *)
(* and taking one out takes nothing else out.                              *)
(* vm_file_fgets: while a call runs, what it has stored is what it has     *)
(* read, none of it ends the call, and the last place is free.             *)
(* vm_file_fscanf: what was written stands in the file in its order, with  *)
(* carriage returns between, so a stretch of blanks and letters of the     *)
(* file is a stretch of what was written, and the file pointer, carried    *)
(* back to it, is never inside a word.                                     *)
(* Names: with plenty of room a name is its parts with a slash and a dot   *)
(* between them, and these are its last slash and its only dot.            *)
(***************************************************************************)
EXTENDS VmMmap, VmMmapWin32, VmTempFiles, VmFileGets, VmFileScan, VmFileName,
        FiniteSetTheorems, SequenceTheorems, WellFoundedInduction, TLAPS

\* The mapped file of Linux.
MmapIInv ==
  /\ MmapTypeOK
  /\ ViewHeld
  /\ fd = "none" => mapped = {}

-----------------------------------------------------------------------------
\* Moving an offset down to a page.
LEMMA AlignedDown ==
  ASSUME NEW off \in Offset
  PROVE  /\ Aligned(off) \in 0 .. off /\ Aligned(off) \in 0 .. Limit - 1
         /\ Aligned(off) % PageSize = 0
<1> DEFINE q == off \div PageSize
<1>1. off \in Nat /\ off < Limit /\ PageSize \in Nat /\ PageSize > 0 /\ Limit \in Nat
  BY MmapAssumption
<1>2. q \in Nat /\ off % PageSize \in 0 .. PageSize - 1
      /\ off = (PageSize * q) + (off % PageSize)
  BY <1>1, Z3
<1>3. q * PageSize \in 0 .. off
  BY <1>1, <1>2, Z3
<1>4. (q * PageSize) % PageSize = 0
  <2> HIDE DEF q
  <2> QED BY <1>1, <1>2, Z3
<1> QED BY <1>1, <1>3, <1>4 DEF Aligned

\* The size that is mapped reaches exactly to the end of what was asked for.
LEMMA ExtendedReaches ==
  ASSUME NEW off \in Offset, NEW size \in Size
  PROVE  /\ Extended(off, size) \in 0 .. Limit - 1
         /\ off + size < Limit => Aligned(off) + Extended(off, size) = off + size
<1>1. off \in Nat /\ size \in Nat /\ Limit \in Nat /\ Limit > 0 /\ Aligned(off) \in 0 .. off
  BY MmapAssumption, AlignedDown
<1>2. (size + off) % Limit \in Int
  BY <1>1
<1>3. Extended(off, size) \in 0 .. Limit - 1
  BY <1>1, <1>2 DEF Extended
<1>4. ASSUME off + size < Limit PROVE Aligned(off) + Extended(off, size) = off + size
  <2>1. (size + off) % Limit = size + off
    BY <1>1, <1>4
  <2>2. (size + off) - Aligned(off) \in 0 .. Limit - 1
    BY <1>1, <1>4
  <2>3. ((size + off) - Aligned(off)) % Limit = (size + off) - Aligned(off)
    BY <1>1, <2>2
  <2>4. Extended(off, size) = (size + off) - Aligned(off)
    BY <2>1, <2>3 DEF Extended
  <2> QED BY <1>1, <2>4
<1> QED BY <1>3, <1>4

-----------------------------------------------------------------------------
\* All mappings are at the handle's address: munmap leaves nothing.
LEMMA NothingLeft ==
  ASSUME MmapIInv
  PROVE  Unmapped = {} /\ (address = "NULL" => mapped = {})
BY MmapAssumption DEF MmapIInv, MmapTypeOK, ViewHeld, HandleOwnsView, Unmapped

\* A handle whose mappings are gone is in order.
LEMMA NoView ==
  ASSUME MmapIInv, MmapTypeOK', mapped' = {}, address' \notin Region,
         files' = IF fd' = "open" THEN 1 ELSE 0
  PROVE  MmapIInv'
<1>1. Cardinality(mapped') = 0
  BY FS_EmptySet
<1> QED BY <1>1 DEF MmapIInv, ViewHeld, HandleOwnsView, ViewCovers

LEMMA CreateStep ==
  ASSUME MmapIInv, NEW ok \in BOOLEAN, MmapCreate(ok)
  PROVE  MmapIInv'
<1>1. mapped' = {} /\ files = 0
  BY DEF MmapIInv, MmapCreate, ViewHeld, HandleOwnsView
<1>2. MmapTypeOK'
  BY <1>1, MmapAssumption DEF MmapIInv, MmapTypeOK, MmapCreate
<1>3. address' \notin Region /\ files' = IF fd' = "open" THEN 1 ELSE 0
  BY <1>1, MmapAssumption DEF MmapCreate
<1> QED BY <1>1, <1>2, <1>3, NoView

LEMMA SetViewStep ==
  ASSUME MmapIInv, NEW off \in Offset, NEW size \in Size,
         NEW where \in Region \union {"MAP_FAILED"}, SetView(off, size, where)
  PROVE  MmapIInv'
<1>1. Unmapped = {} /\ UNCHANGED <<fd, files>> /\ files = IF fd = "open" THEN 1 ELSE 0
  BY NothingLeft DEF MmapIInv, SetView, ViewHeld, HandleOwnsView
<1>2. sizet' \in 0 .. Limit - 1 /\ asked' = [offset |-> off, size |-> size]
      /\ sizet' = Extended(off, size)
  BY ExtendedReaches DEF SetView
<1>3. CASE where = "MAP_FAILED"
  <2>1. mapped' = {} /\ address' = "MAP_FAILED"
    BY <1>1, <1>3, MmapAssumption DEF SetView
  <2>2. MmapTypeOK'
    BY <1>1, <1>2, <2>1 DEF MmapIInv, MmapTypeOK
  <2>3. address' \notin Region
    BY <2>1, MmapAssumption
  <2> QED BY <1>1, <2>1, <2>2, <2>3, NoView
<1>4. CASE where # "MAP_FAILED"
  <2> DEFINE mapping == [at |-> where, offset |-> Aligned(off), size |-> Extended(off, size)]
  <2>1. fd = "open" /\ where \in Region /\ address' = where /\ mapped' = {mapping}
    BY <1>1, <1>4 DEF SetView
  <2>2. mapping \in [at : Region, offset : 0 .. Limit - 1, size : 0 .. Limit - 1]
    BY <2>1, AlignedDown, ExtendedReaches
  <2>3. MmapTypeOK'
    BY <1>1, <1>2, <2>1, <2>2 DEF MmapIInv, MmapTypeOK
  <2>4. Cardinality(mapped') = 1
    BY <2>1, FS_Singleton
  <2>5. HandleOwnsView'
    BY <1>1, <1>2, <2>1, <2>4 DEF HandleOwnsView
  <2>6. ViewCovers'
    <3>1. /\ Aligned(off) % PageSize = 0 /\ Aligned(off) <= off
          /\ off + size < Limit => off + size <= Aligned(off) + Extended(off, size)
      <4>1. off \in Int /\ size \in Int /\ Aligned(off) \in 0 .. off
            /\ Aligned(off) % PageSize = 0
        BY MmapAssumption, AlignedDown
      <4>2. /\ Extended(off, size) \in 0 .. Limit - 1
            /\ off + size < Limit => Aligned(off) + Extended(off, size) = off + size
        BY ExtendedReaches
      <4> QED BY <4>1, <4>2, MmapAssumption
    <3> QED BY <1>2, <2>1, <3>1 DEF ViewCovers
  <2> QED BY <1>1, <2>1, <2>3, <2>5, <2>6 DEF MmapIInv, ViewHeld
<1> QED BY <1>3, <1>4

LEMMA UnmapStep ==
  ASSUME MmapIInv, Unmap
  PROVE  MmapIInv'
<1>1. mapped' = {} /\ address' = "NULL" /\ UNCHANGED <<fd, sizet, files, asked>>
  BY NothingLeft DEF Unmap
<1>2. MmapTypeOK'
  BY <1>1 DEF MmapIInv, MmapTypeOK
<1>3. address' \notin Region /\ files' = IF fd' = "open" THEN 1 ELSE 0
  BY <1>1, MmapAssumption DEF MmapIInv, ViewHeld, HandleOwnsView
<1> QED BY <1>1, <1>2, <1>3, NoView

LEMMA CloseMmapStep ==
  ASSUME MmapIInv, MmapClose
  PROVE  MmapIInv'
<1>1. /\ mapped' = {} /\ address' = "NULL" /\ fd' = "none"
      /\ UNCHANGED <<sizet, asked>>
  BY NothingLeft DEF MmapClose
<1>2. files' = 0
  BY DEF MmapClose, MmapIInv, MmapTypeOK, ViewHeld, HandleOwnsView
<1>3. MmapTypeOK'
  BY <1>1, <1>2 DEF MmapIInv, MmapTypeOK
<1>4. address' \notin Region
  BY <1>1, MmapAssumption
<1> QED BY <1>1, <1>2, <1>3, <1>4, NoView

\* MmapIInv is an invariant of the code, for any page size and any requests.
THEOREM MmapInductive == MmapSpec => []MmapIInv
<1>1. MmapInit => MmapIInv
  <2> SUFFICES ASSUME MmapInit PROVE MmapIInv
    OBVIOUS
  <2>1. MmapTypeOK
    BY MmapAssumption DEF MmapInit, MmapTypeOK
  <2>2. Cardinality(mapped) = 0
    BY FS_EmptySet DEF MmapInit
  <2> QED BY <2>1, <2>2, MmapAssumption
          DEF MmapInit, MmapIInv, ViewHeld, HandleOwnsView, ViewCovers
<1>2. MmapIInv /\ [MmapNext]_mmapVars => MmapIInv'
  <2> SUFFICES ASSUME MmapIInv, [MmapNext]_mmapVars PROVE MmapIInv'
    OBVIOUS
  <2>1. CASE UNCHANGED mmapVars
    BY <2>1 DEF MmapIInv, MmapTypeOK, ViewHeld, HandleOwnsView, ViewCovers, mmapVars
  <2>2. CASE MmapNext
    BY <2>2, CreateStep, SetViewStep, UnmapStep, CloseMmapStep DEF MmapNext
  <2> QED BY <2>1, <2>2
<1> QED BY <1>1, <1>2, PTL DEF MmapSpec

\* Whatever fails, the handle owns the one view there is, and the view covers
\* what was asked for.
THEOREM ViewIsHeld == MmapSpec => []ViewHeld
<1>1. MmapIInv => ViewHeld
  BY DEF MmapIInv
<1> QED BY <1>1, MmapInductive, PTL

\* Types, for any page size and any requests.
THEOREM MmapTypeCorrect == MmapSpec => []MmapTypeOK
<1>1. MmapIInv => MmapTypeOK
  BY DEF MmapIInv
<1> QED BY <1>1, MmapInductive, PTL

-----------------------------------------------------------------------------
\* The mapped file of Windows: one view in the mapping, and it is the handle's.
MappingIInv == MmapWin32TypeOK /\ MappingHeld

LEMMA WinAlignedDown ==
  ASSUME NEW off \in WinOffset
  PROVE  /\ off \in Nat /\ WinAligned(off) \in 0 .. off /\ WinAligned(off) < QuadLimit
         /\ WinAligned(off) % Granularity = 0
<1> DEFINE q == off \div Granularity
<1>1. off \in Nat /\ off < QuadLimit /\ Granularity \in Nat /\ Granularity > 0
      /\ QuadLimit \in Nat
  BY MmapWin32Assumption
<1>2. q \in Nat /\ off % Granularity \in 0 .. Granularity - 1
      /\ off = (Granularity * q) + (off % Granularity)
  BY <1>1, Z3
<1>3. q * Granularity \in 0 .. off
  BY <1>1, <1>2, Z3
<1>4. (q * Granularity) % Granularity = 0
  <2> HIDE DEF q
  <2> QED BY <1>1, <1>2, Z3
<1> QED BY <1>1, <1>3, <1>4 DEF WinAligned

\* What MapViewOfFile maps reaches to the end of what was asked for, unless the
\* sum wraps or the size is too long for the low part.
LEMMA ViewedReaches ==
  ASSUME NEW off \in WinOffset, NEW size \in WinSize, fd_map \in Nat,
         Viewed(off, size) > 0, WinAligned(off) + Viewed(off, size) <= fd_map
  PROVE  /\ Viewed(off, size) \in Nat
         /\ off + size < QuadLimit /\ WinExtended(off, size) < DWord =>
              off + size <= WinAligned(off) + Viewed(off, size)
<1>1. /\ off \in Nat /\ size \in Nat /\ QuadLimit \in Nat /\ QuadLimit > 0
      /\ DWord \in Nat /\ DWord > 0 /\ WinAligned(off) \in 0 .. off
  BY MmapWin32Assumption, WinAlignedDown
<1> DEFINE ext == WinExtended(off, size)
<1>2. ext \in 0 .. QuadLimit - 1
  <2>1. (size + off) % QuadLimit \in Int
    BY <1>1
  <2> QED BY <1>1, <2>1 DEF WinExtended
<1>3. Viewed(off, size) = IF ext % DWord = 0 THEN fd_map - WinAligned(off) ELSE ext % DWord
  BY DEF Viewed
<1>4. ext % DWord \in Nat /\ (ext < DWord => ext % DWord = ext)
  <2> HIDE DEF ext
  <2> QED BY <1>1, <1>2
<1>5. off + size < QuadLimit => WinAligned(off) + ext = off + size
  <2> SUFFICES ASSUME off + size < QuadLimit PROVE WinAligned(off) + ext = off + size
    OBVIOUS
  <2>1. (size + off) % QuadLimit = size + off
    BY <1>1
  <2>2. (size + off) - WinAligned(off) \in 0 .. QuadLimit - 1
    BY <1>1
  <2>3. ((size + off) - WinAligned(off)) % QuadLimit = (size + off) - WinAligned(off)
    BY <1>1, <2>2
  <2>4. ext = (size + off) - WinAligned(off)
    BY <2>1, <2>3 DEF WinExtended
  <2> HIDE DEF ext
  <2> QED BY <1>1, <1>2, <2>4
<1> HIDE DEF ext
<1>6. Viewed(off, size) \in Int
  BY <1>1, <1>3, <1>4
<1>7. ASSUME off + size < QuadLimit, ext < DWord
      PROVE  off + size <= WinAligned(off) + Viewed(off, size)
  <2>1. CASE ext % DWord = 0
    BY <1>1, <1>3, <1>4, <1>5, <1>7, <2>1
  <2>2. CASE ext % DWord # 0
    BY <1>1, <1>3, <1>4, <1>5, <1>7, <2>2
  <2> QED BY <2>1, <2>2
<1> QED BY <1>6, <1>7 DEF ext

\* All views are at the handle's address: the unmapping leaves nothing.
LEMMA WinNothingLeft ==
  ASSUME MappingIInv
  PROVE  Left = {} /\ (view = "NULL" => views = {})
BY MmapWin32Assumption DEF MappingIInv, MmapWin32TypeOK, MappingHeld, Left

LEMMA GrantedFits ==
  ASSUME NEW attr \in Access, NEW size \in Granted(attr)
  PROVE  size \in 0 .. QuadLimit - 1
<1>1. Halved \subseteq 0 .. Largest
  BY Zenon DEF Halved
<1>2. Largest < QuadLimit /\ Largest \in Nat /\ QuadLimit \in Nat
      /\ QuadLimit > 0 /\ FileSizes \subseteq 0 .. QuadLimit - 1
  <2>1. /\ DWord \in Nat \ {0} /\ QuadLimit \in Nat \ {0} /\ QuadLimit % DWord = 0
        /\ Largest \in 1 .. DWord - 1
    BY MmapWin32Assumption
  <2>2. QuadLimit < DWord => QuadLimit % DWord = QuadLimit
    BY <2>1
  <2> QED BY <2>1, <2>2, MmapWin32Assumption
<1>3. size = 0 \/ size \in FileSizes \/ size \in Halved
  BY Zenon DEF Granted
<1>4. CASE size = 0
  BY <1>2, <1>4
<1>5. CASE size \in FileSizes
  BY <1>2, <1>5
<1>6. CASE size \in Halved
  <2>1. size \in 0 .. Largest
    BY <1>1, <1>6, Zenon
  <2> QED BY <1>2, <2>1
<1> QED BY <1>3, <1>4, <1>5, <1>6, Zenon

LEMMA WinCreateStep ==
  ASSUME MappingIInv, NEW attr \in Access, NEW size \in Granted(attr), WinCreate(attr, size)
  PROVE  MappingIInv'
<1>1. views' = {} /\ fd_map = 0 /\ handles = [file |-> 0, map |-> 0]
  BY DEF MappingIInv, MappingHeld, WinCreate
<1>2. size \in 0 .. QuadLimit - 1 /\ QuadLimit \in Nat /\ QuadLimit > 0
  BY GrantedFits, MmapWin32Assumption
<1>3. CASE Kept(attr, size)
  <2>1. /\ fd_file' = "open" /\ fd_map' = size /\ size # 0 /\ fAccessAttr' = attr
        /\ handles' = [file |-> 1, map |-> 1] /\ (attr = "WRITE" => size >= Least)
    BY <1>1, <1>2, <1>3, MmapWin32Assumption DEF WinCreate, Kept
  <2>2. MmapWin32TypeOK'
    BY <1>1, <1>2, <2>1 DEF MappingIInv, MmapWin32TypeOK, WinCreate
  <2>3. MappingHeld'
    BY <1>1, <2>1 DEF MappingHeld
  <2> QED BY <2>2, <2>3 DEF MappingIInv
<1>4. CASE ~Kept(attr, size)
  <2>1. fd_file' = "INVALID" /\ fd_map' = 0 /\ handles' = [file |-> 0, map |-> 0]
    BY <1>1, <1>4 DEF WinCreate
  <2>2. MmapWin32TypeOK'
    BY <1>1, <1>2, <2>1 DEF MappingIInv, MmapWin32TypeOK, WinCreate
  <2>3. MappingHeld'
    BY <1>1, <2>1 DEF MappingHeld
  <2> QED BY <2>2, <2>3 DEF MappingIInv
<1> QED BY <1>3, <1>4

LEMMA WinSetViewStep ==
  ASSUME MappingIInv, NEW off \in WinOffset, NEW size \in WinSize,
         NEW where \in Places \union {"NULL"}, WinSetView(off, size, where)
  PROVE  MappingIInv'
<1>1. /\ Left = {} /\ UNCHANGED <<fd_file, fd_map, fAccessAttr, handles>>
      /\ wantedView' = [offset |-> off, size |-> size]
  BY WinNothingLeft DEF WinSetView
<1>2. CASE where = "NULL" /\ view' = "NULL" /\ views' = Left
  <2>1. MmapWin32TypeOK'
    BY <1>1, <1>2 DEF MappingIInv, MmapWin32TypeOK
  <2>2. MappingHeld'
    BY <1>1, <1>2 DEF MappingIInv, MappingHeld
  <2> QED BY <2>1, <2>2 DEF MappingIInv
<1>3. CASE /\ where \in Places
           /\ Viewed(off, size) > 0
           /\ WinAligned(off) + Viewed(off, size) <= fd_map
           /\ view' = where
           /\ views' = Left \union
                {[at |-> where, offset |-> WinAligned(off), size |-> Viewed(off, size)]}
  <2> DEFINE m == [at |-> where, offset |-> WinAligned(off), size |-> Viewed(off, size)]
  <2>1. views' = {m}
    BY <1>1, <1>3
  <2>2. fd_map \in Nat /\ fd_map < QuadLimit /\ QuadLimit \in Nat
    BY MmapWin32Assumption DEF MappingIInv, MmapWin32TypeOK
  <2>3. /\ Viewed(off, size) \in Nat
        /\ off + size < QuadLimit /\ WinExtended(off, size) < DWord =>
              off + size <= WinAligned(off) + Viewed(off, size)
    BY <1>3, <2>2, ViewedReaches
  <2>4. /\ off \in Nat /\ WinAligned(off) \in 0 .. off /\ WinAligned(off) < QuadLimit
        /\ WinAligned(off) % Granularity = 0
    BY WinAlignedDown
  <2>5. Viewed(off, size) \in 1 .. QuadLimit - 1 /\ fd_map # 0
    BY <1>3, <2>2, <2>3, <2>4
  <2>6. m \in [at : Places, offset : 0 .. QuadLimit - 1, size : 1 .. QuadLimit - 1]
    BY <1>3, <2>2, <2>4, <2>5
  <2>7. MmapWin32TypeOK'
    BY <1>1, <1>3, <2>1, <2>6 DEF MappingIInv, MmapWin32TypeOK
  <2>8. MappingHeld'
    <3>1. /\ handles' = IF fd_map' = 0 THEN [file |-> 0, map |-> 0]
                                       ELSE [file |-> 1, map |-> 1]
          /\ fd_map' # 0
          /\ fd_map' # 0 => fd_file' = "open" /\ (fAccessAttr' = "WRITE" => fd_map' >= Least)
      BY <1>1, <2>5 DEF MappingIInv, MappingHeld
    <3>2. /\ m.at = view' /\ m.offset = WinAligned(off) /\ m.size = Viewed(off, size)
          /\ wantedView'.offset = off /\ wantedView'.size = size
      BY <1>1, <1>3
    <3>3. WinAligned(off) <= off /\ WinAligned(off) + Viewed(off, size) <= fd_map'
      BY <1>1, <1>3, <2>4
    <3> QED BY <2>1, <2>3, <2>4, <3>1, <3>2, <3>3 DEF MappingHeld
  <2> QED BY <2>7, <2>8 DEF MappingIInv
<1> QED BY <1>2, <1>3 DEF WinSetView

LEMMA WinStep ==
  ASSUME MappingIInv, WinCreateFails \/ WinUnmap \/ WinClose
  PROVE  MappingIInv'
<1>1. views' = {} /\ view' = "NULL"
  BY WinNothingLeft DEF MappingIInv, MappingHeld, WinCreateFails, WinUnmap, WinClose
<1>2. CASE WinUnmap
  <2>1. UNCHANGED <<fd_file, fd_map, fAccessAttr, handles, wantedView>>
    BY <1>2 DEF WinUnmap
  <2> QED BY <1>1, <2>1 DEF MappingIInv, MmapWin32TypeOK, MappingHeld
<1>3. CASE WinCreateFails \/ WinClose
  <2>1. /\ fd_file' = "INVALID" /\ fd_map' = 0 /\ UNCHANGED <<fAccessAttr, wantedView>>
        /\ handles' = [file |-> 0, map |-> 0]
    BY <1>3 DEF MappingIInv, MappingHeld, WinCreateFails, WinClose
  <2>2. 0 \in 0 .. QuadLimit - 1
    BY MmapWin32Assumption
  <2>3. MmapWin32TypeOK'
    BY <1>1, <2>1, <2>2 DEF MappingIInv, MmapWin32TypeOK
  <2>4. MappingHeld'
    BY <1>1, <2>1 DEF MappingHeld
  <2> QED BY <2>3, <2>4 DEF MappingIInv
<1> QED BY <1>2, <1>3

LEMMA MappingInductive == MmapWin32Spec => []MappingIInv
<1>1. MmapWin32Init => MappingIInv
  BY MmapWin32Assumption DEF MmapWin32Init, MappingIInv, MmapWin32TypeOK, MappingHeld
<1>2. MappingIInv /\ [MmapWin32Next]_mmapWin32Vars => MappingIInv'
  <2> SUFFICES ASSUME MappingIInv, [MmapWin32Next]_mmapWin32Vars PROVE MappingIInv'
    OBVIOUS
  <2>1. CASE UNCHANGED mmapWin32Vars
    BY <2>1 DEF MappingIInv, MmapWin32TypeOK, MappingHeld, mmapWin32Vars
  <2>2. CASE MmapWin32Next
    BY <2>2, WinCreateStep, WinSetViewStep, WinStep DEF MmapWin32Next
  <2> QED BY <2>1, <2>2
<1> QED BY <1>1, <1>2, PTL DEF MmapWin32Spec

\* On Windows too the handle holds what vm_mmap_is_valid says it holds: its
\* file, one mapping and the one view, and the view covers what was asked for.
THEOREM MappingIsHeld == MmapWin32Spec => []MappingHeld
<1>1. MappingIInv => MappingHeld
  BY DEF MappingIInv
<1> QED BY <1>1, MappingInductive, PTL

\* Types of the mapped files of Windows, for any granularity and sizes.
THEOREM MappingTypeCorrect == MmapWin32Spec => []MmapWin32TypeOK
<1>1. MappingIInv => MmapWin32TypeOK
  BY DEF MappingIInv
<1> QED BY <1>1, MappingInductive, PTL

-----------------------------------------------------------------------------
\* While the exit handler walks, it is at the head: each entry goes as it is met.
TempIInv ==
  /\ TempTypeOK
  /\ TempFilesKept
  /\ walking => walk = head

-----------------------------------------------------------------------------
\* The walk stays among the entries it meets.
LEMMA ListedFollows ==
  ASSUME TempTypeOK
  PROVE  Listed \subseteq Entry /\ Follows(Listed)
BY DEF TempTypeOK, Link, Listed, Follows

\* The walk meets an entry only at the head or behind another.
LEMMA Predecessor ==
  ASSUME TempTypeOK, ListWellFormed, NEW e \in Listed, e # head
  PROVE  \E d \in Listed \ {e} : next[d] = e /\ prev[e] = d
<1>1. ASSUME \A d \in Listed \ {e} : next[d] # e PROVE FALSE
  <2>1. Follows(Listed \ {e}) /\ Listed \ {e} \subseteq Entry
    BY <1>1, ListedFollows DEF Follows
  <2>2. Listed \subseteq Listed \ {e}
    BY <2>1 DEF Listed
  <2> QED BY <2>2
<1>2. PICK d \in Listed \ {e} : next[d] = e
  BY <1>1
<1>3. e # Null
  BY TempFilesAssumption, ListedFollows
<1> QED BY <1>2, <1>3 DEF ListWellFormed

\* tempfile_add_entry adds one entry to the walk.
LEMMA EntryAdded ==
  ASSUME TempTypeOK, NEW e \in Entry, e \notin Listed, AddEntry(e)
  PROVE  Listed' = Listed \union {e}
<1>0. /\ e # Null /\ head' = e /\ next'[e] = head
      /\ \A d \in Entry : d # e => next'[d] = next[d]
  BY TempFilesAssumption DEF AddEntry, TempTypeOK
<1>1. Listed \subseteq Entry /\ Follows(Listed)
  BY ListedFollows
<1>2. Listed' \subseteq Listed \union {e}
  <2> DEFINE S == Listed \union {e}
  <2>1. /\ head' # Null => head' \in S
        /\ \A d \in S : next'[d] # Null => next'[d] \in S
    BY <1>0, <1>1 DEF Follows
  <2>2. S \in SUBSET Entry
    BY <1>1
  <2> HIDE DEF S
  <2>3. Listed' \subseteq S
    BY <2>1, <2>2 DEF Listed, Follows
  <2> QED BY <2>3 DEF S
<1>3. ASSUME NEW S \in SUBSET Entry,
             head' # Null => head' \in S,
             \A d \in S : next'[d] # Null => next'[d] \in S
      PROVE  Listed \union {e} \subseteq S
  <2>1. e \in S
    BY <1>0, <1>3
  <2>2. head # Null => head \in S
    BY <1>0, <1>3, <2>1
  <2>3. Follows(S \intersect Listed)
    BY <1>0, <1>1, <1>3, <2>2 DEF Follows
  <2>4. Listed \subseteq S \intersect Listed
    BY <2>3, <1>1 DEF Listed
  <2> QED BY <2>1, <2>4
<1>4. Listed \union {e} \subseteq Listed'
  BY <1>1, <1>3 DEF Listed, Follows
<1> QED BY <1>2, <1>4

\* tempfile_remove_entry takes one entry out of the walk.
LEMMA EntryRemoved ==
  ASSUME TempTypeOK, ListWellFormed, NEW r \in Listed, RemoveEntry(r)
  PROVE  Listed' = Listed \ {r}
<1>0. /\ r \in Entry /\ r # Null
      /\ head' = IF prev[r] = Null THEN next[r] ELSE head
      /\ \A e \in Entry : next'[e] = IF prev[r] = e THEN next[r] ELSE next[e]
  BY TempFilesAssumption, ListedFollows DEF RemoveEntry
<1>1. Listed \subseteq Entry /\ Follows(Listed) /\ Null \notin Listed
  BY ListedFollows, TempFilesAssumption
<1>2. \/ r = head /\ prev[r] = Null
      \/ r # head /\ prev[r] \in Listed \ {r} /\ next[prev[r]] = r
  BY <1>0, <1>1, Predecessor DEF ListWellFormed
<1>3. \A e \in Listed : next[e] = r => prev[r] = e
  BY <1>0 DEF ListWellFormed
<1>4. next[r] # r
  BY <1>0, <1>1, <1>2, <1>3
<1>5. Listed' \subseteq Listed \ {r}
  <2> DEFINE S == Listed \ {r}
  <2>1. /\ head' # Null => head' \in S
        /\ \A d \in S : next'[d] # Null => next'[d] \in S
    <3>1. next[r] # Null => next[r] \in S
      BY <1>1, <1>4 DEF Follows
    <3>2. head' # Null => head' \in S
      BY <1>0, <1>1, <1>2, <3>1 DEF Follows
    <3>3. ASSUME NEW d \in S, next'[d] # Null PROVE next'[d] \in S
      <4>1. CASE prev[r] = d
        BY <1>0, <1>1, <3>1, <3>3, <4>1
      <4>2. CASE prev[r] # d
        BY <1>0, <1>1, <1>3, <3>3, <4>2 DEF Follows
      <4> QED BY <4>1, <4>2
    <3> QED BY <3>2, <3>3
  <2>2. S \in SUBSET Entry
    BY <1>1
  <2> HIDE DEF S
  <2>3. Listed' \subseteq S
    BY <2>1, <2>2 DEF Listed, Follows
  <2> QED BY <2>3 DEF S
<1>6. ASSUME NEW S \in SUBSET Entry,
             head' # Null => head' \in S,
             \A d \in S : next'[d] # Null => next'[d] \in S
      PROVE  Listed \ {r} \subseteq S
  <2> DEFINE T == ((S \intersect Listed) \ {r}) \union
                  {e \in {r} : prev[r] = Null \/ prev[r] \in S}
  <2>1. head # Null => head \in T
    BY <1>0, <1>1, <1>2, <1>6 DEF Follows
  <2>2. ASSUME NEW d \in T, next[d] # Null PROVE next[d] \in T
    <3>1. d \in Listed /\ next[d] \in Listed
      BY <1>1, <2>2 DEF Follows
    <3>2. CASE next[d] = r
      BY <1>3, <1>4, <2>2, <3>1, <3>2
    <3>3. CASE next[d] # r /\ d = r
      <4>1. prev[r] = Null => next[r] \in S
        BY <1>0, <1>6, <2>2, <3>3
      <4>2. prev[r] # Null => next[r] \in S
        <5>1. ASSUME prev[r] # Null PROVE prev[r] \in S /\ prev[r] \in Entry
          BY <1>1, <1>2, <2>2, <3>3, <5>1
        <5> QED BY <1>0, <1>6, <2>2, <3>3, <5>1
      <4> QED BY <3>1, <3>3, <4>1, <4>2
    <3>4. CASE next[d] # r /\ d # r
      <4>1. d \in S /\ prev[r] # d
        BY <1>1, <1>2, <2>2, <3>1, <3>4
      <4>2. next'[d] = next[d]
        BY <1>0, <1>1, <3>1, <4>1
      <4> QED BY <1>6, <2>2, <3>1, <3>4, <4>1, <4>2
    <3> QED BY <3>2, <3>3, <3>4
  <2>3. T \in SUBSET Entry /\ Follows(T)
    BY <1>1, <2>1, <2>2 DEF Follows
  <2> HIDE DEF T
  <2>4. Listed \subseteq T
    BY <2>3 DEF Listed
  <2> QED BY <2>4 DEF T
<1>7. Listed \ {r} \subseteq Listed'
  BY <1>1, <1>6 DEF Listed, Follows
<1> QED BY <1>5, <1>7

-----------------------------------------------------------------------------
LEMMA InitTemp == TempInit => TempIInv
<1> SUFFICES ASSUME TempInit PROVE TempIInv
  OBVIOUS
<1>1. Listed = {}
  <2>1. Follows({})
    BY DEF TempInit, Follows
  <2> QED BY <2>1 DEF Listed
<1> QED BY <1>1 DEF TempInit, TempIInv, TempTypeOK, Link, TempFilesKept,
                    ListWellFormed, TempFilesRemoved

\* A listed file has an entry that no other file has.
LEMMA StepTmpFile ==
  ASSUME TempIInv, NEW e \in Entry, NEW f \in File, NEW ok \in BOOLEAN,
         TmpFile(e, f, ok)
  PROVE  TempIInv'
<1>0. TempTypeOK /\ ListWellFormed /\ TempFilesRemoved /\ ~walking
  BY DEF TempIInv, TempFilesKept, TmpFile
<1>1. e \notin Listed /\ Listed \subseteq Entry /\ Follows(Listed)
  BY <1>0, ListedFollows DEF ListWellFormed, TmpFile
<1>2. Listed' = Listed \union {e}
  BY <1>0, <1>1, EntryAdded DEF TmpFile
<1>3. /\ head' = e /\ e # Null
      /\ next'[e] = head /\ prev'[e] = Null
      /\ \A d \in Entry : d # e => next'[d] = next[d]
      /\ \A d \in Entry : d # e => prev'[d] = IF d = head THEN e ELSE prev[d]
      /\ holder'[e] = f
      /\ \A d \in Entry : d # e => holder'[d] = holder[d]
  BY <1>0, TempFilesAssumption DEF TmpFile, AddEntry, TempTypeOK
<1>4. TempTypeOK'
  BY <1>0 DEF TempTypeOK, Link, TmpFile, AddEntry
<1>5. ListWellFormed'
  <2>1. ASSUME NEW d \in Listed', next'[d] # Null PROVE prev'[next'[d]] = d
    <3>1. CASE d = e
      <4>1. next'[d] = head /\ head \in Listed /\ head # e
        BY <1>1, <1>3, <2>1, <3>1 DEF Follows
      <4> QED BY <1>1, <1>3, <3>1, <4>1
    <3>2. CASE d # e
      <4>1. d \in Listed /\ next'[d] = next[d] /\ next[d] \in Listed /\ prev[next[d]] = d
        BY <1>0, <1>1, <1>2, <1>3, <2>1, <3>2 DEF Follows, ListWellFormed
      <4>2. next[d] # head
        BY <1>0, <1>1, <4>1, TempFilesAssumption DEF ListWellFormed
      <4> QED BY <1>1, <1>3, <4>1, <4>2
    <3> QED BY <3>1, <3>2
  <2>2. Listed' \subseteq entries'
    BY <1>0, <1>2 DEF ListWellFormed, TmpFile
  <2>3. temporary' = {holder'[d] : d \in Listed'}
    BY <1>0, <1>1, <1>2, <1>3 DEF ListWellFormed, TmpFile
  <2>4. f \notin {holder[d] : d \in Listed}
    BY <1>0 DEF ListWellFormed, TmpFile, Free
  <2>5. \A c, d \in Listed' : holder'[c] = holder'[d] => c = d
    BY <1>0, <1>1, <1>2, <1>3, <2>4 DEF ListWellFormed
  <2> QED BY <1>3, <2>1, <2>2, <2>3, <2>5 DEF ListWellFormed
<1>6. TempFilesRemoved' /\ ~walking'
  BY <1>0, <1>2 DEF TempFilesRemoved, TmpFile
<1> QED BY <1>4, <1>5, <1>6 DEF TempIInv, TempFilesKept

\* A closed file takes its entry along, wherever in the list that was.
LEMMA Removed ==
  ASSUME TempTypeOK, ListWellFormed, disk \subseteq Listed,
         NEW f \in temporary, FCloseTemp(f)
  PROVE  \E r \in Listed :
           /\ holder[r] = f
           /\ RemoveEntry(r)
           /\ Listed' = Listed \ {r}
           /\ ListWellFormed'
           /\ disk' \subseteq Listed'
           /\ disk' = disk \ {r}
<1>0. \E r \in Listed : holder[r] = f
  BY DEF ListWellFormed
<1>1. PICK r \in Listed : /\ holder[r] = f
                          /\ disk' = disk \ {r}
                          /\ RemoveEntry(r)
                          /\ UNCHANGED holder
  BY <1>0 DEF FCloseTemp
<1>2. Listed' = Listed \ {r}
  BY <1>1, EntryRemoved
<1>3. /\ Listed \subseteq Entry /\ Follows(Listed) /\ Null \notin Listed
      /\ Listed' \subseteq Entry
  BY <1>2, ListedFollows, TempFilesAssumption
<1>4. /\ head' = IF prev[r] = Null THEN next[r] ELSE head
      /\ \A e \in Entry : next'[e] = IF prev[r] = e THEN next[r] ELSE next[e]
      /\ \A e \in Entry : prev'[e] = IF next[r] = e THEN prev[r] ELSE prev[e]
      /\ entries' = entries \ {r}
  BY <1>1 DEF RemoveEntry
<1>5. \/ r = head /\ prev[r] = Null
      \/ r # head /\ prev[r] \in Listed \ {r} /\ next[prev[r]] = r
  BY <1>3, Predecessor DEF ListWellFormed
<1>6. next[r] # Null => next[r] \in Listed /\ prev[next[r]] = r
  BY <1>3 DEF Follows, ListWellFormed
<1>7. head' # Null => prev'[head'] = Null
  <2>1. CASE prev[r] = Null
    BY <1>3, <1>4, <1>6, <2>1
  <2>2. CASE prev[r] # Null
    <3>1. ASSUME head # Null PROVE head \in Entry /\ prev[head] = Null
      BY <1>3, <3>1 DEF Follows, ListWellFormed
    <3>2. head # Null => next[r] # head
      BY <1>1, <1>3, <1>6, <3>1
    <3> QED BY <1>4, <2>2, <3>1, <3>2
  <2> QED BY <2>1, <2>2
<1>8. ASSUME NEW e \in Listed', next'[e] # Null PROVE prev'[next'[e]] = e
  <2>1. e \in Listed /\ e \in Entry /\ e # r
    BY <1>2, <1>3, <1>8
  <2>2. CASE prev[r] = e
    BY <1>3, <1>4, <1>6, <1>8, <2>1, <2>2
  <2>3. CASE prev[r] # e
    <3>1. next'[e] = next[e] /\ next[e] \in Listed /\ prev[next[e]] = e
      BY <1>3, <1>4, <1>8, <2>1, <2>3 DEF Follows, ListWellFormed
    <3>2. next[r] # next[e]
      BY <1>6, <2>1, <3>1, <1>3
    <3> QED BY <1>3, <1>4, <3>1, <3>2
  <2> QED BY <2>2, <2>3
<1>9. temporary' = {holder'[e] : e \in Listed'}
  BY <1>1, <1>2 DEF ListWellFormed, FCloseTemp
<1>10. ListWellFormed'
  BY <1>1, <1>2, <1>4, <1>7, <1>8, <1>9 DEF ListWellFormed
<1> QED BY <1>1, <1>2, <1>10

LEMMA ClosedTypeOK ==
  ASSUME TempTypeOK, NEW f \in temporary, FCloseTemp(f)
  PROVE  /\ head' \in Link
         /\ next' \in [Entry -> Link] /\ prev' \in [Entry -> Link]
         /\ holder' \in [Entry -> File \union {Null}]
         /\ entries' \subseteq Entry /\ disk' \subseteq Entry
         /\ temporary' \subseteq File
<1>1. Listed \subseteq Entry
  BY ListedFollows
<1> QED BY <1>1 DEF FCloseTemp, RemoveEntry, TempTypeOK, Link, linkVars

LEMMA StepExit == ASSUME TempIInv, ExitStep PROVE TempIInv'
<1>0. /\ TempTypeOK /\ ListWellFormed /\ TempFilesRemoved
      /\ walking /\ walk # Null /\ walk = head
  BY DEF TempIInv, TempFilesKept, ExitStep
<1>1. walk \in Listed /\ Listed \subseteq Entry /\ Follows(Listed)
  BY <1>0, ListedFollows DEF Follows
<1>2. PICK r \in Listed :
           /\ holder[r] = holder[walk]
           /\ RemoveEntry(r)
           /\ Listed' = Listed \ {r}
           /\ ListWellFormed'
           /\ disk' \subseteq Listed'
  BY <1>0, Removed DEF ExitStep, FCloseTemp, TempFilesRemoved
<1>3. r = walk
  BY <1>0, <1>1, <1>2 DEF ListWellFormed
<1>4. walk' = head'
  BY <1>0, <1>2, <1>3 DEF ExitStep, RemoveEntry, ListWellFormed
<1>5. TempTypeOK'
  <2>1. walk' \in Link
    BY <1>0, <1>1 DEF ExitStep, TempTypeOK
  <2> QED BY <1>0, <2>1, ClosedTypeOK DEF ExitStep, FCloseTemp, TempTypeOK
<1>6. TempFilesRemoved'
  <2>1. ASSUME walk' = Null PROVE Listed' = {}
    <3>1. (Follows({}))'
      BY <1>4, <2>1 DEF Follows
    <3> QED BY <3>1 DEF Listed
  <2> QED BY <1>2, <2>1 DEF TempFilesRemoved, ListWellFormed
<1> QED BY <1>2, <1>4, <1>5, <1>6 DEF TempIInv, TempFilesKept

LEMMA StepCloseTemp ==
  ASSUME TempIInv, NEW f \in File, CloseTemp(f) PROVE TempIInv'
<1>1. /\ TempTypeOK /\ ListWellFormed /\ disk \subseteq Listed
      /\ f \in temporary /\ FCloseTemp(f)
      /\ ~walking /\ UNCHANGED <<plain, walking, walk>>
  BY DEF TempIInv, TempFilesKept, TempFilesRemoved, CloseTemp, FCloseTemp
<1>2. ListWellFormed' /\ disk' \subseteq Listed'
  BY <1>1, Removed
<1>3. TempTypeOK'
  BY <1>1, ClosedTypeOK DEF TempTypeOK
<1> QED BY <1>1, <1>2, <1>3 DEF TempIInv, TempFilesKept, TempFilesRemoved

\* The steps that leave the list alone.
LEMMA StepElsewhere ==
  ASSUME TempIInv,
         \/ \E f \in File : OpenPlain(f) \/ ClosePlain(f)
         \/ BeginExit
         \/ UNCHANGED tempVars
  PROVE  TempIInv'
<1>1. UNCHANGED <<head, next, prev, holder, entries, temporary, disk>>
  BY DEF OpenPlain, ClosePlain, BeginExit, tempVars, linkVars
<1>2. Listed' = Listed
  BY <1>1 DEF Listed, Follows
<1>3. TempTypeOK'
  BY <1>1 DEF TempIInv, TempTypeOK, OpenPlain, ClosePlain, BeginExit, tempVars, Free
<1>4. ListWellFormed'
  BY <1>1, <1>2 DEF TempIInv, TempFilesKept, ListWellFormed
<1>5. head = Null => Listed = {} /\ disk = {} /\ temporary = {}
  <2>1. head = Null => Follows({})
    BY DEF Follows
  <2> QED BY <2>1 DEF Listed, TempIInv, TempFilesKept, TempFilesRemoved, ListWellFormed
<1>6. TempFilesRemoved' /\ (walking' => walk' = head')
  BY <1>1, <1>2, <1>5 DEF TempIInv, TempFilesKept, TempFilesRemoved,
       OpenPlain, ClosePlain, BeginExit, tempVars
<1> QED BY <1>3, <1>4, <1>6 DEF TempIInv, TempFilesKept

\* An entry without its file stays out of the list.
LEMMA StepTmpFileFails ==
  ASSUME TempIInv, NEW e \in Entry, TmpFileFails(e) PROVE TempIInv'
<1>0. TempTypeOK /\ ListWellFormed /\ TempFilesRemoved /\ ~walking
  BY DEF TempIInv, TempFilesKept, TmpFileFails
<1>1. Listed \subseteq Entry /\ Follows(Listed) /\ e \notin Listed /\ Null \notin Listed
  BY <1>0, ListedFollows, TempFilesAssumption DEF ListWellFormed, TmpFileFails
<1>2. /\ head' = head
      /\ \A d \in Listed : /\ next'[d] = next[d] /\ prev'[d] = prev[d]
                           /\ holder'[d] = holder[d]
      /\ next'[e] = Null
      /\ \A d \in Entry : d # e => next'[d] = next[d]
  BY <1>0, <1>1 DEF TmpFileFails, TempTypeOK
<1>3. Listed' = Listed
  <2>2. Listed' \subseteq Listed
    <3>1. /\ head' # Null => head' \in Listed
          /\ \A d \in Listed : next'[d] # Null => next'[d] \in Listed
      BY <1>1, <1>2 DEF Follows
    <3> QED BY <1>1, <3>1 DEF Listed, Follows
  <2>3. ASSUME NEW S \in SUBSET Entry,
               head' # Null => head' \in S,
               \A d \in S : next'[d] # Null => next'[d] \in S
        PROVE  Listed \subseteq S
    <3>1. Follows(S \intersect Listed)
      BY <1>1, <1>2, <2>3 DEF Follows
    <3> QED BY <1>1, <3>1 DEF Listed
  <2>4. Listed \subseteq Listed'
    BY <1>1, <2>3 DEF Listed, Follows
  <2> QED BY <2>2, <2>4
<1>4. TempTypeOK'
  BY <1>0 DEF TmpFileFails, TempTypeOK, Link
<1>5. ListWellFormed'
  <2>1. \A d \in Listed : next[d] # Null => next[d] \in Listed
    BY <1>1 DEF Follows
  <2>2. head # Null => head \in Listed
    BY <1>1 DEF Follows
  <2>3. {holder'[d] : d \in Listed'} = {holder[d] : d \in Listed}
    BY <1>2, <1>3
  <2>4. temporary' = temporary /\ Listed' \subseteq entries'
    BY <1>0, <1>3 DEF TmpFileFails, ListWellFormed
  <2> QED BY <1>0, <1>2, <1>3, <2>1, <2>2, <2>3, <2>4 DEF ListWellFormed
<1>6. TempFilesRemoved' /\ ~walking'
  BY <1>0, <1>3 DEF TmpFileFails, TempFilesRemoved
<1> QED BY <1>4, <1>5, <1>6 DEF TempIInv, TempFilesKept

\* Every step of the temporary files keeps TempIInv.
THEOREM TempInductive == TempIInv /\ [TempNext]_tempVars => TempIInv'
<1> SUFFICES ASSUME TempIInv, [TempNext]_tempVars PROVE TempIInv'
  OBVIOUS
<1>1. ASSUME NEW f \in File, OpenPlain(f) \/ ClosePlain(f) PROVE TempIInv'
  BY <1>1, StepElsewhere
<1>2. ASSUME NEW f \in File, CloseTemp(f) PROVE TempIInv'
  BY <1>2, StepCloseTemp
<1>3. ASSUME NEW f \in File, NEW e \in Entry, NEW ok \in BOOLEAN, TmpFile(e, f, ok)
      PROVE  TempIInv'
  BY <1>3, StepTmpFile
<1>4. ASSUME NEW e \in Entry, TmpFileFails(e) PROVE TempIInv'
  BY <1>4, StepTmpFileFails
<1>5. CASE BeginExit
  BY <1>5, StepElsewhere
<1>6. CASE ExitStep
  BY <1>6, StepExit
<1>7. CASE UNCHANGED tempVars
  BY <1>7, StepElsewhere
<1> QED BY <1>1, <1>2, <1>3, <1>4, <1>5, <1>6, <1>7 DEF TempNext

\* However files are made, fail to be made and are closed, and wherever in the
\* list their entries are: every temporary file that is open has one entry that
\* can be found, and none is on disk when the exit handler is done.
THEOREM TempFilesAreKept == TempSpec => []TempFilesKept
<1>1. TempIInv => TempFilesKept
  BY DEF TempIInv
<1> QED BY <1>1, InitTemp, TempInductive, PTL DEF TempSpec

\* Types of the list of temporary files.
THEOREM TempTypeCorrect == TempSpec => []TempTypeOK
<1>1. TempIInv => TempTypeOK
  BY DEF TempIInv
<1> QED BY <1>1, InitTemp, TempInductive, PTL DEF TempSpec

-----------------------------------------------------------------------------
\* A line read by vm_file_fgets: while it runs, all it has read is stored, none of
\* it ends the call, and there is room for one more character.
GetsIInv ==
  /\ GetsTypeOK
  /\ GetsExact
  /\ reading =>
       /\ position = from + stored
       /\ stored < nchar
       /\ \A k \in 1 .. stored : str[k] = text[from + k] /\ text[from + k] = "x"

\* What the types say of the numbers.
LEMMA Numbers ==
  ASSUME GetsTypeOK
  PROVE  /\ Len(text) \in Nat /\ position \in Nat /\ position <= Len(text)
         /\ from \in Nat /\ from <= position
         /\ nchar \in Nat /\ nchar > 0 /\ stored \in Nat
         /\ Chunk \in Nat /\ Chunk > 0
         /\ \A k \in 1 .. Len(text) : text[k] \in Char
         /\ str \in [1 .. nchar -> Char \union {"old"}]
<1>1. /\ text \in Seq(Char) /\ nchar \in Rooms
      /\ position \in 0 .. Len(text) /\ from \in 0 .. position /\ stored \in 0 .. nchar
      /\ str \in [1 .. nchar -> Char \union {"old"}]
  BY GetsAssumption DEF GetsTypeOK
<1>2. Len(text) \in Nat /\ \A k \in 1 .. Len(text) : text[k] \in Char
  BY <1>1
<1>3. nchar \in Nat /\ nchar > 0 /\ Chunk \in Nat /\ Chunk > 0
  BY <1>1, GetsAssumption
<1> QED BY <1>1, <1>2, <1>3

\* vm_file_fread delivers nothing only at the end.
LEMMA Delivers ==
  ASSUME GetsTypeOK
  PROVE  /\ Delivered \in Nat /\ position + Delivered <= Len(text)
         /\ Delivered = 0 => position = Len(text)
BY Numbers DEF Delivered

\* The first n characters of the chunk, in their place.
LEMMA Copies ==
  ASSUME GetsTypeOK, NEW n \in Nat, n <= Delivered,
         position = from + stored, stored + n <= nchar,
         \A k \in 1 .. stored : str[k] = text[from + k]
  PROVE  /\ Copied(n) \in [1 .. nchar -> Char \union {"old"}]
         /\ \A k \in 1 .. stored + n : Copied(n)[k] = text[from + k]
<1>1. /\ Len(text) \in Nat /\ position \in Nat /\ from \in Nat /\ nchar \in Nat /\ stored \in Nat
      /\ position + n <= Len(text)
      /\ \A k \in 1 .. Len(text) : text[k] \in Char
      /\ str \in [1 .. nchar -> Char \union {"old"}]
  BY Numbers, Delivers
<1>2. ASSUME NEW k \in 1 .. nchar, k > stored, k <= stored + n
      PROVE  position + k - stored = from + k /\ from + k \in 1 .. Len(text)
  BY <1>1, <1>2
<1>3. ASSUME NEW k \in 1 .. nchar
      PROVE  (IF k > stored /\ k <= stored + n THEN text[position + k - stored] ELSE str[k])
               \in Char \union {"old"}
  <2>1. CASE k > stored /\ k <= stored + n
    BY <1>1, <1>2, <2>1
  <2>2. CASE ~(k > stored /\ k <= stored + n)
    BY <1>1, <2>2
  <2> QED BY <2>1, <2>2
<1>4. Copied(n) \in [1 .. nchar -> Char \union {"old"}]
  BY <1>3 DEF Copied
<1>5. ASSUME NEW k \in 1 .. stored + n PROVE Copied(n)[k] = text[from + k]
  <2>1. k \in 1 .. nchar
    BY <1>1
  <2>2. Copied(n)[k] =
          IF k > stored /\ k <= stored + n THEN text[position + k - stored] ELSE str[k]
    BY <2>1 DEF Copied
  <2>3. CASE k > stored
    BY <1>1, <1>2, <2>1, <2>2, <2>3
  <2>4. CASE ~(k > stored)
    <3>1. k \in 1 .. stored
      BY <1>1, <2>4
    <3> QED BY <2>2, <2>4, <3>1
  <2> QED BY <2>3, <2>4
<1> QED BY <1>4, <1>5

\* The characters before the end of the call.
LEMMA Skipped ==
  ASSUME GetsTypeOK, position = from + stored,
         \A k \in 1 .. stored : text[from + k] = "x",
         NEW n \in Nat, n <= Delivered, \A i \in 0 .. n - 1 : ~Ends(i)
  PROVE  \A k \in 1 .. stored + n : text[from + k] = "x"
<1>1. /\ from \in Nat /\ stored \in Nat /\ position \in Nat
  BY Numbers
<1> TAKE k \in 1 .. stored + n
<1>2. CASE k <= stored
  <2>1. k \in 1 .. stored
    BY <1>1, <1>2
  <2> QED BY <2>1
<1>3. CASE ~(k <= stored)
  <2>1. /\ (k - stored) - 1 \in 0 .. n - 1
        /\ position + ((k - stored) - 1) + 1 = from + k
    BY <1>1, <1>3
  <2> QED BY <2>1 DEF Ends
<1> QED BY <1>2, <1>3

LEMMA GetsStep == ASSUME GetsIInv, NEW n \in Rooms, Gets(n) PROVE GetsIInv'
<1>1. /\ reading' = TRUE /\ nchar' = n /\ stored' = 0 /\ from' = position
      /\ str' = [k \in 1 .. n |-> IF k \in {1, n} THEN "null" ELSE "old"]
      /\ UNCHANGED <<text, position, result>>
  BY DEF Gets
<1>2. /\ n \in Nat /\ n > 0 /\ position \in Nat
  BY Numbers, GetsAssumption DEF GetsIInv
<1>3. GetsTypeOK'
  <2>1. str' \in [1 .. nchar' -> Char \union {"old"}]
    BY <1>1 DEF Char
  <2>2. stored' \in 0 .. nchar' /\ from' \in 0 .. position'
    BY <1>1, <1>2
  <2> QED BY <1>1, <2>1, <2>2 DEF GetsIInv, GetsTypeOK
<1>4. position' - from' = 0 /\ position' = from' + stored' /\ stored' < nchar'
  BY <1>1, <1>2
<1>5. GetsExact'
  BY <1>1, <1>2, <1>4 DEF GetsExact, GetsKeepsAll, GetsStopsAtEnd
<1> QED BY <1>1, <1>3, <1>4, <1>5 DEF GetsIInv

LEMMA CopyAllStep == ASSUME GetsIInv, CopyAll PROVE GetsIInv'
<1> DEFINE d == Delivered
<1>1. /\ reading /\ d > 0 /\ \A i \in 0 .. d - 1 : ~Ends(i)
      /\ str' = Copied(d) /\ stored' = stored + d /\ position' = position + d
      /\ UNCHANGED <<text, reading, nchar, from, result>>
  BY DEF CopyAll
<1>2. /\ GetsTypeOK /\ position = from + stored /\ stored < nchar
      /\ \A k \in 1 .. stored : str[k] = text[from + k] /\ text[from + k] = "x"
  BY <1>1 DEF GetsIInv
<1>3. /\ d \in Nat /\ position + d <= Len(text) /\ Len(text) \in Nat
      /\ position \in Nat /\ from \in Nat /\ nchar \in Nat /\ stored \in Nat
  BY <1>2, Numbers, Delivers
<1> HIDE DEF d
<1>4. stored + d < nchar
  <2>1. ~Ends(d - 1)
    BY <1>1, <1>3
  <2> QED BY <1>3, <2>1 DEF Ends
<1>5. /\ Copied(d) \in [1 .. nchar -> Char \union {"old"}]
      /\ \A k \in 1 .. stored + d : Copied(d)[k] = text[from + k]
  BY <1>2, <1>3, <1>4, Copies DEF d
<1>6. \A k \in 1 .. stored + d : text[from + k] = "x"
  <2>1. \A k \in 1 .. stored : text[from + k] = "x"
    BY <1>2
  <2>2. d <= Delivered /\ Delivered \in Nat
    BY <1>2, Delivers DEF d
  <2> QED BY <1>1, <1>2, <1>3, <2>1, <2>2, Skipped
<1>7. GetsTypeOK'
  <2>1. /\ position' \in 0 .. Len(text) /\ from \in 0 .. position'
        /\ stored' \in 0 .. nchar
    BY <1>1, <1>2, <1>3, <1>4
  <2> QED BY <1>1, <1>2, <1>5, <2>1 DEF GetsTypeOK
<1>8. position' - from' = stored + d /\ position' = from' + stored'
  BY <1>1, <1>2, <1>3
<1>9. GetsExact'
  BY <1>1, <1>3, <1>4, <1>5, <1>8 DEF GetsExact, GetsKeepsAll, GetsStopsAtEnd
<1> QED BY <1>1, <1>4, <1>5, <1>6, <1>7, <1>8, <1>9 DEF GetsIInv

LEMMA CopyToEndStep == ASSUME GetsIInv, CopyToEnd PROVE GetsIInv'
<1>1. /\ reading /\ ~reading' /\ reading' \in BOOLEAN /\ result' = "str"
      /\ UNCHANGED <<text, nchar, from>>
  BY DEF CopyToEnd
<1>2. PICK i \in 0 .. Delivered - 1 :
        /\ Ends(i) /\ \A k \in 0 .. i - 1 : ~Ends(k)
        /\ LET add == text[position + i + 1] = "line end" /\ stored + i < nchar - 1
               j   == IF add THEN stored + i + 1 ELSE stored + i
           IN /\ str' = IF add THEN [Copied(i + 1) EXCEPT ![j + 1] = "null"]
                               ELSE Copied(i + 1)
              /\ stored' = j
        /\ position' = position + i + 1
  BY DEF CopyToEnd
<1>3. /\ GetsTypeOK /\ position = from + stored /\ stored < nchar
      /\ \A k \in 1 .. stored : str[k] = text[from + k] /\ text[from + k] = "x"
  BY <1>1 DEF GetsIInv
<1>4. /\ i \in Nat /\ i + 1 \in Nat /\ i <= Delivered /\ i + 1 <= Delivered
      /\ position + i + 1 <= Len(text) /\ Len(text) \in Nat
      /\ position \in Nat /\ from \in Nat /\ nchar \in Nat /\ stored \in Nat
  BY <1>3, Numbers, Delivers
<1> DEFINE n == stored + i + 1
           c == Copied(i + 1)
           add == text[position + i + 1] = "line end" /\ stored + i < nchar - 1
<1>5. Ends(i) /\ \A k \in 0 .. i - 1 : ~Ends(k)
  BY <1>2
<1>6. position' = position + i + 1
  BY <1>2
<1>7. /\ add => str' = [c EXCEPT ![n + 1] = "null"] /\ stored' = n
      /\ ~add => str' = c /\ stored' = stored + i
  BY <1>2, Zenon
<1>8. n \in Nat /\ n > 0 /\ n <= nchar /\ n = stored + (i + 1)
  <2>1. i > 0 => ~Ends(i - 1)
    BY <1>4, <1>5
  <2>2. i > 0 => stored + (i - 1) < nchar - 1
    BY <1>4, <2>1 DEF Ends
  <2> QED BY <1>3, <1>4, <2>2
<1>9. /\ c \in [1 .. nchar -> Char \union {"old"}]
      /\ \A k \in 1 .. n : c[k] = text[from + k]
  BY <1>3, <1>4, <1>8, Copies
<1>10. \A k \in 1 .. n - 1 : text[from + k] = "x"
  <2>1. \A k \in 1 .. stored : text[from + k] = "x"
    BY <1>3
  <2>2. \A k \in 1 .. stored + i : text[from + k] = "x"
    BY <1>3, <1>4, <1>5, <2>1, Skipped
  <2>3. n - 1 = stored + i
    BY <1>4
  <2> QED BY <2>2, <2>3
<1>11. position' = from + n /\ position + i + 1 = from + n /\ from + n <= Len(text)
  <2>1. position = from + stored
    BY <1>3
  <2> QED BY <1>4, <1>6, <2>1
<1>12. n = nchar \/ text[position'] # "x"
  <2>1. text[position + i + 1] # "x" \/ stored + i >= nchar - 1
    BY <1>5 DEF Ends
  <2>2. stored + i >= nchar - 1 => n = nchar
    BY <1>4, <1>8
  <2> QED BY <1>11, <2>1, <2>2
<1>13. /\ str' \in [1 .. nchar -> Char \union {"old"}]
       /\ \A k \in 1 .. n : str'[k] = text[from + k]
       /\ stored' \in 0 .. nchar
       /\ n < nchar /\ text[position'] = "line end" => str'[n + 1] = "null"
  <2>1. CASE add
    <3>1. str' = [c EXCEPT ![n + 1] = "null"] /\ stored' = n
      BY <1>7, <2>1
    <3>2. stored + i < nchar - 1
      BY <2>1
    <3>3. n \in Nat /\ nchar \in Nat /\ n + 1 \in 1 .. nchar /\ n \in 0 .. nchar
      BY <1>4, <1>8, <3>2
    <3> HIDE DEF n, c, add
    <3>4. \A k \in 1 .. n : k \in 1 .. nchar /\ k # n + 1
      BY <3>3
    <3> QED BY <1>9, <3>1, <3>3, <3>4 DEF Char
  <2>2. CASE ~add
    <3>1. str' = c /\ stored' = stored + i
      BY <1>7, <2>2
    <3>2. stored + i \in 0 .. nchar /\ (n < nchar => stored + i < nchar - 1)
      BY <1>4, <1>8
    <3>3. ~(n < nchar /\ text[position'] = "line end")
      BY <1>11, <2>2, <3>2
    <3> HIDE DEF n, c, add
    <3> QED BY <1>9, <3>1, <3>2, <3>3
  <2> QED BY <2>1, <2>2
<1> HIDE DEF n, c, add
<1>14. position' - from = n /\ position' \in 0 .. Len(text) /\ from \in 0 .. position'
  BY <1>4, <1>8, <1>11
<1>15. GetsTypeOK'
  BY <1>1, <1>3, <1>13, <1>14 DEF GetsTypeOK
<1>16. GetsKeepsAll'
  BY <1>1, <1>8, <1>13, <1>14 DEF GetsKeepsAll
<1>17. GetsStopsAtEnd'
  BY <1>1, <1>10, <1>12, <1>13, <1>14 DEF GetsStopsAtEnd
<1> QED BY <1>1, <1>15, <1>16, <1>17 DEF GetsIInv, GetsExact

LEMMA EndOfFileStep == ASSUME GetsIInv, EndOfFile PROVE GetsIInv'
<1>1. /\ reading /\ Delivered = 0 /\ ~reading' /\ reading' \in BOOLEAN
      /\ UNCHANGED <<text, position, nchar, from>>
      /\ result' \in {"none", "str", "NULL"}
      /\ \/ /\ stored < nchar - 1 /\ stored' = stored + 1
            /\ str' = [str EXCEPT ![stored + 2] = "null"]
         \/ UNCHANGED <<stored, str>>
  BY DEF EndOfFile
<1>2. /\ GetsTypeOK /\ position = from + stored /\ stored < nchar
      /\ \A k \in 1 .. stored : str[k] = text[from + k] /\ text[from + k] = "x"
  BY <1>1 DEF GetsIInv
<1>3. /\ position = Len(text) /\ position \in Nat /\ from \in Nat /\ nchar \in Nat
      /\ stored \in Nat /\ str \in [1 .. nchar -> Char \union {"old"}]
  BY <1>1, <1>2, Numbers, Delivers
<1>4. /\ str' \in [1 .. nchar -> Char \union {"old"}] /\ stored' \in 0 .. nchar
      /\ \A k \in 1 .. stored : str'[k] = text[from + k]
  <2>1. CASE /\ stored < nchar - 1 /\ stored' = stored + 1
             /\ str' = [str EXCEPT ![stored + 2] = "null"]
    <3>1. stored + 2 \in 1 .. nchar /\ stored + 1 \in 0 .. nchar
      BY <1>3, <2>1
    <3>2. \A k \in 1 .. stored : k \in 1 .. nchar /\ k # stored + 2
      BY <1>2, <1>3
    <3> QED BY <1>2, <1>3, <2>1, <3>1, <3>2 DEF Char
  <2>2. CASE UNCHANGED <<stored, str>>
    BY <1>2, <1>3, <2>2
  <2> QED BY <1>1, <2>1, <2>2
<1>5. GetsTypeOK'
  BY <1>1, <1>2, <1>4 DEF GetsTypeOK
<1>6. position' - from' = stored
  BY <1>1, <1>2, <1>3
<1>7. GetsKeepsAll'
  BY <1>1, <1>2, <1>3, <1>4, <1>6 DEF GetsKeepsAll
<1>8. GetsStopsAtEnd'
  <2>1. stored > 0 => text[position] = "x"
    BY <1>2, <1>3
  <2>2. \A k \in 1 .. stored - 1 : text[from + k] = "x"
    BY <1>2, <1>3
  <2> QED BY <1>1, <1>3, <1>6, <2>1, <2>2 DEF GetsStopsAtEnd
<1> QED BY <1>1, <1>5, <1>7, <1>8 DEF GetsIInv, GetsExact

LEMMA GetsInductive == GetsSpec => []GetsIInv
<1>1. GetsInit => GetsIInv
  <2> SUFFICES ASSUME GetsInit PROVE GetsIInv
    OBVIOUS
  <2>1. /\ text \in Texts /\ nchar \in Rooms /\ str \in [1 .. nchar -> Char \union {"old"}]
        /\ position = 0 /\ from = 0 /\ stored = 0 /\ ~reading /\ reading \in BOOLEAN
        /\ result = "none"
    BY DEF GetsInit
  <2>2. Len(text) \in Nat /\ nchar \in Nat
    BY <2>1, GetsAssumption
  <2>3. GetsTypeOK
    BY <2>1, <2>2 DEF GetsTypeOK
  <2> QED BY <2>1, <2>2, <2>3 DEF GetsIInv, GetsExact, GetsKeepsAll, GetsStopsAtEnd
<1>2. ASSUME GetsIInv, [GetsNext]_getsVars PROVE GetsIInv'
  <2>1. ASSUME UNCHANGED getsVars PROVE GetsIInv'
    BY <1>2, <2>1 DEF GetsIInv, GetsTypeOK, GetsExact, GetsKeepsAll, GetsStopsAtEnd, getsVars
  <2> QED BY <1>2, <2>1, GetsStep, CopyAllStep, CopyToEndStep, EndOfFileStep DEF GetsNext
<1> QED BY <1>1, <1>2, PTL DEF GetsSpec

\* vm_file_fgets, called again and again with buffers of any sizes on any
\* file, whatever the size of the chunks it reads: no character is lost or
\* read twice, and every call stops where it should.
THEOREM GetsIsExact == GetsSpec => []GetsExact
<1>1. GetsIInv => GetsExact
  BY DEF GetsIInv
<1> QED BY <1>1, GetsInductive, PTL

\* Types of vm_file_fgets: nothing is stored outside the buffer.
THEOREM GetsTypeCorrect == GetsSpec => []GetsTypeOK
<1>1. GetsIInv => GetsTypeOK
  BY DEF GetsIInv
<1> QED BY <1>1, GetsInductive, PTL

-----------------------------------------------------------------------------
\* A set of places has a first one and, below a bound, a last one.
LEMMA LessIsWellFounded == IsWellFoundedOn({ss \in Nat \X Nat : ss[1] < ss[2]}, Nat)
BY NatLessThanWellFounded DEF OpToRel

LEMMA FirstPlace ==
  ASSUME NEW S \in SUBSET Nat, S # {}
  PROVE  Ext!Min(S) \in S /\ \A y \in S : Ext!Min(S) =< y
<1> DEFINE R == {ss \in Nat \X Nat : ss[1] < ss[2]}
<1>1. PICK x \in S : \A y \in S : ~ (<<y, x>> \in R)
  <2> HIDE DEF R
  <2> QED BY LessIsWellFounded, WFMin DEF R
<1>2. \A y \in S : x =< y
  <2> SUFFICES ASSUME NEW y \in S, y < x PROVE FALSE
    BY Z3
  <2>1. <<y, x>> \in Nat \X Nat /\ <<y, x>>[1] < <<y, x>>[2]
    OBVIOUS
  <2> QED BY <1>1, <2>1
<1> QED BY <1>2 DEF Ext!Min

LEMMA LastPlace ==
  ASSUME NEW n \in Nat, NEW S \in SUBSET (0 .. n), S # {}
  PROVE  Ext!Max(S) \in S /\ \A y \in S : Ext!Max(S) >= y
<1> DEFINE T == {n - y : y \in S}
           m == Ext!Min(T)
<1>1. T \in SUBSET Nat /\ T # {}
  <2>1. \A y \in S : y \in 0 .. n /\ n - y \in Nat
    OBVIOUS
  <2> QED BY <2>1
<1>2. m \in T /\ \A y \in T : m =< y
  <2> HIDE DEF T
  <2> QED BY <1>1, FirstPlace
<1>3. PICK x \in S : m = n - x
  BY <1>2
<1>4. \A y \in S : x >= y
  <2> SUFFICES ASSUME NEW y \in S PROVE x >= y
    OBVIOUS
  <2>1. n - y \in T
    OBVIOUS
  <2>2. m =< n - y
    BY <1>2, <2>1
  <2>3. x \in Int /\ y \in Int /\ n \in Int
    OBVIOUS
  <2> HIDE DEF m
  <2> QED BY <2>2, <2>3, <1>3
<1> QED BY <1>4 DEF Ext!Max

\* What the searches of the three functions find.
LEMMA PlacesFound ==
  ASSUME NEW name \in Seq(NameChar), NEW char
  PROVE  /\ PlacesOf(name, char) \subseteq 0 .. Len(name) - 1
         /\ LastPlaceOf(name, char) \in {0} \union PlacesOf(name, char)
         /\ \A k \in PlacesOf(name, char) : k =< LastPlaceOf(name, char)
         /\ PlacesOf(name, char) # {} =>
              /\ Ext!Max(PlacesOf(name, char)) \in PlacesOf(name, char)
              /\ \A k \in PlacesOf(name, char) : k =< Ext!Max(PlacesOf(name, char))
<1> DEFINE S == PlacesOf(name, char)
<1>1. Len(name) \in Nat
  BY LenProperties
<1>2. S \in SUBSET (0 .. Len(name)) /\ S \subseteq 0 .. Len(name) - 1
  BY <1>1 DEF PlacesOf
<1> HIDE DEF S
<1>3. Ext!Max({0} \union S) \in {0} \union S /\ \A k \in {0} \union S : Ext!Max({0} \union S) >= k
  <2> DEFINE T == {0} \union S
  <2>1. T \in SUBSET (0 .. Len(name)) /\ T # {}
    BY <1>1, <1>2
  <2> HIDE DEF T
  <2>2. Ext!Max(T) \in T /\ \A k \in T : Ext!Max(T) >= k
    BY <1>1, <2>1, LastPlace
  <2> QED BY <2>2 DEF T
<1>4. S # {} => Ext!Max(S) \in S /\ \A k \in S : Ext!Max(S) >= k
  BY <1>1, <1>2, LastPlace
<1>5. LastPlaceOf(name, char) \in {0} \union S /\ \A k \in S : k =< LastPlaceOf(name, char)
  BY <1>1, <1>2, <1>3 DEF LastPlaceOf, S
<1>6. S # {} => Ext!Max(S) \in S /\ \A k \in S : k =< Ext!Max(S)
  BY <1>1, <1>2, <1>4
<1> QED BY <1>2, <1>5, <1>6 DEF S

LEMMA Dots ==
  ASSUME NEW name \in Seq(NameChar)
  PROVE  /\ FirstDot(name) \in {Len(name)} \union PlacesOf(name, ".")
         /\ FirstDot(name) \in 0 .. Len(name)
         /\ \A k \in PlacesOf(name, ".") : FirstDot(name) =< k
<1> DEFINE S == {Len(name)} \union PlacesOf(name, ".")
<1>1. Len(name) \in Nat
  BY LenProperties
<1>2. S \in SUBSET (0 .. Len(name)) /\ S # {}
  BY <1>1 DEF PlacesOf
<1>3. Ext!Min(S) \in S /\ \A k \in S : Ext!Min(S) =< k
  <2>1. S \in SUBSET Nat
    BY <1>1, <1>2
  <2> HIDE DEF S
  <2> QED BY <1>2, <2>1, FirstPlace
<1> QED BY <1>1, <1>2, <1>3 DEF FirstDot

\* A part of a name between two places.
LEMMA PartOf ==
  ASSUME NEW name \in Seq(NameChar), NEW a \in Nat \ {0}, NEW b \in 0 .. Len(name)
  PROVE  /\ SubSeq(name, a, b) \in Seq(NameChar)
         /\ Len(SubSeq(name, a, b)) = IF a =< b THEN b - a + 1 ELSE 0
         /\ \A i \in 1 .. b - a + 1 : SubSeq(name, a, b)[i] = name[a + i - 1]
<1>1. Len(name) \in Nat
  BY LenProperties
<1>2. \A i \in a .. b : name[i] \in NameChar
  <2> SUFFICES ASSUME NEW i \in a .. b PROVE name[i] \in NameChar
    OBVIOUS
  <2>1. i \in 1 .. Len(name)
    BY <1>1
  <2> QED BY <2>1, ElementOfSeq
<1>3. a \in Int /\ b \in Int
  BY <1>1
<1> QED BY <1>2, <1>3, SubSeqProperties

LEMMA PartWithout ==
  ASSUME NEW name \in Seq(NameChar), NEW char, NEW a \in Nat \ {0},
         NEW b \in 0 .. Len(name),
         \A k \in PlacesOf(name, char) : k + 1 < a \/ k + 1 > b
  PROVE  Without(SubSeq(name, a, b), char)
<1> DEFINE part == SubSeq(name, a, b)
<1>1. Len(name) \in Nat
  BY LenProperties
<1> SUFFICES ASSUME NEW j \in 0 .. Len(part) - 1, part[j + 1] = char
             PROVE  FALSE
  BY DEF Without, PlacesOf
<1>2. a =< b /\ j + 1 \in 1 .. b - a + 1
  BY <1>1, PartOf
<1>3. part[j + 1] = name[a + j]
  <2>1. part[j + 1] = name[a + (j + 1) - 1]
    BY <1>2, PartOf
  <2>2. a + (j + 1) - 1 = a + j
    OBVIOUS
  <2> QED BY <2>1, <2>2
<1>4. a + j - 1 \in 0 .. Len(name) - 1 /\ (a + j - 1) + 1 = a + j
  BY <1>1, <1>2
<1>5. a + j - 1 \in PlacesOf(name, char)
  <2> HIDE DEF part
  <2> QED BY <1>3, <1>4 DEF PlacesOf
<1> QED BY <1>1, <1>2, <1>5

\* The parts taken out of any name are bounded by its last slash and last dot.
LEMMA PathBounded ==
  ASSUME NEW name \in Seq(NameChar), GetPath(name) # <<>>
  PROVE  \E k \in PlacesOf(name, SLASH) :
           /\ GetPath(name) = SubSeq(name, 1, k)
           /\ Without(SubSeq(name, k + 2, Len(name)), SLASH)
<1> DEFINE k == LastPlaceOf(name, SLASH)
<1>1. Len(name) \in Nat
  BY LenProperties
<1>2. k > 1 /\ GetPath(name) = SubSeq(name, 1, k)
  BY DEF GetPath
<1>3. k \in PlacesOf(name, SLASH) /\ k \in 0 .. Len(name) - 1
      /\ \A j \in PlacesOf(name, SLASH) : j \in Nat /\ j =< k
  <2>1. k \in {0} \union PlacesOf(name, SLASH)
        /\ PlacesOf(name, SLASH) \subseteq 0 .. Len(name) - 1
        /\ \A j \in PlacesOf(name, SLASH) : j =< k
    BY PlacesFound
  <2> HIDE DEF k
  <2> QED BY <1>2, <2>1
<1> HIDE DEF k
<1>4. Without(SubSeq(name, k + 2, Len(name)), SLASH)
  <2>1. k + 2 \in Nat \ {0} /\ Len(name) \in 0 .. Len(name)
    BY <1>1, <1>3
  <2>2. \A j \in PlacesOf(name, SLASH) : j + 1 < k + 2 \/ j + 1 > Len(name)
    BY <1>1, <1>3
  <2> QED BY <2>1, <2>2, PartWithout
<1> QED BY <1>2, <1>3, <1>4

LEMMA SuffixBounded ==
  ASSUME NEW name \in Seq(NameChar), GetSuffix(name) # <<>>
  PROVE  \E k \in PlacesOf(name, ".") :
           /\ GetSuffix(name) = SubSeq(name, k + 2, Len(name))
           /\ Without(GetSuffix(name), ".")
<1> DEFINE k == LastPlaceOf(name, ".")
<1>1. Len(name) \in Nat
  BY LenProperties
<1>2. k > 1 /\ GetSuffix(name) = SubSeq(name, k + 2, Len(name))
  BY DEF GetSuffix
<1>3. k \in PlacesOf(name, ".") /\ k \in 0 .. Len(name) - 1
      /\ \A j \in PlacesOf(name, ".") : j \in Nat /\ j =< k
  <2>1. k \in {0} \union PlacesOf(name, ".")
        /\ PlacesOf(name, ".") \subseteq 0 .. Len(name) - 1
        /\ \A j \in PlacesOf(name, ".") : j =< k
    BY PlacesFound
  <2> HIDE DEF k
  <2> QED BY <1>2, <2>1
<1> HIDE DEF k
<1>4. Without(SubSeq(name, k + 2, Len(name)), ".")
  <2>1. k + 2 \in Nat \ {0} /\ Len(name) \in 0 .. Len(name)
    BY <1>1, <1>3
  <2>2. \A j \in PlacesOf(name, ".") : j + 1 < k + 2 \/ j + 1 > Len(name)
    BY <1>1, <1>3
  <2> QED BY <2>1, <2>2, PartWithout
<1> QED BY <1>2, <1>3, <1>4

LEMMA BaseIsPlain ==
  ASSUME NEW name \in Seq(NameChar)
  PROVE  Without(GetBaseName(name), SLASH) /\ Without(GetBaseName(name), ".")
<1> DEFINE dot == FirstDot(name)
           slashes == PlacesOf(name, SLASH)
           m == Ext!Max(slashes)
<1>1. Len(name) \in Nat
  BY LenProperties
<1>2. dot \in 0 .. Len(name) /\ \A j \in PlacesOf(name, ".") : j \in Nat /\ dot =< j
  BY Dots, PlacesFound
<1> HIDE DEF dot
<1>3. ASSUME NEW a \in Nat \ {0}
      PROVE  Without(SubSeq(name, a, dot), ".")
  <2>1. \A j \in PlacesOf(name, ".") : j + 1 < a \/ j + 1 > dot
    BY <1>1, <1>2
  <2> QED BY <1>2, <2>1, PartWithout
<1>4. CASE slashes = {}
  <2>1. Without(SubSeq(name, 1, dot), SLASH)
    BY <1>2, <1>4, PartWithout
  <2> QED BY <1>3, <1>4, <2>1 DEF GetBaseName, dot
<1>5. CASE slashes # {}
  <2>1. m \in 0 .. Len(name) - 1 /\ \A j \in slashes : j \in Nat /\ j =< m
    <3>1. slashes \subseteq 0 .. Len(name) - 1 /\ m \in slashes /\ \A j \in slashes : j =< m
      BY <1>5, PlacesFound
    <3> HIDE DEF slashes, m
    <3> QED BY <1>1, <3>1
  <2> HIDE DEF m
  <2>2. m + 2 \in Nat \ {0}
    BY <1>1, <2>1
  <2>3. Without(SubSeq(name, m + 2, dot), SLASH)
    <3>1. \A j \in PlacesOf(name, SLASH) : j + 1 < m + 2 \/ j + 1 > dot
      BY <2>1
    <3> QED BY <1>2, <2>2, <3>1, PartWithout
  <2>4. GetBaseName(name) = SubSeq(name, m + 2, dot)
    BY <1>5 DEF GetBaseName, dot, m
  <2> QED BY <1>3, <2>2, <2>3, <2>4
<1> QED BY <1>4, <1>5

\* What stands at each place of a name that is put together.
JoinedParts(name, lead, base, suffix) ==
  /\ name \in Seq(NameChar)
  /\ Len(name) = Len(lead) + Len(base) + 1 + Len(suffix)
  /\ \A i \in 1 .. Len(lead) : name[i] = lead[i]
  /\ \A i \in 1 .. Len(base) : name[Len(lead) + i] = base[i]
  /\ name[Len(lead) + Len(base) + 1] = "."
  /\ \A i \in 1 .. Len(suffix) : name[Len(lead) + Len(base) + 1 + i] = suffix[i]

LEMMA Composed ==
  ASSUME NEW lead \in Seq(NameChar), NEW base \in Seq(NameChar), NEW suffix \in Seq(NameChar)
  PROVE  JoinedParts(lead \o Append(base, ".") \o suffix, lead, base, suffix)
<1> DEFINE mid == Append(base, ".")
           front == lead \o mid
           name == front \o suffix
           l == Len(lead)
           b == Len(base)
<1>1. l \in Nat /\ b \in Nat /\ Len(suffix) \in Nat
  BY LenProperties
<1>2. /\ mid \in Seq(NameChar) /\ Len(mid) = b + 1 /\ mid[b + 1] = "."
      /\ \A i \in 1 .. b : mid[i] = base[i]
  <2>1. "." \in NameChar
    BY DEF NameChar
  <2> QED BY <2>1, AppendProperties
<1> HIDE DEF mid
<1>3. /\ front \in Seq(NameChar) /\ Len(front) = l + Len(mid)
      /\ \A i \in 1 .. l + Len(mid) : front[i] = IF i =< l THEN lead[i] ELSE mid[i - l]
  BY <1>2, ConcatProperties
<1> HIDE DEF front
<1>4. /\ name \in Seq(NameChar) /\ Len(name) = Len(front) + Len(suffix)
      /\ \A i \in 1 .. Len(front) + Len(suffix) :
           name[i] = IF i =< Len(front) THEN front[i] ELSE suffix[i - Len(front)]
  <2>1. front \in Seq(NameChar)
    BY <1>3
  <2> HIDE DEF l, b
  <2> QED BY <2>1, ConcatProperties
<1> HIDE DEF name
<1> HIDE DEF l, b
<1>5. Len(front) = l + b + 1
  BY <1>1, <1>2, <1>3
<1>6. \A i \in 1 .. l : name[i] = lead[i]
  <2> SUFFICES ASSUME NEW i \in 1 .. l PROVE name[i] = lead[i]
    OBVIOUS
  <2>1. i \in 1 .. l + Len(mid) /\ i \in 1 .. Len(front) + Len(suffix)
        /\ i =< l /\ i =< Len(front)
    BY <1>1, <1>2, <1>5
  <2> QED BY <1>3, <1>4, <2>1
<1>7. \A i \in 1 .. b + 1 : name[l + i] = mid[i]
  <2> SUFFICES ASSUME NEW i \in 1 .. b + 1 PROVE name[l + i] = mid[i]
    OBVIOUS
  <2>1. l + i \in 1 .. l + Len(mid) /\ l + i \in 1 .. Len(front) + Len(suffix)
        /\ ~ l + i =< l /\ l + i =< Len(front) /\ (l + i) - l = i
    BY <1>1, <1>2, <1>5
  <2> QED BY <1>3, <1>4, <2>1
<1>8. \A i \in 1 .. Len(suffix) : name[l + b + 1 + i] = suffix[i]
  <2> SUFFICES ASSUME NEW i \in 1 .. Len(suffix) PROVE name[l + b + 1 + i] = suffix[i]
    OBVIOUS
  <2>1. l + b + 1 + i \in 1 .. Len(front) + Len(suffix) /\ ~ l + b + 1 + i =< Len(front)
        /\ (l + b + 1 + i) - Len(front) = i
    BY <1>1, <1>5
  <2> QED BY <1>4, <2>1
<1>9. \A i \in 1 .. b : name[l + i] = base[i]
  <2> SUFFICES ASSUME NEW i \in 1 .. b PROVE name[l + i] = base[i]
    OBVIOUS
  <2>1. i \in 1 .. b + 1
    BY <1>1
  <2> QED BY <1>2, <1>7, <2>1
<1>10. name[l + b + 1] = "."
  <2>1. b + 1 \in 1 .. b + 1 /\ l + (b + 1) = l + b + 1
    BY <1>1
  <2>2. name[l + (b + 1)] = mid[b + 1]
    BY <1>7, <2>1
  <2> QED BY <1>2, <2>1, <2>2
<1>11. Len(name) = l + b + 1 + Len(suffix)
  BY <1>1, <1>4, <1>5
<1>12. JoinedParts(name, lead, base, suffix)
  BY <1>4, <1>6, <1>8, <1>9, <1>10, <1>11 DEF l, b, JoinedParts
<1> QED BY <1>12 DEF name, front, mid

\* The name of three parts, path and base name set off by a slash and a dot.
NameOf(path, base, suffix) == LeadIn(path, SLASH) \o Append(base, ".") \o suffix

\* It comes apart where it was joined, if its base name has neither slash nor
\* dot and its suffix no dot.
LEMMA ComesApart ==
  ASSUME NEW path \in Seq(NameChar) \union {NoPart},
         NEW base \in Seq(NameChar), NEW suffix \in Seq(NameChar),
         Without(base, SLASH), Without(base, "."), Without(suffix, "."),
         NEW name, name = NameOf(path, base, suffix),
         \A k \in PlacesOf(name, SLASH) : k < FirstDot(name)
  PROVE  /\ GetBaseName(name) = base
         /\ HowLong(path) > 1 => GetPath(name) = path
         /\ HowLong(path) + Len(base) > 1 => GetSuffix(name) = suffix
<1> DEFINE lead == LeadIn(path, SLASH)
           l == Len(lead)
           b == Len(base)
           s == Len(suffix)
           slashes == PlacesOf(name, SLASH)
           dots == PlacesOf(name, ".")
<1>1. /\ lead \in Seq(NameChar) /\ l \in Nat /\ b \in Nat /\ s \in Nat
      /\ path = NoPart => l = 0 /\ HowLong(path) = 0
      /\ path # NoPart => /\ path \in Seq(NameChar) /\ l = Len(path) + 1
                          /\ Len(path) \in Nat /\ HowLong(path) = Len(path)
                          /\ lead[l] = SLASH
                          /\ \A i \in 1 .. Len(path) : lead[i] = path[i]
  <2>1. <<>> \in Seq(NameChar) /\ Len(<<>>) = 0
    BY EmptySeq
  <2>2. b \in Nat /\ s \in Nat
    BY LenProperties
  <2>3. CASE path = NoPart
    BY <2>1, <2>2, <2>3 DEF LeadIn, HowLong
  <2>4. CASE path # NoPart
    <3>1. path \in Seq(NameChar) /\ SLASH \in NameChar
      BY <2>4 DEF NameChar
    <3>2. lead = Append(path, SLASH) /\ HowLong(path) = Len(path)
      BY <2>4 DEF LeadIn, HowLong
    <3>3. Len(path) \in Nat
      BY <3>1, LenProperties
    <3>4. Append(path, SLASH) \in Seq(NameChar)
          /\ Len(Append(path, SLASH)) = Len(path) + 1
          /\ (\A i \in 1 .. Len(path) : Append(path, SLASH)[i] = path[i])
          /\ Append(path, SLASH)[Len(path) + 1] = SLASH
      BY <3>1, AppendProperties
    <3> HIDE DEF lead
    <3>5. l = Len(path) + 1
      BY <3>2, <3>4
    <3> HIDE DEF l
    <3> QED BY <2>2, <2>4, <3>1, <3>2, <3>3, <3>4, <3>5
  <2> QED BY <2>3, <2>4
<1>2. name = lead \o Append(base, ".") \o suffix
  BY DEF NameOf
<1> HIDE DEF lead
<1>3. /\ name \in Seq(NameChar)
      /\ Len(name) = l + b + 1 + s
      /\ \A i \in 1 .. l : name[i] = lead[i]
      /\ \A i \in 1 .. b : name[l + i] = base[i]
      /\ name[l + b + 1] = "."
      /\ \A i \in 1 .. s : name[l + b + 1 + i] = suffix[i]
  <2>1. lead \in Seq(NameChar)
    BY <1>1
  <2>2. JoinedParts(lead \o Append(base, ".") \o suffix, lead, base, suffix)
    BY <2>1, Composed
  <2> QED BY <1>2, <2>2 DEF l, b, s, JoinedParts
<1> HIDE DEF l, b, s
<1>4. l + b \in dots
  <2>1. l + b \in 0 .. Len(name) - 1
    BY <1>1, <1>3
  <2> QED BY <1>3, <2>1 DEF PlacesOf
<1>5. \A k \in l .. l + b - 1 : k \notin slashes /\ k \notin dots
  <2> SUFFICES ASSUME NEW k \in l .. l + b - 1 PROVE k \notin slashes /\ k \notin dots
    OBVIOUS
  <2>1. k - l \in 0 .. b - 1 /\ (k - l) + 1 \in 1 .. b /\ l + ((k - l) + 1) = k + 1
    BY <1>1
  <2>2. name[k + 1] = base[(k - l) + 1]
    BY <1>3, <2>1
  <2>3. base[(k - l) + 1] # SLASH /\ base[(k - l) + 1] # "."
    BY <2>1 DEF Without, PlacesOf, b
  <2> QED BY <2>2, <2>3 DEF PlacesOf
<1>6. \A k \in l + b + 1 .. l + b + s : k \notin dots
  <2> SUFFICES ASSUME NEW k \in l + b + 1 .. l + b + s PROVE k \notin dots
    OBVIOUS
  <2> DEFINE j == k - (l + b + 1)
  <2>1. j \in 0 .. s - 1 /\ j + 1 \in 1 .. s /\ l + b + 1 + (j + 1) = k + 1
    BY <1>1
  <2> HIDE DEF j
  <2>2. name[k + 1] = suffix[j + 1]
    BY <1>3, <2>1
  <2>3. suffix[j + 1] # "."
    BY <2>1 DEF Without, PlacesOf, s
  <2> QED BY <2>2, <2>3 DEF PlacesOf
<1>7. slashes \subseteq 0 .. Len(name) - 1 /\ dots \subseteq 0 .. Len(name) - 1
  BY <1>3, PlacesFound
<1>8. /\ FirstDot(name) \in {Len(name)} \union dots
      /\ FirstDot(name) \in 0 .. Len(name)
      /\ \A k \in dots : FirstDot(name) =< k
  BY <1>3, Dots
<1>9. path # NoPart => l - 1 \in slashes
  <2> SUFFICES ASSUME path # NoPart PROVE l - 1 \in slashes
    OBVIOUS
  <2>1. l - 1 \in 0 .. Len(name) - 1 /\ (l - 1) + 1 = l /\ l \in 1 .. l
    BY <1>1, <1>3
  <2>2. name[(l - 1) + 1] = SLASH
    BY <1>1, <1>3, <2>1
  <2> QED BY <2>1, <2>2 DEF PlacesOf
<1>10. \A k \in slashes : k < FirstDot(name)
  OBVIOUS
<1> DEFINE dot == FirstDot(name)
<1> HIDE DEF slashes, dots, dot
<1>11. \A k \in slashes : k =< l - 1
  BY <1>1, <1>3, <1>4, <1>5, <1>7, <1>8, <1>10
<1>12. dot = l + b
  <2>1. dot \in dots /\ dot =< l + b
    BY <1>1, <1>3, <1>4, <1>8 DEF dot
  <2>2. dot >= l
    <3>1. CASE path = NoPart
      BY <1>1, <1>8, <3>1 DEF dot
    <3>2. CASE path # NoPart
      BY <1>1, <1>8, <1>9, <1>10, <3>2 DEF dot
    <3> QED BY <3>1, <3>2
  <2> QED BY <1>1, <1>5, <1>8, <2>1, <2>2 DEF dot
<1>13. LastPlaceOf(name, ".") = l + b
  <2> DEFINE k == LastPlaceOf(name, ".")
  <2>1. k \in {0} \union dots /\ l + b =< k
    BY <1>3, <1>4, PlacesFound DEF dots
  <2> HIDE DEF k
  <2>2. ~ k > l + b
    BY <1>1, <1>3, <1>6, <1>7, <2>1
  <2>3. k = l + b
    BY <1>1, <1>7, <2>1, <2>2
  <2> QED BY <2>3 DEF k
<1>14. ASSUME NEW a \in Nat \ {0}, NEW e \in 0 .. Len(name), NEW part \in Seq(NameChar),
              Len(part) = IF a =< e THEN e - a + 1 ELSE 0,
              \A i \in 1 .. Len(part) : part[i] = name[a + i - 1]
       PROVE  SubSeq(name, a, e) = part
  <2> DEFINE sub == SubSeq(name, a, e)
  <2>1. /\ sub \in Seq(NameChar) /\ Len(sub) = Len(part)
        /\ \A i \in 1 .. e - a + 1 : sub[i] = name[a + i - 1]
    BY <1>3, <1>14, PartOf
  <2> HIDE DEF sub
  <2>2. Len(name) \in Nat /\ \A i \in 1 .. Len(part) : i \in 1 .. e - a + 1
    BY <1>1, <1>3, <1>14
  <2>3. \A i \in 1 .. Len(sub) : sub[i] = part[i]
    BY <1>14, <2>1, <2>2
  <2>4. sub = part
    BY <2>1, <2>3, SeqEqual
  <2> QED BY <2>4 DEF sub
<1>15. GetBaseName(name) = base
  <2>1. l + 1 \in Nat \ {0} /\ l + b \in 0 .. Len(name)
        /\ b = IF l + 1 =< l + b THEN (l + b) - (l + 1) + 1 ELSE 0
    BY <1>1, <1>3
  <2>2. \A i \in 1 .. b : base[i] = name[(l + 1) + i - 1]
    <3> SUFFICES ASSUME NEW i \in 1 .. b PROVE base[i] = name[(l + 1) + i - 1]
      OBVIOUS
    <3>1. (l + 1) + i - 1 = l + i
      BY <1>1
    <3> QED BY <1>3, <3>1
  <2>3. SubSeq(name, l + 1, l + b) = base
    BY <1>14, <2>1, <2>2 DEF b
  <2>4. CASE path = NoPart
    <3>1. slashes = {} /\ l + 1 = 1
      BY <1>1, <1>7, <1>11, <2>4
    <3> QED BY <1>12, <2>3, <3>1 DEF GetBaseName, slashes, dot
  <2>5. CASE path # NoPart
    <3> DEFINE m == Ext!Max(slashes)
    <3>1. slashes # {} /\ l - 1 \in slashes
      BY <1>9, <2>5
    <3>2. m \in slashes /\ \A k \in slashes : k =< m
      BY <1>3, <3>1, PlacesFound DEF slashes
    <3> HIDE DEF m
    <3>3. m + 2 = l + 1
      BY <1>1, <1>7, <1>11, <3>1, <3>2
    <3>4. GetBaseName(name) = SubSeq(name, m + 2, dot)
      BY <3>1 DEF GetBaseName, slashes, dot, m
    <3> QED BY <1>12, <2>3, <3>3, <3>4
  <2> QED BY <2>4, <2>5
<1>16. HowLong(path) > 1 => GetPath(name) = path
  <2> SUFFICES ASSUME HowLong(path) > 1 PROVE GetPath(name) = path
    OBVIOUS
  <2>1. path # NoPart /\ path \in Seq(NameChar) /\ l - 1 > 1 /\ l - 1 = Len(path)
        /\ Len(path) \in Nat
    BY <1>1
  <2> DEFINE k == LastPlaceOf(name, SLASH)
  <2>2. k \in {0} \union slashes /\ l - 1 =< k
    BY <1>3, <1>9, <2>1, PlacesFound DEF slashes
  <2> HIDE DEF k
  <2>3. k = Len(path)
    BY <1>1, <1>7, <1>11, <2>1, <2>2
  <2>4. \A i \in 1 .. Len(path) : path[i] = name[1 + i - 1]
    <3> SUFFICES ASSUME NEW i \in 1 .. Len(path) PROVE path[i] = name[1 + i - 1]
      OBVIOUS
    <3>1. 1 + i - 1 = i /\ i \in 1 .. l
      BY <1>1, <2>1
    <3> QED BY <1>1, <1>3, <2>1, <3>1
  <2>5. Len(path) \in 0 .. Len(name) /\ 1 \in Nat \ {0}
        /\ Len(path) = IF 1 =< Len(path) THEN Len(path) - 1 + 1 ELSE 0
    BY <1>1, <1>3, <2>1
  <2>6. SubSeq(name, 1, Len(path)) = path
    BY <1>14, <2>1, <2>4, <2>5
  <2>7. GetPath(name) = SubSeq(name, 1, k)
    BY <2>1, <2>3 DEF GetPath, k
  <2> QED BY <2>3, <2>6, <2>7
<1>17. HowLong(path) + b > 1 => GetSuffix(name) = suffix
  <2> SUFFICES ASSUME HowLong(path) + b > 1 PROVE GetSuffix(name) = suffix
    OBVIOUS
  <2>1. l + b > 1
    BY <1>1
  <2> DEFINE a == l + b + 2
  <2>2. GetSuffix(name) = SubSeq(name, a, Len(name))
    <3>1. GetSuffix(name) = SubSeq(name, (l + b) + 2, Len(name))
      BY <1>13, <2>1 DEF GetSuffix
    <3> QED BY <3>1
  <2>3. a \in Nat \ {0} /\ Len(name) \in 0 .. Len(name)
        /\ s = IF a =< Len(name) THEN Len(name) - a + 1 ELSE 0
    BY <1>1, <1>3
  <2>4. \A i \in 1 .. s : suffix[i] = name[a + i - 1]
    <3> SUFFICES ASSUME NEW i \in 1 .. s PROVE suffix[i] = name[a + i - 1]
      OBVIOUS
    <3>1. a + i - 1 = l + b + 1 + i
      BY <1>1
    <3> HIDE DEF a
    <3> QED BY <1>3, <3>1
  <2> HIDE DEF a
  <2>5. SubSeq(name, a, Len(name)) = suffix
    BY <1>14, <2>3, <2>4 DEF s
  <2> QED BY <2>2, <2>5
<1> QED BY <1>15, <1>16, <1>17 DEF b

\* The buffer in which a name is put together.
Buffer == [name : Seq(NameChar), offs : Nat, nchars : Int]

LEMMA AddParmTyped ==
  ASSUME NEW b \in Buffer, NEW part \in Seq(NameChar) \union {NoPart}
  PROVE  AddParm(b, part) \in Buffer
<1>1. CASE part = NoPart \/ b.nchars \in 0 .. Len(part)
  BY <1>1 DEF AddParm
<1>2. CASE ~ (part = NoPart \/ b.nchars \in 0 .. Len(part))
  <2> DEFINE name == b.name \o part
             left == b.nchars - Len(name)
  <2>1. part \in Seq(NameChar) /\ b.name \in Seq(NameChar) /\ b.nchars \in Int
    BY <1>2 DEF Buffer
  <2>2. name \in Seq(NameChar)
    BY <2>1, ConcatProperties
  <2> HIDE DEF name
  <2>3. Len(name) \in Nat
    BY <2>2, LenProperties
  <2>4. Append(name, SLASH) \in Seq(NameChar)
    <3>1. SLASH \in NameChar
      BY DEF NameChar
    <3> QED BY <2>2, <3>1, AppendProperties
  <2>5. AddParm(b, part) = [name   |-> IF left # 0 THEN Append(name, SLASH) ELSE name,
                            offs   |-> Len(name) + 1,
                            nchars |-> left - 1]
    BY <1>2 DEF AddParm, name
  <2>6. left - 1 \in Int /\ Len(name) + 1 \in Nat
    BY <2>1, <2>3
  <2> HIDE DEF left
  <2> QED BY <2>2, <2>4, <2>5, <2>6 DEF Buffer
<1> QED BY <1>1, <1>2

LEMMA WithDotTyped ==
  ASSUME NEW b \in Buffer
  PROVE  WithDot(b) \in Buffer
<1>1. "." \in NameChar
  BY DEF NameChar
<1>2. CASE b.offs = 0
  <2>1. <<".">> \in Seq(NameChar) /\ b.nchars - 1 \in Int
    BY <1>1 DEF Buffer
  <2> QED BY <1>2, <2>1 DEF WithDot, Buffer
<1>3. CASE b.offs # 0 /\ EndsInSlash(b)
  <2>1. b.name \in Seq(NameChar) /\ b.offs \in 1 .. Len(b.name)
    BY <1>3 DEF Buffer, EndsInSlash
  <2>2. [b.name EXCEPT ![b.offs] = "."] \in Seq(NameChar)
    BY <1>1, <2>1, ExceptSeq
  <2>3. WithDot(b) = [b EXCEPT !.name = [b.name EXCEPT ![b.offs] = "."]]
    BY <1>3 DEF WithDot
  <2> QED BY <2>2, <2>3 DEF Buffer
<1>4. CASE b.offs # 0 /\ ~ EndsInSlash(b)
  BY <1>4 DEF WithDot
<1> QED BY <1>2, <1>3, <1>4

\* The name that vm_file_makefilename leaves in the caller's buffer.
MadeName(path, base, suffix, nchars) ==
  LET b == Assembled(path, base, suffix, nchars)
  IN IF EndsInSlash(b) THEN SubSeq(b.name, 1, b.offs - 1) ELSE b.name

LEMMA MadeNameTyped ==
  ASSUME NEW path \in Seq(NameChar) \union {NoPart}, NEW base \in Seq(NameChar) \union {NoPart},
         NEW suffix \in Seq(NameChar) \union {NoPart}, NEW nchars \in Nat
  PROVE  MadeName(path, base, suffix, nchars) \in Seq(NameChar)
<1> DEFINE empty == [name |-> <<>>, offs |-> 0, nchars |-> nchars]
           named == AddParm(AddParm(empty, path), base)
           b == Assembled(path, base, suffix, nchars)
<1>1. empty \in Buffer
  BY EmptySeq DEF Buffer
<1>2. named \in Buffer
  <2> HIDE DEF empty
  <2> QED BY <1>1, AddParmTyped
<1>3. b = IF named.nchars = 0 \/ suffix = NoPart THEN named
          ELSE AddParm(WithDot(named), suffix)
  BY DEF Assembled
<1> HIDE DEF named, b
<1>4. b \in Buffer
  BY <1>2, <1>3, AddParmTyped, WithDotTyped
<1>5. b.name \in Seq(NameChar) /\ b.offs \in Nat
  BY <1>4 DEF Buffer
<1>6. EndsInSlash(b) => SubSeq(b.name, 1, b.offs - 1) \in Seq(NameChar)
  <2> SUFFICES ASSUME EndsInSlash(b) PROVE SubSeq(b.name, 1, b.offs - 1) \in Seq(NameChar)
    OBVIOUS
  <2>1. b.offs - 1 \in 0 .. Len(b.name) /\ 1 \in Nat \ {0}
    <3>1. Len(b.name) \in Nat /\ b.offs \in 1 .. Len(b.name)
      BY <1>5, LenProperties DEF EndsInSlash
    <3> QED BY <3>1
  <2> QED BY <1>5, <2>1, PartOf
<1> QED BY <1>5, <1>6 DEF MadeName, b

\* With room for it, a part is appended and followed by a slash.
LEMMA PartFits ==
  ASSUME NEW b \in Buffer, NEW part \in Seq(NameChar), part # NoPart,
         b.nchars > Len(part)
  PROVE  LET name == b.name \o part IN
         AddParm(b, part) = [name   |-> IF b.nchars - Len(name) # 0
                                        THEN Append(name, SLASH) ELSE name,
                             offs   |-> Len(name) + 1,
                             nchars |-> b.nchars - Len(name) - 1]
<1>1. Len(part) \in Nat /\ b.nchars \in Int
  BY LenProperties DEF Buffer
<1>2. b.nchars \notin 0 .. Len(part)
  BY <1>1
<1> QED BY <1>2 DEF AddParm

\* The slash that was appended goes again, or gives way to a dot.
LEMMA SlashRemoved ==
  ASSUME NEW name \in Seq(NameChar)
  PROVE  /\ SubSeq(Append(name, SLASH), 1, Len(name)) = name
         /\ [Append(name, SLASH) EXCEPT ![Len(name) + 1] = "."] = Append(name, ".")
         /\ Append(name, SLASH) \in Seq(NameChar)
         /\ Len(Append(name, SLASH)) = Len(name) + 1
         /\ Append(name, SLASH)[Len(name) + 1] = SLASH
<1> DEFINE n == Len(name)
           slashed == Append(name, SLASH)
           dotted == Append(name, ".")
           sub == SubSeq(slashed, 1, n)
           exc == [slashed EXCEPT ![n + 1] = "."]
<1>1. n \in Nat
  BY LenProperties
<1>2. "." \in NameChar /\ SLASH \in NameChar
  BY DEF NameChar
<1>3. /\ slashed \in Seq(NameChar) /\ Len(slashed) = n + 1
      /\ \A i \in 1 .. n : slashed[i] = name[i]
      /\ slashed[n + 1] = SLASH
  BY <1>2, AppendProperties
<1>4. /\ dotted \in Seq(NameChar) /\ Len(dotted) = n + 1
      /\ \A i \in 1 .. n : dotted[i] = name[i]
      /\ dotted[n + 1] = "."
  BY <1>2, AppendProperties
<1> HIDE DEF slashed, dotted
<1>5. sub = name
  <2>1. n \in 0 .. Len(slashed) /\ 1 \in Nat \ {0} /\ (IF 1 =< n THEN n - 1 + 1 ELSE 0) = n
        /\ n - 1 + 1 = n
    BY <1>1, <1>3
  <2>2. /\ sub \in Seq(NameChar) /\ Len(sub) = n
        /\ \A i \in 1 .. n : sub[i] = slashed[1 + i - 1]
    BY <1>3, <2>1, PartOf
  <2> HIDE DEF sub
  <2>3. \A i \in 1 .. n : sub[i] = name[i]
    BY <1>1, <1>3, <2>2
  <2> HIDE DEF n
  <2> QED BY <2>2, <2>3, SeqEqual DEF n
<1>6. exc = dotted
  <2>1. n + 1 \in 1 .. Len(slashed)
    BY <1>1, <1>3
  <2>2. /\ exc \in Seq(NameChar) /\ Len(exc) = Len(slashed)
        /\ \A j \in 1 .. Len(slashed) : exc[j] = IF j = n + 1 THEN "." ELSE slashed[j]
    BY <1>2, <1>3, <2>1, ExceptSeq
  <2> HIDE DEF exc
  <2>3. \A j \in 1 .. Len(exc) : exc[j] = dotted[j]
    <3> SUFFICES ASSUME NEW j \in 1 .. Len(exc) PROVE exc[j] = dotted[j]
      OBVIOUS
    <3>1. j = n + 1 \/ j \in 1 .. n
      BY <1>1, <1>3, <2>2
    <3>2. exc[j] = IF j = n + 1 THEN "." ELSE slashed[j]
      BY <2>2
    <3>3. j \in 1 .. n => j # n + 1
      BY <1>1
    <3> HIDE DEF n
    <3> QED BY <1>3, <1>4, <3>1, <3>2, <3>3
  <2>4. Len(exc) = Len(dotted)
    BY <1>3, <1>4, <2>2
  <2> QED BY <1>4, <2>2, <2>3, <2>4, SeqEqual
<1> QED BY <1>3, <1>5, <1>6 DEF slashed, dotted

LEMMA AppendToLast ==
  ASSUME NEW lead \in Seq(NameChar), NEW base \in Seq(NameChar)
  PROVE  Append(lead \o base, ".") = lead \o Append(base, ".")
<1> DEFINE l == Len(lead)
           b == Len(base)
           both == lead \o base
           last == Append(base, ".")
           left == Append(both, ".")
           right == lead \o last
<1>1. l \in Nat /\ b \in Nat /\ "." \in NameChar
  BY LenProperties DEF NameChar
<1>2. /\ both \in Seq(NameChar) /\ Len(both) = l + b
      /\ \A i \in 1 .. l + b : both[i] = IF i =< l THEN lead[i] ELSE base[i - l]
  BY ConcatProperties
<1>3. /\ last \in Seq(NameChar) /\ Len(last) = b + 1 /\ last[b + 1] = "."
      /\ \A i \in 1 .. b : last[i] = base[i]
  BY <1>1, AppendProperties
<1> HIDE DEF both, last
<1>4. /\ left \in Seq(NameChar) /\ Len(left) = l + b + 1 /\ left[l + b + 1] = "."
      /\ \A i \in 1 .. l + b : left[i] = both[i]
  <2>1. /\ left \in Seq(NameChar) /\ Len(left) = Len(both) + 1 /\ left[Len(both) + 1] = "."
        /\ \A i \in 1 .. Len(both) : left[i] = both[i]
    BY <1>1, <1>2, AppendProperties
  <2> HIDE DEF left, l, b
  <2> QED BY <1>2, <2>1
<1>5. /\ right \in Seq(NameChar) /\ Len(right) = l + (b + 1)
      /\ \A i \in 1 .. l + (b + 1) : right[i] = IF i =< l THEN lead[i] ELSE last[i - l]
  <2>1. /\ right \in Seq(NameChar) /\ Len(right) = l + Len(last)
        /\ \A i \in 1 .. l + Len(last) : right[i] = IF i =< l THEN lead[i] ELSE last[i - l]
    BY <1>3, ConcatProperties
  <2> HIDE DEF right, l, b
  <2> QED BY <1>3, <2>1
<1> HIDE DEF left, right, l, b
<1>6. \A i \in 1 .. Len(left) : left[i] = right[i]
  <2> SUFFICES ASSUME NEW i \in 1 .. Len(left) PROVE left[i] = right[i]
    OBVIOUS
  <2>1. i \in 1 .. l + (b + 1) /\ (i \in 1 .. l + b \/ i = l + b + 1)
    BY <1>1, <1>4
  <2>2. CASE i =< l
    <3>1. i \in 1 .. l + b
      BY <1>1, <2>1, <2>2
    <3> QED BY <1>2, <1>4, <1>5, <2>1, <2>2, <3>1
  <2>3. CASE ~ i =< l /\ i \in 1 .. l + b
    <3>1. i - l \in 1 .. b
      BY <1>1, <2>1, <2>3
    <3> QED BY <1>2, <1>3, <1>4, <1>5, <2>1, <2>3, <3>1
  <2>4. CASE i = l + b + 1
    <3>1. i - l = b + 1 /\ ~ i =< l
      BY <1>1, <2>4
    <3> QED BY <1>3, <1>4, <1>5, <2>1, <2>4, <3>1
  <2> QED BY <1>1, <2>1, <2>2, <2>3, <2>4
<1>7. Len(left) = Len(right)
  BY <1>1, <1>4, <1>5
<1>8. left = right
  BY <1>4, <1>5, <1>6, <1>7, SeqEqual
<1> QED BY <1>8 DEF left, right, both, last

\* With plenty of room the name is the three parts, with a slash and a dot
\* between them.
Plenty(path, base, suffix, nchars) ==
  nchars > 2 * (HowLong(path) + Len(base) + Len(suffix) + 2)

LEMMA MadeOfParts ==
  ASSUME NEW path \in Seq(NameChar) \union {NoPart},
         NEW base \in Seq(NameChar), base # NoPart,
         NEW suffix \in Seq(NameChar), suffix # NoPart,
         NEW nchars \in Nat, Plenty(path, base, suffix, nchars)
  PROVE  MadeName(path, base, suffix, nchars) = NameOf(path, base, suffix)
<1> DEFINE empty == [name |-> <<>>, offs |-> 0, nchars |-> nchars]
           b1 == AddParm(empty, path)
           b2 == AddParm(b1, base)
           b3 == WithDot(b2)
           b4 == AddParm(b3, suffix)
           lead == LeadIn(path, SLASH)
           l == Len(lead)
           b == Len(base)
           s == Len(suffix)
<1>1. b \in Nat /\ s \in Nat /\ nchars \in Int
  BY LenProperties
<1>2. empty \in Buffer
  BY EmptySeq DEF Buffer
<1>3. /\ lead \in Seq(NameChar) /\ l \in Nat /\ l =< HowLong(path) + 1
      /\ HowLong(path) \in Nat
      /\ b1 \in Buffer /\ b1.name = lead /\ b1.nchars = nchars - l
  <2>1. CASE path = NoPart
    <3>1. <<>> \in Seq(NameChar) /\ Len(<<>>) = 0
      BY EmptySeq
    <3>2. lead = <<>> /\ HowLong(path) = 0 /\ b1 = empty
      BY <2>1 DEF LeadIn, HowLong, AddParm
    <3>3. l = 0
      BY <3>1, <3>2
    <3> HIDE DEF lead, l, b1
    <3> QED BY <1>1, <1>2, <3>1, <3>2, <3>3
  <2>2. CASE path # NoPart
    <3>1. path \in Seq(NameChar) /\ HowLong(path) = Len(path) /\ Len(path) \in Nat
      BY <2>2, LenProperties DEF HowLong
    <3>2. lead = Append(path, SLASH)
      BY <2>2 DEF LeadIn
    <3>3. lead \in Seq(NameChar) /\ l = Len(path) + 1
      <4> HIDE DEF lead
      <4> QED BY <3>1, <3>2, SlashRemoved
    <3>4. empty.name \o path = path
      BY <3>1, ConcatEmptySeq
    <3>5. nchars > Len(path) + 1
      BY <1>1, <3>1 DEF Plenty
    <3>6. empty.nchars > Len(path)
      BY <3>1, <3>5
    <3>7. b1 = [name   |-> IF nchars - Len(path) # 0 THEN Append(path, SLASH) ELSE path,
                offs   |-> Len(path) + 1,
                nchars |-> nchars - Len(path) - 1]
      <4> DEFINE e == empty
      <4>1. e \in Buffer /\ e.nchars > Len(path) /\ e.name \o path = path /\ e.nchars = nchars
        BY <1>2, <3>4, <3>6
      <4> HIDE DEF e
      <4>2. AddParm(e, path) = [name   |-> IF nchars - Len(path) # 0
                                           THEN Append(path, SLASH) ELSE path,
                                offs   |-> Len(path) + 1,
                                nchars |-> nchars - Len(path) - 1]
        BY <2>2, <3>1, <4>1, PartFits
      <4> QED BY <4>2 DEF e
    <3>8. nchars - Len(path) # 0 /\ nchars - Len(path) - 1 = nchars - l
      BY <1>1, <3>1, <3>3, <3>5
    <3>9. b1 \in Buffer
      <4> HIDE DEF empty
      <4> QED BY <1>2, <3>1, AddParmTyped
    <3> HIDE DEF b1, lead, l
    <3> QED BY <3>1, <3>2, <3>3, <3>7, <3>8, <3>9
  <2> QED BY <2>1, <2>2
<1> HIDE DEF empty, b1, lead
<1>4. nchars > 2 * l + 2 * b + 2 * s + 2
  <2>1. nchars > 2 * (HowLong(path) + b + s + 2)
    BY DEF Plenty
  <2> HIDE DEF l, b, s
  <2> QED BY <1>1, <1>3, <2>1
<1> HIDE DEF l, b, s
<1> DEFINE both == lead \o base
<1>5. both \in Seq(NameChar) /\ Len(both) = l + b
  <2>1. both \in Seq(NameChar) /\ Len(both) = Len(lead) + Len(base)
    BY <1>3, ConcatProperties
  <2> HIDE DEF both
  <2> QED BY <2>1 DEF l, b
<1>6. /\ b2.name = Append(both, SLASH) /\ b2.offs = l + b + 1
      /\ b2.nchars = nchars - l - (l + b) - 1 /\ b2 \in Buffer
  <2>1. b1.nchars > Len(base) /\ b1.nchars - Len(both) # 0
    <3>1. b1.nchars > b /\ b1.nchars - (l + b) # 0
      BY <1>1, <1>3, <1>4
    <3> QED BY <1>5, <3>1 DEF b
  <2>2. b1.name \o base = both
    BY <1>3
  <2> HIDE DEF both
  <2>3. b2 = [name   |-> IF b1.nchars - Len(both) # 0 THEN Append(both, SLASH) ELSE both,
              offs   |-> Len(both) + 1,
              nchars |-> b1.nchars - Len(both) - 1]
    BY <1>3, <2>1, <2>2, PartFits
  <2>4. b2 \in Buffer
    BY <1>3, AddParmTyped
  <2> HIDE DEF b2
  <2> QED BY <1>3, <1>5, <2>1, <2>3, <2>4
<1>7. b3.name = Append(both, ".") /\ b3.nchars = b2.nchars /\ b3 \in Buffer
  <2> DEFINE slashed == Append(both, SLASH)
  <2>1. /\ [slashed EXCEPT ![l + b + 1] = "."] = Append(both, ".")
        /\ slashed \in Seq(NameChar) /\ Len(slashed) = l + b + 1
        /\ slashed[l + b + 1] = SLASH
    <3> HIDE DEF both
    <3>1. /\ [Append(both, SLASH) EXCEPT ![Len(both) + 1] = "."] = Append(both, ".")
          /\ Append(both, SLASH) \in Seq(NameChar)
          /\ Len(Append(both, SLASH)) = Len(both) + 1
          /\ Append(both, SLASH)[Len(both) + 1] = SLASH
      BY <1>5, SlashRemoved
    <3> QED BY <1>5, <3>1
  <2> HIDE DEF slashed, both, b2
  <2>2. l + b + 1 \in 1 .. Len(slashed) /\ l + b + 1 # 0
    BY <1>1, <1>3, <2>1
  <2>3. b2.name = slashed
    BY <1>6 DEF slashed
  <2>4. EndsInSlash(b2) /\ b2.offs # 0
    BY <1>6, <2>1, <2>2, <2>3 DEF EndsInSlash
  <2>5. b3 = [b2 EXCEPT !.name = [b2.name EXCEPT ![b2.offs] = "."]]
    BY <2>4 DEF WithDot
  <2>6. b3 \in Buffer
    BY <1>6, WithDotTyped
  <2>7. [b2.name EXCEPT ![b2.offs] = "."] = Append(both, ".")
    BY <1>6, <2>1, <2>3
  <2> HIDE DEF b3
  <2> QED BY <1>6, <2>5, <2>6, <2>7 DEF Buffer
<1>8. Append(both, ".") = lead \o Append(base, ".")
  BY <1>3, AppendToLast
<1> DEFINE front == lead \o Append(base, ".")
           whole == front \o suffix
<1>9. front \in Seq(NameChar) /\ Len(front) = l + b + 1
  <2>1. "." \in NameChar
    BY DEF NameChar
  <2>2. Append(base, ".") \in Seq(NameChar) /\ Len(Append(base, ".")) = b + 1
    BY <2>1, AppendProperties DEF b
  <2>3. front \in Seq(NameChar) /\ Len(front) = Len(lead) + Len(Append(base, "."))
    BY <1>3, <2>2, ConcatProperties
  <2>4. Len(front) = l + (b + 1)
    <3> HIDE DEF front
    <3> QED BY <2>2, <2>3 DEF l
  <2>5. l + (b + 1) = l + b + 1
    BY <1>1, <1>3
  <2> QED BY <2>3, <2>4, <2>5
<1>10. b3.name = front
  BY <1>7, <1>8
<1> HIDE DEF front
<1>11. whole \in Seq(NameChar) /\ Len(whole) = l + b + 1 + s
  <2>1. whole \in Seq(NameChar) /\ Len(whole) = Len(front) + Len(suffix)
    BY <1>9, ConcatProperties
  <2> HIDE DEF whole
  <2> QED BY <1>9, <2>1 DEF s
<1> HIDE DEF b3, both
<1>12. /\ b4.name = IF b3.nchars - Len(whole) # 0 THEN Append(whole, SLASH) ELSE whole
       /\ b4.offs = Len(whole) + 1
  <2>1. b3.nchars > Len(suffix)
    <3>1. b3.nchars = nchars - l - (l + b) - 1
      BY <1>6, <1>7
    <3>2. nchars - l - (l + b) - 1 > s
      BY <1>1, <1>3, <1>4
    <3> QED BY <3>1, <3>2 DEF s
  <2>2. b3.name \o suffix = whole
    BY <1>10
  <2> HIDE DEF whole
  <2>3. b4 = [name   |-> IF b3.nchars - Len(whole) # 0 THEN Append(whole, SLASH) ELSE whole,
              offs   |-> Len(whole) + 1,
              nchars |-> b3.nchars - Len(whole) - 1]
    BY <1>7, <2>1, <2>2, PartFits
  <2> HIDE DEF b4
  <2> QED BY <2>3
<1>13. Assembled(path, base, suffix, nchars) = b4
  <2>1. b2.nchars # 0
    <3>1. b2.nchars = nchars - l - (l + b) - 1
      BY <1>6
    <3>2. nchars - l - (l + b) - 1 # 0
      BY <1>1, <1>3, <1>4
    <3> QED BY <3>1, <3>2
  <2>2. b2.nchars # 0 => Assembled(path, base, suffix, nchars) = b4
    BY DEF Assembled, b3, b1, empty
  <2> QED BY <2>1, <2>2
<1> HIDE DEF b4, whole
<1>14. Len(whole) \in Nat /\ Len(whole) + 1 - 1 = Len(whole)
  BY <1>1, <1>3, <1>11
<1>15. MadeName(path, base, suffix, nchars) = whole
  <2>1. CASE b3.nchars - Len(whole) # 0
    <3>1. /\ SubSeq(Append(whole, SLASH), 1, Len(whole)) = whole
          /\ Len(Append(whole, SLASH)) = Len(whole) + 1
          /\ Append(whole, SLASH)[Len(whole) + 1] = SLASH
      BY <1>11, SlashRemoved
    <3>2. b4.name = Append(whole, SLASH) /\ b4.offs = Len(whole) + 1
          /\ b4.offs \in 1 .. Len(whole) + 1 /\ b4.offs - 1 = Len(whole)
      BY <1>12, <1>14, <2>1
    <3>3. EndsInSlash(b4)
      BY <3>1, <3>2 DEF EndsInSlash
    <3> QED BY <1>13, <3>1, <3>2, <3>3 DEF MadeName
  <2>2. CASE b3.nchars - Len(whole) = 0
    <3>1. b4.name = whole /\ b4.offs = Len(whole) + 1
      <4> HIDE DEF b2
      <4> QED BY <1>12, <2>2
    <3>2. ~ EndsInSlash(b4)
      <4>1. Len(whole) + 1 \notin 1 .. Len(whole)
        BY <1>14
      <4> QED BY <3>1, <4>1 DEF EndsInSlash
    <3> QED BY <1>13, <3>1, <3>2 DEF MadeName
  <2> QED BY <2>1, <2>2
<1> QED BY <1>15 DEF whole, front, lead, NameOf

-----------------------------------------------------------------------------
\* Parts that come apart again: a base name has neither slash nor dot, a
\* suffix no dot.  (That no slash stands behind a dot is the callers' duty.)
PlainParts ==
  /\ \A b \in BaseParts \ {NoPart} : Without(b, SLASH) /\ Without(b, ".")
  /\ \A s \in SuffixParts \ {NoPart} : Without(s, ".")

NameIInv ==
  /\ filename \in Seq(NameChar)
  /\ made # NoPart =>
       /\ made.path \in PathParts /\ made.base \in BaseParts /\ made.suffix \in SuffixParts
       /\ (/\ made.base # NoPart /\ made.suffix # NoPart
           /\ Plenty(made.path, made.base, made.suffix, made.nchars))
          => filename = NameOf(made.path, made.base, made.suffix)
  /\ NamesComposeBack

LEMMA NameInductive ==
  ASSUME PlainParts, NameIInv, [NameNext]_nameVars
  PROVE  NameIInv'
<1>1. ASSUME NEW p \in PathParts, NEW b \in BaseParts, NEW s \in SuffixParts,
             NEW n \in NameRooms, MakeFileName(p, b, s, n)
      PROVE  NameIInv'
  <2>1. /\ p \in Seq(NameChar) \union {NoPart} /\ b \in Seq(NameChar) \union {NoPart}
        /\ s \in Seq(NameChar) \union {NoPart} /\ n \in Nat
    BY FileNameAssumption
  <2>2. /\ filename' = MadeName(p, b, s, n) /\ split' = NoPart
        /\ made' = [path |-> p, base |-> b, suffix |-> s, nchars |-> n]
    BY <1>1 DEF MakeFileName, MadeName
  <2>3. MadeName(p, b, s, n) \in Seq(NameChar)
    BY <2>1, MadeNameTyped
  <2>4. ASSUME b # NoPart, s # NoPart, Plenty(p, b, s, n)
        PROVE  MadeName(p, b, s, n) = NameOf(p, b, s)
    <3>1. b \in Seq(NameChar) /\ s \in Seq(NameChar)
      BY <2>1, <2>4
    <3> QED BY <2>1, <2>4, <3>1, MadeOfParts
  <2>5. NamesComposeBack'
    BY <2>2 DEF NamesComposeBack
  <2>6. /\ made'.path = p /\ made'.base = b /\ made'.suffix = s /\ made'.nchars = n
    BY <2>2
  <2> QED BY <2>2, <2>3, <2>4, <2>5, <2>6 DEF NameIInv
<1>2. ASSUME NEW name \in GivenNames, GiveName(name)
      PROVE  NameIInv'
  <2>1. name \in Seq(NameChar)
    BY FileNameAssumption
  <2>2. filename' = name /\ made' = NoPart /\ split' = NoPart
    BY <1>2 DEF GiveName
  <2>3. NamesComposeBack'
    BY <2>2 DEF NamesComposeBack
  <2> QED BY <2>1, <2>2, <2>3 DEF NameIInv
<1>3. ASSUME SplitName
      PROVE  NameIInv'
  <2>1. /\ filename' = filename /\ made' = made /\ filename \in Seq(NameChar)
        /\ split'.path = GetPath(filename) /\ split'.base = GetBaseName(filename)
        /\ split'.suffix = GetSuffix(filename)
        /\ \A k \in PlacesOf(filename, SLASH) : k < FirstDot(filename)
    BY <1>3 DEF SplitName, NameIInv
  <2>2. GetPath(filename) # <<>> => \E k \in PlacesOf(filename, SLASH) :
          /\ GetPath(filename) = SubSeq(filename, 1, k)
          /\ Without(SubSeq(filename, k + 2, Len(filename)), SLASH)
    BY <2>1, PathBounded
  <2>3. GetSuffix(filename) # <<>> => \E k \in PlacesOf(filename, ".") :
          /\ GetSuffix(filename) = SubSeq(filename, k + 2, Len(filename))
          /\ Without(GetSuffix(filename), ".")
    BY <2>1, SuffixBounded
  <2>4. Without(GetBaseName(filename), SLASH) /\ Without(GetBaseName(filename), ".")
    BY <2>1, BaseIsPlain
  <2>5. ASSUME made # NoPart, made.base # NoPart, made.suffix # NoPart,
               made.nchars > 2 * (HowLong(made.path) + Len(made.base) + Len(made.suffix) + 2)
        PROVE  /\ filename = LeadIn(made.path, SLASH) \o LeadIn(made.base, ".") \o made.suffix
               /\ GetBaseName(filename) = made.base
               /\ HowLong(made.path) > 1 => GetPath(filename) = made.path
               /\ HowLong(made.path) + Len(made.base) > 1 => GetSuffix(filename) = made.suffix
    <3> DEFINE p == made.path
               b == made.base
               s == made.suffix
    <3>1. /\ p \in PathParts /\ b \in BaseParts \ {NoPart} /\ s \in SuffixParts \ {NoPart}
          /\ filename = NameOf(p, b, s)
      BY <2>5 DEF NameIInv, Plenty
    <3>2. /\ p \in Seq(NameChar) \union {NoPart} /\ b \in Seq(NameChar) /\ s \in Seq(NameChar)
      BY <3>1, FileNameAssumption
    <3>3. Without(b, SLASH) /\ Without(b, ".") /\ Without(s, ".")
      BY <3>1 DEF PlainParts
    <3>4. LeadIn(b, ".") = Append(b, ".")
      BY <3>1 DEF LeadIn
    <3> HIDE DEF p, b, s
    <3>5. /\ GetBaseName(filename) = b
          /\ HowLong(p) > 1 => GetPath(filename) = p
          /\ HowLong(p) + Len(b) > 1 => GetSuffix(filename) = s
      BY <2>1, <3>1, <3>2, <3>3, ComesApart
    <3> QED BY <3>1, <3>4, <3>5 DEF p, b, s, NameOf
  <2>6. NamesComposeBack'
    <3> SUFFICES ASSUME split' # NoPart PROVE NamesComposeBack'
      BY DEF NamesComposeBack
    <3> QED BY <2>1, <2>2, <2>3, <2>4, <2>5 DEF NamesComposeBack
  <2> QED BY <2>1, <2>6 DEF NameIInv
<1>4. CASE UNCHANGED nameVars
  BY <1>4 DEF nameVars, NameIInv, NamesComposeBack
<1> QED BY <1>1, <1>2, <1>3, <1>4 DEF NameNext

\* However a name was made, and whatever name is given, what the three
\* functions take out of it is bounded by its last slash and its last dot; and
\* a name that vm_file_makefilename had plenty of room for comes apart into its
\* parts again.
THEOREM NamesComeApart ==
  ASSUME PlainParts
  PROVE  NameSpec => []NamesComposeBack
<1>1. NameInit => NameIInv
  <2>1. <<>> \in Seq(NameChar)
    BY EmptySeq
  <2> QED BY <2>1 DEF NameInit, NameIInv, NamesComposeBack
<1>2. NameIInv /\ [NameNext]_nameVars => NameIInv'
  BY NameInductive
<1>3. NameIInv => NamesComposeBack
  BY DEF NameIInv
<1> QED BY <1>1, <1>2, <1>3, PTL DEF NameSpec

\* What is taken out of a name is a sequence of its characters.
LEMMA PartsTyped ==
  ASSUME NEW name \in Seq(NameChar)
  PROVE  /\ GetPath(name) \in Seq(NameChar)
         /\ GetBaseName(name) \in Seq(NameChar)
         /\ GetSuffix(name) \in Seq(NameChar)
<1>1. Len(name) \in Nat /\ <<>> \in Seq(NameChar)
  BY LenProperties, EmptySeq
<1>2. ASSUME NEW char
      PROVE  LastPlaceOf(name, char) \in 0 .. Len(name)
  <2>1. /\ LastPlaceOf(name, char) \in {0} \union PlacesOf(name, char)
        /\ PlacesOf(name, char) \subseteq 0 .. Len(name) - 1
    BY PlacesFound
  <2> QED BY <1>1, <2>1
<1>3. GetPath(name) \in Seq(NameChar)
  <2> DEFINE k == LastPlaceOf(name, SLASH)
  <2>1. k \in 0 .. Len(name) /\ 1 \in Nat \ {0}
    BY <1>2
  <2> HIDE DEF k
  <2>2. SubSeq(name, 1, k) \in Seq(NameChar)
    BY <2>1, PartOf
  <2> QED BY <1>1, <2>2 DEF GetPath, k
<1>4. GetSuffix(name) \in Seq(NameChar)
  <2> DEFINE k == LastPlaceOf(name, ".")
  <2>1. k \in 0 .. Len(name)
    BY <1>2
  <2> HIDE DEF k
  <2>2. k + 2 \in Nat \ {0} /\ Len(name) \in 0 .. Len(name)
    BY <1>1, <2>1
  <2>3. SubSeq(name, k + 2, Len(name)) \in Seq(NameChar)
    BY <2>2, PartOf
  <2> QED BY <1>1, <2>3 DEF GetSuffix, k
<1>5. GetBaseName(name) \in Seq(NameChar)
  <2> DEFINE slashes == PlacesOf(name, SLASH)
             m == Ext!Max(slashes)
             dot == FirstDot(name)
  <2>1. dot \in 0 .. Len(name)
    BY Dots
  <2> HIDE DEF dot
  <2>2. SubSeq(name, 1, dot) \in Seq(NameChar)
    BY <2>1, PartOf
  <2>3. slashes # {} => m \in 0 .. Len(name) - 1
    BY PlacesFound
  <2> HIDE DEF m
  <2>4. ASSUME slashes # {} PROVE SubSeq(name, m + 2, dot) \in Seq(NameChar)
    <3>1. m + 2 \in Nat \ {0}
      BY <1>1, <2>3, <2>4
    <3> QED BY <2>1, <3>1, PartOf
  <2> QED BY <2>2, <2>4 DEF GetBaseName, m, dot
<1> QED BY <1>3, <1>4, <1>5

\* Types of the names, for any parts and names: what is put together and taken
\* apart are sequences of characters, whatever room there was.
THEOREM NameTypeCorrect == NameSpec => []NameTypeOK
<1>1. NameInit => NameTypeOK
  <2>1. <<>> \in Seq(NameChar)
    BY EmptySeq
  <2> QED BY <2>1 DEF NameInit, NameTypeOK
<1>2. ASSUME NameTypeOK, [NameNext]_nameVars PROVE NameTypeOK'
  <2>1. ASSUME NEW p \in PathParts, NEW b \in BaseParts, NEW s \in SuffixParts,
               NEW n \in NameRooms, MakeFileName(p, b, s, n)
        PROVE  NameTypeOK'
    <3>1. /\ p \in Seq(NameChar) \union {NoPart} /\ b \in Seq(NameChar) \union {NoPart}
          /\ s \in Seq(NameChar) \union {NoPart} /\ n \in Nat
      BY FileNameAssumption
    <3>2. /\ filename' = MadeName(p, b, s, n) /\ split' = NoPart
          /\ made' = [path |-> p, base |-> b, suffix |-> s, nchars |-> n]
      BY <2>1 DEF MakeFileName, MadeName
    <3>3. MadeName(p, b, s, n) \in Seq(NameChar)
      BY <3>1, MadeNameTyped
    <3> QED BY <3>2, <3>3 DEF NameTypeOK
  <2>2. ASSUME NEW name \in GivenNames, GiveName(name) PROVE NameTypeOK'
    BY <2>2, FileNameAssumption DEF GiveName, NameTypeOK
  <2>3. CASE SplitName
    BY <1>2, <2>3, PartsTyped DEF SplitName, NameTypeOK
  <2>4. CASE UNCHANGED nameVars
    BY <1>2, <2>4 DEF nameVars, NameTypeOK
  <2> QED BY <1>2, <2>1, <2>2, <2>3, <2>4 DEF NameNext
<1>3. NameTypeOK /\ [NameNext]_nameVars => NameTypeOK'
  BY <1>2
<1> QED BY <1>1, <1>3, PTL DEF NameSpec

-----------------------------------------------------------------------------
\* How a string stands in a file: its k-th character at place e[k], the places
\* between them are carriage returns before line ends.
Embeds(e, a, c) ==
  /\ e \in [0 .. Len(a) -> 0 .. Len(c)]
  /\ e[0] = 0
  /\ \A i, j \in 0 .. Len(a) : i < j => e[i] < e[j]
  /\ \A i \in 1 .. Len(a) : c[e[i]] = a[i]
  /\ \A p \in 1 .. Len(c) :
       \/ \E i \in 1 .. Len(a) : e[i] = p
       \/ p < Len(c) /\ c[p] = "cr" /\ c[p + 1] = "lf"

\* A string in a binary file.
LEMMA IdentityEmbeds ==
  ASSUME NEW s \in Seq(Character)
  PROVE  Embeds([k \in 0 .. Len(s) |-> k], s, s)
<1>1. Len(s) \in Nat
  BY LenProperties
<1> QED BY <1>1 DEF Embeds

\* Every character is moved behind the one before it, a line end one further.
LEMMA MovedGrows ==
  ASSUME NEW s \in Seq(Character)
  PROVE  /\ \A k \in 0 .. Len(s) : Moved(s, k) \in Nat
         /\ Moved(s, 0) = 0
         /\ \A k \in 1 .. Len(s) :
              Moved(s, k) = Moved(s, k - 1) + IF s[k] = "lf" THEN 2 ELSE 1
         /\ \A i, j \in 0 .. Len(s) : i < j => Moved(s, i) < Moved(s, j)
<1> DEFINE L(k) == {i \in 1 .. k : s[i] = "lf"}
<1>1. Len(s) \in Nat
  BY LenProperties
<1>2. ASSUME NEW k \in 0 .. Len(s) PROVE IsFiniteSet(L(k)) /\ Cardinality(L(k)) \in Nat
  <2>1. IsFiniteSet(1 .. k)
    BY <1>1, FS_Interval
  <2>2. IsFiniteSet(L(k))
    BY <2>1, FS_Subset
  <2> QED BY <2>2, FS_CardinalityType
<1>3. \A k \in 0 .. Len(s) : Moved(s, k) = k + Cardinality(L(k))
  BY DEF Moved
<1>4. \A k \in 0 .. Len(s) : Moved(s, k) \in Nat
  <2> HIDE DEF L
  <2> QED BY <1>1, <1>2, <1>3
<1>5. Moved(s, 0) = 0
  <2>1. L(0) = {}
    OBVIOUS
  <2>2. Moved(s, 0) = 0 + Cardinality(L(0))
    BY <1>1, <1>3
  <2>3. Cardinality(L(0)) = 0
    BY <2>1, FS_EmptySet
  <2> QED BY <2>2, <2>3
<1>6. ASSUME NEW k \in 1 .. Len(s)
      PROVE  Moved(s, k) = Moved(s, k - 1) + IF s[k] = "lf" THEN 2 ELSE 1
  <2>1. k \in 0 .. Len(s) /\ k - 1 \in 0 .. Len(s)
    BY <1>1
  <2>2. CASE s[k] = "lf"
    <3>1. L(k) = L(k - 1) \union {k} /\ k \notin L(k - 1)
      BY <1>1, <2>2
    <3>2. Cardinality(L(k)) = Cardinality(L(k - 1)) + 1
      <4> HIDE DEF L
      <4> QED BY <3>1, <2>1, <1>2, FS_AddElement
    <3>3. Moved(s, k) = k + Cardinality(L(k))
      BY <1>3, <2>1
    <3>4. Moved(s, k - 1) = k - 1 + Cardinality(L(k - 1))
      BY <1>3, <2>1
    <3>5. Cardinality(L(k - 1)) \in Nat
      BY <1>2, <2>1
    <3> HIDE DEF L
    <3> QED BY <2>2, <3>2, <3>3, <3>4, <3>5
  <2>3. CASE s[k] # "lf"
    <3>1. L(k) = L(k - 1)
      BY <1>1, <2>3
    <3> HIDE DEF L
    <3> QED BY <1>2, <1>3, <2>1, <2>3, <3>1
  <2> QED BY <2>2, <2>3
<1>7. ASSUME NEW i \in 0 .. Len(s), NEW j \in 0 .. Len(s), i < j PROVE Moved(s, i) < Moved(s, j)
  <2>1. L(i) \subseteq L(j)
    BY <1>1, <1>7
  <2>2. Cardinality(L(i)) =< Cardinality(L(j))
    <3> HIDE DEF L
    <3> QED BY <2>1, <1>2, FS_Subset
  <2> HIDE DEF L
  <2> QED BY <1>1, <1>2, <1>3, <1>7, <2>2
<1> QED BY <1>4, <1>5, <1>6, <1>7

\* A string in a file that is not binary.
LEMMA TranslatedEmbeds ==
  ASSUME NEW s \in Seq(Character)
  PROVE  /\ Translated(s) \in Seq(Character)
         /\ Embeds([k \in 0 .. Len(s) |-> Moved(s, k)], s, Translated(s))
<1> DEFINE n == Len(s)
           M(k) == Moved(s, k)
           t == Translated(s)
           At(p) == {k \in 1 .. n : M(k) = p}
           e == [k \in 0 .. n |-> M(k)]
<1>1. n \in Nat /\ \A k \in 1 .. n : s[k] \in Character
  BY LenProperties
<1>2. /\ \A k \in 0 .. n : M(k) \in Nat
      /\ M(0) = 0
      /\ \A k \in 1 .. n : M(k) = M(k - 1) + IF s[k] = "lf" THEN 2 ELSE 1
      /\ \A i, j \in 0 .. n : i < j => M(i) < M(j)
  BY MovedGrows
<1>3. t = [p \in 1 .. M(n) |-> IF At(p) = {} THEN "cr" ELSE s[CHOOSE k \in At(p) : TRUE]]
  BY DEF Translated
<1>4. \A p \in 1 .. M(n) : t[p] = IF At(p) = {} THEN "cr" ELSE s[CHOOSE k \in At(p) : TRUE]
  BY <1>3
<1>5. ASSUME NEW p \in 1 .. M(n) PROVE t[p] \in Character
  <2>1. CASE At(p) = {}
    BY <2>1, <1>4 DEF Character
  <2>2. CASE At(p) # {}
    <3>1. (CHOOSE k \in At(p) : TRUE) \in At(p)
      BY <2>2
    <3> QED BY <3>1, <2>2, <1>1, <1>4
  <2> QED BY <2>1, <2>2
<1>6. M(n) \in Nat
  <2> HIDE DEF M
  <2> QED BY <1>1, <1>2
<1>7. t \in Seq(Character) /\ Len(t) = M(n)
  <2>1. t \in [1 .. M(n) -> Character]
    BY <1>3, <1>5
  <2> HIDE DEF t, M
  <2> QED BY <1>6, <2>1
<1> HIDE DEF M, t
<1>8. e \in [0 .. n -> 0 .. Len(t)]
  <2> SUFFICES ASSUME NEW k \in 0 .. n PROVE M(k) \in 0 .. M(n)
    BY <1>7
  <2>1. k < n => M(k) < M(n)
    BY <1>1, <1>2
  <2>2. k = n \/ k < n
    BY <1>1
  <2> QED BY <1>2, <1>6, <2>1, <2>2
<1>9. ASSUME NEW i \in 1 .. n PROVE t[e[i]] = s[i]
  <2>1. i \in 0 .. n /\ e[i] = M(i) /\ M(i) \in 1 .. M(n)
    <3>1. M(0) < M(i)
      BY <1>1, <1>2
    <3>2. i < n => M(i) < M(n)
      BY <1>1, <1>2
    <3>3. i \in 0 .. n /\ (i = n \/ i < n)
      BY <1>1
    <3> QED BY <1>2, <1>6, <3>1, <3>2, <3>3
  <2>2. ASSUME NEW k \in At(M(i)) PROVE k = i
    <3>1. k \in 0 .. n /\ M(k) = M(i)
      OBVIOUS
    <3>2. k < i => M(k) < M(i)
      BY <3>1, <2>1, <1>2
    <3>3. i < k => M(i) < M(k)
      BY <3>1, <2>1, <1>2
    <3> QED BY <3>1, <3>2, <3>3, <2>1, <1>1, <1>2
  <2>3. At(M(i)) = {i}
    BY <2>2
  <2> QED BY <2>1, <2>3, <1>4
<1>10. ASSUME NEW p \in 1 .. M(n), ~ \E i \in 1 .. n : e[i] = p
       PROVE  p < M(n) /\ t[p] = "cr" /\ t[p + 1] = "lf"
  <2> DEFINE B == {k \in 0 .. n : M(k) >= p}
  <2>1. PICK k \in B : \A y \in B : k =< y
    <3>1. B \in SUBSET Nat /\ B # {}
      <4>1. n \in B
        BY <1>1, <1>6
      <4> QED BY <1>1, <4>1
    <3> HIDE DEF B
    <3> QED BY <3>1, FirstPlace
  <2>2. k \in 1 .. n /\ k - 1 \in 0 .. n
    BY <1>1, <1>2
  <2>3. M(k) > p
    <3>1. M(k) # p
      BY <1>10, <2>2
    <3> QED BY <3>1, <2>2, <1>2
  <2>4. M(k - 1) < p
    <3>1. k - 1 \notin B
      BY <2>1, <2>2
    <3> QED BY <3>1, <2>2, <1>2, <1>6
  <2>5. s[k] = "lf" /\ M(k) = p + 1
    <3>1. M(k) = M(k - 1) + IF s[k] = "lf" THEN 2 ELSE 1
      BY <2>2, <1>2
    <3>2. M(k) \in Nat /\ M(k - 1) \in Nat
      BY <2>2, <1>2
    <3> QED BY <3>1, <3>2, <2>3, <2>4
  <2>6. e[k] = p + 1 /\ e[k] =< M(n)
    BY <2>2, <2>5, <1>6, <1>7, <1>8
  <2>7. t[p + 1] = "lf"
    BY <2>2, <2>5, <2>6, <1>9
  <2>8. At(p) = {}
    <3>1. \A i \in 1 .. n : e[i] = M(i)
      BY <1>1
    <3> QED BY <3>1, <1>10
  <2> QED BY <2>6, <2>7, <2>8, <1>4, <1>6
<1>11. e[0] = 0 /\ \A i, j \in 0 .. n : i < j => e[i] < e[j]
  BY <1>1, <1>2
<1>12. \A i \in 1 .. n : t[e[i]] = s[i]
  BY <1>9
<1>13. \A p \in 1 .. Len(t) :
         \/ \E i \in 1 .. n : e[i] = p
         \/ p < Len(t) /\ t[p] = "cr" /\ t[p + 1] = "lf"
  BY <1>10, <1>7
<1>14. Embeds(e, s, t)
  <2> HIDE DEF e
  <2> QED BY <1>8, <1>11, <1>12, <1>13 DEF Embeds
<1> QED BY <1>7, <1>14 DEF M, t

\* What is written at the end of a file stands behind what stood there.
LEMMA EmbedsAppend ==
  ASSUME NEW a \in Seq(Character), NEW b \in Seq(Character),
         NEW c \in Seq(Character), NEW d \in Seq(Character),
         NEW e, NEW f, Embeds(e, a, c), Embeds(f, b, d)
  PROVE  \E g : /\ Embeds(g, a \o b, c \o d)
                /\ \A i \in 0 .. Len(a) : g[i] = e[i]
<1> DEFINE g == [i \in 0 .. Len(a \o b) |->
                   IF i =< Len(a) THEN e[i] ELSE Len(c) + f[i - Len(a)]]
<1>1. /\ Len(a) \in Nat /\ Len(b) \in Nat /\ Len(c) \in Nat /\ Len(d) \in Nat
      /\ Len(a \o b) = Len(a) + Len(b) /\ Len(c \o d) = Len(c) + Len(d)
      /\ \A i \in 1 .. Len(a) : (a \o b)[i] = a[i]
      /\ \A i \in 1 .. Len(b) : (a \o b)[Len(a) + i] = b[i]
      /\ \A i \in 1 .. Len(c) : (c \o d)[i] = c[i]
      /\ \A i \in 1 .. Len(d) : (c \o d)[Len(c) + i] = d[i]
  <2>1. Len(a) \in Nat /\ Len(b) \in Nat /\ Len(c) \in Nat /\ Len(d) \in Nat
    BY LenProperties
  <2> QED BY <2>1
<1>2. /\ \A i \in 0 .. Len(a) : e[i] \in 0 .. Len(c)
      /\ e[0] = 0
      /\ \A i, j \in 0 .. Len(a) : i < j => e[i] < e[j]
      /\ \A i \in 1 .. Len(a) : c[e[i]] = a[i]
      /\ \A p \in 1 .. Len(c) :
           \/ \E i \in 1 .. Len(a) : e[i] = p
           \/ p < Len(c) /\ c[p] = "cr" /\ c[p + 1] = "lf"
  BY DEF Embeds
<1>3. /\ \A i \in 0 .. Len(b) : f[i] \in 0 .. Len(d)
      /\ f[0] = 0
      /\ \A i, j \in 0 .. Len(b) : i < j => f[i] < f[j]
      /\ \A i \in 1 .. Len(b) : d[f[i]] = b[i]
      /\ \A p \in 1 .. Len(d) :
           \/ \E i \in 1 .. Len(b) : f[i] = p
           \/ p < Len(d) /\ d[p] = "cr" /\ d[p + 1] = "lf"
  BY DEF Embeds
<1> DEFINE x == a \o b
           y == c \o d
<1>4. /\ \A i \in 0 .. Len(a) : g[i] = e[i]
      /\ \A i \in 1 .. Len(b) : g[Len(a) + i] = Len(c) + f[i]
  BY <1>1
<1>5. \A i \in 1 .. Len(b) : f[i] >= 1 /\ f[i] =< Len(d)
  <2> SUFFICES ASSUME NEW i \in 1 .. Len(b) PROVE f[i] >= 1 /\ f[i] =< Len(d)
    OBVIOUS
  <2>1. f[0] < f[i]
    BY <1>1, <1>3
  <2>2. f[i] \in 0 .. Len(d)
    BY <1>1, <1>3
  <2> QED BY <2>1, <2>2, <1>1, <1>3
<1>6. \A i \in 1 .. Len(a) : e[i] >= 1 /\ e[i] =< Len(c)
  <2> SUFFICES ASSUME NEW i \in 1 .. Len(a) PROVE e[i] >= 1 /\ e[i] =< Len(c)
    OBVIOUS
  <2>1. e[0] < e[i]
    BY <1>1, <1>2
  <2>2. e[i] \in 0 .. Len(c)
    BY <1>1, <1>2
  <2> QED BY <2>1, <2>2, <1>1, <1>2
<1>7. \A i \in 0 .. Len(x) : i \in 0 .. Len(a) \/ i - Len(a) \in 1 .. Len(b)
  BY <1>1
<1>8. \A i \in 0 .. Len(x) : i \notin 0 .. Len(a) => i = Len(a) + (i - Len(a))
  BY <1>1
<1>9. g \in [0 .. Len(x) -> 0 .. Len(y)]
  <2> SUFFICES ASSUME NEW i \in 0 .. Len(x) PROVE g[i] \in 0 .. Len(y)
    OBVIOUS
  <2>1. CASE i \in 0 .. Len(a)
    <3>1. g[i] \in 0 .. Len(c)
      BY <2>1, <1>2, <1>4
    <3> HIDE DEF g
    <3> QED BY <3>1, <1>1
  <2>2. CASE i - Len(a) \in 1 .. Len(b)
    <3>1. g[i] = Len(c) + f[i - Len(a)]
      BY <2>2, <1>1, <1>4
    <3>2. f[i - Len(a)] \in 0 .. Len(d)
      BY <2>2, <1>1, <1>3
    <3> HIDE DEF g
    <3> QED BY <3>1, <3>2, <1>1
  <2> QED BY <2>1, <2>2, <1>7
<1>10. ASSUME NEW i \in 0 .. Len(x), NEW j \in 0 .. Len(x), i < j PROVE g[i] < g[j]
  <2>1. CASE i \in 0 .. Len(a) /\ j \in 0 .. Len(a)
    BY <2>1, <1>2, <1>4, <1>10
  <2>2. CASE i \in 0 .. Len(a) /\ j - Len(a) \in 1 .. Len(b)
    <3>1. g[j] = Len(c) + f[j - Len(a)] /\ f[j - Len(a)] \in 0 .. Len(d) /\ f[j - Len(a)] >= 1
      BY <2>2, <1>1, <1>3, <1>4, <1>5
    <3>2. g[i] \in 0 .. Len(c)
      BY <2>2, <1>2, <1>4
    <3> HIDE DEF g
    <3> QED BY <3>1, <3>2, <1>1
  <2>3. CASE i - Len(a) \in 1 .. Len(b) /\ j - Len(a) \in 1 .. Len(b)
    <3>1. g[j] = Len(c) + f[j - Len(a)] /\ f[j - Len(a)] \in 0 .. Len(d)
      BY <2>3, <1>1, <1>3, <1>4
    <3>2. g[i] = Len(c) + f[i - Len(a)] /\ f[i - Len(a)] \in 0 .. Len(d)
      BY <2>3, <1>1, <1>3, <1>4
    <3>3. f[i - Len(a)] < f[j - Len(a)]
      <4>1. i - Len(a) < j - Len(a) /\ i - Len(a) \in 0 .. Len(b) /\ j - Len(a) \in 0 .. Len(b)
        BY <2>3, <1>1, <1>10
      <4> QED BY <4>1, <1>3
    <3> HIDE DEF g
    <3> QED BY <3>1, <3>2, <3>3, <1>1
  <2> QED
    <3>1. j \in 0 .. Len(a) => i \in 0 .. Len(a)
      BY <1>1, <1>10
    <3> QED BY <3>1, <2>1, <2>2, <2>3, <1>7
<1>11. ASSUME NEW i \in 1 .. Len(x) PROVE y[g[i]] = x[i]
  <2>1. CASE i \in 1 .. Len(a)
    <3>1. g[i] = e[i] /\ e[i] \in 1 .. Len(c)
      BY <2>1, <1>1, <1>2, <1>4, <1>6
    <3>2. y[e[i]] = c[e[i]] /\ x[i] = a[i] /\ c[e[i]] = a[i]
      BY <2>1, <3>1, <1>1, <1>2
    <3> HIDE DEF g, x, y
    <3> QED BY <3>1, <3>2
  <2>2. CASE i - Len(a) \in 1 .. Len(b)
    <3> DEFINE k == i - Len(a)
    <3>1. g[i] = Len(c) + f[k] /\ i = Len(a) + k
      BY <2>2, <1>1, <1>4
    <3>2. f[k] \in 1 .. Len(d)
      BY <2>2, <1>1, <1>3, <1>5
    <3>3. y[Len(c) + f[k]] = d[f[k]]
      BY <3>2, <1>1
    <3>4. x[Len(a) + k] = b[k] /\ d[f[k]] = b[k]
      BY <2>2, <1>1, <1>3
    <3> HIDE DEF g, x, y, k
    <3> QED BY <3>1, <3>3, <3>4
  <2>3. i \in 1 .. Len(a) \/ i - Len(a) \in 1 .. Len(b)
    BY <1>1
  <2> QED BY <2>1, <2>2, <2>3
<1>12. ASSUME NEW p \in 1 .. Len(y)
       PROVE  \/ \E i \in 1 .. Len(x) : g[i] = p
              \/ p < Len(y) /\ y[p] = "cr" /\ y[p + 1] = "lf"
  <2>1. CASE p \in 1 .. Len(c)
    <3>1. CASE \E i \in 1 .. Len(a) : e[i] = p
      <4>1. PICK i \in 1 .. Len(a) : e[i] = p
        BY <3>1
      <4>2. i \in 1 .. Len(x) /\ g[i] = p
        BY <4>1, <1>1, <1>4
      <4> QED BY <4>2
    <3>2. CASE p < Len(c) /\ c[p] = "cr" /\ c[p + 1] = "lf"
      <4>1. p + 1 \in 1 .. Len(c) /\ p < Len(y)
        BY <2>1, <3>2, <1>1
      <4>2. y[p] = c[p] /\ y[p + 1] = c[p + 1]
        BY <4>1, <2>1, <1>1
      <4> QED BY <4>1, <4>2, <3>2
    <3> QED BY <2>1, <3>1, <3>2, <1>2
  <2>2. CASE p - Len(c) \in 1 .. Len(d)
    <3> DEFINE q == p - Len(c)
    <3>1. q \in 1 .. Len(d) /\ p = Len(c) + q
      BY <2>2, <1>1
    <3> HIDE DEF q
    <3>2. CASE \E i \in 1 .. Len(b) : f[i] = q
      <4>1. PICK i \in 1 .. Len(b) : f[i] = q
        BY <3>2
      <4>2. Len(a) + i \in 1 .. Len(x) /\ g[Len(a) + i] = p
        BY <4>1, <3>1, <1>1, <1>4
      <4> QED BY <4>2
    <3>3. CASE q < Len(d) /\ d[q] = "cr" /\ d[q + 1] = "lf"
      <4>1. q + 1 \in 1 .. Len(d) /\ p < Len(y) /\ p + 1 = Len(c) + (q + 1)
        BY <3>1, <3>3, <1>1
      <4>2. y[Len(c) + q] = d[q] /\ y[Len(c) + (q + 1)] = d[q + 1]
        BY <4>1, <3>1, <1>1
      <4>3. y[p] = "cr" /\ y[p + 1] = "lf"
        <5> HIDE DEF y
        <5> QED BY <4>1, <4>2, <3>1, <3>3
      <4> QED BY <4>1, <4>3
    <3> QED BY <3>1, <3>2, <3>3, <1>3
  <2>3. p \in 1 .. Len(c) \/ p - Len(c) \in 1 .. Len(d)
    BY <1>1
  <2> QED BY <2>1, <2>2, <2>3
<1>13. g[0] = 0
  BY <1>1, <1>2, <1>4
<1>14. Embeds(g, x, y)
  <2>1. \A i, j \in 0 .. Len(x) : i < j => g[i] < g[j]
    BY <1>10
  <2>2. \A i \in 1 .. Len(x) : y[g[i]] = x[i]
    BY <1>11
  <2>3. \A p \in 1 .. Len(y) :
          \/ \E i \in 1 .. Len(x) : g[i] = p
          \/ p < Len(y) /\ y[p] = "cr" /\ y[p + 1] = "lf"
    BY <1>12
  <2> HIDE DEF g, x, y
  <2> QED BY <1>9, <1>13, <2>1, <2>2, <2>3 DEF Embeds
<1> QED BY <1>4, <1>14

\* What stands in the file between two characters: nothing, or one carriage
\* return before a line end.
LEMMA EmbedsBounds ==
  ASSUME NEW a \in Seq(Character), NEW c \in Seq(Character), NEW e, Embeds(e, a, c)
  PROVE  /\ Len(a) \in Nat /\ Len(c) \in Nat
         /\ \A i \in 0 .. Len(a) : e[i] \in 0 .. Len(c)
         /\ \A i \in 1 .. Len(a) : e[i] \in 1 .. Len(c) /\ c[e[i]] = a[i]
         /\ \A i, j \in 0 .. Len(a) : i < j => e[i] < e[j]
         /\ \A i, j \in 0 .. Len(a) : e[i] = e[j] => i = j
         /\ \A i, j \in 0 .. Len(a) : e[i] < e[j] => i < j
         /\ e[0] = 0
         /\ e[Len(a)] = Len(c)
<1>1. Len(a) \in Nat /\ Len(c) \in Nat
  BY LenProperties
<1>2. /\ \A i \in 0 .. Len(a) : e[i] \in 0 .. Len(c)
      /\ \A i, j \in 0 .. Len(a) : i < j => e[i] < e[j]
      /\ \A i \in 1 .. Len(a) : c[e[i]] = a[i]
      /\ e[0] = 0
  BY DEF Embeds
<1>3. \A i \in 1 .. Len(a) : e[i] \in 1 .. Len(c)
  <2> SUFFICES ASSUME NEW i \in 1 .. Len(a) PROVE e[i] \in 1 .. Len(c)
    OBVIOUS
  <2>1. e[0] < e[i] /\ e[i] \in 0 .. Len(c)
    BY <1>1, <1>2
  <2> QED BY <2>1, <1>1, <1>2
<1>4. ASSUME NEW i \in 0 .. Len(a), NEW j \in 0 .. Len(a)
      PROVE  (e[i] = e[j] => i = j) /\ (e[i] < e[j] => i < j)
  <2>1. i < j => e[i] < e[j]
    BY <1>2
  <2>2. j < i => e[j] < e[i]
    BY <1>2
  <2>3. e[i] \in Int /\ e[j] \in Int /\ i \in Int /\ j \in Int
    BY <1>1, <1>2
  <2> QED BY <2>1, <2>2, <2>3
<1>5. e[Len(a)] = Len(c)
  <2>1. CASE Len(c) = 0
    BY <2>1, <1>1, <1>2
  <2>2. CASE Len(c) > 0
    <3>1. PICK i \in 1 .. Len(a) : e[i] = Len(c)
      <4>1. Len(c) \in 1 .. Len(c) /\ ~ (Len(c) < Len(c))
        BY <2>2, <1>1
      <4> QED BY <4>1 DEF Embeds
    <3>2. i < Len(a) => e[i] < e[Len(a)]
      BY <1>1, <1>2
    <3>3. e[Len(a)] \in 0 .. Len(c) /\ (i < Len(a) \/ i = Len(a))
      BY <1>1, <1>2
    <3> QED BY <3>1, <3>2, <3>3, <1>1
  <2> QED BY <2>1, <2>2, <1>1
<1>6. \A i, j \in 0 .. Len(a) : e[i] = e[j] => i = j
  BY <1>4
<1>7. \A i, j \in 0 .. Len(a) : e[i] < e[j] => i < j
  BY <1>4
<1> QED BY <1>1, <1>2, <1>3, <1>5, <1>6, <1>7

\* The character after the one at a place of the file.
LEMMA NextCharacter ==
  ASSUME NEW a \in Seq(Character), NEW c \in Seq(Character), NEW e, Embeds(e, a, c),
         NEW i \in 0 .. Len(a) - 1
  PROVE  \/ e[i + 1] = e[i] + 1
         \/ e[i + 1] = e[i] + 2 /\ c[e[i] + 1] = "cr" /\ a[i + 1] = "lf"
<1>1. /\ Len(a) \in Nat /\ Len(c) \in Nat
      /\ \A k \in 0 .. Len(a) : e[k] \in 0 .. Len(c)
      /\ \A k \in 1 .. Len(a) : e[k] \in 1 .. Len(c) /\ c[e[k]] = a[k]
      /\ \A k, j \in 0 .. Len(a) : k < j => e[k] < e[j]
      /\ \A k, j \in 0 .. Len(a) : e[k] = e[j] => k = j
      /\ \A k, j \in 0 .. Len(a) : e[k] < e[j] => k < j
  BY EmbedsBounds
<1>2. /\ i \in 0 .. Len(a) /\ i + 1 \in 0 .. Len(a) /\ i + 1 \in 1 .. Len(a)
      /\ e[i] < e[i + 1] /\ e[i] \in 0 .. Len(c) /\ e[i + 1] \in 0 .. Len(c)
      /\ c[e[i + 1]] = a[i + 1]
  BY <1>1
<1>3. ASSUME NEW k \in 1 .. Len(a), e[i] < e[k] PROVE e[i + 1] =< e[k]
  <2>1. i < k
    BY <1>1, <1>2, <1>3
  <2>2. i + 1 < k => e[i + 1] < e[k]
    BY <1>1, <1>2
  <2>3. k = i + 1 \/ i + 1 < k
    BY <2>1, <1>1
  <2>4. e[k] \in Int /\ e[i + 1] \in Int
    BY <1>1, <1>2
  <2> QED BY <2>2, <2>3, <2>4
<1>4. \A p \in 1 .. Len(c) :
        \/ \E k \in 1 .. Len(a) : e[k] = p
        \/ p < Len(c) /\ c[p] = "cr" /\ c[p + 1] = "lf"
  BY DEF Embeds
<1> DEFINE p == e[i] + 1
<1>5. p \in 1 .. Len(c) /\ p =< e[i + 1]
  BY <1>1, <1>2
<1>6. CASE \E k \in 1 .. Len(a) : e[k] = p
  <2>1. PICK k \in 1 .. Len(a) : e[k] = p
    BY <1>6
  <2>2. e[i + 1] =< e[k]
    <3>1. e[i] < e[k]
      BY <2>1, <1>2
    <3> QED BY <3>1, <1>3
  <2> QED BY <2>1, <2>2, <1>2, <1>5
<1>7. CASE (~ \E k \in 1 .. Len(a) : e[k] = p) /\ p < Len(c) /\ c[p] = "cr" /\ c[p + 1] = "lf"
  <2>1. p + 1 \in 1 .. Len(c) /\ c[p + 1] # "cr"
    BY <1>1, <1>5, <1>7
  <2>2. PICK k \in 1 .. Len(a) : e[k] = p + 1
    BY <2>1, <1>4
  <2>3. e[i + 1] =< p + 1
    <3>1. e[i] < e[k]
      BY <2>2, <1>2
    <3> QED BY <3>1, <2>2, <1>3
  <2>4. e[i + 1] # p
    BY <1>2, <1>7
  <2>5. e[i + 1] = p + 1
    BY <2>3, <2>4, <1>2, <1>5
  <2>6. a[i + 1] = "lf"
    BY <2>5, <1>2, <1>7
  <2> QED BY <2>5, <2>6, <1>2, <1>7
<1> QED BY <1>4, <1>5, <1>6, <1>7

\* A part of the file without a carriage return is a part of what was written.
LEMMA Consecutive ==
  ASSUME NEW a \in Seq(Character), NEW c \in Seq(Character), NEW e, Embeds(e, a, c),
         NEW i \in 0 .. Len(a), NEW n \in 0 .. Len(c) - e[i],
         \A p \in e[i] + 1 .. e[i] + n : c[p] # "cr"
  PROVE  \A t \in 0 .. n : i + t =< Len(a) /\ e[i + t] = e[i] + t
<1>1. /\ Len(a) \in Nat /\ Len(c) \in Nat
      /\ \A k \in 0 .. Len(a) : e[k] \in 0 .. Len(c)
      /\ e[Len(a)] = Len(c)
  BY EmbedsBounds
<1> DEFINE B == {t \in 0 .. n : ~ (i + t =< Len(a) /\ e[i + t] = e[i] + t)}
<1>2. SUFFICES ASSUME B # {} PROVE FALSE
  OBVIOUS
<1>3. n \in Nat /\ e[i] \in 0 .. Len(c)
  BY <1>1
<1>4. PICK t \in B : \A u \in B : t =< u
  <2>1. B \in SUBSET Nat
    BY <1>3
  <2> HIDE DEF B
  <2> QED BY <2>1, <1>2, FirstPlace
<1>5. t # 0
  BY <1>1, <1>3
<1>6. t - 1 \in 0 .. n /\ t \in 1 .. n
  BY <1>3, <1>5
<1>7. i + (t - 1) =< Len(a) /\ e[i + (t - 1)] = e[i] + (t - 1)
  <2>1. t - 1 \notin B
    <3>1. t \in Int
      BY <1>3
    <3>2. t - 1 \in B => t =< t - 1
      <4> HIDE DEF B
      <4> QED BY <1>4
    <3> HIDE DEF B
    <3> QED BY <3>1, <3>2
  <2> QED BY <2>1, <1>6
<1> DEFINE k == i + (t - 1)
<1>8. k \in 0 .. Len(a) /\ e[k] < Len(c)
  BY <1>1, <1>3, <1>6, <1>7
<1>9. k \in 0 .. Len(a) - 1 /\ k + 1 = i + t
  <2>1. k # Len(a)
    <3> HIDE DEF k, B
    <3> QED BY <1>1, <1>8
  <2>2. k + 1 = i + t
    <3> HIDE DEF B
    <3> QED BY <1>1, <1>3, <1>6
  <2> HIDE DEF k
  <2> QED BY <2>1, <2>2, <1>1, <1>8
<1>10. e[k] + 1 \in e[i] + 1 .. e[i] + n
  BY <1>3, <1>6, <1>7
<1>11. e[k + 1] = e[k] + 1
  BY <1>9, <1>10, NextCharacter
<1>12. e[i + t] = e[i] + t /\ i + t =< Len(a)
  BY <1>1, <1>3, <1>6, <1>7, <1>9, <1>11
<1> QED BY <1>4, <1>12

\* No carriage return in a part of the file; what was written lies there together.
NoReturn(c, here, there) == \A p \in here + 1 .. there : c[p] # "cr"

Together(a, e, f, here, d) ==
  \A t \in 0 .. d - here : f + t =< Len(a) /\ e[f + t] = here + t

\* The same between two places of the file.
LEMMA TogetherBetween ==
  ASSUME NEW a \in Seq(Character), NEW c \in Seq(Character), NEW e, Embeds(e, a, c),
         NEW f \in 0 .. Len(a), NEW here \in Nat, e[f] = here, NEW d \in here .. Len(c),
         NoReturn(c, here, d)
  PROVE  Together(a, e, f, here, d)
<1>1. Len(c) \in Nat
  BY LenProperties
<1> DEFINE n == d - here
<1>2. n \in 0 .. Len(c) - e[f] /\ \A p \in e[f] + 1 .. e[f] + n : c[p] # "cr"
  BY <1>1 DEF NoReturn
<1> HIDE DEF n
<1>3. \A t \in 0 .. n : f + t =< Len(a) /\ e[f + t] = e[f] + t
  BY ONLY <1>2, Consecutive, a \in Seq(Character), c \in Seq(Character),
          Embeds(e, a, c), f \in 0 .. Len(a)
<1> QED BY <1>3 DEF n, Together

\* The words of a text a, as RoundTrip has them: where one starts that no comma
\* hides and no tab glues to another, and which of these are up to place m.
StartsOf(a) ==
  {i \in 1 .. Len(a) :
     /\ a[i] \in Letter /\ (i = 1 \/ a[i - 1] \notin Letter)
     /\ \A k \in 1 .. i : a[k] \in {"comma", "cr"} => \E l \in k .. i : a[l] = "lf"
     /\ \A j \in 1 .. i - 1 : a[j] \in Letter =>
          \E k \in j + 1 .. i - 1 : a[k] \notin Letter \union {"tab"}}

Begun(a, m) == {k \in StartsOf(a) : k <= m}

\* w is the word that starts at place i of the text, and something follows it.
EndedWord(w, a, i) ==
  /\ i + Len(w) <= Len(a)
  /\ \A k \in 1 .. Len(w) : w[k] = a[i + k - 1]
  /\ a[i + Len(w)] \notin Letter

\* ws are the words that start up to place m.
GivenBack(ws, a, m) ==
  /\ Len(ws) = Cardinality(Begun(a, m))
  /\ \A n \in 1 .. Len(ws) : \E i \in Begun(a, m) :
       EndedWord(ws[n], a, i) /\ Cardinality(Begun(a, i)) = n

\* A word can be looked for behind place f: it is not inside a token, and no
\* comma before it is on its line.
OutsideWord(a, f) ==
  f < Len(a) =>
    /\ f = 0 \/ a[f] = "lf" \/ a[f + 1] \notin Letter \union {"tab"}
    /\ \A k \in 1 .. f : a[k] \in {"comma", "cr"} => \E l \in k .. f : a[l] = "lf"

LEMMA BegunFinite ==
  ASSUME NEW a \in Seq(Character), NEW m
  PROVE  IsFiniteSet(Begun(a, m)) /\ Cardinality(Begun(a, m)) \in Nat
<1>1. IsFiniteSet(1 .. Len(a))
  <2>1. Len(a) \in Nat
    BY LenProperties
  <2> QED BY <2>1, FS_Interval
<1>2. Begun(a, m) \subseteq 1 .. Len(a)
  BY DEF Begun, StartsOf
<1>3. IsFiniteSet(Begun(a, m))
  BY <1>1, <1>2, FS_Subset
<1> QED BY <1>3, FS_CardinalityType

LEMMA NothingBegun == \A a : Begun(a, 0) = {}
BY DEF Begun, StartsOf

\* The searches of gettoken and vm_file_fgets.
LEMMA BeforeIs ==
  ASSUME contents \in Seq(Character), NEW C, NEW p \in 0 .. Len(contents)
  PROVE  /\ Before(C, p) \in p .. Len(contents)
         /\ \A k \in p + 1 .. Before(C, p) : contents[k] \notin C
         /\ Before(C, p) < Len(contents) => contents[Before(C, p) + 1] \in C
<1> DEFINE Q == {q \in p .. Len(contents) : q < Len(contents) => contents[q + 1] \in C}
<1>1. Len(contents) \in Nat
  BY LenProperties
<1>2. Q \in SUBSET Nat /\ Q # {}
  <2>1. Len(contents) \in Q
    BY <1>1
  <2> QED BY <1>1, <2>1
<1>3. PICK q \in Q : \A y \in Q : q =< y
  <2> HIDE DEF Q
  <2> QED BY <1>2, FirstPlace
<1>4. ASSUME NEW k \in p + 1 .. q PROVE contents[k] \notin C
  <2>1. k - 1 \in p .. Len(contents) /\ k - 1 < q /\ k - 1 < Len(contents)
    BY <1>1
  <2>2. k - 1 \notin Q
    <3> HIDE DEF Q
    <3> QED BY <1>1, <1>2, <1>3, <2>1
  <2>3. contents[(k - 1) + 1] \notin C
    BY <2>1, <2>2
  <2>4. (k - 1) + 1 = k
    BY <1>1
  <2> QED BY <2>3, <2>4
<1>5. \E r \in p .. Len(contents) :
        /\ \A k \in p + 1 .. r : contents[k] \notin C
        /\ r < Len(contents) => contents[r + 1] \in C
  BY <1>4
<1> QED BY <1>5 DEF Before

\* With w behind the words ws the file pointer is at d, and all words up to
\* there are delivered.
ReadOn(a, e, f, d, ws, w) ==
  /\ Append(ws, w) \in Seq(Seq(Letter))
  /\ \E g \in f .. Len(a) :
       e[g] = d /\ OutsideWord(a, g) /\ GivenBack(Append(ws, w), a, g)

\* What Word takes from the file is the next word of what was written.
LEMMA NextWord ==
  ASSUME NEW a \in Seq(Character), NEW c \in Seq(Character), NEW e, Embeds(e, a, c),
         NEW f \in 0 .. Len(a), OutsideWord(a, f),
         NEW here \in Nat, e[f] = here, NEW b \in here .. Len(c), NEW d \in b + 1 .. Len(c), d < Len(c),
         NEW h \in b + 1 .. d,
         \A p \in here + 1 .. b : c[p] \in {"blank", "tab"},
         \A p \in b + 1 .. h : c[p] \in Letter,
         \A p \in b + 1 .. d : c[p] \in Letter \union {"tab"},
         c[h + 1] \notin Letter,
         c[d + 1] \notin Letter \union {"tab"},
         NEW ws \in Seq(Seq(Letter)), GivenBack(ws, a, f),
         NEW w, w = SubSeq(c, b + 1, h)
  PROVE  ReadOn(a, e, f, d, ws, w)
<1> DEFINE s == f + (b - here) + 1
           u == f + (h - here)
           g == f + (d - here)
<1>1. /\ Len(a) \in Nat /\ Len(c) \in Nat /\ Len(ws) \in Nat
      /\ \A i \in 0 .. Len(a) : e[i] \in 0 .. Len(c)
      /\ \A i \in 1 .. Len(a) : e[i] \in 1 .. Len(c) /\ c[e[i]] = a[i]
      /\ e[Len(a)] = Len(c)
  <2>1. Len(ws) \in Nat
    BY LenProperties
  <2> QED BY <2>1, EmbedsBounds
<1>2. /\ here \in Nat /\ f \in Nat /\ b \in Nat /\ d \in Nat /\ here =< b /\ b < d /\ d < Len(c)
      /\ h \in Nat /\ b < h /\ h =< d
  BY <1>1
<1>3. \A t \in 0 .. d - here : f + t =< Len(a) /\ e[f + t] = here + t
  <2>1. NoReturn(c, here, d)
    <3>1. \A p \in here + 1 .. d : p \in here + 1 .. b \/ p \in b + 1 .. d
      BY <1>2
    <3> QED BY <3>1 DEF Letter, NoReturn
  <2>2. d \in here .. Len(c)
    BY <1>1, <1>2
  <2> HIDE DEF s, u, g
  <2>3. Together(a, e, f, here, d)
    BY ONLY <2>1, <2>2, TogetherBetween, a \in Seq(Character), c \in Seq(Character),
            Embeds(e, a, c), f \in 0 .. Len(a), here \in Nat, e[f] = here
  <2> QED BY <2>3 DEF Together
<1>4. ASSUME NEW i \in f + 1 .. g
      PROVE  i \in 1 .. Len(a) /\ e[i] = here + (i - f) /\ a[i] = c[here + (i - f)]
  <2>1. i - f \in 0 .. d - here /\ f + (i - f) = i /\ i >= 1
    BY <1>2
  <2>2. i =< Len(a) /\ e[i] = here + (i - f)
    BY <2>1, <1>3
  <2> QED BY <2>1, <2>2, <1>1, <1>2
<1>5. /\ s \in f + 1 .. g /\ g \in f .. Len(a) /\ e[g] = d /\ g < Len(a)
  <2>1. d - here \in 0 .. d - here /\ here + (d - here) = d
    BY <1>2
  <2>2. g =< Len(a) /\ e[g] = d
    BY <2>1, <1>3
  <2>3. g # Len(a)
    <3> HIDE DEF g
    <3> QED BY <2>2, <1>1, <1>2
  <2>4. s \in f + 1 .. g /\ g \in Nat /\ f =< g
    BY <1>2
  <2> HIDE DEF s, g
  <2> QED BY <2>2, <2>3, <2>4, <1>1, <1>2
<1>6. /\ \A i \in f + 1 .. s - 1 : a[i] \in {"blank", "tab"}
      /\ \A i \in s .. u : a[i] \in Letter
      /\ \A i \in s .. g : a[i] \in Letter \union {"tab"}
  <2>1. ASSUME NEW i \in f + 1 .. s - 1 PROVE a[i] \in {"blank", "tab"}
    <3>1. i \in f + 1 .. g /\ here + (i - f) \in here + 1 .. b
      BY <1>2
    <3> QED BY <3>1, <1>4
  <2>2. ASSUME NEW i \in s .. g PROVE a[i] \in Letter \union {"tab"}
    <3>1. i \in f + 1 .. g /\ here + (i - f) \in b + 1 .. d
      BY <1>2
    <3> QED BY <3>1, <1>4
  <2>3. ASSUME NEW i \in s .. u PROVE a[i] \in Letter
    <3>1. i \in f + 1 .. g /\ here + (i - f) \in b + 1 .. h
      BY <1>2
    <3> QED BY <3>1, <1>4
  <2> QED BY <2>1, <2>2, <2>3
<1>7. a[g + 1] \notin Letter \union {"tab"}
  <2>1. g \in 0 .. Len(a) - 1 /\ g + 1 \in 1 .. Len(a)
    <3> HIDE DEF g
    <3> QED BY <1>1, <1>2, <1>5
  <2>2. \/ e[g + 1] = e[g] + 1
        \/ e[g + 1] = e[g] + 2 /\ c[e[g] + 1] = "cr" /\ a[g + 1] = "lf"
    <3> HIDE DEF g
    <3> QED BY <2>1, NextCharacter
  <2>3. c[e[g + 1]] = a[g + 1]
    BY <2>1, <1>1
  <2> HIDE DEF g
  <2> QED BY <2>2, <2>3, <1>5 DEF Letter
<1>8. /\ Len(w) = h - b /\ w \in Seq(Letter)
      /\ \A k \in 1 .. Len(w) : w[k] = c[b + k]
  <2>1. \A i \in b + 1 .. h : c[i] \in Letter
    OBVIOUS
  <2>2. b + 1 \in Int /\ h \in Int
    BY <1>2
  <2>3. /\ w \in Seq(Letter)
        /\ Len(w) = IF b + 1 <= h THEN h - (b + 1) + 1 ELSE 0
        /\ \A i \in 1 .. h - (b + 1) + 1 : w[i] = c[(b + 1) + i - 1]
    <3> HIDE DEF s, u, g
    <3> QED BY ONLY <2>1, <2>2, SMTT(60), w = SubSeq(c, b + 1, h), c \in Seq(Character),
                    SubSeqProperties
  <2>4. h - (b + 1) + 1 = h - b /\ b + 1 <= h
    BY <1>2
  <2>5. \A i \in 1 .. h - b : (b + 1) + i - 1 = b + i
    BY <1>2
  <2> QED BY <2>3, <2>4, <2>5
<1>9. EndedWord(w, a, s)
  <2>1. s + Len(w) = u + 1 /\ u + 1 =< Len(a)
    <3>1. s + (h - b) = u + 1 /\ u =< g
      BY <1>2
    <3>2. u \in Nat /\ g \in Nat
      BY <1>2
    <3> HIDE DEF s, u, g
    <3> QED BY <3>1, <3>2, <1>1, <1>2, <1>5, <1>8
  <2>2. ASSUME NEW k \in 1 .. Len(w) PROVE w[k] = a[s + k - 1]
    <3>1. k \in 1 .. h - b
      <4> QED BY <1>8
    <3>2. s + k - 1 \in f + 1 .. g /\ here + ((s + k - 1) - f) = b + k
      BY <3>1, <1>2
    <3> DEFINE i == s + k - 1
    <3>3. i \in f + 1 .. g /\ here + (i - f) = b + k
      BY <3>2
    <3> HIDE DEF i, s, g
    <3>4. a[i] = c[here + (i - f)]
      BY <3>3, <1>4
    <3>5. w[k] = c[b + k]
      BY <1>8
    <3>6. w[k] = a[i]
      BY <3>3, <3>4, <3>5
    <3> QED BY <3>6 DEF i
  <2>3. a[u + 1] \notin Letter
    <3>1. CASE h = d
      <4>1. u = g
        BY <3>1
      <4> QED BY <4>1, <1>7
    <3>2. CASE h # d
      <4>1. u + 1 \in f + 1 .. g /\ here + ((u + 1) - f) = h + 1
        BY <3>2, <1>2
      <4>2. a[u + 1] = c[here + ((u + 1) - f)]
        <5> DEFINE i == u + 1
        <5>1. i \in f + 1 .. g
          BY <4>1
        <5> HIDE DEF i, u, g
        <5>2. a[i] = c[here + (i - f)]
          BY <5>1, <1>4
        <5> QED BY <5>2 DEF i
      <4> HIDE DEF u, g
      <4> QED BY <4>1, <4>2
    <3> QED BY <3>1, <3>2
  <2> HIDE DEF s, u, g
  <2> QED BY <2>1, <2>2, <2>3 DEF EndedWord
<1>10. s \in StartsOf(a)
  <2>1. s \in 1 .. Len(a) /\ a[s] \in Letter
    <3>1. s \in s .. u
      BY <1>2
    <3> QED BY <3>1, <1>4, <1>5, <1>6
  <2>2. s = 1 \/ a[s - 1] \notin Letter
    <3>1. CASE b = here
      <4>1. s = f + 1 /\ s - 1 = f
        BY <3>1, <1>2
      <4>2. f < Len(a) /\ (f = 0 => s = 1) /\ (f # 0 => a[f] = "lf" \/ a[f + 1] \notin Letter)
        BY <4>1, <1>1, <1>2, <2>1 DEF OutsideWord
      <4> HIDE DEF s
      <4> QED BY <4>1, <4>2, <2>1 DEF Letter
    <3>2. CASE b # here
      <4>1. s - 1 \in f + 1 .. s - 1
        BY <3>2, <1>2
      <4> QED BY <4>1, <1>6 DEF Letter
    <3> QED BY <3>1, <3>2
  <2>3. ASSUME NEW k \in 1 .. s, a[k] \in {"comma", "cr"} PROVE \E l \in k .. s : a[l] = "lf"
    <3>1. k \in 1 .. f
      <4>1. k \notin f + 1 .. s - 1 /\ k # s
        BY <2>1, <2>3, <1>6 DEF Letter
      <4>2. s \in Nat /\ f =< s - 1
        BY <1>2
      <4> HIDE DEF s
      <4> QED BY <4>1, <4>2, <1>2
    <3>2. f < Len(a)
      <4> HIDE DEF g
      <4> QED BY <1>1, <1>2, <1>5
    <3>3. PICK l \in k .. f : a[l] = "lf"
      BY <3>1, <3>2, <2>3 DEF OutsideWord
    <3>4. l \in k .. s
      BY <1>2
    <3> QED BY <3>3, <3>4
  <2>4. ASSUME NEW j \in 1 .. s - 1, a[j] \in Letter
        PROVE  \E k \in j + 1 .. s - 1 : a[k] \notin Letter \union {"tab"}
    <3>1. s \in Nat /\ f =< s - 1
      BY <1>2
    <3>2. f < Len(a)
      <4> HIDE DEF g
      <4> QED BY <1>1, <1>2, <1>5
    <3>3. j =< f
      <4>1. j \notin f + 1 .. s - 1
        BY <2>4, <1>6 DEF Letter
      <4> HIDE DEF s
      <4> QED BY <4>1, <3>1, <1>2
    <3> HIDE DEF s
    <3>4. CASE a[f] = "lf"
      <4>1. f \in j + 1 .. s - 1
        BY <3>1, <3>3, <3>4, <2>4, <1>2 DEF Letter
      <4> QED BY <4>1, <3>4 DEF Letter
    <3>5. CASE a[f + 1] \notin Letter \union {"tab"}
      <4>1. f + 1 \in j + 1 .. s - 1
        BY <3>1, <3>3, <3>5, <2>1, <1>2
      <4> QED BY <4>1, <3>5
    <3>6. f # 0
      BY <3>3, <1>2
    <3> QED BY <3>2, <3>4, <3>5, <3>6 DEF OutsideWord
  <2> HIDE DEF s
  <2> QED BY <2>1, <2>2, <2>3, <2>4 DEF StartsOf
<1>11. ASSUME NEW i \in StartsOf(a), i \in f + 1 .. g PROVE i = s
  <2>1. /\ i \in 1 .. Len(a) /\ a[i] \in Letter
        /\ \A j \in 1 .. i - 1 : a[j] \in Letter =>
             \E k \in j + 1 .. i - 1 : a[k] \notin Letter \union {"tab"}
    BY DEF StartsOf
  <2>2. i \notin f + 1 .. s - 1
    BY <2>1, <1>6 DEF Letter
  <2>3. s \in Nat /\ g \in Nat /\ s >= 1 /\ a[s] \in Letter
    BY <1>2, <1>10 DEF StartsOf
  <2> HIDE DEF s, g
  <2>4. ~(s < i)
    <3> SUFFICES ASSUME s < i PROVE FALSE
      OBVIOUS
    <3>1. s \in 1 .. i - 1
      BY <2>1, <2>3, <1>1
    <3>2. PICK k \in s + 1 .. i - 1 : a[k] \notin Letter \union {"tab"}
      BY <3>1, <2>1, <2>3
    <3>3. k \in s .. g
      BY <2>3, <1>11, <1>2
    <3> QED BY <3>2, <3>3, <1>6
  <2> QED BY <2>2, <2>3, <2>4, <1>2, <1>5, <1>11
<1>12. /\ Begun(a, g) = Begun(a, f) \union {s} /\ s \notin Begun(a, f)
       /\ Begun(a, s) = Begun(a, g)
  <2>1. s \in Nat /\ g \in Nat
    BY <1>2
  <2> HIDE DEF s, g
  <2>2. \A i \in StartsOf(a) : i \in Nat
    BY DEF StartsOf
  <2>3. \A i \in StartsOf(a) : i =< g <=> (i =< f \/ i = s)
    <3> SUFFICES ASSUME NEW i \in StartsOf(a) PROVE i =< g <=> (i =< f \/ i = s)
      OBVIOUS
    <3>1. i \in f + 1 .. g => i = s
      BY <1>11
    <3> QED BY <3>1, <2>1, <2>2, <1>1, <1>2, <1>5
  <2>4. \A i \in StartsOf(a) : i =< s <=> i =< g
    <3> SUFFICES ASSUME NEW i \in StartsOf(a) PROVE i =< s <=> i =< g
      OBVIOUS
    <3>1. (i =< g <=> (i =< f \/ i = s)) /\ i \in Nat
      BY <2>2, <2>3
    <3>2. s \in f + 1 .. g
      BY <1>5
    <3> QED BY ONLY <3>1, <3>2, <2>1, <1>2
  <2>5. s > f
    BY <2>1, <1>2, <1>5
  <2>6. s \notin Begun(a, f)
    BY <2>1, <2>5, <1>2 DEF Begun
  <2>7. ASSUME NEW i \in Begun(a, g) PROVE i \in Begun(a, f) \union {s}
    BY <2>3 DEF Begun
  <2>8. ASSUME NEW i \in Begun(a, f) \union {s} PROVE i \in Begun(a, g)
    BY <2>3, <1>10 DEF Begun
  <2>9. Begun(a, g) = Begun(a, f) \union {s}
    BY <2>7, <2>8
  <2>10. Begun(a, s) = Begun(a, g)
    BY <2>4 DEF Begun
  <2> QED BY <2>6, <2>9, <2>10
<1>13. Cardinality(Begun(a, g)) = Len(ws) + 1
  <2>1. Cardinality(Begun(a, f) \union {s}) = Cardinality(Begun(a, f)) + 1
    <3> HIDE DEF s
    <3> QED BY <1>12, BegunFinite, FS_AddElement
  <2> QED BY <2>1, <1>12 DEF GivenBack
<1> DEFINE vs == Append(ws, w)
<1>14. /\ vs \in Seq(Seq(Letter)) /\ Len(vs) = Len(ws) + 1
       /\ \A n \in 1 .. Len(ws) : vs[n] = ws[n]
       /\ vs[Len(ws) + 1] = w
  <2>1. w \in Seq(Letter)
    BY <1>8
  <2> QED BY ONLY <2>1, ws \in Seq(Seq(Letter))
<1>15. GivenBack(vs, a, g)
  <2>1. ASSUME NEW n \in 1 .. Len(vs)
        PROVE  \E i \in Begun(a, g) : EndedWord(vs[n], a, i) /\ Cardinality(Begun(a, i)) = n
    <3>1. CASE n \in 1 .. Len(ws)
      <4>1. PICK i \in Begun(a, f) : EndedWord(ws[n], a, i) /\ Cardinality(Begun(a, i)) = n
        BY <3>1 DEF GivenBack
      <4>2. i \in Begun(a, g)
        BY <1>12
      <4> HIDE DEF vs
      <4> QED BY <3>1, <4>1, <4>2, <1>14
    <3>2. CASE n = Len(ws) + 1
      <4>1. s \in Begun(a, g) /\ Cardinality(Begun(a, s)) = n
        BY <3>2, <1>12, <1>13
      <4>2. EndedWord(vs[n], a, s)
        <5> HIDE DEF vs, s
        <5> QED BY <3>2, <1>9, <1>14
      <4> QED BY <4>1, <4>2
    <3> HIDE DEF vs
    <3> QED BY <3>1, <3>2, <1>1, <1>14
  <2> HIDE DEF vs, g
  <2> QED BY <2>1, <1>13, <1>14 DEF GivenBack
<1>16. OutsideWord(a, g)
  <2>1. ASSUME NEW k \in 1 .. g, a[k] \in {"comma", "cr"} PROVE \E l \in k .. g : a[l] = "lf"
    <3>1. k \in 1 .. f
      <4>1. k \notin f + 1 .. s - 1 /\ k \notin s .. g
        BY <2>1, <1>6 DEF Letter
      <4>2. s \in Nat /\ g \in Nat
        BY <1>2
      <4> HIDE DEF s, g
      <4> QED BY <4>1, <4>2, <1>2, <1>5
    <3>2. f < Len(a)
      <4> HIDE DEF g
      <4> QED BY <1>1, <1>2, <1>5
    <3>3. PICK l \in k .. f : a[l] = "lf"
      BY <3>1, <3>2, <2>1 DEF OutsideWord
    <3>4. l \in k .. g
      BY <1>2
    <3> QED BY <3>3, <3>4
  <2> HIDE DEF g
  <2> QED BY <2>1, <1>7 DEF OutsideWord
<1> HIDE DEF g
<1> QED BY <1>5, <1>14, <1>15, <1>16 DEF ReadOn

\* What NoWord drops holds no word: blanks and tabs up to b, and then a comma, a
\* carriage return or the line end.
LEMMA NoWordBefore ==
  ASSUME NEW a \in Seq(Character), NEW c \in Seq(Character), NEW e, Embeds(e, a, c),
         NEW f \in 0 .. Len(a), NEW here \in Nat, e[f] = here,
         NEW b \in here .. Len(c), NEW q \in here .. Len(c) - 1,
         \A p \in here + 1 .. b : c[p] \in {"blank", "tab"},
         b < Len(c) => c[b + 1] \in {"comma", "cr", "lf"},
         \A p \in here + 1 .. q : c[p] # "lf", c[q + 1] = "lf"
  PROVE  \E g \in f .. Len(a) :
           /\ e[g] = q + 1 /\ OutsideWord(a, g)
           /\ Begun(a, g) = Begun(a, f)
<1>1. /\ Len(a) \in Nat /\ Len(c) \in Nat
      /\ \A i \in 1 .. Len(a) : e[i] \in 1 .. Len(c) /\ c[e[i]] = a[i]
      /\ \A i, j \in 0 .. Len(a) : i < j => e[i] < e[j]
      /\ \A i, j \in 0 .. Len(a) : e[i] < e[j] => i < j
  BY EmbedsBounds
<1>2. f \in Nat /\ b \in Nat /\ q \in Nat /\ here =< b /\ here =< q /\ q + 1 \in 1 .. Len(c)
  BY <1>1
<1>3. \A p \in 1 .. Len(c) :
        \/ \E i \in 1 .. Len(a) : e[i] = p
        \/ p < Len(c) /\ c[p] = "cr" /\ c[p + 1] = "lf"
  BY DEF Embeds
<1>4. PICK g \in 1 .. Len(a) : e[g] = q + 1
  BY <1>2, <1>3
<1>5. a[g] = "lf" /\ g \in 0 .. Len(a) /\ f < g
  <2>1. g \in 0 .. Len(a) /\ e[f] < e[g]
    BY <1>1, <1>2, <1>4
  <2> QED BY <2>1, <1>1, <1>4
<1>6. ASSUME NEW i \in StartsOf(a), f < i, i =< g PROVE FALSE
  <2>1. /\ i \in 1 .. Len(a) /\ a[i] \in Letter
        /\ \A k \in 1 .. i : a[k] \in {"comma", "cr"} => \E l \in k .. i : a[l] = "lf"
    BY DEF StartsOf
  <2>2. i # g /\ i < g
    BY <2>1, <1>1, <1>5, <1>6 DEF Letter
  <2>3. /\ i \in 0 .. Len(a) /\ e[i] \in 1 .. Len(c) /\ c[e[i]] = a[i]
        /\ here < e[i] /\ e[i] < q + 1
    BY <2>1, <2>2, <1>1, <1>4, <1>5, <1>6
  <2>4. b < e[i]
    <3>1. e[i] \in here + 1 .. b => c[e[i]] \in {"blank", "tab"}
      OBVIOUS
    <3>2. e[i] \notin here + 1 .. b
      BY <3>1, <2>1, <2>3 DEF Letter
    <3> QED BY <3>2, <2>3, <1>2
  <2>5. b < Len(c) /\ c[b + 1] \in {"comma", "cr", "lf"} /\ b + 1 < e[i]
    <3>1. b < Len(c) /\ c[b + 1] \in {"comma", "cr", "lf"}
      BY <2>3, <2>4, <1>1, <1>2
    <3>2. e[i] # b + 1
      BY <3>1, <2>1, <2>3 DEF Letter
    <3> QED BY <3>1, <3>2, <2>3, <2>4, <1>2
  <2>6. c[b + 1] # "lf"
    <3>1. b + 1 \in here + 1 .. q
      BY <2>3, <2>5, <1>2
    <3> QED BY <3>1
  <2>7. b + 1 \in 1 .. Len(c)
    BY <2>5, <1>1, <1>2
  <2>8. CASE \E k \in 1 .. Len(a) : e[k] = b + 1
    <3>1. PICK k \in 1 .. Len(a) : e[k] = b + 1
      BY <2>8
    <3>2. k \in 0 .. Len(a) /\ k < i /\ a[k] \in {"comma", "cr"} /\ k \in 1 .. i
      <4>1. k \in 0 .. Len(a) /\ e[k] < e[i]
        BY <3>1, <2>5, <1>1
      <4>2. k < i
        BY <4>1, <2>3, <1>1
      <4>3. c[e[k]] = a[k] /\ c[e[k]] \in {"comma", "cr"}
        BY <3>1, <2>5, <2>6, <1>1
      <4>4. k \in 1 .. i
        BY <4>2, <2>3, <3>1, <1>1
      <4> QED BY <4>1, <4>2, <4>3, <4>4
    <3>3. PICK l \in k .. i : a[l] = "lf"
      BY <3>2, <2>1
    <3>4. l < i /\ l \in 1 .. Len(a) /\ l \in 0 .. Len(a)
      <4>1. l # i
        BY <3>3, <2>1 DEF Letter
      <4> QED BY <4>1, <2>3, <3>1, <1>1
    <3>5. e[l] < e[i] /\ c[e[l]] = "lf" /\ e[l] \in 1 .. Len(c)
      BY <3>3, <3>4, <2>3, <1>1
    <3>6. b + 1 =< e[l]
      <4>1. k < l => e[k] < e[l]
        BY <3>2, <3>4, <1>1
      <4>2. k = l \/ k < l
        BY <3>3, <3>2
      <4> QED BY <4>1, <4>2, <3>1, <3>5, <1>2
    <3>7. e[l] \in here + 1 .. q
      BY <3>5, <3>6, <2>3, <1>2
    <3> QED BY <3>5, <3>7
  <2>9. CASE b + 1 < Len(c) /\ c[b + 1] = "cr" /\ c[(b + 1) + 1] = "lf"
    <3>1. e[i] # b + 2
      BY <2>1, <2>3, <2>9, <1>2 DEF Letter
    <3>2. b + 2 \in here + 1 .. q
      BY <3>1, <2>3, <2>5, <1>2
    <3>3. (b + 1) + 1 = b + 2
      BY <1>2
    <3> QED BY <3>2, <3>3, <2>9
  <2> QED BY <2>7, <2>8, <2>9, <1>3
<1>7. Begun(a, g) = Begun(a, f)
  <2>1. \A i \in StartsOf(a) : i \in Nat
    BY DEF StartsOf
  <2>2. \A i \in StartsOf(a) : i =< g <=> i =< f
    <3> SUFFICES ASSUME NEW i \in StartsOf(a) PROVE i =< g <=> i =< f
      OBVIOUS
    <3> QED BY <2>1, <1>1, <1>2, <1>5, <1>6
  <2> QED BY <2>2 DEF Begun
<1>8. OutsideWord(a, g)
  <2>1. \A k \in 1 .. g : g \in k .. g
    OBVIOUS
  <2> QED BY <2>1, <1>5 DEF OutsideWord, Letter
<1>9. g \in f .. Len(a)
  BY <1>1, <1>2, <1>5
<1> QED BY <1>4, <1>7, <1>8, <1>9

\* Texts that agree up to a place agree on what a tab glues to a word there.
LEMMA UpTo ==
  ASSUME NEW a, NEW x, NEW i \in Nat, \A k \in 1 .. i : x[k] = a[k]
  PROVE  (\A j \in 1 .. i - 1 : x[j] \in Letter =>
             \E k \in j + 1 .. i - 1 : x[k] \notin Letter \union {"tab"})
         <=> (\A j \in 1 .. i - 1 : a[j] \in Letter =>
                 \E k \in j + 1 .. i - 1 : a[k] \notin Letter \union {"tab"})
<1>1. ASSUME NEW j \in 1 .. i - 1
      PROVE  /\ x[j] = a[j]
             /\ (\E k \in j + 1 .. i - 1 : x[k] \notin Letter \union {"tab"})
                <=> (\E k \in j + 1 .. i - 1 : a[k] \notin Letter \union {"tab"})
  <2>1. x[j] = a[j]
    OBVIOUS
  <2>2. ASSUME NEW k \in j + 1 .. i - 1 PROVE x[k] = a[k]
    OBVIOUS
  <2> QED BY ONLY <2>1, <2>2
<1> QED BY ONLY <1>1

\* What is written behind a text changes no word of it.
LEMMA TextGrows ==
  ASSUME NEW a \in Seq(Character), NEW b \in Seq(Character), NEW m \in 0 .. Len(a)
  PROVE  /\ a \o b \in Seq(Character) /\ Len(a \o b) = Len(a) + Len(b)
         /\ Begun(a \o b, m) = Begun(a, m)
         /\ \A ws \in Seq(Seq(Letter)) : GivenBack(ws, a, m) => GivenBack(ws, a \o b, m)
<1> DEFINE x == a \o b
<1>1. /\ Len(a) \in Nat /\ Len(b) \in Nat
      /\ x \in Seq(Character) /\ Len(x) = Len(a) + Len(b)
      /\ \A i \in 1 .. Len(a) : x[i] = a[i]
  <2>1. Len(a) \in Nat /\ Len(b) \in Nat
    BY LenProperties
  <2> QED BY <2>1
<1> HIDE DEF x
<1>2. ASSUME NEW i \in 1 .. Len(a) PROVE i \in StartsOf(x) <=> i \in StartsOf(a)
  <2>1. \A k \in 1 .. i : x[k] = a[k] /\ \A l \in k .. i : x[l] = a[l]
    BY <1>1
  <2>2. x[i] = a[i] /\ (i = 1 \/ x[i - 1] = a[i - 1])
    BY <1>1
  <2>3. i \in 1 .. Len(x)
    BY <1>1
  <2>4. (\A j \in 1 .. i - 1 : x[j] \in Letter =>
            \E k \in j + 1 .. i - 1 : x[k] \notin Letter \union {"tab"})
        <=> (\A j \in 1 .. i - 1 : a[j] \in Letter =>
                \E k \in j + 1 .. i - 1 : a[k] \notin Letter \union {"tab"})
    <3>1. i \in Nat /\ \A k \in 1 .. i : x[k] = a[k]
      BY <1>1
    <3> QED BY ONLY <3>1, UpTo
  <2>5. (\A k \in 1 .. i : x[k] \in {"comma", "cr"} => \E l \in k .. i : x[l] = "lf")
        <=> (\A k \in 1 .. i : a[k] \in {"comma", "cr"} => \E l \in k .. i : a[l] = "lf")
    BY <2>1
  <2>6. x[i] = a[i] /\ (i = 1 \/ x[i - 1] = a[i - 1]) /\ i \in 1 .. Len(x) /\ i \in 1 .. Len(a)
    BY <2>2, <2>3
  <2> QED BY ONLY <2>4, <2>5, <2>6 DEF StartsOf
<1>3. ASSUME NEW n \in 0 .. Len(a) PROVE Begun(x, n) = Begun(a, n)
  <2>1. ASSUME NEW i \in Begun(x, n) PROVE i \in Begun(a, n)
    <3>1. i \in StartsOf(x) /\ i =< n /\ i \in 1 .. Len(x)
      BY DEF Begun, StartsOf
    <3>2. i \in 1 .. Len(a)
      BY <3>1, <1>1
    <3> QED BY <3>1, <3>2, <1>2 DEF Begun
  <2>2. ASSUME NEW i \in Begun(a, n) PROVE i \in Begun(x, n)
    <3>1. i \in StartsOf(a) /\ i =< n /\ i \in 1 .. Len(a)
      BY DEF Begun, StartsOf
    <3> QED BY <3>1, <1>2 DEF Begun
  <2> QED BY <2>1, <2>2
<1>4. ASSUME NEW ws \in Seq(Seq(Letter)), GivenBack(ws, a, m) PROVE GivenBack(ws, x, m)
  <2>1. ASSUME NEW n \in 1 .. Len(ws)
        PROVE  \E i \in Begun(x, m) : EndedWord(ws[n], x, i) /\ Cardinality(Begun(x, i)) = n
    <3>1. PICK i \in Begun(a, m) : EndedWord(ws[n], a, i) /\ Cardinality(Begun(a, i)) = n
      BY <1>4 DEF GivenBack
    <3>2. i \in 1 .. Len(a)
      BY DEF Begun, StartsOf
    <3>3. i \in Begun(x, m) /\ Begun(x, i) = Begun(a, i)
      BY <3>2, <1>1, <1>3
    <3>4. ws[n] \in Seq(Letter) /\ Len(ws[n]) \in Nat
      <4>1. ws[n] \in Seq(Letter)
        BY ElementOfSeq
      <4> QED BY <4>1, LenProperties
    <3>5. EndedWord(ws[n], x, i)
      <4> DEFINE w == ws[n]
      <4>1. /\ i + Len(w) <= Len(a) /\ a[i + Len(w)] \notin Letter
            /\ \A k \in 1 .. Len(w) : w[k] = a[i + k - 1]
        BY <3>1 DEF EndedWord
      <4>2. Len(w) \in Nat
        BY <3>4
      <4> HIDE DEF w
      <4>3. i + Len(w) \in 1 .. Len(a) /\ i + Len(w) <= Len(x)
        BY <4>1, <4>2, <3>2, <1>1
      <4>4. \A k \in 1 .. Len(w) : i + k - 1 \in 1 .. Len(a)
        BY <4>1, <4>2, <3>2, <1>1
      <4>5. EndedWord(w, x, i)
        BY <4>1, <4>3, <4>4, <1>1 DEF EndedWord
      <4> QED BY <4>5 DEF w
    <3> QED BY <3>1, <3>3, <3>5
  <2>2. Len(ws) = Cardinality(Begun(x, m))
    BY <1>3, <1>4 DEF GivenBack
  <2> QED BY <2>1, <2>2 DEF GivenBack
<1>5. Begun(x, m) = Begun(a, m)
  BY <1>3
<1>6. \A ws \in Seq(Seq(Letter)) : GivenBack(ws, a, m) => GivenBack(ws, x, m)
  BY <1>4
<1> QED BY <1>1, <1>5, <1>6 DEF x

-----------------------------------------------------------------------------
\* The file pointer is where place f of what was written stands, and the words
\* are those up to place m.  Who writes more, or opens the file to append,
\* passes by words.
Reached(e, f, m) ==
  /\ Embeds(e, sent, contents)
  /\ place = e[f]
  /\ m = f \/ (f = Len(sent) /\ mode # "r")
  /\ OutsideWord(sent, f)
  /\ GivenBack(words, sent, m)
  /\ mode = "r" /\ gaveUp => f = Len(sent)

ScanIInv ==
  /\ ScanTypeOK
  /\ items > 0 /\ contents # <<>> => contents[Len(contents)] = "lf"
  /\ mode = "r" => fsize = Len(contents)
  /\ \E e : \E f \in 0 .. Len(sent) : \E m \in 0 .. f : Reached(e, f, m)

\* At the start of a file, and at its end when it is not there to be read,
\* nothing has been read yet.
LEMMA NothingReadYet ==
  ASSUME NEW a \in Seq(Character)
  PROVE  OutsideWord(a, 0) /\ OutsideWord(a, Len(a)) /\ GivenBack(<<>>, a, 0)
<1>1. OutsideWord(a, 0)
  BY DEF OutsideWord
<1>2. OutsideWord(a, Len(a))
  <2>1. Len(a) \in Nat
    BY LenProperties
  <2> QED BY <2>1 DEF OutsideWord
<1>3. GivenBack(<<>>, a, 0)
  <2>1. Len(<<>>) = 0 /\ Cardinality(Begun(a, 0)) = 0
    BY NothingBegun, FS_EmptySet
  <2> QED BY <2>1 DEF GivenBack
<1> QED BY <1>1, <1>2, <1>3

LEMMA EmptyTyped == <<>> \in Seq(Character) /\ <<>> \in Seq(Seq(Letter)) /\ Len(<<>>) = 0
<1>1. \A S : <<>> \in Seq(S)
  OBVIOUS
<1> QED BY <1>1

LEMMA EmptyEmbeds == Embeds([k \in 0 .. 0 |-> k], <<>>, <<>>)
<1>1. <<>> \in Seq(Character) /\ Len(<<>>) = 0
  OBVIOUS
<1>2. Embeds([k \in 0 .. Len(<<>>) |-> k], <<>>, <<>>)
  BY <1>1, IdentityEmbeds
<1> QED BY <1>1, <1>2

LEMMA ScanInitially == ScanInit => ScanIInv
<1> SUFFICES ASSUME ScanInit PROVE ScanIInv
  OBVIOUS
<1> USE DEF ScanInit
<1> DEFINE e == [k \in 0 .. 0 |-> k]
<1>1. ScanTypeOK
  <2>1. contents \in Seq(Character) /\ sent \in Seq(Character)
    BY EmptyTyped
  <2>2. words \in Seq(Seq(Letter))
    BY EmptyTyped
  <2>3. Len(contents) = 0 /\ Len(sent) = 0
    BY EmptyTyped
  <2>4. place \in 0 .. Len(contents) /\ Len(sent) <= MaxText
    BY <2>3, ScanAssumption
  <2>5. mode \in {"closed", "r", "w", "w+", "a"} /\ binary \in BOOLEAN /\ gaveUp \in BOOLEAN
    OBVIOUS
  <2>6. fsize \in Nat /\ wanted \in Specifiers \union {0} /\ items \in 0 .. wanted
    OBVIOUS
  <2> QED BY ONLY <2>1, <2>2, <2>4, <2>5, <2>6 DEF ScanTypeOK
<1>2. Reached(e, 0, 0)
  <2>1. <<>> \in Seq(Character) /\ Len(<<>>) = 0
    OBVIOUS
  <2>2. Embeds(e, <<>>, <<>>) /\ OutsideWord(<<>>, 0) /\ GivenBack(<<>>, <<>>, 0)
    BY <2>1, EmptyEmbeds, NothingReadYet
  <2>3. e[0] = 0
    OBVIOUS
  <2> HIDE DEF e
  <2> QED BY <2>2, <2>3 DEF Reached
<1>3. 0 \in 0 .. Len(sent) /\ 0 \in 0 .. 0
  OBVIOUS
<1> HIDE DEF e
<1> QED BY <1>1, <1>2, <1>3 DEF ScanIInv

LEMMA OpenStep ==
  ASSUME ScanIInv, NEW k \in {"r", "w", "w+", "a"}, NEW b \in BOOLEAN, OpenText(k, b)
  PROVE  ScanIInv'
<1>1. /\ contents \in Seq(Character) /\ sent \in Seq(Character)
      /\ Len(contents) \in Nat /\ Len(sent) \in Nat
  BY LenProperties DEF ScanIInv, ScanTypeOK
<1>2. PICK e : Embeds(e, sent, contents)
  BY DEF ScanIInv, Reached
<1>3. e[0] = 0 /\ e[Len(sent)] = Len(contents)
  BY <1>1, <1>2, EmbedsBounds
<1>4. words' = <<>> /\ gaveUp' = FALSE /\ mode' = k /\ fsize' = Len(contents)
      /\ wanted' = wanted /\ items' = items /\ binary' = b
  BY DEF OpenText
<1>5. wanted \in Specifiers \union {0} /\ items \in 0 .. wanted /\ Len(sent) <= MaxText
  BY DEF ScanIInv, ScanTypeOK
<1>6. CASE k \in {"w", "w+"}
  <2> DEFINE u == [i \in 0 .. 0 |-> i]
  <2>1. contents' = <<>> /\ sent' = <<>> /\ place' = 0
    BY <1>6 DEF OpenText
  <2>2. <<>> \in Seq(Character) /\ Len(<<>>) = 0
    OBVIOUS
  <2>3. ScanTypeOK'
    <3>1. contents' \in Seq(Character) /\ sent' \in Seq(Character) /\ words' \in Seq(Seq(Letter))
      BY <2>1, <1>4, EmptyTyped
    <3>2. place' \in 0 .. Len(contents') /\ Len(sent') <= MaxText
      BY <2>1, EmptyTyped, ScanAssumption
    <3> QED BY ONLY <3>1, <3>2, <1>1, <1>4, <1>5, k \in {"r", "w", "w+", "a"}, b \in BOOLEAN
            DEF ScanTypeOK
  <2>4. Embeds(u, <<>>, <<>>) /\ OutsideWord(<<>>, 0) /\ GivenBack(<<>>, <<>>, 0) /\ u[0] = 0
    BY <2>2, EmptyEmbeds, NothingReadYet
  <2> HIDE DEF u
  <2>5. Reached(u, 0, 0)'
    BY <2>1, <2>4, <1>4 DEF Reached
  <2>6. 0 \in 0 .. Len(sent') /\ 0 \in 0 .. 0
    BY <2>1, <2>2
  <2> QED BY <2>1, <2>3, <2>5, <2>6, <1>4, <1>6 DEF ScanIInv
<1>7. CASE k \in {"r", "a"}
  <2>1. contents' = contents /\ sent' = sent
        /\ place' = IF k = "a" THEN Len(contents) ELSE 0
    BY <1>7 DEF OpenText
  <2>2. ScanTypeOK'
    <3>1. contents' \in Seq(Character) /\ sent' \in Seq(Character) /\ words' \in Seq(Seq(Letter))
      BY <2>1, <1>1, <1>4, EmptyTyped
    <3>2. place' \in 0 .. Len(contents') /\ Len(sent') <= MaxText
      BY <2>1, <1>1, <1>5
    <3> QED BY ONLY <3>1, <3>2, <1>1, <1>4, <1>5, k \in {"r", "w", "w+", "a"}, b \in BOOLEAN
            DEF ScanTypeOK
  <2>3. OutsideWord(sent, 0) /\ OutsideWord(sent, Len(sent)) /\ GivenBack(<<>>, sent, 0)
    BY <1>1, NothingReadYet
  <2>4. PICK f \in 0 .. Len(sent) : f = IF k = "a" THEN Len(sent) ELSE 0
    BY <1>1
  <2>5. f \in 0 .. Len(sent) /\ 0 \in 0 .. f
    BY <1>1
  <2>6. Reached(e, f, 0)'
    BY <2>1, <2>3, <2>4, <1>2, <1>3, <1>4, <1>7 DEF Reached
  <2>7. f \in 0 .. Len(sent')
    BY <2>1, <2>5
  <2>8. items' > 0 /\ contents' # <<>> => contents'[Len(contents')] = "lf"
    BY <2>1, <1>4 DEF ScanIInv
  <2>9. fsize' = Len(contents')
    BY <2>1, <1>4
  <2>10. \E x : \E i \in 0 .. Len(sent') : \E m \in 0 .. i : Reached(x, i, m)'
    BY ONLY <2>5, <2>6, <2>7
  <2> QED BY ONLY <2>2, <2>8, <2>9, <2>10 DEF ScanIInv
<1> QED BY <1>6, <1>7

LEMMA RewindStep == ASSUME ScanIInv, Rewind PROVE ScanIInv'
<1>1. /\ contents \in Seq(Character) /\ sent \in Seq(Character)
      /\ Len(contents) \in Nat /\ Len(sent) \in Nat
  BY LenProperties DEF ScanIInv, ScanTypeOK
<1>2. PICK e : Embeds(e, sent, contents)
  BY DEF ScanIInv, Reached
<1>3. e[0] = 0
  BY <1>1, <1>2, EmbedsBounds
<1>4. /\ words' = <<>> /\ gaveUp' = FALSE /\ place' = 0
      /\ UNCHANGED <<mode, binary, contents, fsize, wanted, items, sent>>
  BY DEF Rewind
<1>5. ScanTypeOK'
  <2>1. words' \in Seq(Seq(Letter)) /\ place' \in 0 .. Len(contents')
    BY <1>1, <1>4, EmptyTyped
  <2>2. ScanTypeOK
    BY DEF ScanIInv
  <2> QED BY ONLY <2>1, <2>2, <1>4 DEF ScanTypeOK
<1>6. OutsideWord(sent, 0) /\ GivenBack(<<>>, sent, 0)
  BY <1>1, NothingReadYet
<1>7. Reached(e, 0, 0)'
  BY <1>2, <1>3, <1>4, <1>6 DEF Reached
<1>8. 0 \in 0 .. Len(sent') /\ 0 \in 0 .. 0
  BY <1>1, <1>4
<1> QED BY <1>4, <1>5, <1>7, <1>8 DEF ScanIInv

\* Closing, and starting to read, move nothing.
LEMMA IdleStep ==
  ASSUME ScanIInv, CloseText \/ \E n \in Specifiers : FScanf(n)
  PROVE  ScanIInv'
<1>1. PICK e : \E f \in 0 .. Len(sent) : \E m \in 0 .. f : Reached(e, f, m)
  BY DEF ScanIInv
<1>2. PICK f \in 0 .. Len(sent) : \E m \in 0 .. f : Reached(e, f, m)
  BY <1>1
<1>3. PICK m \in 0 .. f : Reached(e, f, m)
  BY <1>2
<1>4. CASE CloseText
  <2>1. mode' = "closed"
        /\ UNCHANGED <<binary, contents, place, fsize, wanted, items, sent, words, gaveUp>>
    BY <1>4 DEF CloseText
  <2>2. ScanTypeOK'
    BY <2>1 DEF ScanIInv, ScanTypeOK
  <2>3. Reached(e, f, m)'
    BY <2>1, <1>3 DEF Reached
  <2>4. sent' = sent
    BY <2>1
  <2> QED BY <2>1, <2>2, <2>3, <2>4 DEF ScanIInv
<1>5. CASE \E n \in Specifiers : FScanf(n)
  <2>1. PICK n \in Specifiers : FScanf(n)
    BY <1>5
  <2>2. /\ wanted' = n /\ items' = n /\ gaveUp' = FALSE
        /\ contents # <<>> => contents[Len(contents)] = "lf"
        /\ UNCHANGED <<mode, binary, contents, place, fsize, sent, words>>
    BY <2>1 DEF FScanf
  <2>3. n \in Nat /\ n \in 0 .. n
    BY ScanAssumption
  <2>4. ScanTypeOK'
    BY <2>2, <2>3 DEF ScanIInv, ScanTypeOK
  <2>5. Reached(e, f, m)'
    BY <2>2, <1>3 DEF Reached
  <2> QED BY <2>2, <2>4, <2>5 DEF ScanIInv
<1> QED BY <1>4, <1>5

LEMMA FPutsStep == ASSUME ScanIInv, NEW s \in Strings, FPuts(s) PROVE ScanIInv'
<1> DEFINE t == IF binary THEN s ELSE Translated(s)
<1>1. PICK e : \E f \in 0 .. Len(sent) : \E m \in 0 .. f : Reached(e, f, m)
  BY DEF ScanIInv
<1>2. PICK f \in 0 .. Len(sent) : \E m \in 0 .. f : Reached(e, f, m)
  BY <1>1
<1>3. PICK m \in 0 .. f : Reached(e, f, m)
  BY <1>2
<1>4. /\ s \in Seq(Character) /\ sent \in Seq(Character) /\ contents \in Seq(Character)
      /\ words \in Seq(Seq(Letter))
  BY ScanAssumption DEF ScanIInv, ScanTypeOK
<1>5. PICK h : Embeds(h, s, t) /\ t \in Seq(Character)
  <2>1. CASE binary
    BY <2>1, <1>4, IdentityEmbeds
  <2>2. CASE ~ binary
    BY <2>2, <1>4, TranslatedEmbeds
  <2> QED BY <2>1, <2>2
<1>6. /\ items = 0 /\ mode # "r" /\ mode' = mode /\ items' = items /\ wanted' = wanted
      /\ fsize' = fsize /\ binary' = binary /\ words' = words /\ gaveUp' = gaveUp
      /\ contents' = contents \o t /\ sent' = sent \o s /\ place' = Len(contents')
      /\ Len(sent) + Len(s) <= MaxText
  BY DEF FPuts, Idle
<1> HIDE DEF t
<1>7. PICK g : Embeds(g, sent \o s, contents \o t)
  BY <1>3, <1>4, <1>5, EmbedsAppend DEF Reached
<1>8. /\ Len(sent) \in Nat /\ Len(s) \in Nat /\ Len(contents') \in Nat /\ Len(sent') \in Nat
      /\ sent' \in Seq(Character) /\ contents' \in Seq(Character)
      /\ Len(sent') = Len(sent) + Len(s)
  <2>1. sent \o s \in Seq(Character) /\ contents \o t \in Seq(Character)
    BY <1>4, <1>5
  <2>2. Len(sent \o s) = Len(sent) + Len(s)
    BY <1>4
  <2> QED BY <2>1, <2>2, <1>4, <1>6, LenProperties
<1>9. ScanTypeOK'
  BY <1>6, <1>8 DEF ScanIInv, ScanTypeOK
<1>10. g[Len(sent')] = Len(contents') /\ OutsideWord(sent', Len(sent'))
  <2>1. Embeds(g, sent', contents')
    BY <1>6, <1>7
  <2>2. g[Len(sent')] = Len(contents')
    BY <2>1, <1>8, EmbedsBounds
  <2> QED BY <2>2, <1>8, NothingReadYet
<1>11. m \in 0 .. Len(sent) /\ m \in 0 .. Len(sent') /\ Len(sent') \in 0 .. Len(sent')
  BY <1>8
<1>12. GivenBack(words', sent', m)
  BY <1>3, <1>4, <1>6, <1>11, TextGrows DEF Reached
<1>13. Reached(g, Len(sent), m)'
  BY <1>6, <1>7, <1>10, <1>12 DEF Reached
<1> QED BY <1>6, <1>9, <1>11, <1>13 DEF ScanIInv

\* Where the searches of Word and NoWord stop.
LEMMA Searches ==
  ASSUME ScanTypeOK
  PROVE  /\ Len(contents) \in Nat
         /\ WordFrom \in place .. Len(contents)
         /\ \A p \in place + 1 .. WordFrom : contents[p] \in {"blank", "tab"}
         /\ WordFrom < Len(contents) => contents[WordFrom + 1] \notin {"blank", "tab"}
         /\ TokenTo \in WordFrom .. Len(contents)
         /\ \A p \in WordFrom + 1 .. TokenTo : contents[p] \in Letter \union {"tab"}
         /\ TokenTo < Len(contents) =>
              contents[TokenTo + 1] \in {"blank", "comma", "cr", "lf"}
         /\ WordTo \in WordFrom .. TokenTo
         /\ \A p \in WordFrom + 1 .. WordTo : contents[p] \in Letter
         /\ WordTo < Len(contents) => contents[WordTo + 1] \notin Letter
         /\ WordFrom < TokenTo => WordFrom < WordTo
<1>1. contents \in Seq(Character) /\ Len(contents) \in Nat /\ place \in 0 .. Len(contents)
      /\ \A p \in 1 .. Len(contents) : contents[p] \in Character
  BY LenProperties, ElementOfSeq DEF ScanTypeOK
<1> DEFINE C == Character \ {"blank", "tab"}
           D == {"blank", "comma", "cr", "lf"}
           E == Character \ Letter
<1>2. /\ WordFrom \in place .. Len(contents)
      /\ \A k \in place + 1 .. WordFrom : contents[k] \notin C
      /\ WordFrom < Len(contents) => contents[WordFrom + 1] \in C
  <2> HIDE DEF C
  <2> QED BY <1>1, BeforeIs DEF WordFrom, C
<1>3. WordFrom \in 0 .. Len(contents)
  BY <1>1, <1>2
<1>4. /\ TokenTo \in WordFrom .. Len(contents)
      /\ \A k \in WordFrom + 1 .. TokenTo : contents[k] \notin D
      /\ TokenTo < Len(contents) => contents[TokenTo + 1] \in D
  <2> HIDE DEF D
  <2> QED BY <1>1, <1>3, BeforeIs DEF TokenTo, D
<1>5. \A p \in place + 1 .. WordFrom : p \in 1 .. Len(contents)
  BY <1>1, <1>2
<1>6. \A p \in WordFrom + 1 .. Len(contents) : p \in 1 .. Len(contents)
  BY <1>1, <1>3
<1>7. \A p \in place + 1 .. WordFrom : contents[p] \in {"blank", "tab"}
  BY <1>1, <1>2, <1>5
<1>8. \A p \in WordFrom + 1 .. TokenTo : contents[p] \in Letter \union {"tab"}
  <2>1. \A p \in WordFrom + 1 .. TokenTo : p \in WordFrom + 1 .. Len(contents)
    BY <1>1, <1>3, <1>4
  <2> QED BY <2>1, <1>1, <1>4, <1>6 DEF Character
<1>9. /\ WordTo \in WordFrom .. Len(contents)
      /\ \A k \in WordFrom + 1 .. WordTo : contents[k] \notin E
      /\ WordTo < Len(contents) => contents[WordTo + 1] \in E
  <2> HIDE DEF E
  <2> QED BY <1>1, <1>3, BeforeIs DEF WordTo, E
<1>10. \A p \in WordFrom + 1 .. WordTo : contents[p] \in Letter
  <2>1. \A p \in WordFrom + 1 .. WordTo : p \in WordFrom + 1 .. Len(contents)
    BY <1>1, <1>3, <1>9
  <2> QED BY <2>1, <1>1, <1>6, <1>9
<1>11. WordTo =< TokenTo
  <2> SUFFICES ASSUME TokenTo < WordTo PROVE FALSE
    BY <1>1, <1>3, <1>4, <1>9
  <2>1. TokenTo + 1 \in WordFrom + 1 .. WordTo /\ TokenTo < Len(contents)
    BY <1>1, <1>3, <1>4, <1>9
  <2> QED BY <2>1, <1>4, <1>10 DEF Letter
<1>12. WordFrom < TokenTo => WordFrom < WordTo
  <2> SUFFICES ASSUME WordFrom < TokenTo, WordTo = WordFrom PROVE FALSE
    BY <1>3, <1>1, <1>9
  <2>1. WordFrom + 1 \in WordFrom + 1 .. TokenTo /\ WordFrom < Len(contents)
    BY <1>1, <1>3, <1>4
  <2>2. contents[WordFrom + 1] \in Letter
    BY <2>1, <1>2, <1>8
  <2> QED BY <2>1, <2>2, <1>9
<1> QED BY <1>1, <1>2, <1>3, <1>4, <1>7, <1>8, <1>9, <1>10, <1>11, <1>12

LEMMA WordStep == ASSUME ScanIInv, Word PROVE ScanIInv'
<1>1. PICK e : \E f \in 0 .. Len(sent) : \E m \in 0 .. f : Reached(e, f, m)
  BY DEF ScanIInv
<1>2. PICK f \in 0 .. Len(sent) : \E m \in 0 .. f : Reached(e, f, m)
  BY <1>1
<1>3. PICK m \in 0 .. f : Reached(e, f, m)
  BY <1>2
<1>4. /\ sent \in Seq(Character) /\ contents \in Seq(Character)
      /\ words \in Seq(Seq(Letter)) /\ place \in 0 .. Len(contents)
      /\ items \in 0 .. wanted /\ wanted \in Nat /\ items \in Nat
  BY ScanAssumption DEF ScanIInv, ScanTypeOK
<1> DEFINE b == WordFrom
           h == WordTo
           d == TokenTo
           w == SubSeq(contents, b + 1, h)
<1>5. /\ items > 0 /\ ~ gaveUp /\ b < d /\ place' = d /\ items' = items - 1
      /\ words' = Append(words, w)
      /\ UNCHANGED <<mode, binary, contents, fsize, wanted, sent, gaveUp>>
  BY DEF Word
<1>6. /\ Len(contents) \in Nat /\ b \in place .. Len(contents) /\ d \in b .. Len(contents)
      /\ \A p \in place + 1 .. b : contents[p] \in {"blank", "tab"}
      /\ \A p \in b + 1 .. d : contents[p] \in Letter \union {"tab"}
      /\ d < Len(contents) => contents[d + 1] \in {"blank", "comma", "cr", "lf"}
      /\ h \in b + 1 .. d
      /\ \A p \in b + 1 .. h : contents[p] \in Letter
      /\ h < Len(contents) => contents[h + 1] \notin Letter
  <2>1. /\ b \in Int /\ h \in b .. d /\ (b < d => b < h)
    BY <1>4, Searches DEF ScanIInv
  <2>2. h \in b + 1 .. d
    BY <2>1, <1>5
  <2> QED BY <2>2, Searches DEF ScanIInv
<1> HIDE DEF b, h, d, w
<1>7. /\ d < Len(contents) /\ contents[d + 1] \notin Letter \union {"tab"}
      /\ d \in b + 1 .. Len(contents) /\ contents[h + 1] \notin Letter
  <2>1. d > 0 /\ contents[d] \in Letter \union {"tab"}
    <3>1. d \in b + 1 .. d /\ d > 0
      BY <1>4, <1>5, <1>6
    <3> QED BY <3>1, <1>6
  <2>2. contents # <<>>
    <3>1. contents = <<>> => Len(contents) = 0
      OBVIOUS
    <3> QED BY <3>1, <2>1, <1>4, <1>6
  <2>3. contents[Len(contents)] = "lf"
    BY <2>2, <1>5 DEF ScanIInv
  <2>4. d # Len(contents)
    BY <2>1, <2>3 DEF Letter
  <2> QED BY <2>4, <1>4, <1>5, <1>6 DEF Letter
<1>8. m = f
  <2>1. e[Len(sent)] = Len(contents)
    BY <1>3, <1>4, EmbedsBounds DEF Reached
  <2>2. place < Len(contents)
    BY <1>4, <1>6, <1>7
  <2> QED BY <2>1, <2>2, <1>3, <1>4, <1>6 DEF Reached
<1>9. /\ Embeds(e, sent, contents) /\ e[f] = place /\ OutsideWord(sent, f)
      /\ GivenBack(words, sent, f) /\ place \in Nat
  BY <1>3, <1>4, <1>8 DEF Reached
<1>10. ReadOn(sent, e, f, d, words, w)
  <2>1. w = SubSeq(contents, b + 1, h)
    BY DEF w
  <2> QED BY ONLY <2>1, <1>4, <1>6, <1>7, <1>9, f \in 0 .. Len(sent), NextWord
<1>11. PICK g \in f .. Len(sent) :
         e[g] = d /\ OutsideWord(sent, g) /\ GivenBack(words', sent, g)
  BY <1>5, <1>10 DEF ReadOn
<1>12. g \in 0 .. Len(sent) /\ g \in 0 .. g
  BY <1>4
<1>13. Reached(e, g, g)'
  BY <1>5, <1>9, <1>11 DEF Reached
<1>14. ScanTypeOK'
  <2>1. words' \in Seq(Seq(Letter)) /\ place' \in 0 .. Len(contents') /\ items' \in 0 .. wanted'
    BY <1>4, <1>5, <1>6, <1>7, <1>10 DEF ReadOn
  <2> QED BY <2>1, <1>5 DEF ScanIInv, ScanTypeOK
<1>15. items' > 0 => items > 0
  BY <1>5
<1> QED BY <1>5, <1>12, <1>13, <1>14, <1>15 DEF ScanIInv

LEMMA NoWordStep == ASSUME ScanIInv, NoWord PROVE ScanIInv'
<1>1. PICK e : \E f \in 0 .. Len(sent) : \E m \in 0 .. f : Reached(e, f, m)
  BY DEF ScanIInv
<1>2. PICK f \in 0 .. Len(sent) : \E m \in 0 .. f : Reached(e, f, m)
  BY <1>1
<1>3. PICK m \in 0 .. f : Reached(e, f, m)
  BY <1>2
<1>4. /\ sent \in Seq(Character) /\ contents \in Seq(Character)
      /\ place \in 0 .. Len(contents) /\ place \in Nat
      /\ items \in 0 .. wanted /\ wanted \in Nat /\ items \in Nat
      /\ Len(contents) \in Nat /\ Len(sent) \in Nat
  BY ScanAssumption, LenProperties DEF ScanIInv, ScanTypeOK
<1> DEFINE b == WordFrom
           q == Before({"lf"}, place)
<1>5. /\ items > 0 /\ ~ gaveUp /\ place' = NextLine
      /\ items' \in {items, 0}
      /\ gaveUp' => AtEnd(NextLine)
      /\ UNCHANGED <<mode, binary, contents, fsize, wanted, sent, words>>
  BY DEF NoWord
<1>6. /\ b \in place .. Len(contents)
      /\ \A p \in place + 1 .. b : contents[p] \in {"blank", "tab"}
      /\ b < Len(contents) => contents[b + 1] \in {"comma", "cr", "lf"}
  <2>1. b = TokenTo
    BY DEF NoWord
  <2> QED BY <2>1, Searches DEF ScanIInv
<1>7. /\ q \in place .. Len(contents)
      /\ \A p \in place + 1 .. q : contents[p] # "lf"
      /\ q < Len(contents) => contents[q + 1] = "lf"
  <2>1. /\ q \in place .. Len(contents)
        /\ \A p \in place + 1 .. q : contents[p] \notin {"lf"}
        /\ q < Len(contents) => contents[q + 1] \in {"lf"}
    BY <1>4, BeforeIs
  <2> HIDE DEF q
  <2> QED BY <2>1
<1>8. NextLine = IF q = Len(contents) THEN q ELSE q + 1
  BY DEF NextLine
<1> HIDE DEF b, q
<1>9. e[Len(sent)] = Len(contents) /\ \A i, j \in 0 .. Len(sent) : e[i] = e[j] => i = j
  BY <1>3, <1>4, EmbedsBounds DEF Reached
<1>10. PICK g \in f .. Len(sent) : \E n \in 0 .. g :
         /\ e[g] = NextLine /\ OutsideWord(sent, g)
         /\ GivenBack(words, sent, n)
         /\ n = g \/ (g = Len(sent) /\ mode # "r")
  <2>1. CASE place = Len(contents)
    <3>1. NextLine = place
      BY <2>1, <1>4, <1>7, <1>8
    <3>2. f \in f .. Len(sent)
      BY <1>4
    <3> QED BY <3>1, <3>2, <1>3 DEF Reached
  <2>2. CASE place < Len(contents)
    <3>1. m = f
      BY <2>2, <1>3, <1>4, <1>9 DEF Reached
    <3>2. q < Len(contents) /\ contents[q + 1] = "lf" /\ q \in place .. Len(contents) - 1
      <4>1. contents # <<>>
        <5>1. contents = <<>> => Len(contents) = 0
          OBVIOUS
        <5> QED BY <5>1, <2>2, <1>4
      <4>2. contents[Len(contents)] = "lf"
        BY <4>1, <1>5 DEF ScanIInv
      <4>3. q # Len(contents)
        <5>1. q = Len(contents) => Len(contents) \in place + 1 .. q
          BY <2>2, <1>4
        <5> QED BY <5>1, <4>2, <1>7
      <4> QED BY <4>3, <1>4, <1>7
    <3>3. /\ Embeds(e, sent, contents) /\ e[f] = place /\ GivenBack(words, sent, f)
      BY <3>1, <1>3 DEF Reached
    <3>4. PICK g \in f .. Len(sent) :
            e[g] = q + 1 /\ OutsideWord(sent, g) /\ Begun(sent, g) = Begun(sent, f)
      BY ONLY <3>2, <3>3, <1>4, <1>6, <1>7, f \in 0 .. Len(sent), NoWordBefore, SMTT(60)
    <3>5. GivenBack(words, sent, g)
      BY <3>3, <3>4 DEF GivenBack
    <3>6. NextLine = q + 1
      BY <3>2, <1>4, <1>8
    <3>7. g \in 0 .. g
      BY <1>4
    <3> QED BY <3>4, <3>5, <3>6, <3>7
  <2> QED BY <2>1, <2>2, <1>4
<1>11. PICK n \in 0 .. g :
         /\ e[g] = NextLine /\ OutsideWord(sent, g)
         /\ GivenBack(words, sent, n)
         /\ n = g \/ (g = Len(sent) /\ mode # "r")
  BY <1>10
<1>12. g \in 0 .. Len(sent) /\ NextLine \in 0 .. Len(contents)
  <2>1. NextLine \in 0 .. Len(contents)
    BY <1>4, <1>7, <1>8
  <2> QED BY <2>1, <1>4
<1>13. mode = "r" /\ gaveUp' => g = Len(sent)
  <2> SUFFICES ASSUME mode = "r", gaveUp' PROVE g = Len(sent)
    OBVIOUS
  <2>1. fsize = Len(contents)
    BY DEF ScanIInv
  <2>2. NextLine = Len(contents)
    BY <2>1, <1>4, <1>5, <1>12 DEF AtEnd
  <2>3. Len(sent) \in 0 .. Len(sent)
    BY <1>4
  <2> QED BY <2>2, <2>3, <1>9, <1>11, <1>12
<1>14. Reached(e, g, n)'
  BY <1>3, <1>5, <1>11, <1>13 DEF Reached
<1>15. ScanTypeOK'
  <2>1. place' \in 0 .. Len(contents') /\ items' \in 0 .. wanted' /\ gaveUp' \in BOOLEAN
    <3>1. gaveUp' \in BOOLEAN
      BY DEF NoWord, ScanIInv, ScanTypeOK
    <3> QED BY <3>1, <1>4, <1>5, <1>12
  <2> QED BY <2>1, <1>5 DEF ScanIInv, ScanTypeOK
<1>16. items' > 0 => items > 0
  BY <1>5
<1> QED BY <1>5, <1>12, <1>14, <1>15, <1>16 DEF ScanIInv

LEMMA ScanInductive == ScanIInv /\ [ScanNext]_scanVars => ScanIInv'
<1> SUFFICES ASSUME ScanIInv, [ScanNext]_scanVars PROVE ScanIInv'
  OBVIOUS
<1>1. CASE ScanNext
  BY <1>1, OpenStep, RewindStep, IdleStep, FPutsStep, WordStep, NoWordStep DEF ScanNext
<1>2. CASE UNCHANGED scanVars
  <2>1. UNCHANGED <<mode, binary, contents, place, fsize, wanted, items, sent, words, gaveUp>>
    BY <1>2 DEF scanVars
  <2>2. ScanTypeOK'
    BY <2>1 DEF ScanIInv, ScanTypeOK
  <2>3. \E e : \E f \in 0 .. Len(sent') : \E m \in 0 .. f : Reached(e, f, m)'
    BY <2>1 DEF ScanIInv, Reached
  <2>4. (items' > 0 /\ contents' # <<>> => contents'[Len(contents')] = "lf")
        /\ (mode' = "r" => fsize' = Len(contents'))
    BY <2>1 DEF ScanIInv
  <2> QED BY ONLY <2>2, <2>3, <2>4 DEF ScanIInv
<1> QED BY <1>1, <1>2

\* The words of the properties are those of the invariant.
Visible == NotBehindComma \cap NotBehindTab

LEMMA StartsAre == sent \in Seq(Character) => Starts(Visible) = StartsOf(sent)
BY DEF Starts, Visible, NotBehindComma, NotBehindTab, StartsOf

LEMMA EndedWordIs ==
  ASSUME NEW w \in Seq(Letter), NEW i \in Nat, sent \in Seq(Character), EndedWord(w, sent, i)
  PROVE  IsWord(w, i)
<1>1. Len(w) \in Nat /\ Len(sent) \in Nat
  BY LenProperties
<1> QED BY <1>1 DEF EndedWord, IsWord

LEMMA ReadWordsAreWritten == ScanIInv => RoundTrip
<1> SUFFICES ASSUME ScanIInv PROVE RoundTrip
  OBVIOUS
<1>1. PICK e : \E f \in 0 .. Len(sent) : \E m \in 0 .. f : Reached(e, f, m)
  BY DEF ScanIInv
<1>2. PICK f \in 0 .. Len(sent) : \E m \in 0 .. f : Reached(e, f, m)
  BY <1>1
<1>3. PICK m \in 0 .. f : Reached(e, f, m)
  BY <1>2
<1>4. sent \in Seq(Character) /\ words \in Seq(Seq(Letter)) /\ Len(sent) \in Nat
  BY LenProperties DEF ScanIInv, ScanTypeOK
<1>5. Starts(Visible) = StartsOf(sent)
  BY <1>4, StartsAre
<1>6. /\ Len(words) = Cardinality(Begun(sent, m))
      /\ \A n \in 1 .. Len(words) : \E i \in Begun(sent, m) :
           EndedWord(words[n], sent, i) /\ Cardinality(Begun(sent, i)) = n
  BY <1>3 DEF Reached, GivenBack
<1>7. ASSUME NEW n \in 1 .. Len(words)
      PROVE  \E i \in StartsOf(sent) :
               /\ IsWord(words[n], i)
               /\ Cardinality({k \in StartsOf(sent) : k <= i}) = n
  <2>1. PICK i \in Begun(sent, m) :
          EndedWord(words[n], sent, i) /\ Cardinality(Begun(sent, i)) = n
    BY <1>6
  <2>2. i \in StartsOf(sent) /\ i \in Nat
    BY DEF Begun, StartsOf
  <2>3. words[n] \in Seq(Letter)
    BY <1>4, ElementOfSeq
  <2>4. IsWord(words[n], i)
    BY <2>1, <2>2, <2>3, <1>4, EndedWordIs
  <2> QED BY <2>1, <2>2, <2>4 DEF Begun
<1>8. ComesBack(Visible)
  BY <1>5, <1>7 DEF ComesBack
<1>9. mode = "r" /\ gaveUp => Len(words) = Cardinality(Starts(Visible))
  <2> SUFFICES ASSUME mode = "r", gaveUp PROVE Len(words) = Cardinality(StartsOf(sent))
    BY <1>5
  <2>1. m = Len(sent)
    BY <1>3 DEF Reached
  <2>2. \A i \in StartsOf(sent) : i =< Len(sent)
    BY <1>4 DEF StartsOf
  <2>3. Begun(sent, m) = StartsOf(sent)
    BY <2>1, <2>2 DEF Begun
  <2> QED BY <2>3, <1>6
<1> QED BY <1>8, <1>9 DEF RoundTrip, Visible

\* What vm_file_fputs wrote comes back from vm_file_fscanf, in text and binary
\* files, in every order of writing, reading, rewinding, closing and opening
\* again: the words read are the first ones written that have no comma before
\* them on their line and that no tab joins to a word before them, each once,
\* whole and in order, and a file that was opened to be read gives all of them
\* before it is given up.
THEOREM WordsComeBack == ScanSpec => []RoundTrip
<1>1. ScanInit => ScanIInv
  BY ScanInitially
<1>2. ScanIInv /\ [ScanNext]_scanVars => ScanIInv'
  BY ScanInductive
<1>3. ScanIInv => RoundTrip
  BY ReadWordsAreWritten
<1> QED BY <1>1, <1>2, <1>3, PTL DEF ScanSpec

\* The types of the text file.
THEOREM ScanTypeCorrect == ScanSpec => []ScanTypeOK
<1>1. ScanInit => ScanIInv
  BY ScanInitially
<1>2. ScanIInv /\ [ScanNext]_scanVars => ScanIInv'
  BY ScanInductive
<1>3. ScanIInv => ScanTypeOK
  BY DEF ScanIInv
<1> QED BY <1>1, <1>2, <1>3, PTL DEF ScanSpec

\* Nobody has written a comma or a carriage return.
NoCommaSent == \A k \in 1 .. Len(sent) : sent[k] \notin {"comma", "cr"}

\* What the comment of gettoken says of commas is wrong only where there are
\* commas: to callers that write none every word comes back that no tab joins to
\* the word before it.
THEOREM WithoutCommas ==
  ASSUME \A s \in Strings : \A k \in 1 .. Len(s) : s[k] \notin {"comma", "cr"}
  PROVE  ScanSpec => []CommaDelimits
<1>1. ScanInit => ScanIInv /\ NoCommaSent
  <2>1. ScanInit => NoCommaSent
    BY EmptyTyped DEF ScanInit, NoCommaSent
  <2> QED BY <2>1, ScanInitially
<1>2. ScanIInv /\ NoCommaSent /\ [ScanNext]_scanVars => ScanIInv' /\ NoCommaSent'
  <2> SUFFICES ASSUME ScanIInv, NoCommaSent, [ScanNext]_scanVars PROVE NoCommaSent'
    BY ScanInductive
  <2>1. sent' \in {sent, <<>>} \/ \E s \in Strings : sent' = sent \o s
    BY DEF ScanNext, scanVars, OpenText, CloseText, Rewind, FPuts, FScanf, Word, NoWord
  <2>2. CASE sent' \in {sent, <<>>}
    BY <2>2, EmptyTyped DEF NoCommaSent
  <2>3. CASE \E s \in Strings : sent' = sent \o s
    <3>1. PICK s \in Strings : sent' = sent \o s
      BY <2>3
    <3>2. s \in Seq(Character) /\ sent \in Seq(Character)
      BY ScanAssumption DEF ScanIInv, ScanTypeOK
    <3>3. /\ Len(s) \in Nat /\ Len(sent) \in Nat /\ Len(sent') = Len(sent) + Len(s)
          /\ \A k \in 1 .. Len(sent) : sent'[k] = sent[k]
          /\ \A k \in 1 .. Len(s) : sent'[Len(sent) + k] = s[k]
      BY <3>1, <3>2, LenProperties
    <3>4. ASSUME NEW k \in 1 .. Len(sent') PROVE sent'[k] \notin {"comma", "cr"}
      <4>1. CASE k \in 1 .. Len(sent)
        BY <4>1, <3>3 DEF NoCommaSent
      <4>2. CASE k - Len(sent) \in 1 .. Len(s)
        <5>1. k = Len(sent) + (k - Len(sent))
          BY <3>3
        <5> QED BY <5>1, <4>2, <3>3
      <4> QED BY <4>1, <4>2, <3>3
    <3> QED BY <3>4 DEF NoCommaSent
  <2> QED BY <2>1, <2>2, <2>3
<1>3. ScanIInv /\ NoCommaSent => CommaDelimits
  <2> SUFFICES ASSUME ScanIInv, NoCommaSent PROVE CommaDelimits
    OBVIOUS
  <2>1. NotBehindComma \cap NotBehindTab = NotBehindTab
    <3>1. Len(sent) \in Nat
      BY LenProperties DEF ScanIInv, ScanTypeOK
    <3> QED BY <3>1 DEF NotBehindComma, NotBehindTab, NoCommaSent
  <2> QED BY <2>1, ReadWordsAreWritten DEF RoundTrip, CommaDelimits
<1> QED BY <1>1, <1>2, <1>3, PTL DEF ScanSpec
=============================================================================
