--------------------------- MODULE VmSocketProofs ---------------------------
(***************************************************************************)
(* Proofs about VmSocket and VmSocketWin32 for any array of sockets, any   *)
(* length of the channel table and any masks.  The argument: a descriptor  *)
(* has one channel (DescriptorsOwned), so clearing the bit of a reported   *)
(* channel clears no other channel's, and a channel that select found      *)
(* ready keeps its bit until it is reported or closed (BitsKept).  It      *)
(* needs no more of the descriptors than that only free ones are given     *)
(* out, so it serves both systems.  For Winsock, the sockets that are      *)
(* still to be closed are counted.                                         *)
(***************************************************************************)
EXTENDS VmSocketWin32, FiniteSetTheorems, TLAPS

BitsKept ==
  /\ ~iterating => signalled = {}
  /\ \A c \in Channel :
       /\ <<c, "READ">> \in signalled => IsOpen(c) /\ chns[c] \in r_set
       /\ <<c, "WRITE">> \in signalled => IsOpen(c) /\ chns[c] \in w_set

IInv == SocketTypeOK /\ DescriptorsOwned /\ BitsKept

\* What the steps of both systems have in common: a closed channel gets a
\* descriptor that is not open, and channels are closed.
Opens(c, d) ==
  /\ ~IsOpen(c) /\ d \in Descriptor \ open
  /\ chns' = [chns EXCEPT ![c] = d]
  /\ open' = open \union {d}

Closes(S) ==
  /\ open' = open \ {chns[c] : c \in S}
  /\ chns' = [c \in Channel |-> IF c \in S THEN -1 ELSE chns[c]]
  /\ signalled' = {s \in signalled : s[1] \notin S}
  /\ UNCHANGED <<flags, r_set, w_set, iterating, at>>

-----------------------------------------------------------------------------
LEMMA DescriptorAdded ==
  ASSUME SocketTypeOK, DescriptorsOwned, NEW chn \in Channel, NEW d, Opens(chn, d)
  PROVE  DescriptorsOwned'
<1>0. /\ ~IsOpen(chn) /\ d \in Descriptor \ open
      /\ chns' = [chns EXCEPT ![chn] = d] /\ open' = open \union {d}
  BY DEF Opens
<1>1. d >= 0 /\ \A c \in Channel : chns'[c] = IF c = chn THEN d ELSE chns[c]
  BY <1>0, SocketAssumption DEF SocketTypeOK
<1>2. \A c \in Channel : (IsOpen(c))' <=> c = chn \/ IsOpen(c)
  BY <1>1 DEF IsOpen
<1>3. open' = {chns'[c] : c \in {e \in Channel : (IsOpen(e))'}}
  BY <1>0, <1>1, <1>2 DEF DescriptorsOwned
<1>4. \A c, e \in Channel : (IsOpen(c))' /\ chns'[c] = chns'[e] => c = e
  <2>1. \A c \in Channel : IsOpen(c) => chns[c] # d
    BY <1>0 DEF DescriptorsOwned
  <2>2. \A c \in Channel : ~IsOpen(c) => chns[c] # d
    BY <1>1 DEF IsOpen
  <2> QED BY <1>0, <1>1, <1>2, <2>1, <2>2 DEF DescriptorsOwned
<1> QED BY <1>3, <1>4 DEF DescriptorsOwned, IsOpen

LEMMA DescriptorsRemoved ==
  ASSUME SocketTypeOK, DescriptorsOwned, NEW S \in SUBSET Channel, Closes(S)
  PROVE  DescriptorsOwned'
<1>1. \A c \in Channel : (IsOpen(c))' <=> IsOpen(c) /\ c \notin S
  BY DEF Closes, IsOpen
<1>2. \A c \in Channel : c \notin S => chns'[c] = chns[c]
  BY DEF Closes
<1>3. \A c, e \in Channel : (IsOpen(c))' /\ chns'[c] = chns'[e] => c = e
  <2> SUFFICES ASSUME NEW c \in Channel, NEW e \in Channel,
                      (IsOpen(c))', chns'[c] = chns'[e]
               PROVE  c = e
    OBVIOUS
  <2>1. (IsOpen(e))'
    BY DEF IsOpen
  <2> QED BY <1>1, <1>2, <2>1 DEF DescriptorsOwned
<1>4. open' = {chns'[c] : c \in {e \in Channel : (IsOpen(e))'}}
  <2>1. \A c \in Channel : IsOpen(c) /\ c \notin S => chns[c] \notin {chns[e] : e \in S}
    BY DEF DescriptorsOwned
  <2>2. ASSUME NEW x \in open' PROVE \E c \in Channel : (IsOpen(c))' /\ x = chns'[c]
    BY <1>1, <1>2 DEF DescriptorsOwned, Closes
  <2>3. ASSUME NEW c \in Channel, (IsOpen(c))' PROVE chns'[c] \in open'
    BY <1>1, <1>2, <2>1, <2>3 DEF DescriptorsOwned, Closes
  <2> QED BY <2>2, <2>3
<1> QED BY <1>3, <1>4 DEF DescriptorsOwned, IsOpen

-----------------------------------------------------------------------------
LEMMA InitialiseStep ==
  ASSUME IInv, NEW h \in Socket, NEW f \in Flags, Initialise(h, f),
         usable' \subseteq Socket,
         UNCHANGED <<chns, open>> \/ \E d \in Descriptor : Opens(<<h, 0>>, d)
  PROVE  IInv'
<1> USE DEF IInv
<1>1. signalled = {} /\ signalled' = {}
  BY DEF Initialise, BitsKept
<1>2. BitsKept'
  BY <1>1 DEF Initialise, BitsKept
<1>3. CASE UNCHANGED <<chns, open>>
  <2>1. SocketTypeOK'
    BY <1>3 DEF SocketTypeOK, Initialise
  <2>2. DescriptorsOwned'
    BY <1>3 DEF DescriptorsOwned, IsOpen
  <2> QED BY <1>2, <2>1, <2>2
<1>4. ASSUME NEW d \in Descriptor, Opens(<<h, 0>>, d)
      PROVE  IInv'
  <2>1. <<h, 0>> \in Channel
    BY SocketAssumption DEF Channel
  <2>2. DescriptorsOwned'
    BY <1>4, <2>1, DescriptorAdded
  <2>3. SocketTypeOK'
    BY <1>4, <2>1 DEF SocketTypeOK, Initialise, Opens
  <2> QED BY <1>2, <2>2, <2>3
<1> QED BY <1>3, <1>4

LEMMA SelectStep ==
  ASSUME IInv, NEW masks \in Masks,
         SelectNone(masks) \/ \E r \in SUBSET ToRead(masks), w \in SUBSET ToWrite(masks) :
                                Select(masks, r, w)
  PROVE  IInv'
<1> USE DEF IInv
<1>1. \A c \in ToRead(masks) \union ToWrite(masks) : c \in Channel /\ IsOpen(c)
  BY DEF ToRead, ToWrite, Considered
<1>2. \A c \in Channel : IsOpen(c) => chns[c] \in Descriptor
  BY DEF SocketTypeOK, IsOpen
<1>3. DescriptorsOwned'
  BY DEF SelectNone, Select, DescriptorsOwned, IsOpen
<1>4. CASE SelectNone(masks)
  <2>1. SocketTypeOK'
    BY <1>1, <1>2, <1>4 DEF SelectNone, SocketTypeOK
  <2>2. BitsKept'
    BY <1>4 DEF SelectNone, MaySelect, BitsKept
  <2> QED BY <1>3, <2>1, <2>2
<1>5. ASSUME NEW r \in SUBSET ToRead(masks), NEW w \in SUBSET ToWrite(masks),
             Select(masks, r, w)
      PROVE  IInv'
  <2>1. SocketTypeOK'
    BY <1>1, <1>2, <1>5 DEF Select, SocketTypeOK
  <2>2. BitsKept'
    BY <1>1, <1>5 DEF Select, BitsKept, IsOpen
  <2> QED BY <1>3, <2>1, <2>2
<1> QED BY <1>4, <1>5

\* Only the bit of the reported channel goes, and its entry in signalled.
LEMMA ReportStep ==
  ASSUME IInv, NEW c \in Channel, NEW dir \in {"READ", "WRITE"}, Report(c, dir)
  PROVE  IInv'
<1> USE DEF IInv, Report
<1>1. SocketTypeOK'
  BY DEF SocketTypeOK
<1>2. DescriptorsOwned'
  BY DEF DescriptorsOwned, IsOpen
<1>3. IsOpen(c) /\ \A e \in Channel : e # c => chns[e] # chns[c]
  BY DEF Pending, DescriptorsOwned
<1>4. \A e \in Channel : (IsOpen(e))' <=> IsOpen(e)
  BY DEF IsOpen
<1>5. BitsKept'
  <2> SUFFICES ASSUME NEW e \in Channel
               PROVE  /\ <<e, "READ">> \in signalled' => IsOpen(e) /\ chns[e] \in r_set'
                      /\ <<e, "WRITE">> \in signalled' => IsOpen(e) /\ chns[e] \in w_set'
    BY <1>4 DEF BitsKept
  <2> QED BY <1>3 DEF BitsKept
<1> QED BY <1>1, <1>2, <1>5

\* Without a bit left there is nothing left to report.
LEMMA NextDoneStep ==
  ASSUME IInv, NextDone
  PROVE  IInv' /\ signalled = {}
<1> USE DEF IInv, NextDone
<1>1. \A c \in Channel, dir \in {"READ", "WRITE"} : <<c, dir>> \notin signalled
  BY DEF BitsKept, Pending
<1>2. signalled = {}
  <2> SUFFICES ASSUME NEW s \in signalled PROVE FALSE
    OBVIOUS
  <2>1. s \in Channel \X {"READ", "WRITE"}
    BY DEF SocketTypeOK
  <2>2. PICK c \in Channel, dir \in {"READ", "WRITE"} : s = <<c, dir>>
    BY <2>1
  <2> QED BY <1>1, <2>2
<1>3. SocketTypeOK'
  BY DEF SocketTypeOK
<1>4. DescriptorsOwned'
  BY DEF DescriptorsOwned, IsOpen
<1>5. BitsKept'
  BY <1>2 DEF BitsKept
<1> QED BY <1>2, <1>3, <1>4, <1>5

LEMMA AcceptStep ==
  ASSUME IInv, NEW h \in Socket, NEW j \in 1 .. Queue, NEW d \in Descriptor,
         Opens(<<h, j>>, d),
         UNCHANGED <<flags, r_set, w_set, usable, iterating, at, signalled>>
  PROVE  IInv'
<1> USE DEF IInv
<1>1. <<h, j>> \in Channel
  BY SocketAssumption DEF Channel
<1>2. DescriptorsOwned'
  BY <1>1, DescriptorAdded
<1>3. SocketTypeOK'
  BY <1>1 DEF SocketTypeOK, Opens
<1>4. BitsKept'
  BY <1>1 DEF BitsKept, IsOpen, SocketTypeOK, Opens
<1> QED BY <1>2, <1>3, <1>4

LEMMA CloseStep ==
  ASSUME IInv, NEW S \in SUBSET Channel, Closes(S), usable' \subseteq Socket
  PROVE  IInv'
<1> USE DEF IInv
<1>1. DescriptorsOwned'
  BY DescriptorsRemoved
<1>2. SocketTypeOK'
  BY DEF SocketTypeOK, Closes
<1>3. BitsKept'
  BY DEF BitsKept, Closes, IsOpen
<1> QED BY <1>1, <1>2, <1>3

-----------------------------------------------------------------------------
LEMMA Initially == SocketInit => IInv
<1> SUFFICES ASSUME SocketInit PROVE IInv
  OBVIOUS
<1>1. \A c \in Channel : ~IsOpen(c)
  BY DEF SocketInit, IsOpen
<1>2. SocketTypeOK
  BY DEF SocketInit, SocketTypeOK
<1>3. DescriptorsOwned
  BY <1>1 DEF SocketInit, DescriptorsOwned
<1>4. BitsKept
  BY DEF SocketInit, BitsKept
<1> QED BY <1>2, <1>3, <1>4 DEF IInv

LEMMA Unmoved == IInv /\ UNCHANGED socketVars => IInv'
BY DEF IInv, SocketTypeOK, DescriptorsOwned, BitsKept, IsOpen, socketVars

\* The steps that open and close, on Linux.
LEMMA InitOpens ==
  ASSUME IInv, NEW h \in Socket, NEW f \in Flags, NEW d \in Descriptor, NEW ok \in BOOLEAN,
         InitSocket(h, f, d, ok)
  PROVE  Initialise(h, f) /\ Opens(<<h, 0>>, d) /\ usable' \subseteq Socket
<1>1. <<h, 0>> \in Channel /\ ~IsOpen(<<h, 0>>)
  BY SocketAssumption DEF InitSocket, Initialise, AllClosed, ChannelsOf, Channel
<1> QED BY <1>1 DEF InitSocket, LowestFree, Opens, IInv, SocketTypeOK

LEMMA AcceptOpens ==
  ASSUME NEW h \in Socket, NEW j \in 1 .. Queue, NEW d \in Descriptor, Accept(h, j, d)
  PROVE  /\ Opens(<<h, j>>, d) /\ MayUse(<<h, 0>>)
         /\ UNCHANGED <<flags, r_set, w_set, usable, iterating, at, signalled>>
BY DEF Accept, Opens, LowestFree

LEMMA CloseCloses ==
  ASSUME NEW S, CloseChannels(S)
  PROVE  Closes(S) /\ usable' = usable
BY DEF CloseChannels, Closes

LEMMA Preserved == IInv /\ [SocketNext]_socketVars => IInv'
<1> SUFFICES ASSUME IInv, [SocketNext]_socketVars PROVE IInv'
  OBVIOUS
<1>1. usable \subseteq Socket
  BY DEF IInv, SocketTypeOK
<1>2. ASSUME NEW h \in Socket, NEW f \in Flags,
             InitNoSocket(h, f) \/ \E d \in Descriptor, ok \in BOOLEAN : InitSocket(h, f, d, ok)
      PROVE  IInv'
  <2>1. CASE InitNoSocket(h, f)
    BY <1>1, <2>1, InitialiseStep DEF InitNoSocket
  <2> QED BY <1>2, <2>1, InitOpens, InitialiseStep
<1>3. ASSUME NEW masks \in Masks,
             SelectNone(masks) \/ \E r \in SUBSET ToRead(masks), w \in SUBSET ToWrite(masks) :
                                    Select(masks, r, w)
      PROVE  IInv'
  BY <1>3, SelectStep
<1>4. ASSUME NEW c \in Channel, NEW dir \in {"READ", "WRITE"}, Report(c, dir)
      PROVE  IInv'
  BY <1>4, ReportStep
<1>5. CASE NextDone
  BY <1>5, NextDoneStep
<1>6. ASSUME NEW h \in Socket, NEW j \in 1 .. Queue, NEW d \in Descriptor, Accept(h, j, d)
      PROVE  IInv'
  BY <1>6, AcceptOpens, AcceptStep
<1>7. ASSUME NEW c \in Channel, CloseChn(c) PROVE IInv'
  BY <1>1, <1>7, CloseCloses, CloseStep DEF CloseChn
<1>8. ASSUME NEW h \in Socket, Close(h) PROVE IInv'
  BY <1>1, <1>8, CloseCloses, CloseStep DEF Close, ChannelsOf
<1> QED
  BY <1>2, <1>3, <1>4, <1>5, <1>6, <1>7, <1>8, Unmoved DEF SocketNext

\* IInv is an invariant of the code, for any sockets, descriptors and calls.
THEOREM Inductive == SocketSpec => []IInv
BY Initially, Preserved, PTL DEF SocketSpec

\* Types, for any array, queue and masks.
THEOREM TypeCorrect == SocketSpec => []SocketTypeOK
<1>1. IInv => SocketTypeOK
  BY DEF IInv
<1> QED BY <1>1, Inductive, PTL

\* The descriptors open in the kernel are those of the channels, one each:
\* none is leaked, shared or closed twice.
THEOREM OneChannelEach == SocketSpec => []DescriptorsOwned
<1>1. IInv => DescriptorsOwned
  BY DEF IInv
<1> QED BY <1>1, Inductive, PTL

LEMMA IterationEnds ==
  ASSUME IInv, [SocketNext]_socketVars
  PROVE  [iterating /\ ~iterating' => signalled = {}]_socketVars
<1> SUFFICES ASSUME SocketNext, iterating, ~iterating' PROVE signalled = {}
  OBVIOUS
<1>1. NextDone
  BY DEF SocketNext, InitNoSocket, InitSocket, Initialise, SelectNone, Select,
     Report, Accept, CloseChn, Close, CloseChannels
<1> QED BY <1>1, NextDoneStep

\* vm_socket_next returns 0 only when every channel select found ready was
\* reported or closed.
THEOREM AllReported == SocketSpec => IterationComplete
<1>1. IInv /\ [SocketNext]_socketVars => [iterating /\ ~iterating' => signalled = {}]_socketVars
  BY IterationEnds
<1> QED BY <1>1, Inductive, PTL DEF SocketSpec, IterationComplete

-----------------------------------------------------------------------------
\* Masks of one direction: no vm_socket_select asks for READ or ACCEPT and for
\* WRITE at once.
OneDirection == \A masks \in Masks : "WRITE" \in masks => masks = {"WRITE"}

\* The bits set during an iteration are those of channels still signalled, of
\* one direction, and none is the bit of the channel reported last: so closing
\* it leaves no bit behind for the channel that gets its descriptor next.
BitsSignalled ==
  /\ ~iterating => at = Nowhere
  /\ iterating =>
       /\ \A d \in r_set : \E c \in Channel : chns[c] = d /\ <<c, "READ">> \in signalled
       /\ \A d \in w_set : \E c \in Channel : chns[c] = d /\ <<c, "WRITE">> \in signalled
       /\ r_set = {} \/ w_set = {}
       /\ at # Nowhere => chns[at] \notin r_set \union w_set

LEMMA BitsSelected ==
  ASSUME OneDirection, IInv, BitsSignalled, NEW masks \in Masks,
         NEW r \in SUBSET ToRead(masks), NEW w \in SUBSET ToWrite(masks),
         Select(masks, r, w)
  PROVE  BitsSignalled'
<1>1. /\ r_set' = {chns[c] : c \in r} /\ w_set' = {chns[c] : c \in w}
      /\ signalled' = (r \X {"READ"}) \union (w \X {"WRITE"})
      /\ UNCHANGED <<chns, at>> /\ iterating' /\ at = Nowhere
  BY DEF Select, MaySelect, BitsSignalled
<1>2. r \subseteq Channel /\ w \subseteq Channel
  BY DEF ToRead, ToWrite
<1>3. r = {} \/ w = {}
  <2>1. CASE "WRITE" \in masks
    <3>1. masks = {"WRITE"}
      BY <2>1 DEF OneDirection
    <3> QED BY <3>1 DEF ToRead
  <2>2. CASE "WRITE" \notin masks
    BY <2>2 DEF ToWrite
  <2> QED BY <2>1, <2>2
<1> QED BY <1>1, <1>2, <1>3 DEF BitsSignalled

\* A step of the program during an iteration.  It closes no channel but the one
\* reported last, and a channel it opens gets a descriptor without a bit.
LEMMA BitsClosed ==
  ASSUME IInv, BitsSignalled, iterating, NEW c \in Channel, MayUse(c), Closes({c})
  PROVE  BitsSignalled'
<1>1. UNCHANGED <<r_set, w_set, at, iterating>> /\ at = c
  BY DEF Closes, MayUse
<1>2. c # Nowhere /\ chns[c] \notin r_set \union w_set
  BY <1>1, SocketAssumption DEF Channel, Nowhere, BitsSignalled
<1>3. ASSUME NEW e \in Channel, NEW dir \in {"READ", "WRITE"}, <<e, dir>> \in signalled,
             chns[e] \in r_set \union w_set
      PROVE  <<e, dir>> \in signalled' /\ chns'[e] = chns[e]
  BY <1>2, <1>3 DEF Closes
<1>4. chns'[c] \notin r_set \union w_set
  <2>1. chns'[c] = -1 /\ -1 \notin Descriptor
    BY SocketAssumption DEF Closes
  <2> QED BY <2>1 DEF IInv, SocketTypeOK
<1> QED BY <1>1, <1>3, <1>4 DEF BitsSignalled

LEMMA BitsOpened ==
  ASSUME IInv, BitsSignalled, iterating, NEW h \in Socket, NEW j \in 1 .. Queue,
         NEW d \in Descriptor, Opens(<<h, j>>, d), MayUse(<<h, 0>>),
         UNCHANGED <<flags, r_set, w_set, usable, iterating, at, signalled>>
  PROVE  BitsSignalled'
<1>1. at = <<h, 0>> /\ <<h, 0>> \in Channel /\ <<h, j>> # <<h, 0>>
  BY SocketAssumption DEF MayUse, Channel
<1>2. ASSUME NEW e \in Channel, IsOpen(e) PROVE chns'[e] = chns[e]
  BY <1>2 DEF Opens, IInv, SocketTypeOK
<1>3. ASSUME NEW e \in Channel, NEW dir \in {"READ", "WRITE"}, <<e, dir>> \in signalled
      PROVE  <<e, dir>> \in signalled' /\ chns'[e] = chns[e]
  BY <1>2, <1>3 DEF IInv, BitsKept
<1>4. chns'[at] = chns[at]
  BY <1>1 DEF Opens, IInv, SocketTypeOK
<1> QED BY <1>3, <1>4 DEF BitsSignalled

LEMMA BitsReported ==
  ASSUME IInv, BitsSignalled, NEW c \in Channel, NEW dir \in {"READ", "WRITE"}, Report(c, dir)
  PROVE  BitsSignalled' /\ <<c, dir>> \in signalled
<1>1. /\ iterating /\ IsOpen(c) /\ chns[c] \in r_set \union w_set
      /\ dir = IF chns[c] \in r_set THEN "READ" ELSE "WRITE"
      /\ r_set' = IF dir = "READ" THEN r_set \ {chns[c]} ELSE r_set
      /\ w_set' = IF dir = "WRITE" THEN w_set \ {chns[c]} ELSE w_set
      /\ at' = c /\ signalled' = signalled \ {<<c, dir>>}
      /\ UNCHANGED <<chns, iterating>>
  BY DEF Report, Pending
<1>2. <<c, dir>> \in signalled
  <2>1. PICK e \in Channel : chns[e] = chns[c] /\ <<e, dir>> \in signalled
    BY <1>1 DEF BitsSignalled
  <2>2. e = c
    BY <1>1, <2>1 DEF IInv, DescriptorsOwned
  <2> QED BY <2>1, <2>2
<1>3. /\ r_set' \subseteq r_set /\ w_set' \subseteq w_set
      /\ chns[c] \notin r_set' \union w_set'
  BY <1>1 DEF BitsSignalled
<1>4. \A e \in Channel, way \in {"READ", "WRITE"} :
        <<e, way>> \in signalled /\ chns[e] \in r_set' \union w_set' => <<e, way>> \in signalled'
  BY <1>1, <1>3
<1>5. /\ \A d \in r_set' : \E e \in Channel : chns[e] = d /\ <<e, "READ">> \in signalled'
      /\ \A d \in w_set' : \E e \in Channel : chns[e] = d /\ <<e, "WRITE">> \in signalled'
  BY <1>1, <1>3, <1>4 DEF BitsSignalled
<1> QED BY <1>1, <1>2, <1>3, <1>5 DEF BitsSignalled

LEMMA BitsPreserved ==
  ASSUME OneDirection, IInv, BitsSignalled, [SocketNext]_socketVars
  PROVE  BitsSignalled'
<1>1. CASE UNCHANGED socketVars
  BY <1>1 DEF BitsSignalled, socketVars
<1>2. ASSUME ~iterating, iterating' = iterating, at' = at PROVE BitsSignalled'
  BY <1>2 DEF BitsSignalled
<1>3. ASSUME NEW h \in Socket, NEW f \in Flags,
             InitNoSocket(h, f) \/ \E d \in Descriptor, ok \in BOOLEAN : InitSocket(h, f, d, ok)
      PROVE  BitsSignalled'
  BY <1>2, <1>3 DEF InitNoSocket, InitSocket, Initialise
<1>4. ASSUME NEW masks \in Masks, SelectNone(masks) PROVE BitsSignalled'
  BY <1>2, <1>4 DEF SelectNone, MaySelect
<1>5. ASSUME NEW h \in Socket, Close(h) PROVE BitsSignalled'
  BY <1>2, <1>5 DEF Close, CloseChannels
<1>6. CASE NextDone
  BY <1>6 DEF NextDone, BitsSignalled
<1>7. ASSUME NEW c \in Channel, CloseChn(c) PROVE BitsSignalled'
  <2>1. MayUse(c) /\ Closes({c})
    BY <1>7, CloseCloses DEF CloseChn
  <2>2. iterating \in BOOLEAN /\ UNCHANGED <<iterating, at>>
    BY <2>1 DEF Closes, IInv, SocketTypeOK
  <2> QED BY <1>2, <2>1, <2>2, BitsClosed
<1>8. ASSUME NEW h \in Socket, NEW j \in 1 .. Queue, NEW d \in Descriptor, Accept(h, j, d)
      PROVE  BitsSignalled'
  BY <1>2, <1>8, AcceptOpens, BitsOpened DEF IInv, SocketTypeOK
<1> QED
  BY <1>1, <1>3, <1>4, <1>5, <1>6, <1>7, <1>8, BitsSelected, BitsReported DEF SocketNext

\* What vm_socket_next reports, select found ready, and once only, as long as
\* no select asks for both directions (with both, a write bit outlives its
\* channel: the run socket_reuse).
THEOREM OnlySignalledReported ==
  ASSUME OneDirection
  PROVE  SocketSpec => ReportsAreSignalled
<1>1. SocketInit => BitsSignalled
  BY DEF SocketInit, BitsSignalled
<1>2. IInv /\ BitsSignalled /\ [SocketNext]_socketVars => BitsSignalled'
  BY BitsPreserved
<1>3. IInv /\ BitsSignalled /\ [SocketNext]_socketVars =>
        [\A c \in Channel, dir \in {"READ", "WRITE"} :
           Report(c, dir) => <<c, dir>> \in signalled]_socketVars
  BY BitsReported
<1> QED BY <1>1, <1>2, <1>3, Inductive, PTL DEF SocketSpec, ReportsAreSignalled

-----------------------------------------------------------------------------
\* Winsock: every step that makes a socket one its user has to close counts a
\* startup, every step that takes it back counts a cleanup, and no other step
\* changes which sockets those are.
ToClose == {h \in Socket : Closable(h)}

WinIInv ==
  /\ chns \in [Channel -> Descriptor \union {-1}]
  /\ lost \in Nat
  /\ startups = Cardinality(ToClose) + lost

LEMMA OpenedStep ==
  ASSUME IsFiniteSet(Socket), WinIInv, NEW h \in Socket, NEW f \in Flags,
         NEW d \in WinHandle, NEW ok \in BOOLEAN, WInitSocket(h, f, d, ok)
  PROVE  WinIInv'
<1> USE DEF WinIInv
<1>1. /\ ~Closable(h) /\ startups' = startups + 1 /\ lost' = lost
      /\ chns' = [chns EXCEPT ![<<h, 0>>] = d]
      /\ usable' = IF ok THEN usable \union {h} ELSE usable
  BY DEF WInitSocket, WInitialise
<1>2. d \in Descriptor /\ d >= 0 /\ <<h, 0>> \in Channel
  BY WinsockAssumption, SocketAssumption DEF Channel
<1>3. chns' \in [Channel -> Descriptor \union {-1}]
  BY <1>1, <1>2
<1>4. (Closable(h))'
  <2>1. chns'[<<h, 0>>] = d
    BY <1>1, <1>2
  <2>2. <<h, 0>> \in ChannelsOf(h)
    BY <1>2 DEF ChannelsOf
  <2> QED BY <1>2, <2>1, <2>2 DEF Closable, AllClosed, IsOpen
<1>5. \A g \in Socket : g # h => ((Closable(g))' <=> Closable(g))
  <2> SUFFICES ASSUME NEW g \in Socket, g # h PROVE (Closable(g))' <=> Closable(g)
    OBVIOUS
  <2>1. \A c \in ChannelsOf(g) : chns'[c] = chns[c]
    BY <1>1, <1>2 DEF ChannelsOf
  <2>2. g \in usable' <=> g \in usable
    BY <1>1
  <2>3. (AllClosed(g))' <=> AllClosed(g)
    BY <2>1 DEF AllClosed, IsOpen, ChannelsOf
  <2> QED BY <2>2, <2>3 DEF Closable
<1>6. ToClose' = ToClose \union {h} /\ h \notin ToClose
  BY <1>1, <1>4, <1>5 DEF ToClose
<1>7. IsFiniteSet(ToClose) /\ Cardinality(ToClose) \in Nat
  BY FS_Subset, FS_CardinalityType DEF ToClose
<1>8. Cardinality(ToClose') = Cardinality(ToClose) + 1
  BY <1>6, <1>7, FS_AddElement
<1> QED BY <1>1, <1>3, <1>7, <1>8

LEMMA WClosedStep ==
  ASSUME IsFiniteSet(Socket), WinIInv, NEW h \in Socket, WClose(h)
  PROVE  WinIInv'
<1> USE DEF WinIInv
<1>1. /\ Closable(h) /\ startups' = startups - 1 /\ lost' = lost
      /\ chns' = [c \in Channel |-> IF c[1] = h THEN -1 ELSE chns[c]]
      /\ usable' = usable \ {h}
  BY DEF WClose
<1>2. chns' \in [Channel -> Descriptor \union {-1}]
  BY <1>1
<1>3. ~(Closable(h))'
  BY <1>1 DEF Closable, AllClosed, IsOpen, ChannelsOf
<1>4. \A g \in Socket : g # h => ((Closable(g))' <=> Closable(g))
  <2> SUFFICES ASSUME NEW g \in Socket, g # h PROVE (Closable(g))' <=> Closable(g)
    OBVIOUS
  <2>1. \A c \in ChannelsOf(g) : chns'[c] = chns[c]
    BY <1>1 DEF ChannelsOf
  <2>2. (AllClosed(g))' <=> AllClosed(g)
    BY <2>1 DEF AllClosed, IsOpen, ChannelsOf
  <2> QED BY <1>1, <2>2 DEF Closable
<1>5. ToClose' = ToClose \ {h} /\ h \in ToClose
  BY <1>1, <1>3, <1>4 DEF ToClose
<1>6. IsFiniteSet(ToClose) /\ Cardinality(ToClose) \in Nat
  BY FS_Subset, FS_CardinalityType DEF ToClose
<1>7. Cardinality(ToClose') = Cardinality(ToClose) - 1
  BY <1>5, <1>6, FS_RemoveElement
<1> QED BY <1>1, <1>2, <1>6, <1>7

\* A step that opens and closes channels of usable sockets only.
LEMMA ChannelStep ==
  ASSUME WinIInv, NEW h \in Socket, h \in usable,
         UNCHANGED <<usable, startups, lost>>,
         chns' \in [Channel -> Descriptor \union {-1}],
         \A c \in Channel : c[1] # h => chns'[c] = chns[c]
  PROVE  WinIInv'
<1>1. \A g \in Socket : (Closable(g))' <=> Closable(g)
  BY DEF Closable, AllClosed, IsOpen, ChannelsOf
<1>2. ToClose' = ToClose
  BY <1>1 DEF ToClose
<1> QED BY <1>2 DEF WinIInv

\* The array of sockets is finite.
ManySockets == IsFiniteSet(Socket)

LEMMA WinPreserved ==
  ASSUME ManySockets, WinIInv, [WinsockNext]_<<socketVars, winsockVars>>
  PROVE  WinIInv'
<1> USE DEF WinIInv, ManySockets
<1>1. ASSUME UNCHANGED <<chns, usable, startups, lost>> PROVE WinIInv'
  <2>1. ToClose' = ToClose
    BY <1>1 DEF ToClose, Closable, AllClosed, IsOpen, ChannelsOf
  <2> QED BY <1>1, <2>1
<1>2. CASE UNCHANGED <<socketVars, winsockVars>>
  BY <1>1, <1>2 DEF socketVars, winsockVars
<1>3. ASSUME NEW h \in Socket, NEW f \in Flags, WInitNoSocket(h, f) PROVE WinIInv'
  <2>1. ToClose' = ToClose
    BY <1>3 DEF WInitNoSocket, ToClose, Closable, AllClosed, IsOpen, ChannelsOf
  <2>2. chns' = chns /\ startups' = startups + 1 /\ lost' = lost + 1
    BY <1>3 DEF WInitNoSocket, WInitialise
  <2>3. Cardinality(ToClose) \in Nat
    BY FS_Subset, FS_CardinalityType DEF ToClose
  <2> QED BY <2>1, <2>2, <2>3
<1>4. ASSUME NEW masks \in Masks,
             \/ WSelectNone(masks)
             \/ \E r \in SUBSET ToRead(masks), w \in SUBSET ToWrite(masks) :
                  WSelect(masks, r, w)
      PROVE  WinIInv'
  BY <1>1, <1>4 DEF WSelectNone, WSelect, SelectNone, Select, winsockVars
<1>5. ASSUME NEW c \in Channel, NEW dir \in {"READ", "WRITE"}, WReport(c, dir) PROVE WinIInv'
  BY <1>1, <1>5 DEF WReport, Report, winsockVars
<1>6. CASE WNextDone
  BY <1>1, <1>6 DEF WNextDone, NextDone, winsockVars
<1>7. ASSUME NEW h \in Socket, NEW j \in 1 .. Queue, NEW d \in WinHandle, WAccept(h, j, d)
      PROVE  WinIInv'
  <2>1. d \in Descriptor
    BY WinsockAssumption
  <2>2. h \in usable /\ UNCHANGED <<usable, startups, lost>>
        /\ chns' = [chns EXCEPT ![<<h, j>>] = d]
    BY <1>7 DEF WAccept, winsockVars
  <2>3. chns' \in [Channel -> Descriptor \union {-1}]
    BY <2>1, <2>2
  <2>4. \A c \in Channel : c[1] # h => chns'[c] = chns[c]
    BY <2>2
  <2> QED BY <2>2, <2>3, <2>4, ChannelStep
<1>8. ASSUME NEW c \in Channel, WCloseChn(c) PROVE WinIInv'
  <2>1. c[1] \in Socket
    BY DEF Channel
  <2>2. /\ c[1] \in usable /\ UNCHANGED <<usable, startups, lost>>
        /\ chns' = [e \in Channel |-> IF e \in {c} THEN -1 ELSE chns[e]]
    BY <1>8 DEF WCloseChn, CloseChannels, winsockVars
  <2>3. chns' \in [Channel -> Descriptor \union {-1}]
    BY <2>2
  <2>4. \A e \in Channel : e[1] # c[1] => chns'[e] = chns[e]
    BY <2>2
  <2> QED BY <2>1, <2>2, <2>3, <2>4, ChannelStep
<1> QED
  BY <1>2, <1>3, <1>4, <1>5, <1>6, <1>7, <1>8, OpenedStep, WClosedStep DEF WinsockNext

LEMMA Balanced == WinIInv => WinsockHeld
BY DEF WinIInv, WinsockHeld, ToClose

LEMMA WinInitially == SocketInit /\ WinsockInit => WinIInv
<1> SUFFICES ASSUME SocketInit, WinsockInit PROVE WinIInv
  OBVIOUS
<1>1. ToClose = {}
  BY DEF SocketInit, ToClose, Closable, AllClosed, IsOpen, ChannelsOf
<1>2. Cardinality(ToClose) = 0
  BY <1>1, FS_EmptySet
<1> QED BY <1>2 DEF SocketInit, WinsockInit, WinIInv

\* Startups and cleanups of Winsock match but for those of a failed socket(),
\* for any finite array of sockets, whatever fails and in whatever order the
\* sockets are closed.
THEOREM WinsockIsHeld ==
  ASSUME ManySockets
  PROVE  WinsockSpec => []WinsockHeld
<1>1. WinIInv /\ [WinsockNext]_<<socketVars, winsockVars>> => WinIInv'
  BY WinPreserved
<1> QED BY <1>1, WinInitially, Balanced, PTL DEF WinsockSpec

-----------------------------------------------------------------------------
\* On Windows the same invariants hold, whichever free handle Winsock gives
\* out.
LEMMA WinInitOpens ==
  ASSUME IInv, NEW h \in Socket, NEW f \in Flags, NEW d \in WinHandle, NEW ok \in BOOLEAN,
         WInitSocket(h, f, d, ok)
  PROVE  /\ d \in Descriptor
         /\ Initialise(h, f) /\ Opens(<<h, 0>>, d) /\ usable' \subseteq Socket
<1>1. <<h, 0>> \in Channel /\ ~IsOpen(<<h, 0>>)
  BY SocketAssumption DEF WInitSocket, WInitialise, Initialise, AllClosed, ChannelsOf, Channel
<1> QED
  BY <1>1, WinsockAssumption
     DEF WInitSocket, WInitialise, Unused, Opens, IInv, SocketTypeOK

LEMMA WinAcceptOpens ==
  ASSUME NEW h \in Socket, NEW j \in 1 .. Queue, NEW d \in WinHandle, WAccept(h, j, d)
  PROVE  /\ d \in Descriptor /\ Opens(<<h, j>>, d) /\ MayUse(<<h, 0>>)
         /\ UNCHANGED <<flags, r_set, w_set, usable, iterating, at, signalled>>
BY WinsockAssumption DEF WAccept, Opens, Unused

LEMMA WinCloseCloses ==
  ASSUME IInv, NEW h \in Socket, WClose(h)
  PROVE  /\ ~iterating
         /\ ChannelsOf(h) \in SUBSET Channel
         /\ Closes(ChannelsOf(h)) /\ usable' \subseteq Socket
<1>1. \A c \in Channel : c[1] = h <=> c \in ChannelsOf(h)
  BY DEF ChannelsOf
<1>2. chns' = [c \in Channel |-> IF c \in ChannelsOf(h) THEN -1 ELSE chns[c]]
  BY <1>1 DEF WClose
<1>3. signalled' = {s \in signalled : s[1] \notin ChannelsOf(h)}
  <2>1. \A s \in signalled : s[1] \in Channel
    BY DEF IInv, SocketTypeOK
  <2> QED BY <1>1, <2>1 DEF WClose
<1> QED BY <1>2, <1>3 DEF WClose, Closes, ChannelsOf, IInv, SocketTypeOK

LEMMA WinTablesPreserved ==
  ASSUME IInv, [WinsockNext]_<<socketVars, winsockVars>>
  PROVE  IInv'
<1>1. usable \subseteq Socket
  BY DEF IInv, SocketTypeOK
<1>2. ASSUME NEW h \in Socket, NEW f \in Flags,
             \/ WInitNoSocket(h, f)
             \/ \E d \in WinHandle, ok \in BOOLEAN : WInitSocket(h, f, d, ok)
      PROVE  IInv'
  <2>1. CASE WInitNoSocket(h, f)
    BY <1>1, <2>1, InitialiseStep DEF WInitNoSocket, WInitialise
  <2> QED BY <1>2, <2>1, WinInitOpens, InitialiseStep
<1>3. ASSUME NEW masks \in Masks,
             \/ WSelectNone(masks)
             \/ \E r \in SUBSET ToRead(masks), w \in SUBSET ToWrite(masks) :
                  WSelect(masks, r, w)
      PROVE  IInv'
  BY <1>3, SelectStep DEF WSelectNone, WSelect
<1>4. ASSUME NEW c \in Channel, NEW dir \in {"READ", "WRITE"}, WReport(c, dir)
      PROVE  IInv'
  BY <1>4, ReportStep DEF WReport
<1>5. CASE WNextDone
  BY <1>5, NextDoneStep DEF WNextDone
<1>6. ASSUME NEW h \in Socket, NEW j \in 1 .. Queue, NEW d \in WinHandle, WAccept(h, j, d)
      PROVE  IInv'
  BY <1>6, WinAcceptOpens, AcceptStep
<1>7. ASSUME NEW c \in Channel, WCloseChn(c) PROVE IInv'
  BY <1>1, <1>7, CloseCloses, CloseStep DEF WCloseChn
<1>8. ASSUME NEW h \in Socket, WClose(h) PROVE IInv'
  BY <1>8, WinCloseCloses, CloseStep
<1>9. CASE UNCHANGED <<socketVars, winsockVars>>
  BY <1>9, Unmoved
<1> QED BY <1>2, <1>3, <1>4, <1>5, <1>6, <1>7, <1>8, <1>9 DEF WinsockNext

LEMMA CountsTyped ==
  ASSUME WinsockTypeOK, [WinsockNext]_<<socketVars, winsockVars>>
  PROVE  WinsockTypeOK'
<1> USE DEF WinsockTypeOK
<1>1. ASSUME NEW h \in Socket, NEW f \in Flags,
             \/ WInitNoSocket(h, f)
             \/ \E d \in WinHandle, ok \in BOOLEAN : WInitSocket(h, f, d, ok)
      PROVE  WinsockTypeOK'
  <2>1. startups' = startups + 1 /\ (lost' = lost \/ (lost < MaxLost /\ lost' = lost + 1))
    BY <1>1 DEF WInitNoSocket, WInitSocket, WInitialise
  <2> QED BY <2>1, WinsockAssumption
<1>2. ASSUME NEW h \in Socket, WClose(h) PROVE WinsockTypeOK'
  BY <1>2 DEF WClose
<1>3. ASSUME UNCHANGED winsockVars PROVE WinsockTypeOK'
  BY <1>3 DEF winsockVars
<1> QED
  BY <1>1, <1>2, <1>3
     DEF WinsockNext, WSelect, WSelectNone, WReport, WNextDone, WAccept, WCloseChn

LEMMA WinsockTyped == WinsockInit => WinsockTypeOK
BY WinsockAssumption DEF WinsockInit, WinsockTypeOK

\* Types on Windows.
THEOREM WinTypeCorrect == WinsockSpec => [](SocketTypeOK /\ WinsockTypeOK)
<1>1. IInv => SocketTypeOK
  BY DEF IInv
<1> QED
  BY <1>1, Initially, WinTablesPreserved, WinsockTyped, CountsTyped, PTL DEF WinsockSpec

\* On Windows too, whichever free handle Winsock gives out, the handles open
\* are those of the channels, one each, whatever initialisations fail.
THEOREM WinOneChannelEach == WinsockSpec => []DescriptorsOwned
<1>1. IInv => DescriptorsOwned
  BY DEF IInv
<1> QED BY <1>1, Initially, WinTablesPreserved, PTL DEF WinsockSpec

LEMMA WinIterationEnds ==
  ASSUME IInv, [WinsockNext]_<<socketVars, winsockVars>>
  PROVE  [iterating /\ ~iterating' => signalled = {}]_socketVars
<1> SUFFICES ASSUME iterating, ~iterating' PROVE signalled = {}
  OBVIOUS
<1>1. WNextDone
  BY DEF WinsockNext, WInitNoSocket, WInitSocket, WInitialise, Initialise, WSelectNone,
     SelectNone, WSelect, Select, WReport, Report, WAccept, WCloseChn, WClose,
     CloseChannels, socketVars
<1> QED BY <1>1, NextDoneStep DEF WNextDone

\* On Windows too, vm_socket_next returns 0 only when every channel select
\* found ready was reported or closed.
THEOREM WinAllReported == WinsockSpec => IterationComplete
<1>1. IInv /\ [WinsockNext]_<<socketVars, winsockVars>> =>
        [iterating /\ ~iterating' => signalled = {}]_socketVars
  BY WinIterationEnds
<1> QED BY <1>1, Initially, WinTablesPreserved, PTL DEF WinsockSpec, IterationComplete

LEMMA WinBitsPreserved ==
  ASSUME OneDirection, IInv, BitsSignalled, [WinsockNext]_<<socketVars, winsockVars>>
  PROVE  BitsSignalled'
<1>1. CASE UNCHANGED <<socketVars, winsockVars>>
  BY <1>1 DEF BitsSignalled, socketVars
<1>2. ASSUME ~iterating, iterating' = iterating, at' = at PROVE BitsSignalled'
  BY <1>2 DEF BitsSignalled
<1>3. ASSUME NEW h \in Socket, NEW f \in Flags,
             \/ WInitNoSocket(h, f)
             \/ \E d \in WinHandle, ok \in BOOLEAN : WInitSocket(h, f, d, ok)
      PROVE  BitsSignalled'
  BY <1>2, <1>3 DEF WInitNoSocket, WInitSocket, WInitialise, Initialise
<1>4. ASSUME NEW masks \in Masks, WSelectNone(masks) PROVE BitsSignalled'
  BY <1>2, <1>4 DEF WSelectNone, SelectNone, MaySelect
<1>5. ASSUME NEW h \in Socket, WClose(h) PROVE BitsSignalled'
  BY <1>2, <1>5 DEF WClose
<1>6. CASE WNextDone
  BY <1>6 DEF WNextDone, NextDone, BitsSignalled
<1>7. ASSUME NEW c \in Channel, WCloseChn(c) PROVE BitsSignalled'
  <2>1. MayUse(c) /\ Closes({c})
    BY <1>7, CloseCloses DEF WCloseChn
  <2>2. iterating \in BOOLEAN /\ UNCHANGED <<iterating, at>>
    BY <2>1 DEF Closes, IInv, SocketTypeOK
  <2> QED BY <1>2, <2>1, <2>2, BitsClosed
<1>8. ASSUME NEW h \in Socket, NEW j \in 1 .. Queue, NEW d \in WinHandle, WAccept(h, j, d)
      PROVE  BitsSignalled'
  BY <1>2, <1>8, WinAcceptOpens, BitsOpened DEF IInv, SocketTypeOK
<1> QED
  BY <1>1, <1>3, <1>4, <1>5, <1>6, <1>7, <1>8, BitsSelected, BitsReported
     DEF WinsockNext, WSelect, WReport

\* On Windows too, what vm_socket_next reports, select found ready, and once
\* only, as long as no select asks for both directions.
THEOREM WinOnlySignalledReported ==
  ASSUME OneDirection
  PROVE  WinsockSpec => ReportsAreSignalled
<1>1. SocketInit => BitsSignalled
  BY DEF SocketInit, BitsSignalled
<1>2. IInv /\ BitsSignalled /\ [WinsockNext]_<<socketVars, winsockVars>> => BitsSignalled'
  BY WinBitsPreserved
<1>3. IInv /\ BitsSignalled /\ [WinsockNext]_<<socketVars, winsockVars>> =>
        [\A c \in Channel, dir \in {"READ", "WRITE"} :
           Report(c, dir) => <<c, dir>> \in signalled]_socketVars
  BY BitsReported
<1> QED
  BY <1>1, <1>2, <1>3, Initially, WinTablesPreserved, PTL
     DEF WinsockSpec, ReportsAreSignalled
=============================================================================
