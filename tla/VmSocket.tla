------------------------------ MODULE VmSocket ------------------------------
(***************************************************************************)
(* The channel tables of vm_socket_linux32.c and a program that serves     *)
(* them: vm_socket_select over an array of sockets, vm_socket_next until   *)
(* it returns 0, and operations on the channels it reports.  One thread    *)
(* calls; the kernel decides which channels are ready, which calls fail,   *)
(* and gives out the lowest free descriptor.                               *)
(*                                                                         *)
(* Socket is the array, in the order of its numbers; the sets select fills *)
(* are those of its first element.  Addresses are left out, and so are the *)
(* calls that change nothing: data moved, a refused accept, a closed       *)
(* channel.  Operators named Bug... are mistakes a maintainer could make;  *)
(* nothing uses them but the sensitivity runs the README describes.        *)
(***************************************************************************)
EXTENDS Integers

CONSTANTS
  Socket,         \* the indices of the array
  Queue,          \* VM_SOCKET_QUEUE
  Descriptor,     \* the descriptors the process may have
  Masks,          \* the masks vm_socket_select is called with
  Flags           \* the flags vm_socket_init is called with

ASSUME SocketAssumption ==
  /\ Socket \subseteq Nat
  /\ Queue \in Nat
  /\ Descriptor \subseteq Nat
  /\ Masks \subseteq SUBSET {"READ", "WRITE", "ACCEPT"}
  /\ Flags \subseteq SUBSET {"UDP", "SERVER"}

VARIABLES
  chns,         \* chns[c]: the descriptor of channel c, or -1
  flags,        \* flags[h]: vm_socket.flags
  r_set, w_set, \* the fd_sets of the array's first element
  open,         \* the descriptors open in the kernel
  usable,       \* the sockets whose last vm_socket_init returned VM_OK
  iterating,    \* between a vm_socket_select and the 0 of vm_socket_next
  at,           \* the channel vm_socket_next reported last, or Nowhere
  signalled     \* history: what select found ready and next has not reported

socketVars ==
  <<chns, flags, r_set, w_set, open, usable, iterating, at, signalled>>

\* Channel j of socket h.
Channel == Socket \X (0 .. Queue)
Nowhere == <<-1, -1>>

IsOpen(c) == chns[c] >= 0
ChannelsOf(h) == {c \in Channel : c[1] = h}
AllClosed(h) == \A c \in ChannelsOf(h) : ~IsOpen(c)

SocketTypeOK ==
  /\ chns \in [Channel -> Descriptor \union {-1}]
  /\ flags \in [Socket -> Flags]
  /\ r_set \subseteq Descriptor
  /\ w_set \subseteq Descriptor
  /\ open \subseteq Descriptor
  /\ usable \subseteq Socket
  /\ iterating \in BOOLEAN
  /\ at \in Channel \union {Nowhere}
  /\ signalled \subseteq Channel \X {"READ", "WRITE"}

SocketInit ==
  /\ chns = [c \in Channel |-> -1]
  /\ flags \in [Socket -> Flags]
  /\ r_set = {} /\ w_set = {} /\ open = {}
  /\ usable = {} /\ iterating = FALSE /\ at = Nowhere /\ signalled = {}

-----------------------------------------------------------------------------
\* The kernel gives out the lowest descriptor that is free.
LowestFree(d) == d \in Descriptor \ open /\ \A e \in Descriptor \ open : d <= e

\* vm_socket_init forgets the channels it finds, so callers close a socket
\* before they initialise it again, after a failed vm_socket_init too.
Initialise(h, f) ==
  /\ ~iterating
  /\ AllClosed(h)
  /\ flags' = [flags EXCEPT ![h] = f]
  /\ r_set' = IF \A g \in Socket : h <= g THEN {} ELSE r_set
  /\ w_set' = IF \A g \in Socket : h <= g THEN {} ELSE w_set
  /\ UNCHANGED <<iterating, at, signalled>>

\* socket() fails.
InitNoSocket(h, f) ==
  /\ Initialise(h, f)
  /\ usable' = usable \ {h}
  /\ UNCHANGED <<chns, open>>

\* socket() succeeds; the steps after it may fail and leave channel 0 open.
InitSocket(h, f, d, ok) ==
  /\ Initialise(h, f)
  /\ LowestFree(d)
  /\ chns' = [chns EXCEPT ![<<h, 0>>] = d]
  /\ open' = open \union {d}
  /\ usable' = IF ok THEN usable \union {h} ELSE usable \ {h}

-----------------------------------------------------------------------------
\* Channel 0 of a TCP server can only accept.
Transfers(c) == c[2] > 0 \/ "UDP" \in flags[c[1]] \/ "SERVER" \notin flags[c[1]]

\* A socket whose channel 0 is closed is skipped with all its channels.
Considered(c) == IsOpen(c) /\ IsOpen(<<c[1], 0>>)

ToRead(masks) == {c \in Channel :
  /\ Considered(c)
  /\ \/ c[2] = 0 /\ "ACCEPT" \in masks
     \/ Transfers(c) /\ "READ" \in masks}

ToWrite(masks) == {c \in Channel :
  Considered(c) /\ Transfers(c) /\ "WRITE" \in masks}

\* Callers take a socket that failed to initialise out of the array.
MaySelect == ~iterating /\ \A h \in Socket : h \in usable \/ AllClosed(h)

BugSelect(masks, r, w) ==
  /\ MaySelect
  /\ r \subseteq ToRead(masks) /\ w \subseteq ToWrite(masks)
  /\ r \union w # {}
  /\ r_set' = r_set \union {chns[c] : c \in r}
  /\ w_set' = {chns[c] : c \in w}
  /\ signalled' = (r \X {"READ"}) \union (w \X {"WRITE"})
  /\ iterating' = TRUE
  /\ UNCHANGED <<chns, flags, open, usable, at>>

\* select() blocks until a channel is ready and leaves the ready ones in the
\* sets.
Select(masks, r, w) ==
  /\ MaySelect
  /\ r \subseteq ToRead(masks) /\ w \subseteq ToWrite(masks)
  /\ r \union w # {}
  /\ r_set' = {chns[c] : c \in r}
  /\ w_set' = {chns[c] : c \in w}
  /\ signalled' = (r \X {"READ"}) \union (w \X {"WRITE"})
  /\ iterating' = TRUE
  /\ UNCHANGED <<chns, flags, open, usable, at>>

\* There is nothing to wait for, or select() fails and leaves the sets as they
\* were filled: callers do not iterate.
SelectNone(masks) ==
  /\ MaySelect
  /\ r_set' = {chns[c] : c \in ToRead(masks)}
  /\ w_set' = {chns[c] : c \in ToWrite(masks)}
  /\ UNCHANGED <<chns, flags, open, usable, iterating, at, signalled>>

-----------------------------------------------------------------------------
\* The order in which vm_socket_next looks at the channels.
NotAfter(c, d) == c[1] < d[1] \/ (c[1] = d[1] /\ c[2] <= d[2])

BugPending == {c \in Channel : Considered(c) /\ chns[c] \in r_set \union w_set}

Pending == {c \in Channel : IsOpen(c) /\ chns[c] \in r_set \union w_set}

\* vm_socket_next reports the first channel with a bit set, reading first; the
\* READ of a channel that does not transfer is reported as ACCEPT.
Report(c, dir) ==
  /\ iterating
  /\ c \in Pending /\ \A d \in Pending : NotAfter(c, d)
  /\ dir = IF chns[c] \in r_set THEN "READ" ELSE "WRITE"
  /\ r_set' = IF dir = "READ" THEN r_set \ {chns[c]} ELSE r_set
  /\ w_set' = IF dir = "WRITE" THEN w_set \ {chns[c]} ELSE w_set
  /\ at' = c
  /\ signalled' = signalled \ {<<c, dir>>}
  /\ UNCHANGED <<chns, flags, open, usable, iterating>>

\* vm_socket_next returns 0.
NextDone ==
  /\ iterating
  /\ Pending = {}
  /\ iterating' = FALSE
  /\ at' = Nowhere
  /\ UNCHANGED <<chns, flags, r_set, w_set, open, usable, signalled>>

-----------------------------------------------------------------------------
\* In an iteration the program works on the channel reported last.
MayUse(c) == iterating => at = c

BugAccept(h, j, d) ==
  /\ MayUse(<<h, 0>>)
  /\ IsOpen(<<h, 0>>) /\ ~Transfers(<<h, 0>>)
  /\ j \in 1 .. Queue /\ \A i \in 1 .. j - 1 : IsOpen(<<h, i>>)
  /\ LowestFree(d)
  /\ chns' = [chns EXCEPT ![<<h, j>>] = d]
  /\ open' = open \union {d}
  /\ UNCHANGED <<flags, r_set, w_set, usable, iterating, at, signalled>>

\* vm_socket_accept takes the first free channel, if there is one.
Accept(h, j, d) ==
  /\ MayUse(<<h, 0>>)
  /\ IsOpen(<<h, 0>>) /\ ~Transfers(<<h, 0>>)
  /\ j \in 1 .. Queue /\ ~IsOpen(<<h, j>>)
  /\ \A i \in 1 .. j - 1 : IsOpen(<<h, i>>)
  /\ LowestFree(d)
  /\ chns' = [chns EXCEPT ![<<h, j>>] = d]
  /\ open' = open \union {d}
  /\ UNCHANGED <<flags, r_set, w_set, usable, iterating, at, signalled>>

\* vm_socket_close_chn on each channel of S; the readiness bits stay.
CloseChannels(S) ==
  /\ open' = open \ {chns[c] : c \in S}
  /\ chns' = [c \in Channel |-> IF c \in S THEN -1 ELSE chns[c]]
  /\ signalled' = {s \in signalled : s[1] \notin S}
  /\ UNCHANGED <<flags, r_set, w_set, usable, iterating, at>>

\* vm_socket_close_chn, also from a vm_socket_read or vm_socket_write that
\* moved nothing.
CloseChn(c) == MayUse(c) /\ IsOpen(c) /\ CloseChannels({c})

\* vm_socket_close.
Close(h) == ~iterating /\ ~AllClosed(h) /\ CloseChannels(ChannelsOf(h))

-----------------------------------------------------------------------------
SocketNext ==
  \/ \E h \in Socket, f \in Flags :
       \/ InitNoSocket(h, f)
       \/ \E d \in Descriptor, ok \in BOOLEAN : InitSocket(h, f, d, ok)
  \/ \E masks \in Masks :
       \/ SelectNone(masks)
       \/ \E r \in SUBSET ToRead(masks), w \in SUBSET ToWrite(masks) :
            Select(masks, r, w)
  \/ \E c \in Channel, dir \in {"READ", "WRITE"} : Report(c, dir)
  \/ NextDone
  \/ \E h \in Socket, j \in 1 .. Queue, d \in Descriptor : Accept(h, j, d)
  \/ \E c \in Channel : CloseChn(c)
  \/ \E h \in Socket : Close(h)

SocketSpec == SocketInit /\ [][SocketNext]_socketVars

-----------------------------------------------------------------------------
\* The table and the kernel agree, through failed initialisations, refused
\* accepts and closed channels: every open descriptor is the descriptor of
\* exactly one channel, and a channel's descriptor is open.
DescriptorsOwned ==
  /\ open = {chns[c] : c \in {d \in Channel : IsOpen(d)}}
  /\ \A c, d \in Channel : IsOpen(c) /\ chns[c] = chns[d] => c = d

\* "vm_socket_next is then used to iterate via all signaled sockets"
\* (vm_socket.h): what it reports, select found ready, and once only.
ReportsAreSignalled ==
  [][\A c \in Channel, dir \in {"READ", "WRITE"} :
       Report(c, dir) => <<c, dir>> \in signalled]_socketVars

\* ... and when it returns 0, every channel select found ready and nobody has
\* closed since was reported.
IterationComplete ==
  [][iterating /\ ~iterating' => signalled = {}]_socketVars
=============================================================================
