--------------------------- MODULE VmSocketWin32 ---------------------------
(***************************************************************************)
(* vm_socket_win32.c: the channel tables of VmSocket over Winsock.  The    *)
(* process may use Winsock while more of its calls of WSAStartup than of   *)
(* WSACleanup have succeeded; vm_socket_init makes the first call and      *)
(* vm_socket_close the other.  A WSAStartup that is refused ends           *)
(* vm_socket_init before it touches anything: it is no step here.          *)
(***************************************************************************)
EXTENDS VmSocket, FiniteSets

CONSTANTS
  WinHandle,    \* the socket handles Winsock has
  MaxLost       \* bound: initialisations that lose their startup

ASSUME WinsockAssumption == WinHandle \subseteq Descriptor /\ MaxLost \in Nat

VARIABLES
  startups,     \* calls of WSAStartup not yet undone by WSACleanup
  lost          \* history: startups of initialisations nobody closes

winsockVars == <<startups, lost>>

WinsockTypeOK == startups \in Int /\ lost \in 0 .. MaxLost

WinsockInit == startups = 0 /\ lost = 0

-----------------------------------------------------------------------------
\* Winsock gives out any handle that is free.
Unused(d) == d \in WinHandle \ open

\* Callers close a socket before they initialise it again.  A failed
\* vm_socket_init they close if it left channel 0 open.
Closable(h) == h \in usable \/ ~AllClosed(h)

WInitialise(h, f) ==
  /\ ~Closable(h)
  /\ Initialise(h, f)
  /\ startups' = startups + 1

\* socket() fails: the startup is not undone, and no table shows it.
WInitNoSocket(h, f) ==
  /\ lost < MaxLost
  /\ WInitialise(h, f)
  /\ lost' = lost + 1
  /\ UNCHANGED <<chns, open, usable>>

BugInitSocket(h, f, d, ok) ==
  /\ ~Closable(h)
  /\ Initialise(h, f)
  /\ startups' = startups + (IF ok THEN 1 ELSE 0)
  /\ Unused(d)
  /\ chns' = [chns EXCEPT ![<<h, 0>>] = d]
  /\ open' = open \union {d}
  /\ usable' = IF ok THEN usable \union {h} ELSE usable
  /\ UNCHANGED lost

\* A later call fails, or all succeed.  A TCP client that is refused, cannot
\* reach the network, finds the address in use or gets a timeout tries again,
\* seven times; an eighth failure, whatever it is, returns VM_OK.
WInitSocket(h, f, d, ok) ==
  /\ WInitialise(h, f)
  /\ Unused(d)
  /\ chns' = [chns EXCEPT ![<<h, 0>>] = d]
  /\ open' = open \union {d}
  /\ usable' = IF ok THEN usable \union {h} ELSE usable
  /\ UNCHANGED lost

\* The readiness sets are those of vm_socket_linux32.c; select() is told no
\* number of descriptors, which Winsock does not look at.
WSelect(masks, r, w) == Select(masks, r, w) /\ UNCHANGED winsockVars
WSelectNone(masks) == SelectNone(masks) /\ UNCHANGED winsockVars

WReport(c, dir) == Report(c, dir) /\ UNCHANGED winsockVars
WNextDone == NextDone /\ UNCHANGED winsockVars

WAccept(h, j, d) ==
  /\ h \in usable /\ MayUse(<<h, 0>>)
  /\ IsOpen(<<h, 0>>) /\ ~Transfers(<<h, 0>>)
  /\ j \in 1 .. Queue /\ ~IsOpen(<<h, j>>)
  /\ \A i \in 1 .. j - 1 : IsOpen(<<h, i>>)
  /\ Unused(d)
  /\ chns' = [chns EXCEPT ![<<h, j>>] = d]
  /\ open' = open \union {d}
  /\ UNCHANGED <<flags, r_set, w_set, usable, iterating, at, signalled, winsockVars>>

\* vm_socket_close_chn, also from a vm_socket_read that gets nothing, after
\* 20000 tries while the call would block, or a vm_socket_write that sends
\* nothing.
WCloseChn(c) ==
  /\ c[1] \in usable /\ MayUse(c) /\ IsOpen(c)
  /\ CloseChannels({c})
  /\ UNCHANGED winsockVars

\* vm_socket_close calls WSACleanup whether or not a channel is open.
WClose(h) ==
  /\ ~iterating
  /\ Closable(h)
  /\ open' = open \ {chns[c] : c \in ChannelsOf(h)}
  /\ chns' = [c \in Channel |-> IF c[1] = h THEN -1 ELSE chns[c]]
  /\ signalled' = {s \in signalled : s[1][1] # h}
  /\ usable' = usable \ {h}
  /\ startups' = startups - 1
  /\ UNCHANGED <<flags, r_set, w_set, iterating, at, lost>>

WinsockNext ==
  \/ \E h \in Socket, f \in Flags :
       \/ WInitNoSocket(h, f)
       \/ \E d \in WinHandle, ok \in BOOLEAN : WInitSocket(h, f, d, ok)
  \/ \E masks \in Masks :
       \/ WSelectNone(masks)
       \/ \E r \in SUBSET ToRead(masks), w \in SUBSET ToWrite(masks) :
            WSelect(masks, r, w)
  \/ \E c \in Channel, dir \in {"READ", "WRITE"} : WReport(c, dir)
  \/ WNextDone
  \/ \E h \in Socket, j \in 1 .. Queue, d \in WinHandle : WAccept(h, j, d)
  \/ \E c \in Channel : WCloseChn(c)
  \/ \E h \in Socket : WClose(h)

WinsockSpec ==
  SocketInit /\ WinsockInit /\ [][WinsockNext]_<<socketVars, winsockVars>>

-----------------------------------------------------------------------------
\* Winsock stays up under every socket its users still have to close, whatever
\* initialisations failed and in whatever order sockets are closed: startups
\* and cleanups match but for the startups lost with a failed socket().
WinsockHeld ==
  startups = Cardinality({h \in Socket : Closable(h)}) + lost
=============================================================================
