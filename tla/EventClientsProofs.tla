------------------------- MODULE EventClientsProofs ------------------------
(***************************************************************************)
(* What EventClients guarantees for any number of threads, any kind of     *)
(* event and any choice of callers.                                        *)
(***************************************************************************)
EXTENDS EventClients, TLAPS

\* A call under way is on a valid event: its callers destroy only what nobody
\* uses, and no function leaves the state below 0.
UsedWhileValid == (\E t \in Thread : pc[t] # "idle") => IsValid

\* The inductive invariant: types, and the three facts about the condition
\* queue and the flag that hold between any two steps.
Inv ==
  /\ TypeOK
  /\ ManualHighNoSleeper
  /\ AutoHighHasWakeup
  /\ UsedWhileValid

LEMMA InitInv == Init => Inv
  BY ClientAssumption
     DEF Init, Inv, TypeOK, EventTypeOK, CondTypeOK, CondInit, CondDisjoint,
         Blocked, ManualHighNoSleeper, AutoHighHasWakeup, UsedWhileValid,
         IsValid, Status, SetCall

\* Nobody sleeps on an event nobody is using.
LEMMA QuietBlocked ==
  ASSUME Inv, Quiet
  PROVE  asleep = {} /\ woken = {} /\ expired = {}
  <1>1. \A t \in Blocked : t \in Thread /\ pc[t] \in WaitCall /\ pc[t] # "idle"
    BY ClientAssumption DEF Inv, TypeOK, EventTypeOK, CondTypeOK, Blocked
  <1>2. Blocked = {}
    BY <1>1 DEF Quiet
  <1> QED
    BY <1>2 DEF Blocked

LEMMA LifecycleStep ==
  ASSUME Inv, Lifecycle
  PROVE  Inv'
  <1> USE DEF Inv, TypeOK, EventTypeOK, CondTypeOK, CondDisjoint, Blocked,
              ManualHighNoSleeper, AutoHighHasWakeup, UsedWhileValid,
              IsValid, condVars
  <1>1. Quiet
    BY DEF Lifecycle, Create, Destroy, Invalidate
  <1>2. asleep = {} /\ woken = {} /\ expired = {}
    BY <1>1, QuietBlocked
  <1>3. CASE \E m \in Kind, s \in {0, 1} : Create(m, s)
    BY <1>3, <1>1, ClientAssumption DEF Create, InitEvent, CondRenew, Quiet
  <1>4. CASE Destroy
    BY <1>4, <1>1, <1>2 DEF Destroy, DestroyEvent, Quiet
  <1>5. CASE Invalidate
    BY <1>5, <1>1, <1>2 DEF Invalidate, SetInvalid, Quiet
  <1> QED
    BY <1>3, <1>4, <1>5 DEF Lifecycle

LEMMA CallStep ==
  ASSUME Inv, NEW t \in Thread, Call(t)
  PROVE  Inv'
  <1> USE DEF Inv, TypeOK, EventTypeOK, CondTypeOK, CondDisjoint, Blocked,
              ManualHighNoSleeper, AutoHighHasWakeup, UsedWhileValid,
              IsValid, condVars, eventVars, Status
  <1> PICK f \in WaitCall \union SetCall : Enter(t, f) \/ Reject(t, f)
    BY DEF Call
  <1>1. CASE Enter(t, f)
    <2>1. high' \in [Thread -> BOOLEAN]
      <3>1. (state = 1) \in BOOLEAN
        OBVIOUS
      <3> HIDE DEF Inv
      <3>2. high \in [Thread -> BOOLEAN]
        BY DEF Inv
      <3>3. high' = [high EXCEPT ![t] = (state = 1)]
        BY <1>1 DEF Enter
      <3> QED
        BY <3>1, <3>2, <3>3, Zenon
    <2>2. pc' = [pc EXCEPT ![t] = f] /\ ret' = [ret EXCEPT ![t] = "none"]
      BY <1>1 DEF Enter
    <2>3. /\ pc[t] = "idle" /\ state >= 0
          /\ UNCHANGED <<state, manual, asleep, woken, expired, unsignalled>>
      BY <1>1 DEF Enter, MayCall
    <2>4. \A u \in Blocked : u # t
      BY ClientAssumption, <2>3
    <2>5. pc' \in [Thread -> WaitCall \union SetCall \union {"idle"}]
      BY <2>2
    <2>6. ret' \in [Thread -> Status]
      BY <2>2
    <2>7. \A u \in Blocked' : pc'[u] \in WaitCall
      BY <2>2, <2>3, <2>4
    <2> QED
      BY <2>1, <2>3, <2>5, <2>6, <2>7
  <1>2. CASE Reject(t, f)
    BY <1>2 DEF Reject, MayCall
  <1> QED
    BY <1>1, <1>2

\* What a notification does to the condition queue.
LEMMA NotifyQueue ==
  ASSUME CondTypeOK, CondDisjoint, Notify
  PROVE  /\ CondTypeOK' /\ CondDisjoint'
         /\ Blocked' = Blocked
         /\ expired' = expired
         /\ manual => asleep' = {}
         /\ ~manual /\ asleep # {} => woken' # {}
         /\ asleep' \subseteq asleep
  BY DEF CondTypeOK, CondDisjoint, Blocked, Notify, CondBroadcast, CondSignal,
         condVars

LEMMA SetterStep ==
  ASSUME Inv, NEW t \in Thread, Signal(t) \/ Reset(t) \/ Pulse(t)
  PROVE  Inv'
  <1> USE DEF Inv, TypeOK, EventTypeOK, ManualHighNoSleeper,
              AutoHighHasWakeup, UsedWhileValid, IsValid, Return, Status,
              SetCall
  <1>0. pc[t] \notin WaitCall /\ pc[t] # "idle"
    BY ClientAssumption DEF Signal, Reset, Pulse
  <1>1. CASE Signal(t) /\ state = 0
    <2>1. Notify /\ state' = 1 /\ manual' = manual
      BY <1>1 DEF Signal, SignalBody
    <2>2. /\ CondTypeOK' /\ CondDisjoint' /\ Blocked' = Blocked
          /\ manual => asleep' = {}
          /\ ~manual /\ asleep' # {} => woken' # {}
      BY <2>1, NotifyQueue
    <2>3. t \notin Blocked
      BY <1>0
    <2> QED
      BY <1>1, <2>1, <2>2, <2>3 DEF Signal, SeenHigh
  <1>2. CASE Signal(t) /\ state # 0
    BY <1>2, <1>0 DEF Signal, SignalBody, SeenHigh, eventVars, CondTypeOK,
                      CondDisjoint, Blocked
  <1>3. CASE Reset(t)
    BY <1>3, <1>0 DEF Reset, ResetBody, condVars, CondTypeOK, CondDisjoint,
                      Blocked
  <1>4. CASE Pulse(t)
    <2>1. Notify /\ state' = 0 /\ manual' = manual
      BY <1>4 DEF Pulse, PulseBody
    <2>2. /\ CondTypeOK' /\ CondDisjoint' /\ Blocked' = Blocked
      BY <2>1, NotifyQueue
    <2>3. t \notin Blocked
      BY <1>0
    <2> QED
      BY <1>4, <2>1, <2>2, <2>3 DEF Pulse, SeenHigh
  <1> QED
    BY <1>1, <1>2, <1>3, <1>4

LEMMA WaiterStep ==
  ASSUME Inv, NEW t \in Thread,
         Block(t) \/ Through(t) \/ Woken(t) \/ TimedOut(t)
  PROVE  Inv'
  <1> USE DEF Inv, TypeOK, EventTypeOK, CondTypeOK, CondDisjoint, Blocked,
              ManualHighNoSleeper, AutoHighHasWakeup, UsedWhileValid,
              IsValid, condVars, Return, Status
  <1>0. pc[t] \in WaitCall /\ pc[t] # "idle" /\ state \in {0, 1}
    BY ClientAssumption DEF Block, Through, Woken, TimedOut, AtBody, WaitWoken,
                            ReturnWoken, WaitExpired, ReturnExpired
  <1>1. CASE Block(t)
    BY <1>1, <1>0 DEF Block, AtBody, WaitBlock, Sleep
  <1>2. CASE Through(t)
    BY <1>2, <1>0 DEF Through, AtBody, WaitThrough, Consume
  <1>3. CASE Woken(t)
    BY <1>3, <1>0 DEF Woken, WaitWoken, ReturnWoken, Consume
  <1>4. CASE TimedOut(t)
    BY <1>4, <1>0 DEF TimedOut, WaitExpired, ReturnExpired, Consume
  <1> QED
    BY <1>1, <1>2, <1>3, <1>4

LEMMA SystemStep ==
  ASSUME Inv, NEW t \in Thread, DeadlinePasses(t) \/ WakeSpuriously(t)
  PROVE  Inv'
  BY DEF Inv, TypeOK, EventTypeOK, CondTypeOK, CondDisjoint, Blocked,
         ManualHighNoSleeper, AutoHighHasWakeup, UsedWhileValid, IsValid,
         DeadlinePasses, Expire, WakeSpuriously, SpuriousWakeup

LEMMA StutterStep == Inv /\ UNCHANGED vars => Inv'
  BY DEF Inv, TypeOK, EventTypeOK, CondTypeOK, CondDisjoint, Blocked,
         ManualHighNoSleeper, AutoHighHasWakeup, UsedWhileValid, IsValid, vars

LEMMA NextInv == Inv /\ [Next]_vars => Inv'
  <1> SUFFICES ASSUME Inv, [Next]_vars PROVE Inv'
    OBVIOUS
  <1>1. CASE Lifecycle
    BY <1>1, LifecycleStep
  <1>2. ASSUME NEW t \in Thread,
               Call(t) \/ Step(t) \/ DeadlinePasses(t) \/ WakeSpuriously(t)
        PROVE  Inv'
    BY <1>2, CallStep, SetterStep, WaiterStep, SystemStep DEF Step
  <1>3. CASE UNCHANGED vars
    BY <1>3, StutterStep
  <1> QED
    BY <1>1, <1>2, <1>3 DEF Next

\* Inv is an invariant of the code, for any threads and any number of calls.
THEOREM Invariance == Spec => []Inv
  BY InitInv, NextInv, PTL DEF Spec

\* A manual event that is high has no sleeper, whoever calls what.
THEOREM ManualSignalWakesAll == Spec => []ManualHighNoSleeper
  BY Invariance, PTL DEF Inv

\* The one wakeup of a high auto event is on its way, whatever overtakes it.
THEOREM AutoSignalOnItsWay == Spec => []AutoHighHasWakeup
  BY Invariance, PTL DEF Inv

\* Types, and where the threads inside a condition wait are.
THEOREM TypeCorrect == Spec => []TypeOK
  BY Invariance, PTL DEF Inv

-----------------------------------------------------------------------------
\* Why a wait that returns VM_OK saw the event high: a waiter that can return
\* without blocking, or was signalled and is on its way out, did.
Seen ==
  \A t \in Thread :
    pc[t] \in WaitCall /\ (state = 1 \/ t \in woken)
      => high[t] \/ t \in unsignalled

LEMMA SeenInit == Init => Seen
  BY ClientAssumption DEF Init, Seen, CondInit

LEMMA SeenNext ==
  ASSUME Inv, Seen, [Next]_vars
  PROVE  Seen'
  <1> USE DEF Seen
  <1>0. /\ pc \in [Thread -> WaitCall \union SetCall \union {"idle"}]
        /\ high \in [Thread -> BOOLEAN]
        /\ "idle" \notin WaitCall
        /\ SetCall \intersect WaitCall = {}
    BY ClientAssumption DEF Inv, TypeOK, SetCall
  <1>1. CASE Lifecycle
    <2>1. \A t \in Thread : pc'[t] = "idle"
      BY <1>1 DEF Lifecycle, Create, Destroy, Invalidate, Quiet
    <2> QED
      BY <2>1, <1>0
  <1>2. ASSUME NEW t \in Thread, Call(t)
        PROVE  Seen'
    <2>1. /\ UNCHANGED <<state, woken, unsignalled>>
          /\ pc[t] = "idle"
      BY <1>2 DEF Call, Enter, Reject, MayCall, eventVars
    <2>2. \A u \in Thread \ {t} : pc'[u] = pc[u] /\ high'[u] = high[u]
      BY <1>2, <1>0 DEF Call, Enter, Reject
    <2>3. t \notin woken
      BY <2>1, <1>0 DEF Inv, TypeOK, Blocked
    <2>4. pc'[t] \in WaitCall /\ state = 1 => high'[t]
      <3> PICK f \in WaitCall \union SetCall : Enter(t, f) \/ Reject(t, f)
        BY <1>2 DEF Call
      <3>1. CASE Reject(t, f)
        BY <3>1, <2>1, <1>0 DEF Reject
      <3>2. CASE Enter(t, f) /\ state = 1
        <4>1. high' = [high EXCEPT ![t] = (state = 1)]
          BY <3>2 DEF Enter
        <4>2. high'[t] = (state = 1)
          BY <4>1, <1>0, Zenon
        <4> QED
          BY <4>2, <3>2
      <3> QED
        BY <3>1, <3>2
    <2>5. ASSUME NEW u \in Thread, pc'[u] \in WaitCall,
                 state' = 1 \/ u \in woken'
          PROVE  high'[u] \/ u \in unsignalled'
      <3>1. CASE u = t
        BY <3>1, <2>1, <2>3, <2>4, <2>5
      <3>2. CASE u # t
        BY <3>2, <2>1, <2>2, <2>5
      <3> QED
        BY <3>1, <3>2
    <2> QED
      BY <2>5
  <1>3. ASSUME NEW t \in Thread, Signal(t) \/ Pulse(t)
        PROVE  Seen'
    <2>1. \A u \in Thread : pc'[u] \in WaitCall => high'[u]
      BY <1>3, <1>0 DEF Signal, Pulse, SeenHigh, Return
    <2> QED
      BY <2>1
  <1>4. ASSUME NEW t \in Thread, Reset(t)
        PROVE  Seen'
    <2>1. /\ UNCHANGED <<woken, high>>
          /\ state' # 1
          /\ unsignalled' = unsignalled \ {t}
          /\ \A u \in Thread : pc'[u] = pc[u] \/ pc'[u] = "idle"
          /\ pc'[t] = "idle"
      BY <1>4, <1>0 DEF Reset, ResetBody, Return, condVars, Inv, UsedWhileValid, IsValid,
                        TypeOK, EventTypeOK
    <2> QED
      BY <2>1, <1>0
  <1>5. ASSUME NEW t \in Thread,
               Block(t) \/ Through(t) \/ Woken(t) \/ TimedOut(t)
        PROVE  Seen'
    <2>1. /\ woken' \subseteq woken
          /\ state' = 1 => state = 1
          /\ high' = high
          /\ \A u \in Thread : pc'[u] = pc[u] \/ pc'[u] = "idle"
          /\ \A u \in unsignalled : u \in unsignalled' \/ pc'[u] = "idle"
      BY <1>5, <1>0 DEF Block, Through, Woken, TimedOut, WaitBlock, Sleep,
                        WaitThrough, Consume, WaitWoken, ReturnWoken,
                        WaitExpired, ReturnExpired, Return, condVars
    <2> QED
      BY <2>1, <1>0
  <1>6. ASSUME NEW t \in Thread, DeadlinePasses(t) \/ WakeSpuriously(t)
        PROVE  Seen'
    BY <1>6 DEF DeadlinePasses, Expire, WakeSpuriously, SpuriousWakeup
  <1>7. CASE UNCHANGED vars
    BY <1>7 DEF vars
  <1> QED
    BY <1>1, <1>2, <1>3, <1>4, <1>5, <1>6, <1>7 DEF Next, Step

\* A call under way has no status yet.
NoStatusYet == \A t \in Thread : pc[t] \in WaitCall => ret[t] = "none"

LEMMA NoStatusInit == Init => NoStatusYet
  BY DEF Init, NoStatusYet

LEMMA NoStatusNext ==
  ASSUME Inv, NoStatusYet, [Next]_vars
  PROVE  NoStatusYet'
  <1> USE DEF NoStatusYet
  <1>0. /\ pc \in [Thread -> WaitCall \union SetCall \union {"idle"}]
        /\ ret \in [Thread -> Status]
        /\ "idle" \notin WaitCall
    BY ClientAssumption DEF Inv, TypeOK
  <1>1. CASE Lifecycle \/ UNCHANGED vars
    BY <1>1 DEF Lifecycle, Create, Destroy, Invalidate, vars
  <1>2. ASSUME NEW t \in Thread, Call(t)
        PROVE  NoStatusYet'
    BY <1>2, <1>0 DEF Call, Enter, Reject, MayCall
  <1>3. ASSUME NEW t \in Thread, Step(t)
        PROVE  NoStatusYet'
    BY <1>3, <1>0 DEF Step, Signal, Reset, Pulse, Block, Through, Woken,
                      TimedOut, Return
  <1>4. ASSUME NEW t \in Thread, DeadlinePasses(t) \/ WakeSpuriously(t)
        PROVE  NoStatusYet'
    BY <1>4 DEF DeadlinePasses, WakeSpuriously
  <1> QED
    BY <1>1, <1>2, <1>3, <1>4 DEF Next

\* The statuses a step gives out: VM_OK to one waiter that passed or woke.
LEMMA OKStep ==
  ASSUME Inv, Seen, NoStatusYet, [Next]_vars,
         NEW t \in Thread, pc[t] \in WaitCall, ret'[t] = "VM_OK"
  PROVE  high[t] \/ t \in unsignalled
  <1>0. /\ pc \in [Thread -> WaitCall \union SetCall \union {"idle"}]
        /\ ret \in [Thread -> Status]
        /\ "idle" \notin WaitCall
        /\ SetCall \intersect WaitCall = {}
        /\ state \in -1..1
    BY ClientAssumption DEF Inv, TypeOK, SetCall, EventTypeOK
  <1>1. ret'[t] # ret[t]
    BY DEF NoStatusYet
  <1>2. ~UNCHANGED ret
    BY <1>1
  <1>3. PICK u \in Thread : Call(u) \/ Step(u)
    BY <1>2 DEF Next, vars, Lifecycle, Create, Destroy, Invalidate,
                DeadlinePasses, WakeSpuriously
  <1>4. ~Call(u)
    BY <1>0, <1>1 DEF Call, Enter, Reject, MayCall
  <1>5. Through(t) \/ Woken(t)
    <2>1. PICK status \in Status : ret' = [ret EXCEPT ![u] = status]
      BY <1>2, <1>3, <1>4
         DEF Step, Signal, Reset, Pulse, Block, Through, Woken, TimedOut,
             Return, Status
    <2>2. u = t
      BY <2>1, <1>0, <1>1
    <2>3. ~(Signal(t) \/ Reset(t) \/ Pulse(t))
      BY <1>0 DEF Signal, Reset, Pulse, SetCall
    <2>4. ~Block(t) /\ ~TimedOut(t)
      BY <1>0, <1>2 DEF Block, TimedOut, Return
    <2> QED
      BY <1>3, <1>4, <2>2, <2>3, <2>4 DEF Step
  <1>6. state = 1 \/ t \in woken
    <2>1. state >= 0
      BY <1>0 DEF Inv, UsedWhileValid, IsValid
    <2> QED
      BY <1>0, <1>5, <2>1 DEF Through, WaitThrough, Woken, WaitWoken, ReturnWoken
  <1> QED
    BY <1>6 DEF Seen

\* A wait returns VM_OK only if the event was high during the call or its own
\* condition wait returned unsignalled, however many threads wait, signal, reset
\* and pulse.
THEOREM OKMeansHigh == Spec => OKOnlyIfHigh
  <1> DEFINE IInv == Inv /\ Seen /\ NoStatusYet
  <1>1. Init => IInv
    BY InitInv, SeenInit, NoStatusInit
  <1>2. IInv /\ [Next]_vars => IInv'
    BY NextInv, SeenNext, NoStatusNext
  <1>3. IInv /\ [Next]_vars
          => [\A t \in Thread :
                pc[t] \in WaitCall /\ ret'[t] = "VM_OK"
                  => high[t] \/ t \in unsignalled]_vars
    BY OKStep
  <1> QED
    BY <1>1, <1>2, <1>3, PTL DEF Spec, OKOnlyIfHigh

-----------------------------------------------------------------------------
\* Refinement: every step of the event is a step of AbstractEvent, or leaves
\* the flag, the sleepers and the woken as they are.
Up == state = 1 /\ (manual \/ woken = {})

LEMMA AbstractNotify ==
  ASSUME Inv, Notify
  PROVE  \/ manual /\ Abstract!ReleaseAll
         \/ ~manual /\ Abstract!ReleaseOne
         \/ asleep = {} /\ UNCHANGED <<asleep, woken>>
  BY DEF Notify, CondBroadcast, CondSignal, condVars, Abstract!ReleaseAll,
         Abstract!ReleaseOne

LEMMA AbstractSetter ==
  ASSUME Inv, NEW t \in Thread, Signal(t) \/ Reset(t) \/ Pulse(t)
  PROVE  Abstract!Signal \/ Abstract!Reset \/ Abstract!Pulse \/ UNCHANGED Abstract!vars
  <1>0. state \in {0, 1} /\ manual \in BOOLEAN
    BY DEF Inv, TypeOK, EventTypeOK, UsedWhileValid, IsValid, Signal, Reset, Pulse
  <1>1. CASE Signal(t) /\ state # 0
    BY <1>1 DEF Signal, SignalBody, eventVars, Abstract!vars
  <1>2. CASE Signal(t) /\ state = 0
    <2>1. Notify /\ state' = 1 /\ manual' = manual
      BY <1>2 DEF Signal, SignalBody
    <2>2. CASE manual
      <3>1. Abstract!ReleaseAll
        BY <2>1, <2>2 DEF Notify, CondBroadcast, Abstract!ReleaseAll
      <3>2. Up'
        BY <2>1, <2>2 DEF Up
      <3> QED
        BY <2>1, <2>2, <3>1, <3>2 DEF Abstract!Signal, Up
    <2>3. CASE ~manual /\ asleep # {}
      <3>1. Abstract!ReleaseOne
        BY <2>1, <2>3 DEF Notify, CondSignal, Abstract!ReleaseOne
      <3>2. ~Up'
        BY <2>1, <2>3, <3>1 DEF Up, Abstract!ReleaseOne
      <3> QED
        BY <2>1, <2>3, <3>1, <3>2 DEF Abstract!Signal, Up
    <2>4. CASE ~manual /\ asleep = {}
      <3>1. UNCHANGED <<asleep, woken>>
        BY <2>1, <2>4 DEF Notify, CondSignal, condVars
      <3>2. CASE woken = {}
        <4>1. Up'
          BY <2>1, <3>1, <3>2 DEF Up
        <4> QED
          BY <2>1, <2>4, <3>1, <4>1 DEF Abstract!Signal, Up
      <3>3. CASE woken # {}
        <4>1. ~Up /\ ~Up'
          BY <1>2, <2>1, <2>4, <3>1, <3>3 DEF Up
        <4> QED
          BY <2>1, <3>1, <4>1 DEF Abstract!vars, Up
      <3> QED
        BY <3>2, <3>3
    <2> QED
      BY <2>2, <2>3, <2>4
  <1>3. CASE Reset(t)
    <2>1. ~Up' /\ UNCHANGED <<manual, asleep, woken>>
      BY <1>0, <1>3 DEF Reset, ResetBody, condVars, Up
    <2> QED
      BY <2>1 DEF Abstract!Reset, Up
  <1>4. CASE Pulse(t)
    <2>1. Notify /\ ~Up' /\ manual' = manual
      BY <1>4 DEF Pulse, PulseBody, Up
    <2> QED
      BY <2>1, AbstractNotify DEF Abstract!Pulse, Up
  <1> QED
    BY <1>1, <1>2, <1>3, <1>4

LEMMA AbstractWaiter ==
  ASSUME Inv, NEW t \in Thread, Block(t) \/ Through(t) \/ Woken(t) \/ TimedOut(t)
  PROVE  \/ Abstract!Block(t) \/ Abstract!Pass \/ Abstract!Leave(t) \/ Abstract!Reset
         \/ UNCHANGED Abstract!vars
  <1>0. state \in {0, 1} /\ manual \in BOOLEAN
    <2>1. pc[t] # "idle"
      BY ClientAssumption DEF Inv, TypeOK, Blocked, Block, Through, Woken, TimedOut, AtBody,
                              WaitWoken, ReturnWoken, WaitExpired, ReturnExpired
    <2> QED
      BY <2>1 DEF Inv, TypeOK, EventTypeOK, UsedWhileValid, IsValid
  <1>1. CASE Block(t)
    <2>1. /\ ~Up /\ ~Up' /\ UNCHANGED <<manual, woken>> /\ asleep' = asleep \union {t}
      BY <1>1 DEF Block, WaitBlock, Sleep, Up
    <2> QED
      BY <2>1 DEF Abstract!Block, Up
  <1>2. CASE Through(t)
    <2>1. state = 1 /\ Consume /\ UNCHANGED <<asleep, woken>>
      BY <1>0, <1>2 DEF Through, WaitThrough, condVars
    <2>2. CASE manual
      <3>1. Up /\ Up' /\ UNCHANGED manual
        BY <2>1, <2>2 DEF Consume, Up
      <3> QED
        BY <2>1, <2>2, <3>1 DEF Abstract!Pass, Up
    <2>3. CASE ~manual
      <3>1. ~Up' /\ UNCHANGED manual
        BY <2>1, <2>3 DEF Consume, Up
      <3> QED
        BY <2>1, <3>1 DEF Abstract!Reset, Up
    <2> QED
      BY <2>2, <2>3
  <1>3. CASE Woken(t)
    <2>1. /\ t \in woken /\ woken' = woken \ {t} /\ UNCHANGED <<manual, asleep>>
          /\ state' = IF manual THEN state ELSE 0
      BY <1>3 DEF Woken, WaitWoken, ReturnWoken, Consume
    <2>2. Up <=> Up'
      BY <2>1 DEF Up
    <2> QED
      BY <2>1, <2>2 DEF Abstract!Leave, Up
  <1>4. CASE TimedOut(t)
    <2>1. Consume /\ UNCHANGED <<asleep, woken>>
      BY <1>4 DEF TimedOut, WaitExpired, ReturnExpired
    <2>2. UNCHANGED manual /\ (manual => (Up <=> Up')) /\ (~manual => ~Up')
      BY <2>1 DEF Consume, Up
    <2>3. CASE manual
      BY <2>1, <2>2, <2>3 DEF Abstract!vars, Up
    <2>4. CASE ~manual
      BY <2>1, <2>2, <2>4 DEF Abstract!Reset, Up
    <2> QED
      BY <2>3, <2>4
  <1> QED
    BY <1>1, <1>2, <1>3, <1>4

\* vm_event blocks and lets go as AbstractEvent says, for either kind and any
\* number of threads, in every step but the unsignalled return of a condition
\* wait.  Of an auto event whose waiter is on its way AbstractEvent does not see
\* a wait that passes it.
THEOREM IsAnEvent == Spec => ImplementsAbstract
  <1> DEFINE IInv == Inv /\ manual \in Kind
  <1>1. Init => IInv /\ Abstract!Init
    <2>1. Init => ~Up
      BY DEF Init, Up
    <2> QED
      BY <2>1, InitInv DEF Init, CondInit, Abstract!Init, Up
  <1>2. ASSUME IInv, [Next]_vars
        PROVE  /\ manual' \in Kind
               /\ \/ \E t \in Thread : WakeSpuriously(t)
                  \/ [Abstract!Next]_(Abstract!vars)
    <2> USE DEF Abstract!Next
    <2>1. CASE Lifecycle
      <3>1. Quiet /\ manual' \in Kind
        BY <1>2, <2>1 DEF Lifecycle, Create, InitEvent, Destroy, DestroyEvent, Invalidate,
                          SetInvalid
      <3>2. asleep = {} /\ woken = {} /\ UNCHANGED <<asleep, woken>>
        BY <1>2, <2>1, <3>1, QuietBlocked
           DEF Lifecycle, Create, InitEvent, CondRenew, Destroy, DestroyEvent, Invalidate,
               SetInvalid, condVars
      <3>3. Up' \in BOOLEAN
        BY DEF Up
      <3>4. Abstract!Renew
        BY <3>1, <3>2, <3>3 DEF Abstract!Renew, Up
      <3> QED
        BY <3>1, <3>4
    <2>2. ASSUME NEW t \in Thread, Call(t)
          PROVE  manual' = manual /\ UNCHANGED Abstract!vars
      BY <2>2 DEF Call, Enter, Reject, eventVars, Abstract!vars
    <2>3. ASSUME NEW t \in Thread, Step(t)
          PROVE  manual' = manual /\ [Abstract!Next]_(Abstract!vars)
      <3>1. manual' = manual
        BY <2>3 DEF Step, Signal, SignalBody, Reset, ResetBody, Pulse, PulseBody, Block,
                    WaitBlock, Through, WaitThrough, Woken, WaitWoken, TimedOut, WaitExpired,
                    Consume, eventVars
      <3> QED
        BY <1>2, <2>3, <3>1, AbstractSetter, AbstractWaiter DEF Step
    <2>4. ASSUME NEW t \in Thread, DeadlinePasses(t)
          PROVE  manual' = manual /\ Abstract!GiveUp(t)
      BY <2>4 DEF DeadlinePasses, Expire, Abstract!GiveUp
    <2>6. ASSUME NEW t \in Thread, WakeSpuriously(t)
          PROVE  manual' = manual
      BY <2>6 DEF WakeSpuriously
    <2>5. CASE UNCHANGED vars
      BY <1>2, <2>5 DEF vars, Abstract!vars
    <2> QED
      BY <1>2, <2>1, <2>2, <2>3, <2>4, <2>5, <2>6 DEF Next
  <1>3. IInv /\ [Next]_vars => IInv'
    BY <1>2, NextInv
  <1>4. IInv /\ [Next]_vars
          => [\/ \E t \in Thread : WakeSpuriously(t)
              \/ [Abstract!Next]_(Abstract!vars)]_vars
    BY <1>2
  <1> QED
    BY <1>1, <1>3, <1>4, PTL DEF Spec, ImplementsAbstract
=============================================================================
