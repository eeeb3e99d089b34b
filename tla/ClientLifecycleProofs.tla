------------------------ MODULE ClientLifecycleProofs ------------------------
(***************************************************************************)
(* What holds of a client from its constructor to the end of its           *)
(* destructor, however its three threads interleave.                       *)
(***************************************************************************)
EXTENDS ClientLifecycle, Integers, TLAPS

(* Where the owner is on its way through the destructor.                   *)
Stopping == {"loopbreak", "free", "join monitor", "join libevent",
             "destroy members", "done"}

(* The owner's place says what there is of the object, whether the threads *)
(* have been told to stop, and that both have been detached.               *)
OwnerInv ==
  /\ owner = "construct" <=> object = "none"
  /\ owner = "done" <=> object = "gone"
  /\ stop <=> owner \in Stopping
  /\ owner \notin {"construct", "start monitor"} => "monitor" \in detached

(* Past the join nothing is left of the libevent thread.                   *)
EventInv == owner \in {"destroy members", "done"} => event = "ended"

(* A round that ends after stop was begun before it: until the members are *)
(* gone, a thread in its round has not yet ended one since stop.           *)
RoundsInv ==
  object # "gone" =>
    \A t \in Periodic :
      /\ ~stop => rounds[t] = 0
      /\ loop[t] = "round" => rounds[t] = 0
      /\ rounds[t] <= 1

IInv == TypeOK /\ OwnerInv /\ EventInv /\ RoundsInv

-----------------------------------------------------------------------------
LEMMA InvInit == Init => IInv
<1> SUFFICES ASSUME Init PROVE IInv
  OBVIOUS
<1>1. TypeOK
  <2>1. {alive, stop, breaking} \subseteq BOOLEAN
    BY DEF Init
  <2>2. /\ loop \in [Periodic -> {"none", "test", "round", "asleep", "ended"}]
        /\ rounds \in [Periodic -> 0 .. 2]
    BY DEF Init
  <2> QED
    BY <2>1, <2>2 DEF Init, TypeOK
<1>2. OwnerInv /\ EventInv
  BY DEF Init, OwnerInv, EventInv, Stopping
<1>3. RoundsInv
  BY DEF Init, RoundsInv, Periodic
<1> QED
  BY <1>1, <1>2, <1>3 DEF IInv

(* The steps of Next, one by one.                                          *)
LEMMA Steps ==
  ASSUME Next
  PROVE  \/ Construct
         \/ StartThread("monitor", "start monitor", "start heartbeat")
         \/ StartThread("heartbeat", "start heartbeat", "use")
         \/ Connect \/ Stop \/ LoopBreak \/ FreeBase
         \/ JoinMonitor \/ JoinLibevent \/ NullThread \/ DestroyMembers \/ DetachFromFreed
         \/ EnterLoop \/ LeaveLoop \/ FreedUnderLoop
         \/ \E t \in Periodic :
              Test(t) \/ Round(t) \/ Wake(t) \/ UseAfterDestruction(t)
BY DEF Next, Destructor, PeriodicStep

(* What the steps of the detached threads do to loop and rounds.           *)
LEMMA LoopTypes ==
  ASSUME TypeOK, NEW t \in Periodic,
         Test(t) \/ Round(t) \/ Wake(t) \/ UseAfterDestruction(t)
  PROVE  /\ loop' \in [Periodic -> {"none", "test", "round", "asleep", "ended"}]
         /\ rounds' \in [Periodic -> 0 .. 2]
         /\ \A u \in Periodic \ {t} : loop'[u] = loop[u] /\ rounds'[u] = rounds[u]
<1>0. /\ loop \in [Periodic -> {"none", "test", "round", "asleep", "ended"}]
      /\ rounds \in [Periodic -> 0 .. 2]
  BY DEF TypeOK
<1>1. CASE Test(t)
  BY <1>0, <1>1 DEF Test
<1>2. CASE Round(t)
  <2>1. rounds[t] < 2 => rounds[t] + 1 \in 0 .. 2
    BY <1>0
  <2> QED
    BY <1>0, <1>2, <2>1 DEF Round
<1>3. CASE Wake(t)
  BY <1>0, <1>3 DEF Wake
<1>4. CASE UseAfterDestruction(t)
  BY <1>0, <1>4 DEF UseAfterDestruction, Crash, loopVars
<1> QED
  BY <1>1, <1>2, <1>3, <1>4

LEMMA TypeStep == IInv /\ [Next]_vars => TypeOK'
<1> SUFFICES ASSUME IInv, [Next]_vars PROVE TypeOK'
  OBVIOUS
<1> USE DEF IInv
<1>1. {alive, stop, breaking}' \subseteq BOOLEAN
  <2>1. alive' \in BOOLEAN /\ stop' \in BOOLEAN /\ breaking' \in BOOLEAN
    BY Steps, Zenon
       DEF TypeOK, Construct, StartThread, Connect, Stop, LoopBreak, FreeBase,
           JoinMonitor, JoinLibevent, NullThread, DestroyMembers,
           DetachFromFreed, EnterLoop, LeaveLoop, FreedUnderLoop, Test, Round,
           Wake, UseAfterDestruction, Goto, Crash, ownerVars, vars
  <2> QED
    BY <2>1
<1>2. /\ object' \in {"none", "exists", "gone"}
      /\ base' \in {"none", "ready", "freed"}
      /\ base' = "none" <=> object' = "none"
  BY Steps
     DEF TypeOK, OwnerInv, Construct, StartThread, Connect, Stop, LoopBreak,
         FreeBase, JoinMonitor, JoinLibevent, NullThread, DestroyMembers,
         DetachFromFreed, EnterLoop, LeaveLoop, FreedUnderLoop, Test, Round,
         Wake, UseAfterDestruction, Goto, Crash, NewBase, Freed, ownerVars, vars
<1>3. /\ owner' \in {"construct", "start monitor", "start heartbeat", "use"} \cup Stopping
      /\ event' \in {"none", "started", "looping", "stuck", "ended"}
      /\ detached' \subseteq Periodic
  BY Steps
     DEF TypeOK, Stopping, Periodic, Construct, StartThread, Connect, Stop,
         LoopBreak, FreeBase, JoinMonitor, JoinLibevent, NullThread,
         DestroyMembers, DetachFromFreed, EnterLoop, LeaveLoop, FreedUnderLoop,
         Test, Round, Wake, UseAfterDestruction, Goto, Crash, ownerVars, vars
<1>4. /\ loop' \in [Periodic -> {"none", "test", "round", "asleep", "ended"}]
      /\ rounds' \in [Periodic -> 0 .. 2]
  <2>1. ASSUME NEW t \in Periodic,
               Test(t) \/ Round(t) \/ Wake(t) \/ UseAfterDestruction(t)
        PROVE  /\ loop' \in [Periodic -> {"none", "test", "round", "asleep", "ended"}]
               /\ rounds' \in [Periodic -> 0 .. 2]
    BY <2>1, LoopTypes
  <2>2. CASE \/ StartThread("monitor", "start monitor", "start heartbeat")
             \/ StartThread("heartbeat", "start heartbeat", "use")
    BY <2>2 DEF StartThread, TypeOK
  <2>3. CASE UNCHANGED loopVars
    BY <2>3 DEF loopVars, TypeOK
  <2> QED
    BY <2>1, <2>2, <2>3, Steps
       DEF Construct, Connect, Stop, LoopBreak, FreeBase, JoinMonitor,
           JoinLibevent, NullThread, DestroyMembers, DetachFromFreed, EnterLoop,
           LeaveLoop, FreedUnderLoop, Crash, vars, loopVars
<1> QED
  BY <1>1, <1>2, <1>3, <1>4 DEF TypeOK, Stopping

LEMMA OwnerStep == IInv /\ [Next]_vars => OwnerInv'
<1> SUFFICES ASSUME IInv, [Next]_vars PROVE OwnerInv'
  OBVIOUS
<1> USE DEF IInv, TypeOK, OwnerInv, Stopping
<1>1. CASE Construct
  BY <1>1 DEF Construct, Goto
<1>2. CASE StartThread("monitor", "start monitor", "start heartbeat")
  BY <1>2 DEF StartThread, Goto
<1>3. CASE StartThread("heartbeat", "start heartbeat", "use")
  BY <1>3 DEF StartThread, Goto
<1>4. CASE Stop
  BY <1>4 DEF Stop, Goto
<1>7. CASE Connect \/ LoopBreak \/ FreeBase \/ JoinMonitor \/ JoinLibevent
  <2>1. UNCHANGED <<object, stop, detached>>
    BY <1>7 DEF Connect, LoopBreak, FreeBase, JoinMonitor, JoinLibevent
  <2>2. \/ owner = "use" /\ owner' = "use"
        \/ owner \in Stopping \ {"done"} /\ owner' \in Stopping \ {"done"}
    BY <1>7 DEF Connect, LoopBreak, FreeBase, JoinMonitor, JoinLibevent, Goto
  <2> QED
    BY <2>1, <2>2
<1>5. CASE DestroyMembers
  BY <1>5 DEF DestroyMembers, Goto
<1>6. CASE UNCHANGED <<ownerVars, detached>>
  BY <1>6 DEF ownerVars
<1> QED
  BY <1>1, <1>2, <1>3, <1>4, <1>5, <1>6, <1>7, Steps
     DEF NullThread, DetachFromFreed, EnterLoop, LeaveLoop, FreedUnderLoop, Test,
         Round, Wake, UseAfterDestruction, Crash, vars, ownerVars

LEMMA EventStep == IInv /\ [Next]_vars => EventInv'
<1> SUFFICES ASSUME IInv, [Next]_vars PROVE EventInv'
  OBVIOUS
<1> USE DEF IInv, EventInv
<1>1. CASE Connect
  BY <1>1 DEF Connect, Goto
<1>2. CASE JoinLibevent
  BY <1>2 DEF JoinLibevent, JoinReturns, Goto
<1>3. CASE DestroyMembers
  BY <1>3 DEF DestroyMembers, Goto
<1>4. CASE EnterLoop \/ LeaveLoop \/ FreedUnderLoop
  BY <1>4 DEF EnterLoop, LeaveLoop, FreedUnderLoop, Crash, ownerVars
<1>5. CASE UNCHANGED <<owner, event>>
  BY <1>5
<1>6. CASE \/ Construct \/ Stop \/ LoopBreak \/ FreeBase \/ JoinMonitor
           \/ StartThread("monitor", "start monitor", "start heartbeat")
           \/ StartThread("heartbeat", "start heartbeat", "use")
  BY <1>6
     DEF Construct, StartThread, Stop, LoopBreak, FreeBase, JoinMonitor, Goto
<1> QED
  BY <1>1, <1>2, <1>3, <1>4, <1>5, <1>6, Steps
     DEF NullThread, DetachFromFreed, Test, Round, Wake, UseAfterDestruction,
         Crash, vars, ownerVars

LEMMA RoundsStep == IInv /\ [Next]_vars => RoundsInv'
<1> SUFFICES ASSUME IInv, [Next]_vars PROVE RoundsInv'
  OBVIOUS
<1>0. object # "gone" =>
        \A t \in Periodic :
          rounds[t] \in 0 .. 2 /\ rounds[t] <= 1
            /\ (~stop => rounds[t] = 0) /\ (loop[t] = "round" => rounds[t] = 0)
  BY DEF IInv, TypeOK, RoundsInv
<1>1. CASE Construct \/ Stop
  <2>1. object # "gone" /\ UNCHANGED <<loop, rounds>> /\ (stop' = stop \/ stop')
    BY <1>1 DEF Construct, Stop, Goto, loopVars, IInv, OwnerInv
  <2> QED
    BY <1>0, <2>1 DEF RoundsInv
<1>2. CASE \/ StartThread("monitor", "start monitor", "start heartbeat")
           \/ StartThread("heartbeat", "start heartbeat", "use")
  <2>1. object' = object /\ stop' = stop /\ rounds' = rounds
    BY <1>2 DEF StartThread
  <2>2. \A t \in Periodic : loop'[t] \in {"test", loop[t]}
    BY <1>2 DEF StartThread, IInv, TypeOK
  <2> QED
    BY <1>0, <2>1, <2>2 DEF RoundsInv
<1>3. CASE \/ Connect \/ LoopBreak \/ FreeBase \/ JoinMonitor \/ JoinLibevent
           \/ NullThread \/ DetachFromFreed \/ EnterLoop \/ LeaveLoop
           \/ FreedUnderLoop \/ UNCHANGED vars
  <2>1. UNCHANGED <<object, stop, loop, rounds>>
    BY <1>3
       DEF Connect, LoopBreak, FreeBase, JoinMonitor, JoinLibevent, NullThread,
           DetachFromFreed, EnterLoop, LeaveLoop, FreedUnderLoop, Crash,
           ownerVars, loopVars, vars
  <2> QED
    BY <1>0, <2>1 DEF RoundsInv
<1>4. CASE DestroyMembers
  BY <1>4 DEF DestroyMembers, RoundsInv
<1>5. ASSUME NEW t \in Periodic, Test(t)
      PROVE  RoundsInv'
  <2>1. \A u \in Periodic : u # t => loop'[u] = loop[u]
    BY <1>5 DEF Test, IInv, TypeOK
  <2>2. loop'[t] = IF stop THEN "ended" ELSE "round"
    BY <1>5 DEF Test, StopSeen, IInv, TypeOK
  <2>3. object' = object /\ stop' = stop /\ rounds' = rounds
    BY <1>5 DEF Test, ownerVars
  <2> QED
    BY <1>0, <2>1, <2>2, <2>3 DEF RoundsInv
<1>6. ASSUME NEW t \in Periodic, Round(t)
      PROVE  RoundsInv'
  <2>1. \A u \in Periodic : u # t => loop'[u] = loop[u] /\ rounds'[u] = rounds[u]
    BY <1>6 DEF Round, IInv, TypeOK
  <2>2. loop'[t] = "asleep" /\ object' = object /\ stop' = stop
    BY <1>6 DEF Round, ownerVars, IInv, TypeOK
  <2>3. /\ rounds[t] = 0
        /\ rounds' = [rounds EXCEPT ![t] = IF stop /\ @ < 2 THEN @ + 1 ELSE @]
    BY <1>0, <1>6 DEF Round
  <2>4. rounds \in [Periodic -> 0 .. 2]
    BY DEF IInv, TypeOK
  <2>5. rounds'[t] \in {0, 1} /\ (~stop => rounds'[t] = 0)
    BY <2>3, <2>4
  <2> QED
    BY <1>0, <2>1, <2>2, <2>5 DEF RoundsInv
<1>7. ASSUME NEW t \in Periodic, Wake(t)
      PROVE  RoundsInv'
  <2>1. object' = object /\ stop' = stop /\ rounds' = rounds
    BY <1>7 DEF Wake, ownerVars
  <2>2. \A u \in Periodic : loop'[u] \in {"test", loop[u]}
    BY <1>7 DEF Wake, IInv, TypeOK
  <2> QED
    BY <1>0, <2>1, <2>2 DEF RoundsInv
<1>8. ASSUME NEW t \in Periodic, UseAfterDestruction(t)
      PROVE  RoundsInv'
  BY <1>8 DEF UseAfterDestruction, Crash, ownerVars, RoundsInv
<1> QED
  BY <1>1, <1>2, <1>3, <1>4, <1>5, <1>6, <1>7, <1>8, Steps

LEMMA Invariance == Spec => []IInv
<1>1. IInv /\ [Next]_vars => IInv'
  BY TypeStep, OwnerStep, EventStep, RoundsStep DEF IInv
<1> QED
  BY <1>1, InvInit, PTL DEF Spec

-----------------------------------------------------------------------------
(* Every variable keeps its type.                                          *)
THEOREM TypeCorrect == Spec => []TypeOK
<1>1. IInv => TypeOK
  BY DEF IInv
<1> QED
  BY <1>1, Invariance, PTL

(* Once stor_monitoring is set, each of the detached threads ends at most  *)
(* the round it is in: as long as the members are there, the test of the   *)
(* flag stands between any two rounds.                                     *)
THEOREM RoundsAreBounded == Spec => []OneMoreRound
<1>1. IInv => OneMoreRound
  BY DEF IInv, RoundsInv, OneMoreRound
<1> QED
  BY <1>1, Invariance, PTL

(* The destructor destroys the members only after it has joined the        *)
(* libevent thread, and what the freed base does to that thread does not   *)
(* bring it back.                                                          *)
THEOREM LoopHasEnded == Spec => []LoopEndsFirst
<1>1. IInv => LoopEndsFirst
  BY DEF IInv, OwnerInv, EventInv, LoopEndsFirst
<1> QED
  BY <1>1, Invariance, PTL

(* The destructor finds the monitor thread detached and passes by its      *)
(* join, although the header says that it stops that thread: the members   *)
(* may be destroyed in whatever part of its loop the thread is.            *)
THEOREM MonitorIsNotJoined ==
  Spec => [](owner = "join monitor" => "monitor" \in detached)
<1>1. IInv => (owner = "join monitor" => "monitor" \in detached)
  BY DEF IInv, OwnerInv
<1> QED
  BY <1>1, Invariance, PTL

(* The steps a detached thread still takes once it has been told to stop.  *)
StepsLeft(t) ==
  CASE loop[t] = "round"  -> 3
    [] loop[t] = "asleep" -> 2
    [] loop[t] = "test"   -> 1
    [] OTHER              -> 0

(* Between stor_monitoring and the end of the members each detached thread *)
(* has three steps left at most, and every one it takes counts: what       *)
(* remains for it to end is that it gets to run.                           *)
THEOREM DetachedStepsBounded ==
  Spec => [][(stop /\ object = "exists") =>
               \A t \in Periodic :
                 /\ PeriodicStep(t) => StepsLeft(t)' = StepsLeft(t) - 1
                 /\ ~PeriodicStep(t) => StepsLeft(t)' = StepsLeft(t)]_vars
<1>1. IInv /\ [Next]_vars =>
        [(stop /\ object = "exists") =>
           \A t \in Periodic :
             /\ PeriodicStep(t) => StepsLeft(t)' = StepsLeft(t) - 1
             /\ ~PeriodicStep(t) => StepsLeft(t)' = StepsLeft(t)]_vars
  <2> SUFFICES ASSUME IInv, [Next]_vars, stop, object = "exists",
                      NEW t \in Periodic
               PROVE  /\ PeriodicStep(t) => StepsLeft(t)' = StepsLeft(t) - 1
                      /\ ~PeriodicStep(t) => StepsLeft(t)' = StepsLeft(t)
    OBVIOUS
  <2>1. loop \in [Periodic -> {"none", "test", "round", "asleep", "ended"}]
    BY DEF IInv, TypeOK
  <2>2. ASSUME Test(t) \/ Round(t) \/ Wake(t)
        PROVE  StepsLeft(t)' = StepsLeft(t) - 1
    <3>1. CASE Test(t)
      BY <2>1, <3>1 DEF Test, StopSeen, StepsLeft
    <3>2. CASE Round(t)
      BY <2>1, <3>2 DEF Round, StepsLeft
    <3>3. CASE Wake(t)
      BY <2>1, <3>3 DEF Wake, StepsLeft
    <3> QED
      BY <2>2, <3>1, <3>2, <3>3
  <2>3. ASSUME NEW u \in Periodic, u # t, PeriodicStep(u)
        PROVE  loop'[t] = loop[t]
    BY <2>1, <2>3 DEF PeriodicStep, Test, Round, Wake
  <2>4. ASSUME ~ \E u \in Periodic : PeriodicStep(u)
        PROVE  loop'[t] = loop[t]
    BY <2>4, Steps
       DEF IInv, OwnerInv, Stopping, PeriodicStep, Construct, StartThread,
           Connect, Stop, LoopBreak, FreeBase, JoinMonitor, JoinLibevent,
           NullThread, DestroyMembers, DetachFromFreed, EnterLoop, LeaveLoop,
           FreedUnderLoop, UseAfterDestruction, Goto, Crash, loopVars, vars
  <2>5. loop'[t] = loop[t] => StepsLeft(t)' = StepsLeft(t)
    BY DEF StepsLeft
  <2> QED
    BY <2>2, <2>3, <2>4, <2>5 DEF PeriodicStep
<1> QED
  BY <1>1, Invariance, PTL DEF Spec
=============================================================================
