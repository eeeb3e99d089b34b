--------------------------- MODULE ClientLifecycle ---------------------------
(***************************************************************************)
(* The life of one ServiceDiscoveryClient: its constructor starts the      *)
(* monitor and the heartbeat thread and detaches them, connect starts the  *)
(* libevent thread, and its destructor asks all three to end and waits for *)
(* the last one.                                                           *)
(*                                                                         *)
(* Undefined outcomes are those the build can produce: a thread that reads *)
(* a member of an object that is gone reads anything or crashes; an event  *)
(* loop whose base is freed under it returns with an error, crashes, or    *)
(* waits for ever for descriptors that are closed.                         *)
(***************************************************************************)
EXTENDS Naturals

VARIABLES
  alive,    \* FALSE once the process has been terminated
  object,   \* "none", "exists", or "gone": the members are destroyed
  stop,     \* stor_monitoring
  owner,    \* where the thread that owns the object is
  base,     \* evbase: "none", "ready" or "freed"
  breaking, \* the event base has been asked to leave its loop
  event,    \* the libevent thread; "none" while libevent_thread is null
  loop,     \* loop[t]: where the detached thread t is in its loop
  detached, \* threads that are not joinable any more
  rounds    \* history: rounds t ended since stop on the object, counted to 2

vars == <<alive, object, stop, owner, base, breaking, event, loop, detached, rounds>>
ownerVars == <<object, stop, owner, base>>
loopVars == <<loop, rounds>>

Periodic == {"monitor", "heartbeat"}

Init ==
  /\ alive = TRUE
  /\ object = "none"
  /\ stop = FALSE
  /\ owner = "construct"
  /\ base = "none" /\ breaking = FALSE
  /\ event = "none"
  /\ loop = [t \in Periodic |-> "none"]
  /\ detached = {}
  /\ rounds = [t \in Periodic |-> 0]

Crash ==
  /\ alive' = FALSE
  /\ UNCHANGED <<ownerVars, breaking, event, loopVars, detached>>

Goto(from, to) == alive /\ owner = from /\ owner' = to

-----------------------------------------------------------------------------
(* The owner: constructor, connect, destructor.                            *)

(* Faulty form: no event base is made.                                     *)
NoBase == base

NewBase == "ready"

Construct ==
  /\ Goto("construct", "start monitor")
  /\ object' = "exists"
  /\ base' = NewBase
  /\ UNCHANGED <<alive, stop, breaking, event, loopVars, detached>>

StartThread(t, from, to) ==
  /\ Goto(from, to)
  /\ loop' = [loop EXCEPT ![t] = "test"]
  /\ detached' = detached \cup {t}
  /\ UNCHANGED <<alive, object, stop, base, breaking, event, rounds>>

(* connect starts the libevent thread the first time.                      *)
Connect ==
  /\ Goto("use", "use")
  /\ event = "none"
  /\ event' = "started"
  /\ UNCHANGED <<alive, object, stop, base, breaking, loopVars, detached>>

Stop ==
  /\ Goto("use", "loopbreak")
  /\ stop' = TRUE
  /\ UNCHANGED <<alive, object, base, breaking, event, loopVars, detached>>

LoopBreak ==
  /\ Goto("loopbreak", "free")
  /\ breaking' = TRUE
  /\ UNCHANGED <<alive, object, stop, base, event, loopVars, detached>>

(* Faulty form: the base is kept until the threads have ended.             *)
Kept == base

Freed == "freed"

FreeBase ==
  /\ Goto("free", "join monitor")
  /\ base' = Freed
  /\ UNCHANGED <<alive, object, stop, breaking, event, loopVars, detached>>

JoinMonitor ==
  /\ Goto("join monitor", "join libevent")
  /\ "monitor" \notin detached => loop["monitor"] = "ended"
  /\ UNCHANGED <<alive, object, stop, base, breaking, event, loopVars, detached>>

(* Faulty form: detached like the others.                                  *)
NotAwaited == event # "none"

JoinReturns == event = "ended"

JoinLibevent ==
  /\ Goto("join libevent", "destroy members")
  /\ JoinReturns
  /\ UNCHANGED <<alive, object, stop, base, breaking, event, loopVars, detached>>

(* libevent_thread->joinable(), and connect has never been called.         *)
NullThread ==
  /\ alive
  /\ owner = "join libevent"
  /\ event = "none"
  /\ Crash

DestroyMembers ==
  /\ Goto("destroy members", "done")
  /\ object' = "gone"
  /\ UNCHANGED <<alive, stop, base, breaking, event, loopVars, detached>>

(* The connection, a member, takes its events off the base that is gone.    *)
DetachFromFreed ==
  /\ alive
  /\ owner = "destroy members"
  /\ base = "freed"
  /\ Crash

-----------------------------------------------------------------------------
(* The libevent thread.                                                    *)

(* event_base_dispatch begins by clearing the request to leave.            *)
EnterLoop ==
  /\ alive
  /\ event = "started"
  /\ base = "ready"
  /\ event' = "looping"
  /\ breaking' = FALSE
  /\ UNCHANGED <<alive, ownerVars, loopVars, detached>>

(* The request is seen after the next event, if one comes: nothing in the  *)
(* code makes loopbreak wake a loop that waits (no evthread_use_pthreads). *)
LeaveLoop ==
  /\ alive
  /\ event = "looping"
  /\ base = "ready"
  /\ breaking
  /\ event' = "ended"
  /\ UNCHANGED <<alive, ownerVars, breaking, loopVars, detached>>

FreedUnderLoop ==
  /\ alive
  /\ event \in {"started", "looping"}
  /\ base = "freed"
  /\ \/ Crash
     \/ /\ event' \in {"ended", "stuck"}
        /\ UNCHANGED <<alive, ownerVars, breaking, loopVars, detached>>

-----------------------------------------------------------------------------
(* The monitor and the heartbeat thread.                                   *)

(* Faulty form: the flag is not looked at.                                 *)
StopIgnored == FALSE

StopSeen == stop

(* while (!stor_monitoring)                                                *)
Test(t) ==
  /\ alive
  /\ loop[t] = "test"
  /\ object = "exists"
  /\ loop' = [loop EXCEPT ![t] = IF StopSeen THEN "ended" ELSE "round"]
  /\ UNCHANGED <<alive, ownerVars, breaking, event, detached, rounds>>

(* check_services, or the test of the channel and send_presence; sleep_for *)
(* reads its interval from the object.                                     *)
Round(t) ==
  /\ alive
  /\ loop[t] = "round"
  /\ object = "exists"
  /\ loop' = [loop EXCEPT ![t] = "asleep"]
  /\ rounds' = [rounds EXCEPT ![t] = IF stop /\ @ < 2 THEN @ + 1 ELSE @]
  /\ UNCHANGED <<alive, ownerVars, breaking, event, detached>>

Wake(t) ==
  /\ alive
  /\ loop[t] = "asleep"
  /\ loop' = [loop EXCEPT ![t] = "test"]
  /\ UNCHANGED <<alive, ownerVars, breaking, event, detached, rounds>>

(* The thread goes on with an object that is gone.                         *)
UseAfterDestruction(t) ==
  /\ alive
  /\ loop[t] \in {"test", "round"}
  /\ object = "gone"
  /\ \/ Crash
     \/ /\ loop' \in {[loop EXCEPT ![t] = to] : to \in {"round", "asleep", "ended"}}
        /\ UNCHANGED <<alive, ownerVars, breaking, event, detached, rounds>>

-----------------------------------------------------------------------------
Destructor ==
  LoopBreak \/ FreeBase \/ JoinMonitor \/ JoinLibevent \/ NullThread \/ DestroyMembers
    \/ DetachFromFreed

PeriodicStep(t) == Test(t) \/ Round(t) \/ Wake(t)

Next ==
  \/ Construct
  \/ StartThread("monitor", "start monitor", "start heartbeat")
  \/ StartThread("heartbeat", "start heartbeat", "use")
  \/ Connect \/ Stop \/ Destructor
  \/ EnterLoop \/ LeaveLoop \/ FreedUnderLoop
  \/ \E t \in Periodic : PeriodicStep(t) \/ UseAfterDestruction(t)

(* The threads run; sleeps end.  That an event comes for the loop to see   *)
(* the request is not assumed.                                             *)
Spec ==
  /\ Init /\ [][Next]_vars
  /\ WF_vars(Destructor)
  /\ WF_vars(EnterLoop) /\ WF_vars(FreedUnderLoop)
  /\ \A t \in Periodic : WF_vars(PeriodicStep(t))

-----------------------------------------------------------------------------
(* Every variable has its type; there is an event base once there is an    *)
(* object.                                                                 *)
TypeOK ==
  /\ {alive, stop, breaking} \subseteq BOOLEAN
  /\ object \in {"none", "exists", "gone"}
  /\ owner \in {"construct", "start monitor", "start heartbeat", "use", "loopbreak",
                "free", "join monitor", "join libevent", "destroy members", "done"}
  /\ base \in {"none", "ready", "freed"} /\ (base = "none" <=> object = "none")
  /\ event \in {"none", "started", "looping", "stuck", "ended"}
  /\ loop \in [Periodic -> {"none", "test", "round", "asleep", "ended"}]
  /\ detached \subseteq Periodic
  /\ rounds \in [Periodic -> 0 .. 2]

(* Nothing waits for the detached threads, but the flag stops them: each   *)
(* ends at most the round it is in, as long as the flag can be read.       *)
OneMoreRound == object # "gone" => \A t \in Periodic : rounds[t] <= 1

(* The libevent thread, whose handlers use every member, has ended when    *)
(* the members are destroyed, whatever the freed base did to it.           *)
LoopEndsFirst == object = "gone" => event = "ended"

(* The destructor returns, if the process survives it and the loop does    *)
(* not go on waiting on a base that is gone.                               *)
DestructionEnds == stop ~> (object = "gone" \/ ~alive \/ event = "stuck")

(* If the destructor takes long enough, the detached threads end.          *)
DetachedEnd ==
  stop ~> (~alive \/ object = "gone" \/ \A t \in Periodic : loop[t] = "ended")
=============================================================================
