-------------------------- MODULE ClientConnection --------------------------
(***************************************************************************)
(* The connection of one ServiceDiscoveryClient to the broker: connect,    *)
(* run by a user thread and, from the channel's error handler, by the      *)
(* libevent thread; and the heartbeat thread that publishes on the channel *)
(* they replace.                                                           *)
(*                                                                         *)
(* Only the current channel is described: assigning another one destroys   *)
(* it, and with it the callbacks registered on it.  Neither channel nor    *)
(* connected is protected by a mutex; what a torn access to them would do  *)
(* is left out.  One step is one access to a member.                       *)
(***************************************************************************)
EXTENDS Naturals

CONSTANTS
  User,        \* the thread that calls connect
  Event,       \* the libevent thread
  MaxConnects  \* bound: calls of connect by the user

ASSUME ThreadAssumption == User # Event
ASSUME MaxConnectsAssumption == MaxConnects \in Nat

Thread == {User, Event}

VARIABLES
  connected,  \* the member of that name
  link,       \* the current channel, as the broker and AMQP-CPP have it
  handled,    \* onError and declareQueue have been called on it
  reported,   \* its error handler has run
  dispatching,\* libevent_thread has been created
  pc,         \* where a thread is in connect
  calls,      \* calls of connect by the user so far
  enabled,    \* heartbeat_enabled
  heartbeatPc,\* where the heartbeat thread is
  held,       \* the channel send_presence has got is still the current one
  (* History.                                                              *)
  reached,    \* the last presence sent reached the broker
  stale       \* presences sent since disable_heartbeat

channelVars == <<link, handled, reported>>
connectVars == <<connected, pc, dispatching>>
presenceVars == <<heartbeatPc, held, reached, stale>>
vars == <<channelVars, connectVars, calls, enabled, presenceVars>>

Usable == link \in {"opening", "consuming"}

Init ==
  /\ connected = FALSE
  /\ link = "none" /\ handled = FALSE /\ reported = FALSE
  /\ dispatching = FALSE
  /\ pc = [t \in Thread |-> IF t = User THEN "outside" ELSE "dispatch"]
  /\ calls = 0
  /\ enabled = TRUE
  /\ heartbeatPc = "test" /\ held = FALSE /\ reached = FALSE /\ stale = 0

Goto(t, from, to) == pc[t] = from /\ pc' = [pc EXCEPT ![t] = to]

-----------------------------------------------------------------------------
(* connect.                                                                *)

Call ==
  /\ calls < MaxConnects
  /\ Goto(User, "outside", "test")
  /\ calls' = calls + 1
  /\ UNCHANGED <<channelVars, connected, dispatching, enabled, presenceVars>>

(* while (!connected)                                                      *)
Test(t) ==
  /\ Goto(t, "test", IF connected THEN "dispatch?" ELSE "connection")
  /\ UNCHANGED <<channelVars, connected, dispatching, calls, enabled,
                 presenceVars>>

(* The old connection is destroyed: its channel stays, but reports nothing *)
(* any more.                                                               *)
NewConnection(t) ==
  /\ Goto(t, "connection", "channel")
  /\ link' = IF link = "none" THEN "none" ELSE "detached"
  /\ UNCHANGED <<handled, reported, connected, dispatching, calls, enabled,
                 presenceVars>>

NewChannel(t) ==
  /\ Goto(t, "channel", "handlers")
  /\ link' = "opening"
  /\ handled' = FALSE
  /\ reported' = FALSE
  /\ held' = FALSE
  /\ UNCHANGED <<connected, dispatching, calls, enabled, heartbeatPc, reached,
                 stale>>

(* One of the constructors throws.                                         *)
Throw(t) ==
  /\ \/ Goto(t, "connection", "retry")
     \/ Goto(t, "channel", "retry")
  /\ UNCHANGED <<channelVars, connected, dispatching, calls, enabled,
                 presenceVars>>

(* The catch clause: sleep, then try again.                                *)
Retry(t) ==
  /\ Goto(t, "retry", "test")
  /\ connected' = FALSE
  /\ UNCHANGED <<channelVars, dispatching, calls, enabled, presenceVars>>

(* onError and declareQueue, on whatever channel is the current one.       *)
SetHandlers(t) ==
  /\ Goto(t, "handlers", "flag")
  /\ handled' = TRUE
  /\ UNCHANGED <<link, reported, connected, dispatching, calls, enabled,
                 presenceVars>>

SetFlag(t) ==
  /\ Goto(t, "flag", "test")
  /\ connected' = TRUE
  /\ UNCHANGED <<channelVars, dispatching, calls, enabled, presenceVars>>

(* Faulty form: the caller of connect runs the event loop itself.          *)
BackInLoop(t) == "dispatch"

Back(t) == IF t = User THEN "outside" ELSE "dispatch"

(* The libevent thread is started once; connect returns.                   *)
StartDispatch(t) ==
  /\ Goto(t, "dispatch?", Back(t))
  /\ dispatching' = TRUE
  /\ UNCHANGED <<channelVars, connected, calls, enabled, presenceVars>>

-----------------------------------------------------------------------------
(* The broker, and what the event loop makes of it.                        *)

(* The connection is refused or lost, or the broker closes the channel, as *)
(* it does when report_queue, which is bound but never declared, does not  *)
(* exist.                                                                  *)
Fail ==
  /\ Usable
  /\ link' = "failed"
  /\ UNCHANGED <<handled, reported, connectVars, calls, enabled, presenceVars>>

(* Handshake, declareQueue, bindQueue, consume.                            *)
Establish ==
  /\ dispatching /\ pc[Event] = "dispatch"
  /\ link = "opening" /\ handled
  /\ link' = "consuming"
  /\ UNCHANGED <<handled, reported, connectVars, calls, enabled, presenceVars>>

(* Faulty form: the flag is left as it is.                                 *)
FlagKept == connected' = connected

ClearFlag == connected' = FALSE

(* The error handler: connected = false, then it sleeps.                   *)
OnError ==
  /\ dispatching
  /\ link = "failed" /\ handled /\ ~reported
  /\ Goto(Event, "dispatch", "asleep")
  /\ ClearFlag
  /\ reported' = TRUE
  /\ UNCHANGED <<link, handled, dispatching, calls, enabled, presenceVars>>

(* It wakes up and calls connect.                                          *)
Reconnect ==
  /\ Goto(Event, "asleep", "test")
  /\ UNCHANGED <<channelVars, connected, dispatching, calls, enabled,
                 presenceVars>>

-----------------------------------------------------------------------------
(* The heartbeat thread, and the users that switch it on and off.          *)

(* Faulty form: heartbeat_enabled is not looked at.                        *)
MaySendAlways == Usable

MaySend == Usable /\ enabled

TestHeartbeat ==
  /\ heartbeatPc = "test"
  /\ heartbeatPc' = IF MaySend THEN "get" ELSE "asleep"
  /\ reached' = FALSE
  /\ UNCHANGED <<channelVars, connectVars, calls, enabled, held, stale>>

(* send_presence gets the channel once more: not always the one tested.    *)
GetChannel ==
  /\ heartbeatPc = "get"
  /\ heartbeatPc' = "publish"
  /\ held' = TRUE
  /\ UNCHANGED <<channelVars, connectVars, calls, enabled, reached, stale>>

Publish ==
  /\ heartbeatPc = "publish"
  /\ heartbeatPc' = "asleep"
  /\ held' = FALSE
  /\ reached' = (held /\ link = "consuming")
  /\ stale' = IF enabled THEN stale ELSE stale + 1
  /\ UNCHANGED <<channelVars, connectVars, calls, enabled>>

WakeHeartbeat ==
  /\ heartbeatPc = "asleep"
  /\ heartbeatPc' = "test"
  /\ UNCHANGED <<channelVars, connectVars, calls, enabled, held, reached, stale>>

EnableHeartbeat ==
  /\ enabled' = TRUE
  /\ stale' = 0
  /\ UNCHANGED <<channelVars, connectVars, calls, heartbeatPc, held, reached>>

DisableHeartbeat ==
  /\ enabled
  /\ enabled' = FALSE
  /\ stale' = 0
  /\ UNCHANGED <<channelVars, connectVars, calls, heartbeatPc, held, reached>>

-----------------------------------------------------------------------------
ConnectStep(t) ==
  \/ Test(t) \/ NewConnection(t) \/ NewChannel(t) \/ Retry(t)
  \/ SetHandlers(t) \/ SetFlag(t) \/ StartDispatch(t)

LoopStep == Establish \/ OnError \/ Reconnect

HeartbeatStep == TestHeartbeat \/ GetChannel \/ Publish \/ WakeHeartbeat

Next ==
  \/ Call
  \/ \E t \in Thread : ConnectStep(t) \/ Throw(t)
  \/ LoopStep \/ Fail
  \/ HeartbeatStep \/ EnableHeartbeat \/ DisableHeartbeat

Spec == Init /\ [][Next]_vars

(* Threads run on and sleeps end; a broker that can be reached answers.    *)
(* Nobody has to call connect or to touch heartbeat_enabled.               *)
Fairness ==
  /\ \A t \in Thread : WF_vars(ConnectStep(t))
  /\ WF_vars(LoopStep)
  /\ WF_vars(HeartbeatStep)

FairSpec == Spec /\ Fairness

-----------------------------------------------------------------------------
TypeOK ==
  /\ connected \in BOOLEAN
  /\ link \in {"none", "opening", "consuming", "failed", "detached"}
  /\ handled \in BOOLEAN /\ reported \in BOOLEAN
  /\ dispatching \in BOOLEAN
  /\ pc \in [Thread -> {"outside", "test", "connection", "channel", "retry",
                        "handlers", "flag", "dispatch?", "dispatch", "asleep"}]
  /\ pc[User] \notin {"dispatch", "asleep"} /\ pc[Event] # "outside"
  /\ calls \in 0 .. MaxConnects
  /\ enabled \in BOOLEAN
  /\ heartbeatPc \in {"test", "get", "publish", "asleep"}
  /\ held \in BOOLEAN /\ reached \in BOOLEAN
  /\ stale \in Nat

-----------------------------------------------------------------------------
(* ServiceDiscoveryClient.h:90, "If the connection fails, it will continue *)
(* retrying until a successful connection is established": a channel that  *)
(* is dead for good is not left to itself, with nobody in connect or about *)
(* to call it.                                                             *)
Dead == link = "detached" \/ (link = "failed" /\ reported)
NeverStranded ==
  Dead => \E t \in Thread : pc[t] \notin {"outside", "dispatch", "dispatch?"}

(* From the check of heartbeat_enabled to the publication at most one      *)
(* presence is under way: no more than one goes out after disable_heartbeat *)
(* has returned.                                                           *)
OneStalePresence == ~enabled => stale <= 1

(* The broker is there from some time on, and the constructors stop        *)
(* throwing.                                                               *)
Stable ==
  /\ <>[][link' = "failed" => link = "failed"]_vars
  /\ <>[][\A t \in Thread : pc'[t] = "retry" => pc[t] = "retry"]_vars

(* Once connect has been called, and the broker stays, answers are         *)
(* consumed in the end.                                                    *)
ConsumesInTheEnd == Stable => [](calls > 0 => <>(link = "consuming"))

(* And a client that leaves its heartbeat enabled is heard of for ever.    *)
HeardOf == (Stable /\ <>[]enabled) => [](calls > 0 => <>reached)
=============================================================================
