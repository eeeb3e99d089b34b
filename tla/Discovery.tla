------------------------------ MODULE Discovery ------------------------------
(***************************************************************************)
(* A service and a listener, each with a ServiceDiscoveryClient, composed  *)
(* with the broker and the controller between them: how long it takes      *)
(* until the listener knows the service, and until it has forgotten it.    *)
(*                                                                         *)
(* The listener's map takes the steps of Membership, which ServiceRegistry *)
(* implements; the service is one that the simulation switches off and on. *)
(* The other services act on this one in two ways, both of them here: what *)
(* becomes of them may make the listener drop an answer or miss the        *)
(* service in a check.  Broker and controller are external: the broker     *)
(* keeps the order of a queue and drops an exclusive queue with its        *)
(* connection; the controller answers with the stamp of the presence it    *)
(* read last.                                                              *)
(*                                                                         *)
(* A tick is a second.  Every delay has a bound, and time stands still     *)
(* while something is due: sleeps last as long as they say, and what the   *)
(* threads do in between takes no time.                                    *)
(***************************************************************************)
EXTENDS Integers, Sequences

CONSTANTS
  Service,           \* the service id of the one service
  IntMax,            \* INT_MAX of the build
  HeartbeatTimeout, HeartbeatInterval, CheckInterval,  \* as in the constructor
  OfflineLoops,      \* values of offline_duration
  LoopPause,         \* longest sleep of the simulation loop
  PresenceDelay,     \* longest way of a presence to the controller
  AnswerPeriod,      \* longest time between two answers
  AnswerDelay,       \* longest way of an answer to the listener
  Skew,              \* largest difference between the two clocks
  MaxFaults,         \* bound: connections lost
  MaxNow             \* bound: seconds

ASSUME PeriodAssumption ==
  /\ HeartbeatInterval \in Nat \ {0} /\ CheckInterval \in Nat \ {0}
  /\ LoopPause \in Nat \ {0} /\ AnswerPeriod \in Nat \ {0}
  /\ HeartbeatTimeout \in Nat /\ Skew \in Nat
  /\ PresenceDelay \in Nat /\ AnswerDelay \in Nat
ASSUME BoundAssumption ==
  OfflineLoops \subseteq Nat /\ MaxFaults \in Nat /\ MaxNow \in Nat

VARIABLES
  now,       \* the listener's clock
  members, heard, allowed, suspects,  \* the listener's map, as in Membership
  checkDue,  \* when the monitor thread wakes
  consuming, \* the listener consumes an answer queue
  answers,   \* that queue
  skew,      \* the service's clock minus the listener's
  enabled,   \* heartbeat_enabled of the service
  offline,   \* offline_counter
  loopDue,   \* when the simulation loop goes on
  linked,    \* channel->connected() of the service
  beatDue,   \* when the heartbeat thread wakes
  presences, \* the controller's queue
  listed,    \* {stamp} the controller lists the service with, or {}
  answerDue, \* when the controller answers
  faults,    \* connections lost so far
  (* History.                                                              *)
  steadySince, \* since when the service is Steady and no answer was dropped
  lastSent,    \* when a presence was last published
  joined,      \* when the service last became a member
  missed       \* the last check missed the service although it was late

mapVars == <<members, heard, allowed, suspects, joined>>
listenerVars == <<mapVars, checkDue, missed>>
serviceVars == <<enabled, offline, loopDue>>
linkVars == <<linked, consuming, faults, steadySince>>
beatVars == <<beatDue, lastSent>>
controllerVars == <<listed, answerDue>>
vars == <<now, skew, listenerVars, serviceVars, linkVars, beatVars,
          controllerVars, presences, answers>>

Running == now >= 0  \* the listener's process does not end

Listener == INSTANCE Membership WITH
  TicksPerSecond <- 1, ServiceId <- {Service}, Timeout <- {HeartbeatTimeout},
  Stamp <- Int, running <- Running

(* Both clients have been constructed; connect has not returned.           *)
Init ==
  /\ now = 0
  /\ members = {} /\ suspects = {}
  /\ heard = [s \in {Service} |-> 0] /\ allowed = [s \in {Service} |-> 0]
  /\ checkDue \in 0 .. CheckInterval
  /\ consuming = FALSE /\ answers = <<>>
  /\ skew \in -Skew .. Skew
  /\ enabled = TRUE /\ offline = 0 /\ loopDue = 0
  /\ linked = FALSE /\ beatDue = 0 /\ presences = <<>>
  /\ listed = {} /\ answerDue = 0
  /\ faults = 0
  /\ steadySince = 0 /\ lastSent = 0 /\ joined = 0 /\ missed = FALSE

InTime(queue, delay) == queue # <<>> => now < Head(queue).sent + delay

Tick ==
  /\ now < MaxNow
  /\ now < beatDue /\ now < loopDue /\ now < answerDue /\ now < checkDue
  /\ suspects = {}
  /\ InTime(presences, PresenceDelay)
  /\ InTime(answers, AnswerDelay)
  /\ now' = now + 1
  /\ UNCHANGED <<skew, listenerVars, serviceVars, linkVars, beatVars,
                 controllerVars, presences, answers>>

-----------------------------------------------------------------------------
(* The service: heartbeat thread and simulation.                           *)

(* Faulty form: one round in two is slept through.                         *)
NextBeatLate == now + 2 * HeartbeatInterval

NextBeat == now + HeartbeatInterval

(* send_presence reads the clock when it publishes.                        *)
Presence == [stamp |-> now + skew, sent |-> now]

Beat ==
  /\ now = beatDue
  /\ beatDue' = NextBeat
  /\ IF enabled /\ linked
       THEN presences' = Append(presences, Presence) /\ lastSent' = now
       ELSE UNCHANGED <<presences, lastSent>>
  /\ UNCHANGED <<now, skew, listenerVars, serviceVars, linkVars,
                 controllerVars, answers>>

Steady == enabled /\ linked /\ consuming
BecomesSteady ==
  steadySince' = IF ~Steady' THEN 0 ELSE IF Steady THEN steadySince ELSE now

(* Faulty form: the counter is decremented once too often.                 *)
StaysOfflineOnce == offline >= 0

StaysOffline == offline > 0

(* One round of the loop of simulate_service.                              *)
Simulate ==
  /\ now = loopDue
  /\ loopDue' \in now + 1 .. now + LoopPause
  /\ \/ enabled /\ UNCHANGED <<enabled, offline>>
     \/ enabled /\ enabled' = FALSE /\ offline' \in OfflineLoops
     \/ ~enabled /\ StaysOffline /\ offline' = offline - 1 /\ UNCHANGED enabled
     \/ ~enabled /\ ~StaysOffline /\ enabled' = TRUE /\ UNCHANGED offline
  /\ UNCHANGED <<linked, consuming, faults>>
  /\ BecomesSteady
  /\ UNCHANGED <<now, skew, listenerVars, beatVars, controllerVars, presences,
                 answers>>

-----------------------------------------------------------------------------
(* Connections.  A lost one takes with it presences that have not reached  *)
(* the broker, or the answer queue, which is exclusive.                    *)

Link ==
  /\ ~linked
  /\ linked' = TRUE
  /\ UNCHANGED <<enabled, offline, loopDue, consuming, faults>>
  /\ BecomesSteady
  /\ UNCHANGED <<now, skew, listenerVars, beatVars, controllerVars, presences,
                 answers>>

LoseLink ==
  /\ linked
  /\ faults < MaxFaults
  /\ linked' = FALSE
  /\ faults' = faults + 1
  /\ \E n \in 0 .. Len(presences) : presences' = SubSeq(presences, 1, n)
  /\ UNCHANGED <<enabled, offline, loopDue, consuming>>
  /\ BecomesSteady
  /\ UNCHANGED <<now, skew, listenerVars, beatVars, controllerVars, answers>>

Consume ==
  /\ ~consuming
  /\ consuming' = TRUE
  /\ UNCHANGED <<enabled, offline, loopDue, linked, faults>>
  /\ BecomesSteady
  /\ UNCHANGED <<now, skew, listenerVars, beatVars, controllerVars, presences,
                 answers>>

LoseQueue ==
  /\ consuming
  /\ faults < MaxFaults
  /\ consuming' = FALSE
  /\ faults' = faults + 1
  /\ answers' = <<>>
  /\ UNCHANGED <<enabled, offline, loopDue, linked>>
  /\ BecomesSteady
  /\ UNCHANGED <<now, skew, listenerVars, beatVars, controllerVars, presences>>

-----------------------------------------------------------------------------
(* The controller.                                                         *)

ReadPresence ==
  /\ presences # <<>>
  /\ presences' = Tail(presences)
  /\ listed' = {Head(presences).stamp}
  /\ UNCHANGED <<now, skew, listenerVars, serviceVars, linkVars, beatVars,
                 answerDue, answers>>

Answer ==
  /\ now = answerDue
  /\ answerDue' \in now + 1 .. now + AnswerPeriod
  /\ answers' = IF consuming /\ listed # {}
                  THEN Append(answers,
                              [stamp |-> CHOOSE t \in listed : TRUE, sent |-> now])
                  ELSE answers
  /\ UNCHANGED <<now, skew, listenerVars, serviceVars, linkVars, beatVars,
                 listed, presences>>

(* It may stop listing a service that has been silent for long; nothing    *)
(* says that it does.                                                      *)
Forget ==
  /\ \E stamp \in listed : now > stamp + HeartbeatTimeout + 2 * Skew
  /\ listed' = {}
  /\ UNCHANGED <<now, skew, listenerVars, serviceVars, linkVars, beatVars,
                 answerDue, presences, answers>>

-----------------------------------------------------------------------------
(* The listener: libevent thread and monitor thread.                       *)

(* Faulty forms: the time of arrival ("the current time"); the time the    *)
(* answer has been under way is taken off.                                 *)
StampOfArrival(answer) == now

StampCorrected(answer) == answer.stamp - (now - answer.sent)

StampOf(answer) == answer.stamp

ProcessAnswer ==
  /\ answers # <<>>
  /\ answers' = Tail(answers)
  /\ LET stamp == StampOf(Head(answers)) IN
       \/ /\ Listener!Join(Service, stamp, HeartbeatTimeout)
          /\ joined' = now
       \/ /\ Listener!HearOf(Service, stamp)
          /\ UNCHANGED joined
  /\ UNCHANGED <<checkDue, missed, skew, serviceVars, linkVars, beatVars,
                 controllerVars, presences>>

(* An entry before this service's is malformed, or it is erased by the     *)
(* monitor between count() and at(): the rest of the answer is dropped.    *)
(* How often that happens is up to the other services and the controller.  *)
DropAnswer ==
  /\ answers # <<>>
  /\ answers' = Tail(answers)
  /\ steadySince' = IF Steady THEN now ELSE steadySince
  /\ UNCHANGED <<now, skew, listenerVars, serviceVars, linked, consuming,
                 faults, beatVars, controllerVars, presences>>

IsLate == Service \in members
            /\ Listener!IsExpired(now, heard[Service], allowed[Service])

PassCheck ==
  /\ now = checkDue
  /\ suspects = {}
  /\ ~IsLate
  /\ checkDue' = now + CheckInterval
  /\ missed' = FALSE
  /\ UNCHANGED <<now, skew, mapVars, serviceVars, linkVars, beatVars,
                 controllerVars, presences, answers>>

(* The libevent thread inserts another service, without the mutex, while   *)
(* the monitor walks the map: the table is rebuilt under its iterator, and *)
(* the walk ends without having come by this service.                      *)
MissLate ==
  /\ now = checkDue
  /\ suspects = {}
  /\ IsLate
  /\ checkDue' = now + CheckInterval
  /\ missed' = TRUE
  /\ UNCHANGED <<now, skew, mapVars, serviceVars, linkVars, beatVars,
                 controllerVars, presences, answers>>

FindLate ==
  /\ now = checkDue
  /\ suspects = {}
  /\ IsLate
  /\ Listener!FindLate(Service)
  /\ UNCHANGED <<joined, checkDue, missed, skew, serviceVars, linkVars,
                 beatVars, controllerVars, presences, answers>>

Erase ==
  /\ Listener!Leave(Service)
  /\ checkDue' = now + CheckInterval
  /\ joined' = 0 /\ missed' = FALSE
  /\ UNCHANGED <<skew, serviceVars, linkVars, beatVars, controllerVars,
                 presences, answers>>

-----------------------------------------------------------------------------
Next ==
  \/ Tick
  \/ Beat \/ Simulate
  \/ Link \/ LoseLink \/ Consume \/ LoseQueue
  \/ ReadPresence \/ Answer \/ Forget
  \/ ProcessAnswer \/ DropAnswer
  \/ PassCheck \/ MissLate \/ FindLate \/ Erase

Spec == Init /\ [][Next]_vars

-----------------------------------------------------------------------------
Message == [stamp : Int, sent : Nat]

TypeOK ==
  /\ now \in Nat /\ skew \in -Skew .. Skew
  /\ members \subseteq {Service} /\ suspects \subseteq members
  /\ heard \in [{Service} -> Int]
  /\ allowed \in [{Service} -> {0, HeartbeatTimeout}]
  /\ checkDue \in Nat /\ loopDue \in Nat /\ beatDue \in Nat /\ answerDue \in Nat
  /\ consuming \in BOOLEAN /\ enabled \in BOOLEAN /\ linked \in BOOLEAN
  /\ presences \in Seq(Message) /\ answers \in Seq(Message)
  /\ listed \subseteq Int /\ \A t, u \in listed : t = u
  /\ offline \in Nat /\ faults \in Nat
  /\ steadySince \in Nat /\ lastSent \in Nat
  /\ joined \in Nat /\ missed \in BOOLEAN

(* A presence, its way, an answer, and its way.                            *)
Age == HeartbeatInterval + PresenceDelay + AnswerPeriod + AnswerDelay

(* A service that has been left alone for long enough is known, and stays  *)
(* so: its timeout is not reached by delays and clocks, if it is Age plus  *)
(* Skew at least.  Left alone means that no connection was lost, the       *)
(* simulation did not switch it off, and the listener dropped no answer;   *)
(* after the last of these the wait begins anew.  The time of one more     *)
(* answer is for an erasure that was decided before the first fresh answer *)
(* and carried out after it.                                               *)
SteadyIsMember ==
  (HeartbeatTimeout >= Age + Skew /\ Steady
     /\ now > steadySince + Age + AnswerPeriod + AnswerDelay)
  => Service \in members

(* A service that has been silent for its timeout is erased by the next    *)
(* check, unless an insertion makes that check miss it, which costs one    *)
(* interval more each time; answers that still name it bring it back until *)
(* the check after, and never for longer, however long they go on.         *)
GhostIsBrief ==
  (Service \in members /\ now > lastSent + HeartbeatTimeout + Skew + CheckInterval)
    => now <= joined + CheckInterval \/ missed

(* The heartbeat of a record never moves backwards, although a record      *)
(* takes over whatever stamp an answer carries.                            *)
HeartbeatMonotone ==
  [][(members # {} /\ members' # {}) => heard'[Service] >= heard[Service]]_vars
=============================================================================
