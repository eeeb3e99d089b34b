--------------------------- MODULE ServiceRegistry ---------------------------
(***************************************************************************)
(* The services map of one ServiceDiscoveryClient and the threads that     *)
(* share it:                                                               *)
(*                                                                         *)
(*   - the libevent thread, which runs process_message on every answer of  *)
(*     the controller and does NOT take services_mutex;                    *)
(*   - the monitor thread, which runs check_services under services_mutex; *)
(*   - user threads, which call get_services or get_existing_services,     *)
(*     both under services_mutex.                                          *)
(*                                                                         *)
(* One step is one access to the map.  Since the libevent thread is not    *)
(* excluded by the mutex, its writes fall between the steps of a traversal *)
(* and the traversal's erasures between its own: the outcomes of that      *)
(* undefined behaviour are the ones KeyGone, LostWrite, Scramble and       *)
(* RaceCrash below describe.                                               *)
(***************************************************************************)
EXTENDS RecordExpiry, Sequences, FiniteSets

CONSTANTS
  ServiceId,   \* service ids that answers may name
  Reader,      \* user threads
  Monitor,     \* the monitor thread
  Timeout,     \* values of heartbeat_timeout
  Stamp,       \* values of last_heartbeat, JSON integers of any width
  Metadata,    \* metadata strings
  NoMetadata,  \* the empty string
  Malformed,   \* an entry from which extracting a field throws
  MaxEntries,  \* bound: entries in an answer
  MaxNow       \* bound: clock ticks

ASSUME MonitorAssumption == Monitor \notin Reader
ASSUME TimeoutAssumption == Timeout \subseteq 0 .. IntMax
ASSUME StampAssumption == Stamp \subseteq Int
ASSUME BoundsAssumption == MaxEntries \in Nat /\ MaxNow \in Nat

Thread == Reader \cup {Monitor}

(* What process_message extracts from one element of the JSON array.       *)
Entry == [id : ServiceId, timeout : Timeout, last : Stamp, metadata : Metadata]
ASSUME MalformedAssumption == Malformed \notin Entry

(* A ServiceDiscoveryRecord; service_uid is the key it is stored under.    *)
Record == [timeout : Timeout \cup {0}, last : Int,
           metadata : Metadata \cup {NoMetadata}]
Blank == [timeout |-> 0, last |-> 0, metadata |-> NoMetadata]

VARIABLES
  now,       \* system_clock, in ticks
  alive,     \* FALSE once the process has been terminated
  services,  \* keys of the services map
  record,    \* the record stored under each key, Blank where there is none
  inside,    \* threads that hold services_mutex
  pending,   \* pending[t]: keys that t's traversal of the map has yet to visit
  copied,    \* copied[r]: keys collected so far by r's call
  waiting,   \* readers that have called and not yet been given the mutex
  eventPc,   \* where the libevent thread is
  answer,    \* entries of the current answer still to be processed
  monitorPc, \* where the monitor thread is
  cursor,    \* the service is_expired() has just returned TRUE for
  (* History: none of these is read by an action.                          *)
  reported,  \* reported[s]: the heartbeat last taken over for s, as sent
  judged,    \* clock and reported[cursor] when cursor was found expired
  entered,   \* keys of the map when the mutex was last taken
  scrambled, \* an insertion has happened since the mutex was last taken
  overdue    \* services expired when the scan began, not refreshed since

mapVars   == <<services, record, reported>>
eventVars == <<eventPc, answer>>
scanVars  == <<monitorPc, cursor, judged, overdue>>
lockVars  == <<inside, pending, copied, waiting, entered, scrambled>>
vars == <<now, alive, mapVars, eventVars, scanVars, lockVars>>

-----------------------------------------------------------------------------
Init ==
  /\ now = 0
  /\ alive = TRUE
  /\ services = {}
  /\ record = [s \in ServiceId |-> Blank]
  /\ inside = {}
  /\ pending = [t \in Thread |-> {}]
  /\ copied = [r \in Reader |-> {}]
  /\ waiting = {}
  /\ eventPc = "idle"
  /\ answer = <<>>
  /\ monitorPc = "asleep"
  /\ cursor \in ServiceId
  /\ reported = [s \in ServiceId |-> 0]
  /\ judged = [at |-> 0, last |-> 0]
  /\ entered = {}
  /\ scrambled = FALSE
  /\ overdue = {}

Tick ==
  /\ alive
  /\ now < MaxNow
  /\ now' = now + 1
  /\ UNCHANGED <<alive, mapVars, eventVars, scanVars, lockVars>>

-----------------------------------------------------------------------------
(* The libevent thread: process_message.                                   *)

(* An answer that is a JSON array.  Any other JSON value, and any message  *)
(* with another routing key, is dropped without a trace: a stuttering      *)
(* step, as is an empty array.                                             *)
ReceiveAnswer(entries) ==
  /\ alive
  /\ eventPc = "idle"
  /\ eventPc' = "lookup"
  /\ answer' = entries
  /\ UNCHANGED <<now, alive, mapVars, scanVars, lockVars>>

(* json::parse throws outside the try block: nothing on the libevent       *)
(* thread's stack catches it.                                              *)
ReceiveUnparsable ==
  /\ alive
  /\ eventPc = "idle"
  /\ alive' = FALSE
  /\ UNCHANGED <<now, mapVars, eventVars, scanVars, lockVars>>

(* The rest of the answer is given up: the catch clause returns.           *)
Abandon ==
  /\ eventPc' = "idle"
  /\ answer' = <<>>

(* Faulty forms: the end of the array is not noticed; the entry is kept.   *)
NextEntryUnchecked ==
  /\ answer' = Tail(answer)
  /\ eventPc' = "lookup"

NextEntryKept ==
  /\ answer' = answer
  /\ eventPc' = "lookup"

(* The loop over the array moves to the next element, or ends.             *)
NextEntry ==
  /\ answer' = Tail(answer)
  /\ eventPc' = IF Tail(answer) = <<>> THEN "idle" ELSE "lookup"

(* Extraction of the fields, then services.count().                        *)
Lookup ==
  /\ alive
  /\ eventPc = "lookup"
  /\ \/ /\ Head(answer) = Malformed
        /\ Abandon
     \/ /\ Head(answer) # Malformed
        /\ eventPc' = IF Head(answer).id \in services
                        THEN "heartbeat" ELSE "emplace"
        /\ UNCHANGED answer
  /\ UNCHANGED <<now, alive, mapVars, scanVars, lockVars>>

(* A services.at() finds the key that services.count() found erased since, *)
(* and throws.  (If the erasure fell between the first at() and the update *)
(* of the heartbeat, the second at() throws.)                              *)
KeyGone ==
  /\ alive
  /\ eventPc \in {"heartbeat", "metadata"}
  /\ Head(answer).id \notin services
  /\ Abandon
  /\ UNCHANGED <<now, alive, mapVars, scanVars, lockVars>>

(* The erasure came after the second services.at() had returned: the       *)
(* update reaches a record that is no longer in the map.                   *)
LostWrite ==
  /\ alive
  /\ eventPc = "metadata"
  /\ Head(answer).id \notin services
  /\ NextEntry
  /\ UNCHANGED <<now, alive, mapVars, scanVars, lockVars>>

UpdateHeartbeat ==
  LET e == Head(answer) IN
  /\ alive
  /\ eventPc = "heartbeat"
  /\ e.id \in services
  /\ record' = [record EXCEPT ![e.id].last = ToInt(e.last)]
  /\ reported' = [reported EXCEPT ![e.id] = e.last]
  /\ overdue' = overdue \ {e.id}
  /\ eventPc' = "metadata"
  /\ UNCHANGED <<now, alive, services, answer, monitorPc, cursor, judged,
                 lockVars>>

UpdateMetadata ==
  LET e == Head(answer) IN
  /\ alive
  /\ eventPc = "metadata"
  /\ e.id \in services
  /\ record' = [record EXCEPT ![e.id].metadata = e.metadata]
  /\ NextEntry
  /\ UNCHANGED <<now, alive, services, reported, scanVars, lockVars>>

(* Faulty form: the two integers are passed in the wrong order.            *)
NewRecordSwapped(e) ==
  [timeout |-> e.last, last |-> e.timeout, metadata |-> NoMetadata]

(* The record an entry creates: the constructor takes no metadata.         *)
NewRecord(e) ==
  [timeout |-> e.timeout, last |-> ToInt(e.last), metadata |-> NoMetadata]

(* An insertion may rehash the map, which relinks every node: a traversal  *)
(* under way may skip or repeat any of them.                               *)
Scramble(s) ==
  /\ scrambled' = (inside # {} \/ scrambled)
  /\ \E left \in [inside -> SUBSET (services \cup {s})] :
       pending' = [t \in Thread |->
                     IF t \in inside THEN left[t] ELSE pending[t]]

Emplace ==
  LET e == Head(answer) IN
  /\ alive
  /\ eventPc = "emplace"
  /\ services' = services \cup {e.id}
  /\ record' = [record EXCEPT ![e.id] = NewRecord(e)]
  /\ reported' = [reported EXCEPT ![e.id] = e.last]
  /\ Scramble(e.id)
  /\ NextEntry
  /\ UNCHANGED <<now, alive, scanVars, inside, copied, waiting, entered>>

(* A change of the map overlaps another thread's access to it, or the      *)
(* libevent thread writes to a record that has been freed.                 *)
RaceCrash ==
  /\ alive
  /\ \/ eventPc = "emplace" /\ inside # {}
     \/ eventPc \in {"lookup", "heartbeat", "metadata"} /\ monitorPc = "erase"
     \/ eventPc \in {"heartbeat", "metadata"} /\ Head(answer).id \notin services
  /\ alive' = FALSE
  /\ UNCHANGED <<now, mapVars, eventVars, scanVars, lockVars>>

-----------------------------------------------------------------------------
(* services_mutex.                                                         *)

(* Faulty form: no lock_guard.                                             *)
MutexIgnored == TRUE

MutexFree == inside = {}

Lock(t) ==
  /\ inside' = inside \cup {t}
  /\ pending' = [pending EXCEPT ![t] = services]
  /\ entered' = services
  /\ scrambled' = FALSE

(* Faulty form: the mutex is never given back.                             *)
UnlockForgotten(t) == UNCHANGED <<inside, entered, scrambled>>

Unlock(t) ==
  /\ inside' = inside \ {t}
  /\ entered' = {}
  /\ scrambled' = FALSE

(* Faulty form: the iterator is advanced twice.                            *)
VisitedNextToo(t, s) ==
  \E next \in pending[t] : pending' = [pending EXCEPT ![t] = @ \ {s, next}]

Visited(t, s) == pending' = [pending EXCEPT ![t] = @ \ {s}]

-----------------------------------------------------------------------------
(* The monitor thread: check_services, then sleep_for.                     *)

(* Late by a whole second at least, for the heartbeat last reported.       *)
Overdue(s) ==
  now >= (reported[s] + record[s].timeout + 1) * TicksPerSecond

Expired(s) == IsExpired(now, record[s].last, record[s].timeout)

BeginScan ==
  /\ alive
  /\ monitorPc = "asleep"
  /\ MutexFree
  /\ Lock(Monitor)
  /\ monitorPc' = "scan"
  /\ overdue' = {s \in services : Overdue(s)}
  /\ UNCHANGED <<now, alive, mapVars, eventVars, cursor, judged, copied,
                 waiting>>

(* is_expired() on the iterator's record.                                  *)
Examine(s) ==
  /\ alive
  /\ monitorPc = "scan"
  /\ s \in pending[Monitor]
  /\ IF Expired(s)
       THEN /\ monitorPc' = "erase"
            /\ cursor' = s
            /\ judged' = [at |-> now, last |-> reported[s]]
            /\ UNCHANGED pending
       ELSE /\ Visited(Monitor, s)
            /\ UNCHANGED <<monitorPc, cursor, judged>>
  /\ UNCHANGED <<now, alive, mapVars, eventVars, overdue, inside, copied,
                 waiting, entered, scrambled>>

Erase ==
  /\ alive
  /\ monitorPc = "erase"
  /\ monitorPc' = "scan"
  /\ services' = services \ {cursor}
  /\ record' = [record EXCEPT ![cursor] = Blank]
  /\ reported' = [reported EXCEPT ![cursor] = 0]
  /\ judged' = [at |-> 0, last |-> 0]
  /\ overdue' = overdue \ {cursor}
  /\ Visited(Monitor, cursor)
  /\ UNCHANGED <<now, alive, eventVars, cursor, inside, copied, waiting,
                 entered, scrambled>>

EndScan ==
  /\ alive
  /\ monitorPc = "scan"
  /\ pending[Monitor] = {}
  /\ monitorPc' = "asleep"
  /\ overdue' = {}
  /\ Unlock(Monitor)
  /\ UNCHANGED <<now, alive, mapVars, eventVars, cursor, judged, pending,
                 copied, waiting>>

-----------------------------------------------------------------------------
(* User threads: get_services and get_existing_services.                   *)

Call(r) ==
  /\ alive
  /\ r \notin waiting \cup inside
  /\ waiting' = waiting \cup {r}
  /\ UNCHANGED <<now, alive, mapVars, eventVars, scanVars, inside, pending,
                 copied, entered, scrambled>>

BeginCopy(r) ==
  /\ alive
  /\ r \in waiting
  /\ MutexFree
  /\ Lock(r)
  /\ waiting' = waiting \ {r}
  /\ UNCHANGED <<now, alive, mapVars, eventVars, scanVars, copied>>

Copy(r, s) ==
  /\ alive
  /\ r \in inside
  /\ s \in pending[r]
  /\ copied' = [copied EXCEPT ![r] = @ \cup {s}]
  /\ Visited(r, s)
  /\ UNCHANGED <<now, alive, mapVars, eventVars, scanVars, inside, waiting,
                 entered, scrambled>>

(* The lock guard is released and copied[r] returned.                      *)
EndCopy(r) ==
  /\ alive
  /\ r \in inside
  /\ pending[r] = {}
  /\ copied' = [copied EXCEPT ![r] = {}]
  /\ Unlock(r)
  /\ UNCHANGED <<now, alive, mapVars, eventVars, scanVars, pending, waiting>>

-----------------------------------------------------------------------------
Answers == UNION {[1 .. n -> Entry \cup {Malformed}] : n \in 1 .. MaxEntries}

Receive == \E entries \in Answers : ReceiveAnswer(entries)

EventStep ==
  \/ Lookup \/ KeyGone \/ LostWrite
  \/ UpdateHeartbeat \/ UpdateMetadata \/ Emplace

MonitorStep == BeginScan \/ (\E s \in ServiceId : Examine(s)) \/ Erase \/ EndScan

ReaderStep(r) == BeginCopy(r) \/ (\E s \in ServiceId : Copy(r, s)) \/ EndCopy(r)

Next ==
  \/ Tick
  \/ Receive \/ ReceiveUnparsable \/ EventStep \/ RaceCrash
  \/ MonitorStep
  \/ \E r \in Reader : Call(r) \/ ReaderStep(r)

Spec == Init /\ [][Next]_vars

(* No thread blocks for ever: the libevent thread runs on, and whoever     *)
(* wants services_mutex gets it, because its holders release it within     *)
(* one traversal and sleep for seconds between two.  Nothing makes the     *)
(* controller answer or a user thread call.                                *)
Fairness ==
  /\ WF_vars(EventStep)
  /\ SF_vars(MonitorStep)
  /\ \A r \in Reader : SF_vars(ReaderStep(r))

FairSpec == Spec /\ Fairness

-----------------------------------------------------------------------------
TypeOK ==
  /\ now \in Nat
  /\ alive \in BOOLEAN
  /\ services \subseteq ServiceId
  /\ record \in [ServiceId -> Record]
  /\ inside \subseteq Thread
  /\ pending \in [Thread -> SUBSET ServiceId]
  /\ copied \in [Reader -> SUBSET ServiceId]
  /\ waiting \subseteq Reader
  /\ eventPc \in {"idle", "lookup", "heartbeat", "metadata", "emplace"}
  /\ answer \in Seq(Entry \cup {Malformed})
  /\ eventPc = "idle" <=> answer = <<>>
  /\ eventPc \in {"heartbeat", "metadata", "emplace"} => Head(answer) \in Entry
  /\ monitorPc \in {"asleep", "scan", "erase"}
  /\ cursor \in ServiceId
  /\ reported \in [ServiceId -> Stamp \cup {0}]
  /\ judged \in [at : Nat, last : Stamp \cup {0}]
  /\ entered \subseteq ServiceId
  /\ scrambled \in BOOLEAN
  /\ overdue \subseteq ServiceId

-----------------------------------------------------------------------------
(* Safety.                                                                 *)

(* A service leaves the map only through check_services, alone in the      *)
(* mutex, and only if more than heartbeat_timeout seconds had passed, when *)
(* is_expired() was evaluated, since the heartbeat then last reported.     *)
DepartureJustified ==
  [][\A s \in services \ services' :
       /\ inside = {Monitor}
       /\ cursor = s
       /\ Late(judged.at, judged.last, record[s].timeout)]_vars

(* What get_services returns was in the map together, when the mutex is    *)
(* given back; and it is the whole map, the same as when the mutex was     *)
(* taken, unless the libevent thread has inserted in between.              *)
SnapshotExact ==
  [][\A r \in inside \ inside' : r \in Reader =>
       /\ copied[r] \subseteq services
       /\ ~scrambled => copied[r] = services /\ services = entered]_vars

(* A scan misses no record that was overdue when it began, was not         *)
(* refreshed meanwhile, and whose traversal no insertion disturbed.        *)
ScanThorough ==
  [][(Monitor \in inside \ inside' /\ ~scrambled) => (overdue = {})]_vars

(* Members are the keys of the map, with what their records hold; the one  *)
(* suspect is the service is_expired() has just returned TRUE for.         *)
Members == INSTANCE Membership WITH
  running  <- alive,
  members  <- services,
  heard    <- [s \in ServiceId |-> record[s].last],
  allowed  <- [s \in ServiceId |-> record[s].timeout],
  suspects <- IF monitorPc = "erase" THEN {cursor} ELSE {}

(* Whatever the interleaving of the three kinds of threads, the map changes *)
(* as Membership says: no service is lost, revived, given another one's    *)
(* stamp or another timeout, or removed without having been found late.    *)
ImplementsMembership == Members!Spec

(* Every stamp fits the build's int.                                       *)
StampsFit == Stamp \subseteq -(IntMax + 1) .. IntMax

-----------------------------------------------------------------------------
(* Liveness.                                                               *)

(* Answers stop arriving.  While they go on, a service that was erased can *)
(* be created again, and an insertion can send a traversal back.           *)
Quiet == <>[][eventPc = "idle" => eventPc' = "idle"]_vars

(* An overdue service is removed or refreshed.                             *)
OverdueLeaves ==
  Quiet => \A s \in ServiceId :
    (s \in services /\ Overdue(s)) ~> (s \notin services \/ ~Overdue(s) \/ ~alive)

(* A call of get_services returns.                                         *)
CallReturns ==
  Quiet => \A r \in Reader :
    (r \in waiting \cup inside) ~> (r \notin waiting \cup inside \/ ~alive)

(* The libevent thread is done with every answer.                          *)
AnswerEnds == (eventPc # "idle") ~> (eventPc = "idle" \/ ~alive)

-----------------------------------------------------------------------------
(* What comments of the source promise and the code does not do.           *)

(* ServiceDiscoveryClient.cpp:121, "If the service is expired, remove it   *)
(* from the services map": the record erased is expired at that moment.    *)
OnlyExpiredErased ==
  [][\A s \in services \ services' :
       Late(now, reported[s], record[s].timeout)]_vars
=============================================================================
