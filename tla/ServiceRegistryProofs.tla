------------------------ MODULE ServiceRegistryProofs ------------------------
(***************************************************************************)
(* What ServiceRegistry guarantees for every set of services, threads,     *)
(* stamps and timeouts, and answers of any length.                         *)
(***************************************************************************)
EXTENDS ServiceRegistry, FiniteSetTheorems, SequenceTheorems,
        TLAPS

-----------------------------------------------------------------------------
(* The expiry arithmetic of a record, for every clock resolution and every *)
(* int width.                                                              *)

(* A heartbeat stamp that fits the build's int is stored as it came.       *)
LEMMA ToIntIdentity ==
  ASSUME NEW n \in -(IntMax + 1) .. IntMax
  PROVE  ToInt(n) = n
<1>1. n + IntMax + 1 \in 0 .. (2 * (IntMax + 1) - 1)
  BY IntMaxAssumption
<1>2. (n + IntMax + 1) % (2 * (IntMax + 1)) = n + IntMax + 1
  BY <1>1, IntMaxAssumption
<1> QED
  BY <1>2, IntMaxAssumption DEF ToInt

(* Whatever integer an answer carries, get<int>() yields a value of an     *)
(* int.                                                                    *)
LEMMA ToIntRange ==
  ASSUME NEW n \in Int
  PROVE  ToInt(n) \in -(IntMax + 1) .. IntMax
<1> DEFINE m == 2 * (IntMax + 1)
<1>1. m \in Nat \ {0}
  BY IntMaxAssumption
<1>2. (n + IntMax + 1) % m \in 0 .. (m - 1)
  <2>1. n + IntMax + 1 \in Int
    BY IntMaxAssumption
  <2> HIDE DEF m
  <2> QED
    BY <1>1, <2>1
<1> QED
  BY <1>2, IntMaxAssumption DEF ToInt

LEMMA DivisionBounds ==
  ASSUME NEW t \in Nat, NEW d \in Nat \ {0}
  PROVE  /\ t \div d \in Nat
         /\ d * (t \div d) <= t
         /\ t < d * (t \div d) + d
  OBVIOUS

(* The clock reading at which a record expires: a whole second after       *)
(* last + timeout, since the comparison is strict and the elapsed time     *)
(* truncated.                                                              *)
THEOREM ExpiryInstant ==
  ASSUME NEW at \in Int, NEW last \in Int, NEW timeout \in Nat
  PROVE  IsExpired(at, last, timeout)
           <=> at >= (last + timeout + 1) * TicksPerSecond
<1> DEFINE d == TicksPerSecond
           t == at - last * d
           q == t \div d
<1>0. d \in Nat \ {0} /\ t \in Int
  BY TicksAssumption
<1>1. at >= (last + timeout + 1) * d <=> t >= (timeout + 1) * d
  BY <1>0
<1>2. CASE t < 0
  <2>1. -((-t) \div d) <= 0
    <3>1. (-t) \in Nat
      BY <1>0, <1>2
    <3> HIDE DEF t, d
    <3>2. (-t) \div d \in Nat
      BY <3>1, <1>0, DivisionBounds
    <3> QED
      BY <3>2
  <2>2. ~ IsExpired(at, last, timeout)
    BY <2>1, <1>0, <1>2 DEF IsExpired, TimeDifference
  <2>3. (timeout + 1) * d >= 0
    BY <1>0
  <2> QED
    BY <2>2, <2>3, <1>1, <1>2, <1>0
<1>3. CASE t >= 0
  <2>1. q \in Nat /\ d * q <= t /\ t < d * q + d
    <3> HIDE DEF d, t
    <3> QED
      BY <1>0, <1>3, DivisionBounds
  <2>2. IsExpired(at, last, timeout) <=> q > timeout
    BY <1>3, <1>0 DEF IsExpired, TimeDifference
  <2>3. q > timeout <=> t >= (timeout + 1) * d
    <3> HIDE DEF d, t, q
    <3>1. ASSUME q >= timeout + 1
          PROVE  d * q >= d * (timeout + 1)
      BY <3>1, <2>1, <1>0
    <3>2. ASSUME q <= timeout
          PROVE  d * q <= d * timeout
      BY <3>2, <2>1, <1>0
    <3> QED
      BY <3>1, <3>2, <2>1, <1>0
  <2> QED
    BY <2>2, <2>3, <1>1
<1> QED
  BY <1>0, <1>2, <1>3

(* A record that counts as expired stays so as time passes, as long as no  *)
(* heartbeat is stored in it.                                              *)
THEOREM ExpiryMonotone ==
  ASSUME NEW at \in Int, NEW later \in Int, NEW last \in Int,
         NEW timeout \in Nat, at <= later,
         IsExpired(at, last, timeout)
  PROVE  IsExpired(later, last, timeout)
  BY ExpiryInstant, TicksAssumption

(* What is left of a number when the modulus goes into it.                 *)
LEMMA ModBelow ==
  ASSUME NEW x \in Nat, NEW m \in Nat \ {0}, x >= m
  PROVE  x % m \in Int /\ x % m <= x - m
<1> DEFINE q == x \div m
<1>1. q \in Nat /\ x = m * q + (x % m) /\ x % m \in 0 .. (m - 1)
  OBVIOUS
<1>2. q >= 1
  <2>1. CASE q = 0
    BY <1>1, <2>1
  <2>2. CASE q # 0
    BY <1>1, <2>2
  <2> QED
    BY <2>1, <2>2
<1>3. m * q >= m
  <2> HIDE DEF q
  <2>1. PICK k \in Nat : q = k + 1
    <3>1. q - 1 \in Nat /\ q = (q - 1) + 1
      BY <1>1, <1>2
    <3> QED
      BY <3>1
  <2>2. m * q = m * k + m /\ m * k >= 0
    BY <2>1
  <2> QED
    BY <2>2
<1> QED
  BY <1>1, <1>3

(* A heartbeat stamp beyond the build's int comes out of get<int>() so far *)
(* in the past that is_expired() is TRUE for it, whatever the timeout,     *)
(* unless the stamp is IntMax seconds and more ahead of the clock.         *)
THEOREM WrappedStampExpires ==
  ASSUME NEW at \in Int, NEW n \in Int, NEW timeout \in 0 .. IntMax,
         n > IntMax,
         at >= (n - IntMax - 1) * TicksPerSecond
  PROVE  IsExpired(at, ToInt(n), timeout)
<1> DEFINE m == 2 * (IntMax + 1)
           x == n + IntMax + 1
<1>1. x \in Nat /\ m \in Nat \ {0} /\ x >= m
  BY IntMaxAssumption
<1>2. x % m \in Int /\ x % m <= x - m
  <2> HIDE DEF x, m
  <2> QED
    BY <1>1, ModBelow
<1>3. ToInt(n) \in Int /\ ToInt(n) <= n - 2 * (IntMax + 1)
  BY <1>2, IntMaxAssumption DEF ToInt
<1>4. ToInt(n) + timeout + 1 \in Int /\ ToInt(n) + timeout + 1 <= n - IntMax - 1
  BY <1>3, IntMaxAssumption
<1>5. ASSUME NEW i \in Int, NEW j \in Int, i <= j
      PROVE  i * TicksPerSecond <= j * TicksPerSecond
  BY <1>5, TicksAssumption
<1>6. at >= (ToInt(n) + timeout + 1) * TicksPerSecond
  <2>1. n - IntMax - 1 \in Int
    BY IntMaxAssumption
  <2>2. (ToInt(n) + timeout + 1) * TicksPerSecond <= (n - IntMax - 1) * TicksPerSecond
    BY <1>4, <1>5, <2>1
  <2> QED
    BY <1>4, <2>1, <2>2, TicksAssumption
<1>7. timeout \in Nat
  BY IntMaxAssumption
<1> QED
  BY <1>3, <1>6, <1>7, ExpiryInstant

-----------------------------------------------------------------------------
(* The parts of the inductive invariant.                                   *)

(* services_mutex has one holder, and the monitor thread holds it whenever *)
(* it is not asleep.                                                       *)
MutexInv ==
  /\ \A t, u \in inside : t = u
  /\ Monitor \in inside <=> monitorPc # "asleep"

(* Whatever a traversal has yet to visit is in the map.                    *)
TraversalInv == \A t \in inside : pending[t] \subseteq services

(* What count() did not find stays out of the map: nobody else inserts.    *)
EmplaceInv == eventPc = "emplace" => Head(answer).id \notin services

(* Each record holds the heartbeat last reported, as an int.               *)
RecordInv == \A s \in ServiceId : record[s].last = ToInt(reported[s])

(* The service about to be erased is in the map, and was expired when it   *)
(* was examined.                                                           *)
CursorInv ==
  monitorPc = "erase" =>
    /\ cursor \in services
    /\ IsExpired(judged.at, ToInt(judged.last), record[cursor].timeout)

(* A call has copied what its traversal has visited.                       *)
SnapshotInv ==
  \A r \in Reader :
    /\ r \notin inside => copied[r] = {}
    /\ copied[r] \subseteq services
    /\ (r \in inside /\ ~scrambled) =>
         (copied[r] \cup pending[r] = services /\ services = entered)

(* The services a scan must still remove are in the map, expired, and, if  *)
(* no insertion has moved them, ahead of the traversal.                    *)
ScanInv ==
  /\ monitorPc = "asleep" => overdue = {}
  /\ overdue \subseteq services
  /\ StampsFit => \A s \in overdue : Expired(s)
  /\ (StampsFit /\ ~scrambled) => overdue \subseteq pending[Monitor]

IInv ==
  /\ TypeOK
  /\ MutexInv
  /\ TraversalInv
  /\ EmplaceInv
  /\ RecordInv
  /\ CursorInv
  /\ SnapshotInv
  /\ ScanInv

-----------------------------------------------------------------------------
(* Helpers.                                                                *)

LEMMA StampToInt ==
  ASSUME NEW n \in Stamp \cup {0}
  PROVE  ToInt(n) \in Int
BY ToIntRange, StampAssumption, IntMaxAssumption

LEMMA BlankIsRecord == Blank \in Record /\ Blank.last = ToInt(0)
<1>1. ToInt(0) = 0
  BY ToIntIdentity, IntMaxAssumption
<1> QED
  BY <1>1 DEF Blank, Record

(* The entry at the head of an answer, where the code holds one.           *)
LEMMA HeadIsEntry ==
  ASSUME TypeOK, eventPc \in {"heartbeat", "metadata", "emplace"}
  PROVE  /\ Head(answer) \in Entry
         /\ Head(answer).id \in ServiceId
         /\ Head(answer).timeout \in Timeout
         /\ Head(answer).last \in Stamp
         /\ Head(answer).metadata \in Metadata
BY DEF TypeOK, Entry

LEMMA TypeInit == Init => TypeOK
<1> SUFFICES ASSUME Init PROVE TypeOK
  OBVIOUS
<1>1. answer \in Seq(Entry \cup {Malformed})
  BY DEF Init
<1>2. judged \in [at : Nat, last : Stamp \cup {0}]
  BY DEF Init
<1>3. record \in [ServiceId -> Record]
  BY BlankIsRecord DEF Init
<1> QED
  BY <1>1, <1>2, <1>3 DEF Init, TypeOK, Thread

LEMMA NextEntryType ==
  ASSUME TypeOK, eventPc # "idle", NextEntry
  PROVE  /\ answer' \in Seq(Entry \cup {Malformed})
         /\ eventPc' \in {"idle", "lookup"}
         /\ eventPc' = "idle" <=> answer' = <<>>
BY DEF TypeOK, NextEntry

LEMMA AbandonType ==
  ASSUME Abandon
  PROVE  /\ answer' \in Seq(Entry \cup {Malformed})
         /\ eventPc' = "idle" /\ answer' = <<>>
BY DEF Abandon

LEMMA LockType ==
  ASSUME TypeOK, NEW t \in Thread, Lock(t)
  PROVE  /\ inside' \subseteq Thread
         /\ pending' \in [Thread -> SUBSET ServiceId]
         /\ entered' \subseteq ServiceId
         /\ scrambled' \in BOOLEAN
BY DEF TypeOK, Lock

LEMMA UnlockType ==
  ASSUME TypeOK, NEW t \in Thread, Unlock(t)
  PROVE  /\ inside' \subseteq Thread
         /\ entered' \subseteq ServiceId
         /\ scrambled' \in BOOLEAN
BY DEF TypeOK, Unlock

LEMMA VisitedType ==
  ASSUME TypeOK, NEW t \in Thread, NEW s, Visited(t, s)
  PROVE  pending' \in [Thread -> SUBSET ServiceId]
BY DEF TypeOK, Visited

LEMMA ScrambleType ==
  ASSUME TypeOK, NEW s \in ServiceId, Scramble(s)
  PROVE  /\ pending' \in [Thread -> SUBSET ServiceId]
         /\ scrambled' \in BOOLEAN
BY DEF TypeOK, Scramble

LEMMA FieldTypes ==
  ASSUME NEW r \in Record
  PROVE  /\ \A n \in Int : [r EXCEPT !.last = n] \in Record
         /\ \A m \in Metadata : [r EXCEPT !.metadata = m] \in Record
BY DEF Record

LEMMA TypeStep == TypeOK /\ [Next]_vars => TypeOK'
<1> SUFFICES ASSUME TypeOK, [Next]_vars PROVE TypeOK'
  OBVIOUS
<1> USE DEF mapVars, eventVars, scanVars, lockVars
<1>1. CASE Tick
  BY <1>1 DEF Tick, TypeOK
<1>2. CASE Receive
  <2>1. PICK n \in 1 .. MaxEntries :
          \E entries \in [1 .. n -> Entry \cup {Malformed}] : ReceiveAnswer(entries)
    BY <1>2 DEF Receive, Answers
  <2>. PICK entries \in [1 .. n -> Entry \cup {Malformed}] : ReceiveAnswer(entries)
    BY <2>1
  <2>2. entries \in Seq(Entry \cup {Malformed}) /\ entries # <<>>
    BY BoundsAssumption
  <2> QED
    BY <2>2 DEF ReceiveAnswer, TypeOK
<1>3. CASE ReceiveUnparsable
  BY <1>3 DEF ReceiveUnparsable, TypeOK
<1>4. CASE Lookup
  <2>1. CASE Head(answer) = Malformed
    BY <1>4, <2>1, AbandonType DEF Lookup, TypeOK
  <2>2. CASE Head(answer) # Malformed
    <3>1. Head(answer) \in Entry
      BY <1>4, <2>2 DEF Lookup, TypeOK
    <3> QED
      BY <1>4, <2>2, <3>1 DEF Lookup, TypeOK
  <2> QED
    BY <2>1, <2>2
<1>5. CASE KeyGone
  BY <1>5, AbandonType DEF KeyGone, TypeOK
<1>6. CASE LostWrite
  BY <1>6, NextEntryType DEF LostWrite, TypeOK
<1>7. CASE UpdateHeartbeat
  <2>1. /\ Head(answer).id \in ServiceId
        /\ Head(answer).last \in Stamp
        /\ ToInt(Head(answer).last) \in Int
    BY <1>7, HeadIsEntry, StampToInt DEF UpdateHeartbeat
  <2>2. record' \in [ServiceId -> Record]
    <3>1. record \in [ServiceId -> Record]
      BY DEF TypeOK
    <3>2. [record[Head(answer).id] EXCEPT !.last = ToInt(Head(answer).last)] \in Record
      BY <2>1, <3>1, FieldTypes
    <3>3. record' = [record EXCEPT ![Head(answer).id] =
                       [record[Head(answer).id] EXCEPT !.last = ToInt(Head(answer).last)]]
      BY <1>7, <2>1, <3>1 DEF UpdateHeartbeat
    <3> QED
      BY <2>1, <3>1, <3>2, <3>3
  <2> QED
    BY <1>7, <2>1, <2>2 DEF UpdateHeartbeat, TypeOK
<1>8. CASE UpdateMetadata
  <2>1. Head(answer).id \in ServiceId /\ Head(answer).metadata \in Metadata
    BY <1>8, HeadIsEntry DEF UpdateMetadata
  <2>2. record' \in [ServiceId -> Record]
    <3>1. record \in [ServiceId -> Record]
      BY DEF TypeOK
    <3>2. [record[Head(answer).id] EXCEPT !.metadata = Head(answer).metadata] \in Record
      BY <2>1, <3>1, FieldTypes
    <3>3. record' = [record EXCEPT ![Head(answer).id] =
                       [record[Head(answer).id] EXCEPT !.metadata = Head(answer).metadata]]
      BY <1>8, <2>1, <3>1 DEF UpdateMetadata
    <3> QED
      BY <2>1, <3>1, <3>2, <3>3
  <2> QED
    BY <1>8, <2>2, NextEntryType DEF UpdateMetadata, TypeOK
<1>9. CASE Emplace
  <2>1. /\ Head(answer).id \in ServiceId
        /\ Head(answer).timeout \in Timeout
        /\ Head(answer).last \in Stamp
        /\ ToInt(Head(answer).last) \in Int
    BY <1>9, HeadIsEntry, StampToInt DEF Emplace
  <2>2. NewRecord(Head(answer)) \in Record
    BY <2>1 DEF NewRecord, Record
  <2> QED
    BY <1>9, <2>1, <2>2, NextEntryType, ScrambleType DEF Emplace, TypeOK
<1>10. CASE RaceCrash
  BY <1>10 DEF RaceCrash, TypeOK
<1>11. CASE BeginScan
  BY <1>11, LockType DEF BeginScan, TypeOK, Thread
<1>12. CASE \E s \in ServiceId : Examine(s)
  <2>1. PICK s \in ServiceId : Examine(s)
    BY <1>12
  <2>2. pending' \in [Thread -> SUBSET ServiceId]
    BY <2>1, VisitedType DEF Examine, TypeOK, Thread
  <2> QED
    BY <2>1, <2>2 DEF Examine, TypeOK
<1>13. CASE Erase
  BY <1>13, VisitedType, BlankIsRecord DEF Erase, TypeOK, Thread
<1>14. CASE EndScan
  BY <1>14, UnlockType DEF EndScan, TypeOK, Thread
<1>15. CASE \E r \in Reader : Call(r)
  BY <1>15 DEF Call, TypeOK
<1>16. CASE \E r \in Reader : BeginCopy(r)
  BY <1>16, LockType DEF BeginCopy, TypeOK, Thread
<1>17. CASE \E r \in Reader, s \in ServiceId : Copy(r, s)
  BY <1>17, VisitedType DEF Copy, TypeOK, Thread
<1>18. CASE \E r \in Reader : EndCopy(r)
  BY <1>18, UnlockType DEF EndCopy, TypeOK, Thread
<1>19. CASE UNCHANGED vars
  BY <1>19 DEF vars, TypeOK
<1> QED
  BY <1>1, <1>2, <1>3, <1>4, <1>5, <1>6, <1>7, <1>8, <1>9, <1>10, <1>11,
     <1>12, <1>13, <1>14, <1>15, <1>16, <1>17, <1>18, <1>19
     DEF Next, EventStep, MonitorStep, ReaderStep

(* Every variable keeps its type, whatever the instance.                   *)
THEOREM TypeCorrect == Spec => []TypeOK
<1>1. Init => TypeOK
  BY TypeInit
<1>2. TypeOK /\ [Next]_vars => TypeOK'
  BY TypeStep
<1> QED
  BY <1>1, <1>2, PTL DEF Spec

-----------------------------------------------------------------------------
(* The inductive invariant.                                                *)

LEMMA InvInit == Init => IInv
<1> SUFFICES ASSUME Init PROVE IInv
  OBVIOUS
<1>1. TypeOK
  BY TypeInit
<1>2. RecordInv
  BY BlankIsRecord DEF Init, RecordInv
<1> QED
  BY <1>1, <1>2
     DEF Init, IInv, MutexInv, TraversalInv, EmplaceInv, CursorInv,
         SnapshotInv, ScanInv

LEMMA MutexStep == IInv /\ [Next]_vars => MutexInv'
<1> SUFFICES ASSUME IInv, [Next]_vars PROVE MutexInv'
  OBVIOUS
<1> USE DEF IInv, MutexInv, TypeOK, mapVars, eventVars, scanVars, lockVars
<1>1. CASE Tick \/ Receive \/ ReceiveUnparsable \/ EventStep \/ RaceCrash
  BY <1>1
     DEF Tick, Receive, ReceiveAnswer, ReceiveUnparsable, EventStep, Lookup,
         KeyGone, LostWrite, UpdateHeartbeat, UpdateMetadata, Emplace, RaceCrash
<1>2. CASE MonitorStep
  BY <1>2
     DEF MonitorStep, BeginScan, Examine, Erase, EndScan, MutexFree, Lock, Unlock
<1>3. ASSUME NEW r \in Reader, Call(r) \/ ReaderStep(r)
      PROVE  MutexInv'
  BY <1>3, MonitorAssumption
     DEF Call, ReaderStep, BeginCopy, Copy, EndCopy, MutexFree, Lock, Unlock
<1>4. CASE UNCHANGED vars
  BY <1>4 DEF vars
<1> QED
  BY <1>1, <1>2, <1>3, <1>4 DEF Next

(* What an insertion leaves of the traversals under way.                   *)
LEMMA ScrambleBounds ==
  ASSUME NEW s, Scramble(s)
  PROVE  /\ \A t \in inside \cap Thread : pending'[t] \subseteq services \cup {s}
         /\ ~scrambled' => inside = {} /\ ~scrambled
         /\ \A t \in Thread \ inside : pending'[t] = pending[t]
BY DEF Scramble

LEMMA TraversalStep == IInv /\ [Next]_vars => TraversalInv'
<1> SUFFICES ASSUME IInv, [Next]_vars PROVE TraversalInv'
  OBVIOUS
<1> USE DEF IInv, TraversalInv, MutexInv, TypeOK, mapVars, eventVars, scanVars,
            lockVars
<1>1. CASE Tick \/ Receive \/ ReceiveUnparsable \/ RaceCrash
  BY <1>1 DEF Tick, Receive, ReceiveAnswer, ReceiveUnparsable, RaceCrash
<1>2. CASE EventStep /\ ~Emplace
  BY <1>2
     DEF EventStep, Lookup, KeyGone, LostWrite, UpdateHeartbeat, UpdateMetadata
<1>3. CASE Emplace
  BY <1>3, ScrambleBounds DEF Emplace
<1>4. CASE MonitorStep
  BY <1>4
     DEF MonitorStep, BeginScan, Examine, Erase, EndScan, MutexFree, Lock,
         Unlock, Visited, Thread
<1>5. ASSUME NEW r \in Reader, Call(r) \/ ReaderStep(r)
      PROVE  TraversalInv'
  BY <1>5
     DEF Call, ReaderStep, BeginCopy, Copy, EndCopy, MutexFree, Lock, Unlock,
         Visited, Thread
<1>6. CASE UNCHANGED vars
  BY <1>6 DEF vars
<1> QED
  BY <1>1, <1>2, <1>3, <1>4, <1>5, <1>6 DEF Next

LEMMA EmplaceStep == IInv /\ [Next]_vars => EmplaceInv'
<1> SUFFICES ASSUME IInv, [Next]_vars PROVE EmplaceInv'
  OBVIOUS
<1> USE DEF IInv, EmplaceInv, TypeOK, mapVars, eventVars, scanVars, lockVars
<1>1. CASE Tick \/ Receive \/ ReceiveUnparsable \/ RaceCrash
  BY <1>1 DEF Tick, Receive, ReceiveAnswer, ReceiveUnparsable, RaceCrash
<1>2. CASE EventStep
  BY <1>2
     DEF EventStep, Lookup, KeyGone, LostWrite, UpdateHeartbeat, UpdateMetadata,
         Emplace, NextEntry, Abandon
<1>3. CASE MonitorStep
  BY <1>3 DEF MonitorStep, BeginScan, Examine, Erase, EndScan
<1>4. ASSUME NEW r \in Reader, Call(r) \/ ReaderStep(r)
      PROVE  EmplaceInv'
  BY <1>4 DEF Call, ReaderStep, BeginCopy, Copy, EndCopy
<1>5. CASE UNCHANGED vars
  BY <1>5 DEF vars
<1> QED
  BY <1>1, <1>2, <1>3, <1>4, <1>5 DEF Next

LEMMA RecordStep == IInv /\ [Next]_vars => RecordInv'
<1> SUFFICES ASSUME IInv, [Next]_vars PROVE RecordInv'
  OBVIOUS
<1> USE DEF IInv, RecordInv, mapVars, eventVars, scanVars, lockVars
<1>1. CASE UNCHANGED <<record, reported>>
  BY <1>1
<1>2. CASE UpdateHeartbeat
  BY <1>2, HeadIsEntry DEF UpdateHeartbeat, TypeOK, Record
<1>3. CASE UpdateMetadata
  BY <1>3, HeadIsEntry DEF UpdateMetadata, TypeOK, Record
<1>4. CASE Emplace
  BY <1>4, HeadIsEntry DEF Emplace, NewRecord, TypeOK
<1>5. CASE Erase
  BY <1>5, BlankIsRecord DEF Erase, TypeOK
<1> QED
  BY <1>1, <1>2, <1>3, <1>4, <1>5
     DEF Next, EventStep, MonitorStep, ReaderStep, Tick, Receive, ReceiveAnswer,
         ReceiveUnparsable, RaceCrash, Lookup, KeyGone, LostWrite, BeginScan,
         Examine, EndScan, Call, BeginCopy, Copy, EndCopy, vars

LEMMA CursorStep == IInv /\ [Next]_vars => CursorInv'
<1> SUFFICES ASSUME IInv, [Next]_vars PROVE CursorInv'
  OBVIOUS
<1> USE DEF IInv, CursorInv, mapVars, eventVars, scanVars, lockVars
<1>1. CASE UNCHANGED <<services, record, scanVars>>
  BY <1>1
<1>2. CASE UpdateHeartbeat
  BY <1>2, HeadIsEntry DEF UpdateHeartbeat, TypeOK, Record
<1>3. CASE UpdateMetadata
  BY <1>3, HeadIsEntry DEF UpdateMetadata, TypeOK, Record
<1>4. CASE Emplace
  BY <1>4, HeadIsEntry DEF Emplace, EmplaceInv, TypeOK
<1>5. CASE \E s \in ServiceId : Examine(s)
  <2>1. PICK s \in ServiceId : Examine(s)
    BY <1>5
  <2>2. s \in services
    BY <2>1 DEF Examine, MutexInv, TraversalInv
  <2> QED
    BY <2>1, <2>2 DEF Examine, Expired, RecordInv
<1>6. CASE BeginScan \/ Erase \/ EndScan
  BY <1>6 DEF BeginScan, Erase, EndScan
<1> QED
  BY <1>1, <1>2, <1>3, <1>4, <1>5, <1>6
     DEF Next, EventStep, MonitorStep, ReaderStep, Tick, Receive, ReceiveAnswer,
         ReceiveUnparsable, RaceCrash, Lookup, KeyGone, LostWrite, Call,
         BeginCopy, Copy, EndCopy, vars

LEMMA SnapshotStep == IInv /\ [Next]_vars => SnapshotInv'
<1> SUFFICES ASSUME IInv, [Next]_vars PROVE SnapshotInv'
  OBVIOUS
<1> USE DEF IInv, SnapshotInv, mapVars, eventVars, scanVars, lockVars
<1>1. CASE UNCHANGED <<services, inside, pending, copied, entered, scrambled>>
  BY <1>1
<1>2. CASE Emplace
  BY <1>2, ScrambleBounds DEF Emplace
<1>3. CASE MonitorStep
  <2>1. \A r \in Reader : r \notin inside /\ r \notin inside' /\ copied'[r] = {}
    BY <1>3, MonitorAssumption
       DEF MonitorStep, MutexInv, BeginScan, Examine, Erase, EndScan,
           MutexFree, Lock, Unlock
  <2> QED
    BY <2>1
<1>4. ASSUME NEW r \in Reader, BeginCopy(r)
      PROVE  SnapshotInv'
  BY <1>4 DEF BeginCopy, MutexFree, Lock, TypeOK, Thread
<1>5. ASSUME NEW r \in Reader, NEW s \in ServiceId, Copy(r, s)
      PROVE  SnapshotInv'
  BY <1>5 DEF Copy, Visited, MutexInv, TraversalInv, TypeOK, Thread
<1>6. ASSUME NEW r \in Reader, EndCopy(r)
      PROVE  SnapshotInv'
  BY <1>6 DEF EndCopy, Unlock, MutexInv, TypeOK
<1> QED
  BY <1>1, <1>2, <1>3, <1>4, <1>5, <1>6
     DEF Next, EventStep, ReaderStep, Tick, Receive, ReceiveAnswer,
         ReceiveUnparsable, RaceCrash, Lookup, KeyGone, LostWrite,
         UpdateHeartbeat, UpdateMetadata, Call, vars

LEMMA TimeoutIsNat ==
  ASSUME NEW x \in Record
  PROVE  x.timeout \in Nat
<1>1. \A t \in Timeout : t \in 0 .. IntMax
  BY TimeoutAssumption
<1>2. \A t \in Timeout \cup {0} : t \in Nat
  BY <1>1, IntMaxAssumption
<1>3. x.timeout \in Timeout \cup {0}
  BY DEF Record
<1> QED
  BY <1>2, <1>3

LEMMA StampInRange ==
  ASSUME StampsFit, NEW n \in Stamp \cup {0}
  PROVE  n \in -(IntMax + 1) .. IntMax
<1>1. \A m \in Stamp : m \in -(IntMax + 1) .. IntMax
  BY DEF StampsFit
<1>2. 0 \in -(IntMax + 1) .. IntMax
  BY IntMaxAssumption
<1> QED
  BY <1>1, <1>2

(* A record overdue by the heartbeat reported is expired by the one stored. *)
LEMMA OverdueIsExpired ==
  ASSUME IInv, StampsFit, NEW s \in ServiceId
  PROVE  Overdue(s) <=> Expired(s)
<1>1. reported[s] \in -(IntMax + 1) .. IntMax
  BY StampInRange DEF IInv, TypeOK
<1>2. record[s].timeout \in Nat
  BY TimeoutIsNat DEF IInv, TypeOK
<1>3. record[s].last = reported[s]
  BY <1>1, ToIntIdentity DEF IInv, RecordInv
<1>4. now \in Int /\ record[s].last \in Int
  BY <1>1, <1>3, IntMaxAssumption DEF IInv, TypeOK
<1>5. Expired(s) <=>
        now >= (record[s].last + record[s].timeout + 1) * TicksPerSecond
  BY <1>2, <1>4, ExpiryInstant DEF Expired
<1> QED
  BY <1>3, <1>5 DEF Overdue

(* A service expired now stays so while time passes and its heartbeat is   *)
(* not written.                                                            *)
LEMMA ExpiredPersists ==
  ASSUME TypeOK, NEW s \in ServiceId, Expired(s),
         record'[s].last = record[s].last,
         record'[s].timeout = record[s].timeout,
         now' = now \/ now' = now + 1
  PROVE  Expired(s)'
<1>1. /\ record[s].last \in Int
      /\ record[s].timeout \in Nat
      /\ now \in Int /\ now' \in Int /\ now <= now'
  <2>1. record[s] \in Record
    BY DEF TypeOK
  <2> QED
    BY <2>1, TimeoutIsNat DEF Record, TypeOK
<1>2. IsExpired(now', record[s].last, record[s].timeout)
  BY <1>1, ExpiryMonotone DEF Expired
<1> QED
  BY <1>2 DEF Expired

LEMMA ScanStep == IInv /\ [Next]_vars => ScanInv'
<1> SUFFICES ASSUME IInv, [Next]_vars PROVE ScanInv'
  OBVIOUS
<1> USE DEF IInv, mapVars, eventVars, scanVars, lockVars
<1>1. CASE UNCHANGED <<services, record, monitorPc, overdue, pending, scrambled>>
           /\ (now' = now \/ now' = now + 1)
  <2>1. ASSUME StampsFit, NEW s \in overdue
        PROVE  Expired(s)'
    <3>1. s \in ServiceId /\ Expired(s)
      BY <2>1 DEF ScanInv, TypeOK
    <3>2. record'[s] = record[s] /\ (now' = now \/ now' = now + 1)
      BY <1>1
    <3> QED
      BY <3>1, <3>2, ExpiredPersists
  <2> QED
    BY <1>1, <2>1 DEF ScanInv
<1>2. CASE UpdateHeartbeat \/ UpdateMetadata
  <2>1. ASSUME NEW s \in overdue'
        PROVE  /\ s \in overdue /\ s \in ServiceId /\ now' = now
               /\ record'[s].last = record[s].last
               /\ record'[s].timeout = record[s].timeout
    BY <1>2, <2>1, HeadIsEntry
       DEF UpdateHeartbeat, UpdateMetadata, TypeOK, Record
  <2>2. StampsFit => \A s \in overdue' : Expired(s)'
    BY <2>1, ExpiredPersists DEF ScanInv
  <2> QED
    BY <1>2, <2>1, <2>2 DEF UpdateHeartbeat, UpdateMetadata, ScanInv
<1>3. CASE Emplace
  BY <1>3, HeadIsEntry, ScrambleBounds, ExpiredPersists
     DEF Emplace, EmplaceInv, MutexInv, ScanInv, TypeOK
<1>4. CASE BeginScan
  <2>1. StampsFit => \A s \in overdue' : Expired(s)'
    BY <1>4, OverdueIsExpired DEF BeginScan, Expired, TypeOK
  <2> QED
    BY <1>4, <2>1 DEF BeginScan, Lock, ScanInv, TypeOK, Thread
<1>5. CASE \E s \in ServiceId : Examine(s)
  BY <1>5, ExpiredPersists DEF Examine, Visited, ScanInv, TypeOK, Thread
<1>6. CASE Erase
  BY <1>6, ExpiredPersists DEF Erase, Visited, ScanInv, TypeOK, Thread
<1>7. CASE EndScan
  BY <1>7 DEF EndScan, ScanInv
<1>8. ASSUME NEW r \in Reader, ReaderStep(r)
      PROVE  ScanInv'
  <2>1. monitorPc = "asleep" /\ overdue = {}
    BY <1>8, MonitorAssumption
       DEF ReaderStep, BeginCopy, Copy, EndCopy, MutexFree, MutexInv, ScanInv,
           TypeOK
  <2> QED
    BY <1>8, <2>1 DEF ReaderStep, BeginCopy, Copy, EndCopy, ScanInv
<1> QED
  BY <1>1, <1>2, <1>3, <1>4, <1>5, <1>6, <1>7, <1>8
     DEF Next, EventStep, MonitorStep, Tick, Receive, ReceiveAnswer,
         ReceiveUnparsable, RaceCrash, Lookup, KeyGone, LostWrite, Call, vars

LEMMA InvStep == IInv /\ [Next]_vars => IInv'
BY TypeStep, MutexStep, TraversalStep, EmplaceStep, RecordStep, CursorStep,
   SnapshotStep, ScanStep DEF IInv

LEMMA Invariance == Spec => []IInv
BY InvInit, InvStep, PTL DEF Spec

-----------------------------------------------------------------------------
(* The theorems.                                                           *)

(* What get_services and get_existing_services return is the whole map, at *)
(* the moment the mutex is taken and at the moment it is given back, or    *)
(* the libevent thread has inserted meanwhile, and even then nothing is    *)
(* returned that is not in the map.                                        *)
THEOREM SnapshotIsExact == Spec => SnapshotExact
<1>1. IInv /\ [Next]_vars =>
        [\A r \in inside \ inside' : r \in Reader =>
           /\ copied[r] \subseteq services
           /\ ~scrambled => copied[r] = services /\ services = entered]_vars
  <2> SUFFICES ASSUME IInv, [Next]_vars,
                      NEW r \in inside \ inside', r \in Reader
               PROVE  /\ copied[r] \subseteq services
                      /\ ~scrambled => copied[r] = services /\ services = entered
    OBVIOUS
  <2>1. EndCopy(r)
    BY MonitorAssumption
       DEF Next, vars, IInv, TypeOK, EventStep, MonitorStep, ReaderStep, Tick,
           Receive, ReceiveAnswer, ReceiveUnparsable, RaceCrash, Lookup,
           KeyGone, LostWrite, UpdateHeartbeat, UpdateMetadata, Emplace,
           BeginScan, Examine, Erase, EndScan, Call, BeginCopy, Copy, EndCopy,
           Lock, Unlock, lockVars, mapVars, eventVars, scanVars
  <2> QED
    BY <2>1 DEF EndCopy, IInv, SnapshotInv
<1> QED
  BY <1>1, Invariance, PTL DEF Spec, SnapshotExact

(* If every stamp fits the build's int, a service leaves the map only if   *)
(* more than heartbeat_timeout seconds without a heartbeat had passed when *)
(* is_expired() was evaluated, and only from the monitor thread, alone in  *)
(* the mutex.                                                              *)
THEOREM DepartureIsJustified ==
  ASSUME StampsFit
  PROVE  Spec => DepartureJustified
<1>1. IInv /\ [Next]_vars =>
        [\A s \in services \ services' :
           /\ inside = {Monitor}
           /\ cursor = s
           /\ Late(judged.at, judged.last, record[s].timeout)]_vars
  <2> SUFFICES ASSUME IInv, [Next]_vars, NEW s \in services \ services'
               PROVE  /\ inside = {Monitor}
                      /\ cursor = s
                      /\ Late(judged.at, judged.last, record[s].timeout)
    OBVIOUS
  <2>1. Erase /\ cursor = s
    BY DEF Next, vars, EventStep, MonitorStep, ReaderStep, Tick, Receive,
           ReceiveAnswer, ReceiveUnparsable, RaceCrash, Lookup, KeyGone,
           LostWrite, UpdateHeartbeat, UpdateMetadata, Emplace, BeginScan,
           Examine, Erase, EndScan, Call, BeginCopy, Copy, EndCopy, mapVars
  <2>2. inside = {Monitor}
    BY <2>1 DEF Erase, IInv, MutexInv
  <2>3. /\ judged.last \in -(IntMax + 1) .. IntMax
        /\ judged.at \in Nat
        /\ record[s].timeout \in Nat
    BY StampInRange, TimeoutIsNat DEF IInv, TypeOK
  <2>4. IsExpired(judged.at, judged.last, record[s].timeout)
    BY <2>1, <2>3, ToIntIdentity DEF Erase, IInv, CursorInv
  <2>5. judged.at >= (judged.last + record[s].timeout + 1) * TicksPerSecond
    <3>1. judged.last \in Int /\ judged.at \in Int
      BY <2>3, IntMaxAssumption
    <3> QED
      BY <2>3, <2>4, <3>1, ExpiryInstant
  <2>6. judged.at > (judged.last + record[s].timeout) * TicksPerSecond
    <3>1. ASSUME NEW n \in Int
          PROVE  (n + 1) * TicksPerSecond > n * TicksPerSecond
      BY <3>1, TicksAssumption
    <3>2. judged.last + record[s].timeout \in Int
      BY <2>3, IntMaxAssumption
    <3> QED
      BY <2>3, <2>5, <3>1, <3>2, TicksAssumption
  <2> QED
    BY <2>1, <2>2, <2>6 DEF Late
<1> QED
  BY <1>1, Invariance, PTL DEF Spec, DepartureJustified

(* If every stamp fits the build's int, check_services leaves no service   *)
(* behind that was overdue when it took the mutex and was not refreshed,   *)
(* unless the libevent thread inserted while it ran.                       *)
THEOREM ScanIsThorough ==
  ASSUME StampsFit
  PROVE  Spec => ScanThorough
<1>1. IInv /\ [Next]_vars =>
        [(Monitor \in inside \ inside' /\ ~scrambled) => (overdue = {})]_vars
  <2> SUFFICES ASSUME IInv, [Next]_vars, Monitor \in inside \ inside', ~scrambled
               PROVE  overdue = {}
    OBVIOUS
  <2>1. EndScan
    BY MonitorAssumption
       DEF Next, vars, EventStep, MonitorStep, ReaderStep, Tick, Receive,
           ReceiveAnswer, ReceiveUnparsable, RaceCrash, Lookup, KeyGone,
           LostWrite, UpdateHeartbeat, UpdateMetadata, Emplace, BeginScan,
           Examine, Erase, Call, BeginCopy, Copy, EndCopy, Lock, Unlock, lockVars
  <2> QED
    BY <2>1 DEF EndScan, IInv, ScanInv
<1> QED
  BY <1>1, Invariance, PTL DEF Spec, ScanThorough

-----------------------------------------------------------------------------
(* The registry implements Membership.                                     *)

(* What the records hold of a stamp that fits is the stamp.                *)
LEMMA StampIsKept ==
  ASSUME StampsFit, NEW n \in Stamp
  PROVE  ToInt(n) = n
BY StampInRange, ToIntIdentity

(* What is_expired() finds expired is late, for the record's own stamp.    *)
LEMMA ExpiredIsLate ==
  ASSUME IInv, NEW s \in ServiceId, Expired(s)
  PROVE  Late(now, record[s].last, record[s].timeout)
<1>1. /\ record[s].last \in Int
      /\ record[s].timeout \in Nat
      /\ now \in Int
  <2>1. record[s] \in Record
    BY DEF IInv, TypeOK
  <2> QED
    BY <2>1, TimeoutIsNat DEF Record, IInv, TypeOK
<1>2. now >= (record[s].last + record[s].timeout + 1) * TicksPerSecond
  BY <1>1, ExpiryInstant DEF Expired
<1>3. ASSUME NEW n \in Int
      PROVE  (n + 1) * TicksPerSecond > n * TicksPerSecond
  BY <1>3, TicksAssumption
<1>4. record[s].last + record[s].timeout \in Int
  BY <1>1
<1> QED
  BY <1>1, <1>2, <1>3, <1>4, TicksAssumption DEF Late

LEMMA InitImplements == Init => Members!Init
BY DEF Init, Members!Init, Blank

LEMMA StepImplements ==
  ASSUME StampsFit, IInv, [Next]_vars
  PROVE  [Members!Next]_(Members!vars)
<1> USE DEF mapVars, eventVars, scanVars, lockVars
<1>1. CASE Tick
  BY <1>1 DEF Tick, Members!Tick, Members!Next
<1>2. CASE ReceiveUnparsable \/ RaceCrash
  BY <1>2 DEF ReceiveUnparsable, RaceCrash, Members!End, Members!Next
<1>3. CASE \/ Receive \/ Lookup \/ KeyGone \/ LostWrite
           \/ (\E r \in Reader : Call(r) \/ ReaderStep(r))
  BY <1>3
     DEF Receive, ReceiveAnswer, Lookup, KeyGone, LostWrite, ReaderStep, Call,
         BeginCopy, Copy, EndCopy, Members!vars
<1>4. CASE BeginScan \/ EndScan
  BY <1>4 DEF BeginScan, EndScan, Members!vars
<1>5. CASE UpdateHeartbeat
  <2> DEFINE e == Head(answer)
  <2>1. /\ e.id \in ServiceId /\ e.last \in Stamp /\ ToInt(e.last) = e.last
        /\ e.id \in services
    BY <1>5, HeadIsEntry, StampIsKept DEF UpdateHeartbeat, IInv
  <2>2. PICK s \in ServiceId, stamp \in Stamp : s = e.id /\ stamp = e.last
    BY <2>1
  <2>3. Members!HearOf(s, stamp)
    BY <1>5, <2>1, <2>2 DEF UpdateHeartbeat, Members!HearOf, IInv, TypeOK, Record
  <2> QED
    BY <2>3 DEF Members!Next
<1>6. CASE UpdateMetadata
  BY <1>6, HeadIsEntry
     DEF UpdateMetadata, Members!vars, IInv, TypeOK, Record
<1>7. CASE Emplace
  <2> DEFINE e == Head(answer)
  <2>1. /\ e.id \in ServiceId /\ e.last \in Stamp /\ ToInt(e.last) = e.last
        /\ e.timeout \in Timeout /\ e.id \notin services
    BY <1>7, HeadIsEntry, StampIsKept DEF Emplace, IInv, EmplaceInv
  <2>2. PICK s \in ServiceId, stamp \in Stamp, timeout \in Timeout :
          s = e.id /\ stamp = e.last /\ timeout = e.timeout
    BY <2>1
  <2>3. Members!Join(s, stamp, timeout)
    BY <1>7, <2>1, <2>2 DEF Emplace, NewRecord, Members!Join, IInv, TypeOK
  <2> QED
    BY <2>3 DEF Members!Next
<1>8. ASSUME NEW s \in ServiceId, Examine(s)
      PROVE  [Members!Next]_(Members!vars)
  <2>1. CASE ~Expired(s)
    BY <1>8, <2>1 DEF Examine, Members!vars
  <2>2. CASE Expired(s)
    <3>1. s \in services
      BY <1>8 DEF Examine, IInv, MutexInv, TraversalInv
    <3>2. Late(now, record[s].last, record[s].timeout)
      BY <2>2, ExpiredIsLate
    <3>3. Members!FindLate(s)
      BY <1>8, <2>2, <3>1, <3>2
         DEF Examine, Members!FindLate, Late, Members!Late
    <3> QED
      BY <3>3 DEF Members!Next
  <2> QED
    BY <2>1, <2>2
<1>9. CASE Erase
  <2>1. PICK s \in ServiceId : s = cursor
    BY DEF IInv, TypeOK
  <2>2. Members!Leave(s)
    BY <1>9, <2>1 DEF Erase, Members!Leave, Blank, IInv, TypeOK
  <2> QED
    BY <2>2 DEF Members!Next
<1>10. CASE UNCHANGED vars
  BY <1>10 DEF vars, Members!vars
<1> QED
  BY <1>1, <1>2, <1>3, <1>4, <1>5, <1>6, <1>7, <1>8, <1>9, <1>10
     DEF Next, EventStep, MonitorStep

(* If every stamp fits the build's int, the registry with its three kinds  *)
(* of threads, races included, changes its map only as Membership allows.  *)
THEOREM RegistryImplementsMembership ==
  ASSUME StampsFit
  PROVE  Spec => ImplementsMembership
<1>1. IInv /\ [Next]_vars => [Members!Next]_(Members!vars)
  BY StepImplements
<1> QED
  BY <1>1, InitImplements, Invariance, PTL DEF Spec, ImplementsMembership, Members!Spec

-----------------------------------------------------------------------------
(* Records whose stamp has wrapped.                                        *)

(* A service whose last heartbeat does not fit the build's int counts as   *)
(* expired whenever a scan looks at it, however fresh the heartbeat is.    *)
THEOREM WrappedServiceExpired ==
  Spec => [](\A s \in services :
               (/\ reported[s] > IntMax
                /\ now >= (reported[s] - IntMax - 1) * TicksPerSecond)
                 => Expired(s))
<1>1. IInv => \A s \in services :
                (/\ reported[s] > IntMax
                 /\ now >= (reported[s] - IntMax - 1) * TicksPerSecond)
                  => Expired(s)
  <2> SUFFICES ASSUME IInv, NEW s \in services,
                      reported[s] > IntMax,
                      now >= (reported[s] - IntMax - 1) * TicksPerSecond
               PROVE  Expired(s)
    OBVIOUS
  <2>1. s \in ServiceId /\ now \in Int /\ record[s] \in Record
    BY DEF IInv, TypeOK
  <2>2. reported[s] \in Int
    <3>1. \A n \in Stamp \cup {0} : n \in Int
      BY StampAssumption
    <3> QED
      BY <2>1, <3>1 DEF IInv, TypeOK
  <2>3. record[s].timeout \in 0 .. IntMax
    <3>1. \A t \in Timeout \cup {0} : t \in 0 .. IntMax
      BY TimeoutAssumption, IntMaxAssumption
    <3> QED
      BY <2>1, <3>1 DEF Record
  <2>4. IsExpired(now, ToInt(reported[s]), record[s].timeout)
    BY <2>1, <2>2, <2>3, WrappedStampExpires
  <2> QED
    BY <2>1, <2>4 DEF IInv, RecordInv, Expired
<1> QED
  BY <1>1, Invariance, PTL

-----------------------------------------------------------------------------
(* Traversals come to their end.                                           *)

(* How much a scan has still to do: two steps for each service at most,    *)
(* and one to give back the mutex.                                         *)
ScanLeft ==
  CASE monitorPc = "asleep" -> 0
    [] monitorPc = "scan"   -> 2 * Cardinality(pending[Monitor]) + 1
    [] monitorPc = "erase"  -> 2 * Cardinality(pending[Monitor] \ {cursor}) + 2

(* How much a call that holds the mutex has still to do.                   *)
CopyLeft(r) == IF r \in inside THEN Cardinality(pending[r]) + 1 ELSE 0

(* The map and what is pending of it are finite, though ServiceId need not *)
(* be.                                                                     *)
FiniteInv ==
  /\ IsFiniteSet(services)
  /\ \A t \in Thread : IsFiniteSet(pending[t])

LEMMA FiniteInit == Init => FiniteInv
BY FS_EmptySet DEF Init, FiniteInv

LEMMA FiniteStep == IInv /\ FiniteInv /\ [Next]_vars => FiniteInv'
<1> SUFFICES ASSUME IInv, FiniteInv, [Next]_vars PROVE FiniteInv'
  OBVIOUS
<1> USE DEF FiniteInv, mapVars, eventVars, scanVars, lockVars
<1>1. CASE UNCHANGED <<services, pending>>
  BY <1>1
<1>2. CASE Emplace
  <2>1. IsFiniteSet(services')
    BY <1>2, FS_AddElement DEF Emplace
  <2>2. \A t \in inside \cap Thread : pending'[t] \subseteq services'
    BY <1>2, ScrambleBounds DEF Emplace
  <2>3. \A t \in Thread \ inside : pending'[t] = pending[t]
    BY <1>2, ScrambleBounds DEF Emplace
  <2> QED
    BY <2>1, <2>2, <2>3, FS_Subset
<1>3. ASSUME NEW t \in Thread, Lock(t), UNCHANGED services
      PROVE  FiniteInv'
  BY <1>3 DEF Lock, IInv, TypeOK
<1>4. ASSUME NEW t \in Thread, NEW s, Visited(t, s),
             services' = services \/ services' = services \ {cursor}
      PROVE  FiniteInv'
  <2>1. \A u \in Thread : pending'[u] = pending[u] \/ pending'[u] = pending[u] \ {s}
    BY <1>4 DEF Visited, IInv, TypeOK
  <2>2. \A u \in Thread : IsFiniteSet(pending[u] \ {s})
    BY FS_RemoveElement
  <2>3. IsFiniteSet(services \ {cursor})
    BY FS_RemoveElement
  <2>4. IsFiniteSet(services')
    BY <1>4, <2>3
  <2>5. \A u \in Thread : IsFiniteSet(pending'[u])
    BY <2>1, <2>2
  <2> QED
    BY <2>4, <2>5
<1>5. CASE MonitorStep
  BY <1>1, <1>3, <1>4, <1>5
     DEF MonitorStep, BeginScan, Examine, Erase, EndScan, Thread
<1>6. ASSUME NEW r \in Reader, ReaderStep(r)
      PROVE  FiniteInv'
  BY <1>1, <1>3, <1>4, <1>6 DEF ReaderStep, BeginCopy, Copy, EndCopy, Thread
<1> QED
  BY <1>1, <1>2, <1>5, <1>6
     DEF Next, EventStep, Tick, Receive, ReceiveAnswer, ReceiveUnparsable,
         RaceCrash, Lookup, KeyGone, LostWrite, UpdateHeartbeat,
         UpdateMetadata, Call, vars

LEMMA FiniteInvariance == Spec => [](IInv /\ FiniteInv)
<1>1. Init => IInv /\ FiniteInv
  BY InvInit, FiniteInit
<1>2. (IInv /\ FiniteInv) /\ [Next]_vars => (IInv /\ FiniteInv)'
  BY InvStep, FiniteStep
<1> QED
  BY <1>1, <1>2, PTL DEF Spec

(* Both are natural numbers, and bounded by the size of the map.           *)
CountsOK ==
  /\ ScanLeft \in Nat
  /\ ScanLeft <= 2 * Cardinality(services) + 1
  /\ \A r \in Reader : /\ CopyLeft(r) \in Nat
                        /\ CopyLeft(r) <= Cardinality(services) + 1

LEMMA CountsBounded ==
  ASSUME IInv, FiniteInv
  PROVE  CountsOK
<1>1. \A t \in inside :
        /\ Cardinality(pending[t]) \in Nat
        /\ Cardinality(pending[t]) <= Cardinality(services)
  BY FS_Subset, FS_CardinalityType
     DEF IInv, TypeOK, TraversalInv, FiniteInv
<1>2. Cardinality(services) \in Nat
  BY FS_CardinalityType DEF FiniteInv
<1>3. ScanLeft \in Nat /\ ScanLeft <= 2 * Cardinality(services) + 1
  <2>1. CASE monitorPc = "asleep"
    BY <1>2, <2>1 DEF ScanLeft
  <2>2. CASE monitorPc = "scan"
    <3>1. /\ Cardinality(pending[Monitor]) \in Nat
          /\ Cardinality(pending[Monitor]) <= Cardinality(services)
      BY <1>1, <2>2 DEF IInv, MutexInv
    <3>2. ScanLeft = 2 * Cardinality(pending[Monitor]) + 1
      BY <2>2 DEF ScanLeft
    <3> QED
      BY <1>2, <3>1, <3>2
  <2>3. CASE monitorPc = "erase"
    <3>1. /\ IsFiniteSet(services \ {cursor})
          /\ Cardinality(services \ {cursor}) = Cardinality(services) - 1
      BY <2>3, FS_RemoveElement DEF IInv, CursorInv, FiniteInv
    <3>2. pending[Monitor] \ {cursor} \in SUBSET (services \ {cursor})
      BY <2>3 DEF IInv, MutexInv, TraversalInv
    <3>3. /\ Cardinality(pending[Monitor] \ {cursor}) \in Nat
          /\ Cardinality(pending[Monitor] \ {cursor}) <= Cardinality(services) - 1
      BY <3>1, <3>2, FS_Subset, FS_CardinalityType
    <3>4. ScanLeft = 2 * Cardinality(pending[Monitor] \ {cursor}) + 2
      BY <2>3 DEF ScanLeft
    <3> QED
      BY <1>2, <3>3, <3>4
  <2> QED
    BY <2>1, <2>2, <2>3 DEF IInv, TypeOK
<1>4. ASSUME NEW r \in Reader
      PROVE  CopyLeft(r) \in Nat /\ CopyLeft(r) <= Cardinality(services) + 1
  BY <1>1, <1>2 DEF CopyLeft
<1> QED
  BY <1>3, <1>4 DEF CountsOK

(* What the mutex holder's own steps and the steps of the others do to     *)
(* its traversal.                                                          *)
TraversalsDescend ==
  [][/\ MonitorStep /\ ~BeginScan => ScanLeft' < ScanLeft
     /\ ~BeginScan /\ ~Emplace => ScanLeft' <= ScanLeft
     /\ \A r \in Reader :
          /\ ReaderStep(r) /\ ~BeginCopy(r) => CopyLeft(r)' < CopyLeft(r)
          /\ ~BeginCopy(r) /\ ~Emplace => CopyLeft(r)' <= CopyLeft(r)]_vars

LEMMA VisitCounts ==
  ASSUME NEW S, NEW s \in S, IsFiniteSet(S)
  PROVE  /\ Cardinality(S) \in Nat
         /\ Cardinality(S \ {s}) \in Nat
         /\ Cardinality(S \ {s}) = Cardinality(S) - 1
BY FS_RemoveElement, FS_CardinalityType

LEMMA MonitorDescends ==
  ASSUME IInv, FiniteInv, MonitorStep, ~BeginScan
  PROVE  ScanLeft' < ScanLeft
<1> USE DEF IInv, TypeOK
<1>0. IsFiniteSet(pending[Monitor])
  BY DEF FiniteInv, Thread
<1>1. ASSUME NEW s \in ServiceId, Examine(s)
      PROVE  ScanLeft' < ScanLeft
  <2>1. s \in pending[Monitor] /\ ScanLeft = 2 * Cardinality(pending[Monitor]) + 1
    BY <1>1 DEF Examine, ScanLeft
  <2>2. CASE Expired(s)
    <3>1. ScanLeft' = 2 * Cardinality(pending[Monitor] \ {s}) + 2
      BY <1>1, <2>2 DEF Examine, ScanLeft
    <3> QED
      BY <1>0, <2>1, <3>1, VisitCounts
  <2>3. CASE ~Expired(s)
    <3>1. pending'[Monitor] = pending[Monitor] \ {s} /\ monitorPc' = "scan"
      BY <1>1, <2>3 DEF Examine, Visited, Thread
    <3>2. ScanLeft' = 2 * Cardinality(pending[Monitor] \ {s}) + 1
      BY <3>1 DEF ScanLeft
    <3> QED
      BY <1>0, <2>1, <3>2, VisitCounts
  <2> QED
    BY <2>2, <2>3
<1>2. CASE Erase
  <2>1. /\ ScanLeft = 2 * Cardinality(pending[Monitor] \ {cursor}) + 2
        /\ Cardinality(pending[Monitor] \ {cursor}) \in Nat
    BY <1>0, <1>2, FS_RemoveElement, FS_CardinalityType DEF Erase, ScanLeft
  <2>2. pending'[Monitor] = pending[Monitor] \ {cursor} /\ monitorPc' = "scan"
    BY <1>2 DEF Erase, Visited, Thread
  <2>3. ScanLeft' = 2 * Cardinality(pending[Monitor] \ {cursor}) + 1
    BY <2>2 DEF ScanLeft
  <2> QED
    BY <2>1, <2>3
<1>3. CASE EndScan
  <2>1. ScanLeft = 2 * Cardinality({}) + 1 /\ ScanLeft' = 0
    BY <1>3 DEF EndScan, ScanLeft
  <2> QED
    BY <2>1, FS_EmptySet
<1> QED
  BY <1>1, <1>2, <1>3 DEF MonitorStep

LEMMA ReaderDescends ==
  ASSUME IInv, FiniteInv, NEW r \in Reader, ReaderStep(r), ~BeginCopy(r)
  PROVE  CopyLeft(r)' < CopyLeft(r)
<1> USE DEF IInv, TypeOK
<1>1. ASSUME NEW s \in ServiceId, Copy(r, s)
      PROVE  CopyLeft(r)' < CopyLeft(r)
  <2>1. /\ s \in pending[r] /\ pending'[r] = pending[r] \ {s}
        /\ r \in inside /\ r \in inside'
    BY <1>1 DEF Copy, Visited, Thread
  <2>2. /\ CopyLeft(r) = Cardinality(pending[r]) + 1
        /\ CopyLeft(r)' = Cardinality(pending[r] \ {s}) + 1
    BY <2>1 DEF CopyLeft
  <2> QED
    BY <2>1, <2>2, VisitCounts DEF FiniteInv, Thread
<1>2. CASE EndCopy(r)
  <2>1. CopyLeft(r) = Cardinality({}) + 1 /\ CopyLeft(r)' = 0
    BY <1>2 DEF EndCopy, Unlock, CopyLeft
  <2> QED
    BY <2>1, FS_EmptySet
<1> QED
  BY <1>1, <1>2 DEF ReaderStep

(* Whoever is not the actor keeps what is left to do, insertions apart.    *)
LEMMA OthersKeepScan ==
  ASSUME IInv, [Next]_vars, ~MonitorStep, ~Emplace
  PROVE  ScanLeft' = ScanLeft
<1>1. monitorPc' = monitorPc /\ cursor' = cursor
  BY DEF Next, EventStep, ReaderStep, Tick, Receive, ReceiveAnswer,
         ReceiveUnparsable, RaceCrash, Lookup, KeyGone, LostWrite,
         UpdateHeartbeat, UpdateMetadata, Call, BeginCopy, Copy, EndCopy, vars,
         scanVars
<1>2. pending'[Monitor] = pending[Monitor]
  BY MonitorAssumption
     DEF IInv, TypeOK, Next, EventStep, ReaderStep, Tick, Receive,
         ReceiveAnswer, ReceiveUnparsable, RaceCrash, Lookup, KeyGone,
         LostWrite, UpdateHeartbeat, UpdateMetadata, Call, BeginCopy, Copy,
         EndCopy, vars, lockVars, Lock, Visited, Thread
<1> QED
  BY <1>1, <1>2 DEF ScanLeft

LEMMA OthersKeepCopy ==
  ASSUME IInv, [Next]_vars, NEW r \in Reader, ~ReaderStep(r), ~Emplace
  PROVE  CopyLeft(r)' = CopyLeft(r)
<1>1. /\ r \in inside' <=> r \in inside
      /\ r \in inside => pending'[r] = pending[r]
  BY MonitorAssumption
     DEF IInv, TypeOK, Next, EventStep, MonitorStep, ReaderStep, Tick, Receive,
         ReceiveAnswer, ReceiveUnparsable, RaceCrash, Lookup, KeyGone,
         LostWrite, UpdateHeartbeat, UpdateMetadata, Call, BeginScan, Examine,
         Erase, EndScan, BeginCopy, Copy, EndCopy, vars, lockVars, Lock, Unlock,
         Visited, Thread
<1> QED
  BY <1>1 DEF CopyLeft

(* A traversal takes a bounded number of steps: each one of the thread in  *)
(* the mutex brings it closer to giving the mutex back, no other step      *)
(* takes it further away but an insertion, and there is never more left    *)
(* than two steps for each service in the map.  check_services does not    *)
(* look at the same record for ever, whatever becomes of its cursor.       *)
THEOREM TraversalsEnd ==
  Spec => TraversalsDescend /\ []CountsOK
<1>1. IInv /\ FiniteInv => CountsOK
  BY CountsBounded
<1>2. (IInv /\ FiniteInv) /\ [Next]_vars /\ CountsOK /\ CountsOK' =>
        [/\ MonitorStep /\ ~BeginScan => ScanLeft' < ScanLeft
         /\ ~BeginScan /\ ~Emplace => ScanLeft' <= ScanLeft
         /\ \A r \in Reader :
              /\ ReaderStep(r) /\ ~BeginCopy(r) => CopyLeft(r)' < CopyLeft(r)
              /\ ~BeginCopy(r) /\ ~Emplace => CopyLeft(r)' <= CopyLeft(r)]_vars
  <2> SUFFICES ASSUME IInv, FiniteInv, [Next]_vars, CountsOK, CountsOK'
               PROVE  /\ MonitorStep /\ ~BeginScan => ScanLeft' < ScanLeft
                      /\ ~BeginScan /\ ~Emplace => ScanLeft' <= ScanLeft
                      /\ \A r \in Reader :
                           /\ ReaderStep(r) /\ ~BeginCopy(r) =>
                                CopyLeft(r)' < CopyLeft(r)
                           /\ ~BeginCopy(r) /\ ~Emplace =>
                                CopyLeft(r)' <= CopyLeft(r)
    OBVIOUS
  <2>1. /\ ScanLeft \in Nat /\ ScanLeft' \in Nat
        /\ \A r \in Reader : CopyLeft(r) \in Nat /\ CopyLeft(r)' \in Nat
    BY DEF CountsOK
  <2>2. MonitorStep /\ ~BeginScan => ScanLeft' < ScanLeft
    BY MonitorDescends
  <2>3. ~BeginScan /\ ~Emplace => ScanLeft' <= ScanLeft
    BY <2>1, <2>2, OthersKeepScan
  <2>4. ASSUME NEW r \in Reader
        PROVE  /\ ReaderStep(r) /\ ~BeginCopy(r) => CopyLeft(r)' < CopyLeft(r)
               /\ ~BeginCopy(r) /\ ~Emplace => CopyLeft(r)' <= CopyLeft(r)
    BY <2>1, ReaderDescends, OthersKeepCopy
  <2> QED
    BY <2>2, <2>3, <2>4
<1> QED
  BY <1>1, <1>2, FiniteInvariance, PTL DEF Spec, TraversalsDescend

-----------------------------------------------------------------------------
(* process_message, entry by entry.                                        *)

(* How much of its answer the libevent thread has still to do: three steps *)
(* for an entry at most.                                                   *)
AnswerLeft ==
  CASE eventPc = "idle"                  -> 0
    [] eventPc = "lookup"                -> 3 * Len(answer)
    [] eventPc = "heartbeat"             -> 3 * Len(answer) - 1
    [] eventPc \in {"metadata", "emplace"} -> 3 * Len(answer) - 2

LengthInv == Len(answer) \in 0 .. MaxEntries

LEMMA TailShorter ==
  ASSUME TypeOK, eventPc # "idle"
  PROVE  /\ Len(answer) \in Nat \ {0}
         /\ Len(Tail(answer)) = Len(answer) - 1
         /\ Tail(answer) = <<>> => Len(answer) = 1
<1>1. answer \in Seq(Entry \cup {Malformed}) /\ answer # <<>>
  BY DEF TypeOK
<1>2. Len(answer) \in Nat \ {0} /\ Len(Tail(answer)) = Len(answer) - 1
  BY <1>1, EmptySeq, HeadTailProperties
<1>3. Tail(answer) = <<>> => Len(Tail(answer)) = 0
  <2>1. Len(<<>>) = 0
    BY EmptySeq
  <2> QED
    BY <2>1, Zenon
<1> QED
  BY <1>2, <1>3

LEMMA LengthStep ==
  ASSUME TypeOK, LengthInv, [Next]_vars
  PROVE  LengthInv'
<1>1. CASE Receive
  <2>1. PICK n \in 1 .. MaxEntries :
          \E entries \in [1 .. n -> Entry \cup {Malformed}] :
            answer' = entries
    BY <1>1 DEF Receive, Answers, ReceiveAnswer
  <2>2. Len(answer') = n
    BY <2>1, BoundsAssumption
  <2> QED
    BY <2>2, BoundsAssumption DEF LengthInv
<1>2. CASE eventPc # "idle" /\ answer' \in {answer, Tail(answer), <<>>}
  BY <1>2, TailShorter, BoundsAssumption DEF LengthInv
<1>3. CASE UNCHANGED answer
  BY <1>3 DEF LengthInv
<1> QED
  BY <1>1, <1>2, <1>3
     DEF Next, EventStep, MonitorStep, ReaderStep, Tick, ReceiveUnparsable,
         RaceCrash, Lookup, KeyGone, LostWrite, UpdateHeartbeat, UpdateMetadata,
         Emplace, NextEntry, Abandon, Call, BeginScan, Examine, Erase, EndScan,
         BeginCopy, Copy, EndCopy, vars, eventVars

LEMMA AnswerDescends ==
  ASSUME TypeOK, EventStep
  PROVE  AnswerLeft' < AnswerLeft
<1>1. eventPc # "idle"
  BY DEF EventStep, Lookup, KeyGone, LostWrite, UpdateHeartbeat,
         UpdateMetadata, Emplace
<1>2. Len(answer) \in Nat \ {0}
  BY <1>1, TailShorter
<1>3. AnswerLeft \in Int /\ AnswerLeft >= 3 * Len(answer) - 2
  BY <1>1, <1>2 DEF AnswerLeft, TypeOK
<1>4. ASSUME NextEntry
      PROVE  AnswerLeft' <= 3 * Len(answer) - 3
  <2>1. CASE Tail(answer) = <<>>
    BY <1>2, <1>4, <2>1 DEF NextEntry, AnswerLeft
  <2>2. CASE Tail(answer) # <<>>
    <3>1. AnswerLeft' = 3 * Len(Tail(answer))
      BY <1>4, <2>2 DEF NextEntry, AnswerLeft
    <3> QED
      BY <1>1, <1>2, <3>1, TailShorter
  <2> QED
    BY <2>1, <2>2
<1>5. ASSUME Abandon
      PROVE  AnswerLeft' = 0
  BY <1>5 DEF Abandon, AnswerLeft
<1>6. CASE Lookup
  <2>1. AnswerLeft = 3 * Len(answer)
    BY <1>6 DEF Lookup, AnswerLeft
  <2>2. CASE eventPc' = "heartbeat" /\ answer' = answer
    <3>1. AnswerLeft' = 3 * Len(answer) - 1
      BY <2>2 DEF AnswerLeft
    <3> QED
      BY <1>2, <2>1, <3>1
  <2>3. CASE eventPc' = "emplace" /\ answer' = answer
    <3>1. AnswerLeft' = 3 * Len(answer) - 2
      BY <2>3 DEF AnswerLeft
    <3> QED
      BY <1>2, <2>1, <3>1
  <2> QED
    BY <1>2, <1>5, <1>6, <2>1, <2>2, <2>3 DEF Lookup
<1>7. CASE UpdateHeartbeat
  <2>1. AnswerLeft = 3 * Len(answer) - 1 /\ AnswerLeft' = 3 * Len(answer) - 2
    BY <1>7 DEF UpdateHeartbeat, AnswerLeft
  <2> QED
    BY <1>2, <2>1
<1>8. CASE KeyGone
  BY <1>2, <1>3, <1>5, <1>8 DEF KeyGone
<1>9. CASE LostWrite \/ UpdateMetadata \/ Emplace
  <2>1. NextEntry /\ AnswerLeft = 3 * Len(answer) - 2
    BY <1>9 DEF LostWrite, UpdateMetadata, Emplace, AnswerLeft
  <2>2. AnswerLeft' \in Int
    <3>1. Tail(answer) = <<>> \/ Len(Tail(answer)) \in Nat
      BY <1>1, <1>2, TailShorter
    <3> QED
      BY <2>1, <3>1 DEF NextEntry, AnswerLeft
  <2> QED
    BY <1>2, <1>4, <2>1, <2>2
<1> QED
  BY <1>6, <1>7, <1>8, <1>9 DEF EventStep

(* process_message is over after at most three steps for each entry of its *)
(* answer: each of its steps leaves less to do, and nothing the monitor    *)
(* and the users do to the map in between makes it longer, whether they    *)
(* have erased the key it is about to look at or not.                      *)
THEOREM AnswerIsBounded ==
  Spec => /\ [](AnswerLeft \in 0 .. 3 * MaxEntries)
          /\ [][/\ EventStep => AnswerLeft' < AnswerLeft
                /\ ~EventStep /\ ~Receive => AnswerLeft' = AnswerLeft]_vars
<1>1. Init => LengthInv
  BY BoundsAssumption DEF Init, LengthInv
<1>2. IInv /\ LengthInv /\ [Next]_vars => LengthInv'
  BY LengthStep DEF IInv
<1>3. IInv /\ LengthInv => AnswerLeft \in 0 .. 3 * MaxEntries
  <2> SUFFICES ASSUME IInv, LengthInv PROVE AnswerLeft \in 0 .. 3 * MaxEntries
    OBVIOUS
  <2>1. /\ Len(answer) \in 0 .. MaxEntries /\ MaxEntries \in Nat
        /\ eventPc # "idle" => Len(answer) >= 1
    BY TailShorter, BoundsAssumption DEF LengthInv, IInv
  <2> QED
    BY <2>1 DEF AnswerLeft, IInv, TypeOK
<1>4. IInv /\ [Next]_vars =>
        [/\ EventStep => AnswerLeft' < AnswerLeft
         /\ ~EventStep /\ ~Receive => AnswerLeft' = AnswerLeft]_vars
  <2> SUFFICES ASSUME IInv, [Next]_vars
               PROVE  /\ EventStep => AnswerLeft' < AnswerLeft
                      /\ ~EventStep /\ ~Receive => AnswerLeft' = AnswerLeft
    OBVIOUS
  <2>1. EventStep => AnswerLeft' < AnswerLeft
    BY AnswerDescends DEF IInv
  <2>2. ~EventStep /\ ~Receive => UNCHANGED <<eventPc, answer>>
    BY DEF Next, MonitorStep, ReaderStep, Tick, ReceiveUnparsable, RaceCrash,
           Call, BeginScan, Examine, Erase, EndScan, BeginCopy, Copy, EndCopy,
           vars, eventVars
  <2>3. UNCHANGED <<eventPc, answer>> => AnswerLeft' = AnswerLeft
    BY DEF AnswerLeft
  <2> QED
    BY <2>1, <2>2, <2>3
<1> QED
  BY <1>1, <1>2, <1>3, <1>4, Invariance, PTL DEF Spec
=============================================================================
