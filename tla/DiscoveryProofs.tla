--------------------------- MODULE DiscoveryProofs ---------------------------
(***************************************************************************)
(* What the composition promises for every timeout, interval, delay and    *)
(* number of faults: stamps travel in order, so a record's heartbeat never *)
(* moves backwards; a silent service is never known for longer than from   *)
(* one check that comes by it to the next; one that is left alone is known *)
(* and never expired.                                                      *)
(*                                                                         *)
(* The first invariant orders the stamps along their way: those of the     *)
(* record, the answers, the controller and the presences, in this order,   *)
(* each at most the next, and none later than the presence last sent.  The *)
(* second, at the end, follows the beats of a steady service.              *)
(***************************************************************************)
EXTENDS Discovery, TLAPS

Stamps(q) == {q[j].stamp : j \in DOMAIN q}
InOrder(q) == \A j, k \in DOMAIN q : j <= k => q[j].stamp <= q[k].stamp
UpTo(S, T) == \A x \in S, y \in T : x <= y

Heard == {heard[s] : s \in members}

Ordered ==
  /\ InOrder(answers) /\ InOrder(presences)
  /\ UpTo(Heard, Stamps(answers)) /\ UpTo(Heard, listed)
  /\ UpTo(Heard, Stamps(presences))
  /\ UpTo(Stamps(answers), listed) /\ UpTo(Stamps(answers), Stamps(presences))
  /\ UpTo(listed, Stamps(presences))

Latest ==
  /\ lastSent <= now
  /\ UpTo(Heard \cup Stamps(answers) \cup listed \cup Stamps(presences),
          {lastSent + skew})

Checked ==
  /\ now <= checkDue /\ checkDue <= now + CheckInterval
  /\ members # {} =>
       /\ allowed[Service] = HeartbeatTimeout
       /\ joined < checkDue - CheckInterval /\ ~missed
            => checkDue - CheckInterval <= lastSent + skew + HeartbeatTimeout

Inv == TypeOK /\ Ordered /\ Latest /\ Checked

-----------------------------------------------------------------------------
(* The three things that happen to a queue.                                *)

LEMMA QueueStamps ==
  ASSUME NEW q \in Seq(Message) PROVE Stamps(q) \subseteq Int
<1>1. \A j \in DOMAIN q : q[j] \in Message
  OBVIOUS
<1>2. \A m \in Message : m.stamp \in Int
  BY DEF Message
<1>3. QED BY <1>1, <1>2 DEF Stamps

LEMMA QueueAppended ==
  ASSUME NEW q \in Seq(Message), NEW m \in Message, InOrder(q),
         UpTo(Stamps(q), {m.stamp})
  PROVE  /\ Append(q, m) \in Seq(Message)
         /\ InOrder(Append(q, m))
         /\ Stamps(Append(q, m)) = Stamps(q) \cup {m.stamp}
<1> DEFINE r == Append(q, m)
<1>1. /\ r \in Seq(Message) /\ Len(r) = Len(q) + 1
      /\ DOMAIN q = 1 .. Len(q) /\ DOMAIN r = 1 .. Len(q) + 1 /\ Len(q) \in Nat
      /\ r[Len(q) + 1] = m /\ \A j \in 1 .. Len(q) : r[j] = q[j]
  OBVIOUS
<1>2. m.stamp \in Int /\ \A j \in 1 .. Len(q) : q[j].stamp \in Int
  BY <1>1, QueueStamps DEF Stamps, Message
<1>3. InOrder(r)
  BY <1>1, <1>2 DEF InOrder, UpTo, Stamps
<1>4. Stamps(r) = Stamps(q) \cup {m.stamp}
  BY <1>1 DEF Stamps
<1>5. QED BY <1>1, <1>3, <1>4

LEMMA QueueTail ==
  ASSUME NEW q \in Seq(Message), q # <<>>, InOrder(q)
  PROVE  /\ Head(q) \in Message /\ Head(q).stamp \in Stamps(q)
         /\ Tail(q) \in Seq(Message)
         /\ InOrder(Tail(q))
         /\ Stamps(Tail(q)) \subseteq Stamps(q)
         /\ UpTo({Head(q).stamp}, Stamps(Tail(q)))
<1>1. /\ Tail(q) \in Seq(Message) /\ Len(q) \in Nat \ {0}
      /\ DOMAIN q = 1 .. Len(q) /\ DOMAIN Tail(q) = 1 .. Len(q) - 1
      /\ \A j \in 1 .. Len(q) - 1 : Tail(q)[j] = q[j + 1]
      /\ Head(q) = q[1] /\ q[1] \in Message
  OBVIOUS
<1>2. InOrder(Tail(q))
  BY <1>1 DEF InOrder
<1>3. Stamps(Tail(q)) \subseteq Stamps(q) /\ Head(q).stamp \in Stamps(q)
  BY <1>1 DEF Stamps
<1>4. UpTo({Head(q).stamp}, Stamps(Tail(q)))
  BY <1>1 DEF InOrder, UpTo, Stamps
<1>5. QED BY <1>1, <1>2, <1>3, <1>4

LEMMA QueuePrefix ==
  ASSUME NEW q \in Seq(Message), NEW n \in 0 .. Len(q), InOrder(q)
  PROVE  /\ SubSeq(q, 1, n) \in Seq(Message)
         /\ InOrder(SubSeq(q, 1, n))
         /\ Stamps(SubSeq(q, 1, n)) \subseteq Stamps(q)
<1> DEFINE r == SubSeq(q, 1, n)
<1>1. /\ r \in Seq(Message)
      /\ DOMAIN q = 1 .. Len(q) /\ DOMAIN r = 1 .. n /\ Len(q) \in Nat
      /\ \A j \in 1 .. n : r[j] = q[j]
  OBVIOUS
<1>2. QED BY <1>1 DEF InOrder, Stamps

-----------------------------------------------------------------------------
LEMMA Initially == Init => Inv
<1> SUFFICES ASSUME Init PROVE Inv
  OBVIOUS
<1>1. TypeOK
  <2>1. skew \in -Skew .. Skew /\ now \in Nat /\ checkDue \in Nat
    BY PeriodAssumption DEF Init
  <2>2. presences \in Seq(Message) /\ answers \in Seq(Message)
    BY DEF Init
  <2>3. heard \in [{Service} -> Int] /\ allowed \in [{Service} -> {0, HeartbeatTimeout}]
    BY DEF Init
  <2>4. QED BY <2>1, <2>2, <2>3 DEF Init, TypeOK
<1>2. Ordered /\ Latest
  BY DEF Init, Ordered, Latest, InOrder, UpTo, Stamps, Heard
<1>3. Checked
  BY PeriodAssumption DEF Init, Checked
<1>4. QED BY <1>1, <1>2, <1>3 DEF Inv

-----------------------------------------------------------------------------
(* Steps that concern neither the map, nor a stamp, nor the clock.         *)
LEMMA Elsewhere ==
  ASSUME Inv, TypeOK',
         UNCHANGED <<now, skew, listenerVars, lastSent, listed, presences, answers>>
  PROVE  Inv'
  BY DEF Inv, Ordered, Latest, Checked, Heard, Stamps, InOrder, UpTo,
         listenerVars, mapVars

LEMMA InvSimulate == Inv /\ Simulate => Inv'
<1> SUFFICES ASSUME Inv, Simulate PROVE Inv'
  OBVIOUS
<1>1. loopDue' \in Nat /\ steadySince' \in Nat
  BY DEF Simulate, BecomesSteady, Inv, TypeOK
<1>2. offline' \in Nat /\ enabled' \in BOOLEAN
  <2>1. CASE UNCHANGED <<enabled, offline>>
    BY <2>1 DEF Inv, TypeOK
  <2>2. CASE enabled' = FALSE /\ offline' \in OfflineLoops
    BY <2>2, BoundAssumption
  <2>3. CASE StaysOffline /\ offline' = offline - 1 /\ UNCHANGED enabled
    BY <2>3 DEF StaysOffline, Inv, TypeOK
  <2>4. CASE enabled' = TRUE /\ UNCHANGED offline
    BY <2>4 DEF Inv, TypeOK
  <2>5. QED BY <2>1, <2>2, <2>3, <2>4 DEF Simulate
<1>3. TypeOK'
  BY <1>1, <1>2 DEF Simulate, Inv, TypeOK, listenerVars, mapVars, beatVars,
     controllerVars
<1>4. QED BY <1>3, Elsewhere DEF Simulate, beatVars, controllerVars

LEMMA InvConnections == Inv /\ (Link \/ Consume) => Inv'
<1> SUFFICES ASSUME Inv, Link \/ Consume PROVE Inv'
  OBVIOUS
<1>1. steadySince' \in Nat
  BY DEF Link, Consume, BecomesSteady, Inv, TypeOK
<1>2. linked' \in BOOLEAN /\ consuming' \in BOOLEAN
  BY DEF Link, Consume, Inv, TypeOK
<1>3. TypeOK'
  BY <1>1, <1>2 DEF Link, Consume, Inv, TypeOK, listenerVars, mapVars, beatVars,
     controllerVars
<1>4. QED BY <1>3, Elsewhere DEF Link, Consume, beatVars, controllerVars

LEMMA InvTick == Inv /\ Tick => Inv'
<1> SUFFICES ASSUME Inv, Tick PROVE Inv'
  OBVIOUS
<1> USE DEF Tick, listenerVars, mapVars, serviceVars, linkVars, beatVars,
            controllerVars
<1>1. now' = now + 1 /\ now' \in Nat /\ now < checkDue
  BY DEF Inv, TypeOK
<1>2. TypeOK'
  BY <1>1 DEF Inv, TypeOK
<1>3. Ordered'
  BY DEF Inv, Ordered, Heard, Stamps, InOrder, UpTo
<1>4. lastSent' <= now'
  BY <1>1 DEF Inv, TypeOK, Latest
<1>5. Latest'
  BY <1>4 DEF Inv, Latest, Heard, Stamps, UpTo
<1>6. Checked'
  BY <1>1, PeriodAssumption DEF Inv, TypeOK, Checked
<1>7. QED BY <1>2, <1>3, <1>5, <1>6 DEF Inv

(* A presence is later than every stamp under way.                         *)
LEMMA InvBeat == Inv /\ Beat => Inv'
<1> SUFFICES ASSUME Inv, Beat PROVE Inv'
  OBVIOUS
<1> USE DEF Beat, listenerVars, mapVars, serviceVars, linkVars, controllerVars
<1>1. beatDue' \in Nat
  BY PeriodAssumption DEF NextBeat, Inv, TypeOK
<1>2. CASE UNCHANGED <<presences, lastSent>>
  <2>1. TypeOK'
    BY <1>1, <1>2 DEF Inv, TypeOK
  <2>2. QED BY <1>2, <2>1, Elsewhere
<1>3. CASE presences' = Append(presences, Presence) /\ lastSent' = now
  <2>1. now + skew \in Int /\ now \in Nat /\ lastSent + skew <= now + skew
    BY PeriodAssumption DEF Inv, TypeOK, Latest
  <2>2. Presence \in Message /\ Presence.stamp = now + skew
    BY <2>1 DEF Presence, Message
  <2>3. Heard \cup Stamps(answers) \cup listed \cup Stamps(presences) \subseteq Int
    BY QueueStamps DEF Inv, TypeOK, Heard
  <2>4. UpTo(Heard \cup Stamps(answers) \cup listed \cup Stamps(presences),
             {now + skew})
    <3>1. lastSent + skew \in Int
      BY PeriodAssumption DEF Inv, TypeOK
    <3>2. QED BY <2>1, <2>3, <3>1 DEF Inv, Latest, UpTo
  <2>5. UpTo(Stamps(presences), {Presence.stamp})
    BY <2>2, <2>4 DEF UpTo
  <2>6. /\ presences' \in Seq(Message) /\ InOrder(presences')
        /\ Stamps(presences') = Stamps(presences) \cup {now + skew}
    BY <1>3, <2>2, <2>5, QueueAppended DEF Inv, TypeOK, Ordered
  <2>7. TypeOK'
    BY <1>1, <1>3, <2>1, <2>6 DEF Inv, TypeOK
  <2>8. Heard' = Heard /\ Stamps(answers') = Stamps(answers)
    BY DEF Heard
  <2>9. InOrder(answers')
    BY DEF Inv, Ordered
  <2>10. Ordered'
    BY <2>4, <2>6, <2>8, <2>9 DEF Inv, Ordered, UpTo
  <2>11. lastSent' + skew' = now + skew
    BY <1>3
  <2>12. Latest'
    BY <1>3, <2>1, <2>4, <2>6, <2>8, <2>11 DEF Latest, UpTo
  <2>13. Checked'
    BY <1>3, <2>1, PeriodAssumption DEF Inv, TypeOK, Latest, Checked
  <2>14. QED BY <2>7, <2>10, <2>12, <2>13 DEF Inv
<1>4. QED BY <1>2, <1>3

(* The stamps under way are some of those before, in the same order, and   *)
(* nothing else that matters here changes.                                 *)
LEMMA FewerUnderWay ==
  ASSUME Inv, TypeOK', UNCHANGED <<now, skew, listenerVars, lastSent>>,
         InOrder(answers'), InOrder(presences'),
         Stamps(answers') \subseteq Stamps(answers),
         Stamps(presences') \subseteq Stamps(presences),
         listed' \subseteq listed \/ UpTo(listed', Stamps(presences')),
         listed' \subseteq listed \cup Stamps(presences)
  PROVE  Inv'
<1>1. Heard' = Heard
  BY DEF Heard, listenerVars, mapVars
<1>2. Ordered'
  BY <1>1 DEF Inv, Ordered, UpTo
<1>3. Latest'
  BY <1>1 DEF Inv, Latest, UpTo
<1>4. Checked'
  BY DEF Inv, Checked, listenerVars, mapVars
<1>5. QED BY <1>2, <1>3, <1>4 DEF Inv

LEMMA InvLoseLink == Inv /\ LoseLink => Inv'
<1> SUFFICES ASSUME Inv, LoseLink PROVE Inv'
  OBVIOUS
<1> USE DEF LoseLink, listenerVars, mapVars, beatVars, controllerVars
<1>1. PICK n \in 0 .. Len(presences) : presences' = SubSeq(presences, 1, n)
  OBVIOUS
<1>2. /\ presences' \in Seq(Message) /\ InOrder(presences')
      /\ Stamps(presences') \subseteq Stamps(presences)
  BY <1>1, QueuePrefix DEF Inv, TypeOK, Ordered
<1>3. steadySince' \in Nat /\ faults' \in Nat
  BY DEF BecomesSteady, Inv, TypeOK
<1>4. TypeOK'
  BY <1>2, <1>3 DEF Inv, TypeOK
<1>5. InOrder(answers') /\ Stamps(answers') \subseteq Stamps(answers)
  BY DEF Inv, Ordered
<1>6. QED BY <1>2, <1>4, <1>5, FewerUnderWay

LEMMA InvLoseQueue == Inv /\ LoseQueue => Inv'
<1> SUFFICES ASSUME Inv, LoseQueue PROVE Inv'
  OBVIOUS
<1> USE DEF LoseQueue, listenerVars, mapVars, beatVars, controllerVars
<1>1. InOrder(answers') /\ Stamps(answers') = {} /\ answers' \in Seq(Message)
  BY DEF InOrder, Stamps
<1>2. InOrder(presences') /\ Stamps(presences') \subseteq Stamps(presences)
  BY DEF Inv, Ordered
<1>3. steadySince' \in Nat /\ faults' \in Nat
  BY DEF BecomesSteady, Inv, TypeOK
<1>4. TypeOK'
  BY <1>1, <1>3 DEF Inv, TypeOK
<1>5. QED BY <1>1, <1>2, <1>4, FewerUnderWay

LEMMA InvForget == Inv /\ Forget => Inv'
<1> SUFFICES ASSUME Inv, Forget PROVE Inv'
  OBVIOUS
<1> USE DEF Forget, listenerVars, mapVars, serviceVars, linkVars, beatVars
<1>1. TypeOK'
  BY DEF Inv, TypeOK
<1>2. /\ InOrder(presences') /\ Stamps(presences') \subseteq Stamps(presences)
      /\ InOrder(answers') /\ Stamps(answers') \subseteq Stamps(answers)
  BY DEF Inv, Ordered
<1>3. QED BY <1>1, <1>2, FewerUnderWay

LEMMA InvDropAnswer == Inv /\ DropAnswer => Inv'
<1> SUFFICES ASSUME Inv, DropAnswer PROVE Inv'
  OBVIOUS
<1> USE DEF DropAnswer, listenerVars, mapVars, serviceVars, beatVars,
            controllerVars
<1>1. /\ answers' \in Seq(Message) /\ InOrder(answers')
      /\ Stamps(answers') \subseteq Stamps(answers)
  BY QueueTail DEF Inv, TypeOK, Ordered
<1>2. InOrder(presences') /\ Stamps(presences') \subseteq Stamps(presences)
  BY DEF Inv, Ordered
<1>3. steadySince' \in Nat
  BY DEF Inv, TypeOK
<1>4. TypeOK'
  BY <1>1, <1>3 DEF Inv, TypeOK
<1>5. QED BY <1>1, <1>2, <1>4, FewerUnderWay

(* The controller's stamp is now that of the head, which the rest of the   *)
(* queue is not older than.                                                *)
LEMMA InvReadPresence == Inv /\ ReadPresence => Inv'
<1> SUFFICES ASSUME Inv, ReadPresence PROVE Inv'
  OBVIOUS
<1> USE DEF ReadPresence, listenerVars, mapVars, serviceVars, linkVars, beatVars
<1> DEFINE t == Head(presences).stamp
<1>1. /\ t \in Stamps(presences)
      /\ presences' \in Seq(Message) /\ InOrder(presences')
      /\ Stamps(presences') \subseteq Stamps(presences)
      /\ UpTo({t}, Stamps(presences'))
  BY QueueTail DEF Inv, TypeOK, Ordered
<1>2. t \in Int
  BY <1>1, QueueStamps DEF Inv, TypeOK
<1>3. TypeOK'
  BY <1>1, <1>2 DEF Inv, TypeOK
<1>4. InOrder(answers') /\ Stamps(answers') \subseteq Stamps(answers)
  BY DEF Inv, Ordered
<1>5. UpTo(listed', Stamps(presences')) /\ listed' \subseteq Stamps(presences)
  BY <1>1
<1>6. QED BY <1>1, <1>3, <1>4, <1>5, FewerUnderWay

LEMMA InvAnswer == Inv /\ Answer => Inv'
<1> SUFFICES ASSUME Inv, Answer PROVE Inv'
  OBVIOUS
<1> USE DEF Answer, listenerVars, mapVars, serviceVars, linkVars, beatVars
<1>1. answerDue' \in Nat
  BY PeriodAssumption DEF Inv, TypeOK
<1>2. CASE UNCHANGED answers
  <2>1. TypeOK'
    BY <1>1, <1>2 DEF Inv, TypeOK
  <2>2. QED BY <1>2, <2>1, Elsewhere
<1>3. CASE ~UNCHANGED answers
  <2>1. PICK t \in listed :
          answers' = Append(answers, [stamp |-> t, sent |-> now])
    BY <1>3
  <2> DEFINE m == [stamp |-> t, sent |-> now]
  <2>2. m \in Message /\ m.stamp = t
    <3>1. t \in Int /\ now \in Nat
      BY DEF Inv, TypeOK
    <3>2. QED BY <3>1 DEF Message
  <2>3. UpTo(Stamps(answers), {m.stamp})
    BY <2>2 DEF Inv, Ordered, UpTo
  <2>4. /\ answers' \in Seq(Message) /\ InOrder(answers')
        /\ Stamps(answers') = Stamps(answers) \cup {t}
    BY <2>1, <2>2, <2>3, QueueAppended DEF Inv, TypeOK, Ordered
  <2>5. TypeOK'
    BY <1>1, <2>4 DEF Inv, TypeOK
  <2>6. Heard' = Heard /\ Stamps(presences') = Stamps(presences) /\ listed' = listed
    BY DEF Heard
  <2>7. UpTo({t}, listed)
    <3>1. t \in Int /\ \A u \in listed : u = t
      BY DEF Inv, TypeOK
    <3>2. QED BY <3>1 DEF UpTo
  <2>8. InOrder(presences')
    BY DEF Inv, Ordered
  <2>9. Ordered'
    BY <2>4, <2>6, <2>7, <2>8 DEF Inv, Ordered, UpTo
  <2>10. Latest'
    BY <2>4, <2>6 DEF Inv, Latest, UpTo
  <2>11. Checked'
    BY DEF Inv, Checked
  <2>12. QED BY <2>5, <2>9, <2>10, <2>11 DEF Inv
<1>4. QED BY <1>2, <1>3

-----------------------------------------------------------------------------
(* The record's stamp becomes that of the head of the answers.             *)
LEMMA InvProcessAnswer == Inv /\ ProcessAnswer => Inv'
<1> SUFFICES ASSUME Inv, ProcessAnswer PROVE Inv'
  OBVIOUS
<1> USE DEF serviceVars, linkVars, beatVars, controllerVars
<1> DEFINE t == Head(answers).stamp
<1>1. /\ t \in Stamps(answers)
      /\ answers' \in Seq(Message) /\ InOrder(answers')
      /\ Stamps(answers') \subseteq Stamps(answers)
      /\ UpTo({t}, Stamps(answers'))
  BY QueueTail DEF ProcessAnswer, Inv, TypeOK, Ordered
<1>2. t \in Int
  BY <1>1, QueueStamps DEF Inv, TypeOK
<1>3. /\ members' = {Service} /\ suspects' = suspects
      /\ heard' = [heard EXCEPT ![Service] = t]
      /\ now' = now
      /\ \/ joined' = now /\ allowed' = [allowed EXCEPT ![Service] = HeartbeatTimeout]
         \/ members # {} /\ joined' = joined /\ allowed' = allowed
  BY DEF ProcessAnswer, StampOf, Listener!Join, Listener!HearOf, Inv, TypeOK
<1>4. /\ UNCHANGED <<checkDue, missed, skew, listed, presences, lastSent>>
      /\ UNCHANGED <<loopDue, beatDue, answerDue, enabled, consuming, linked>>
      /\ UNCHANGED <<offline, faults, steadySince>>
  BY DEF ProcessAnswer
<1>5. /\ heard' \in [{Service} -> Int] /\ Heard' = {t}
      /\ allowed' \in [{Service} -> {0, HeartbeatTimeout}]
      /\ allowed'[Service] = HeartbeatTimeout
  BY <1>2, <1>3 DEF Inv, TypeOK, Checked, Heard
<1>6. TypeOK'
  BY <1>1, <1>3, <1>4, <1>5 DEF Inv, TypeOK
<1>7. InOrder(presences')
  BY <1>4 DEF Inv, Ordered
<1>8. Ordered'
  BY <1>1, <1>4, <1>5, <1>7 DEF Inv, Ordered, UpTo
<1>9. Latest'
  BY <1>1, <1>3, <1>4, <1>5 DEF Inv, Latest, UpTo
<1>10. Checked'
  BY <1>3, <1>4, <1>5, PeriodAssumption DEF Inv, TypeOK, Checked
<1>11. QED BY <1>6, <1>8, <1>9, <1>10 DEF Inv

(* With whole seconds for ticks, expired means late, to the second.        *)
LEMMA ExpiredIsLate ==
  ASSUME NEW at \in Int, NEW last \in Int, NEW timeout \in Int
  PROVE  /\ Listener!IsExpired(at, last, timeout) <=> at - last > timeout
         /\ Listener!Late(at, last, timeout) <=> at - last > timeout
  BY DEF Listener!IsExpired, Listener!TimeDifference, Listener!Late

(* A check that leaves a member in the map found its stamp in time.        *)
LEMMA InvPassCheck == Inv /\ PassCheck => Inv'
<1> SUFFICES ASSUME Inv, PassCheck PROVE Inv'
  OBVIOUS
<1> USE DEF PassCheck, mapVars, serviceVars, linkVars, beatVars, controllerVars
<1>1. checkDue' = now + CheckInterval /\ now \in Nat /\ checkDue' \in Nat
  BY PeriodAssumption DEF Inv, TypeOK
<1>2. TypeOK'
  BY <1>1 DEF Inv, TypeOK
<1>3. Ordered' /\ Latest'
  BY DEF Inv, Ordered, Latest, Heard, Stamps, InOrder, UpTo
<1>4. ASSUME members # {}
      PROVE  now <= lastSent + skew + HeartbeatTimeout
  <2>1. Service \in members /\ allowed[Service] = HeartbeatTimeout
    BY <1>4 DEF Inv, TypeOK, Checked
  <2>2. heard[Service] \in Int /\ heard[Service] <= lastSent + skew
    BY <2>1 DEF Inv, TypeOK, Latest, UpTo, Heard
  <2>3. ~(now - heard[Service] > HeartbeatTimeout)
    BY <1>1, <2>1, <2>2, ExpiredIsLate, PeriodAssumption DEF IsLate
  <2>4. lastSent \in Int /\ skew \in Int /\ HeartbeatTimeout \in Int
    BY PeriodAssumption DEF Inv, TypeOK
  <2>5. QED BY <1>1, <2>2, <2>3, <2>4
<1>5. Checked'
  BY <1>1, <1>4, PeriodAssumption DEF Inv, TypeOK, Checked
<1>6. QED BY <1>2, <1>3, <1>5 DEF Inv

(* A check that missed the service promises nothing until the next one.    *)
LEMMA InvMissLate == Inv /\ MissLate => Inv'
<1> SUFFICES ASSUME Inv, MissLate PROVE Inv'
  OBVIOUS
<1> USE DEF MissLate, mapVars, serviceVars, linkVars, beatVars, controllerVars
<1>1. checkDue' = now + CheckInterval /\ now \in Nat /\ checkDue' \in Nat
  BY PeriodAssumption DEF Inv, TypeOK
<1>2. TypeOK'
  BY <1>1 DEF Inv, TypeOK
<1>3. Ordered' /\ Latest'
  BY DEF Inv, Ordered, Latest, Heard, Stamps, InOrder, UpTo
<1>4. Checked'
  BY <1>1, PeriodAssumption DEF Inv, Checked
<1>5. QED BY <1>2, <1>3, <1>4 DEF Inv

LEMMA InvFindLate == Inv /\ FindLate => Inv'
<1> SUFFICES ASSUME Inv, FindLate PROVE Inv'
  OBVIOUS
<1> USE DEF serviceVars, linkVars, beatVars, controllerVars
<1>1. /\ suspects' \subseteq members'
      /\ UNCHANGED <<now, members, heard, allowed, joined, checkDue, missed>>
  BY DEF FindLate, Listener!FindLate, Inv, TypeOK
<1>2. TypeOK'
  BY <1>1 DEF FindLate, Inv, TypeOK
<1>3. Ordered' /\ Latest'
  BY <1>1 DEF FindLate, Inv, Ordered, Latest, Heard, Stamps, InOrder, UpTo
<1>4. Checked'
  BY <1>1 DEF FindLate, Inv, Checked
<1>5. QED BY <1>2, <1>3, <1>4 DEF Inv

LEMMA InvErase == Inv /\ Erase => Inv'
<1> SUFFICES ASSUME Inv, Erase PROVE Inv'
  OBVIOUS
<1> USE DEF serviceVars, linkVars, beatVars, controllerVars
<1>1. /\ members' = {} /\ suspects' = {} /\ now' = now
      /\ heard' = [heard EXCEPT ![Service] = 0]
      /\ allowed' = [allowed EXCEPT ![Service] = 0]
      /\ checkDue' = now + CheckInterval /\ joined' = 0 /\ missed' \in BOOLEAN
  BY DEF Erase, Listener!Leave, Inv, TypeOK
<1>2. checkDue' \in Nat /\ now <= checkDue' /\ now \in Nat
  BY <1>1, PeriodAssumption DEF Inv, TypeOK
<1>3. TypeOK'
  <2>1. /\ heard' \in [{Service} -> Int]
        /\ allowed' \in [{Service} -> {0, HeartbeatTimeout}]
    BY <1>1 DEF Inv, TypeOK
  <2>2. QED BY <1>1, <1>2, <2>1 DEF Erase, Inv, TypeOK
<1>4. Heard' = {}
  BY <1>1 DEF Heard
<1>5. Ordered' /\ Latest'
  BY <1>1, <1>4 DEF Erase, Inv, Ordered, Latest, Stamps, InOrder, UpTo
<1>6. Checked'
  BY <1>1, <1>2, PeriodAssumption DEF Checked
<1>7. QED BY <1>3, <1>5, <1>6 DEF Inv

-----------------------------------------------------------------------------
LEMMA Preserved == Inv /\ [Next]_vars => Inv'
<1>1. Inv /\ UNCHANGED vars => Inv'
  <2> SUFFICES ASSUME Inv, UNCHANGED vars PROVE Inv'
    OBVIOUS
  <2>1. TypeOK'
    BY DEF Inv, TypeOK, vars, listenerVars, mapVars, serviceVars, linkVars,
       beatVars, controllerVars
  <2>2. QED BY <2>1, Elsewhere DEF vars, beatVars, controllerVars
<1>2. QED
  BY <1>1, InvSimulate, InvConnections, InvTick, InvBeat, InvLoseLink,
     InvLoseQueue, InvForget, InvReadPresence, InvAnswer, InvProcessAnswer,
     InvDropAnswer, InvPassCheck, InvMissLate, InvFindLate, InvErase DEF Next

LEMMA Always == Spec => []Inv
  BY Initially, Preserved, PTL DEF Spec

(* Queues, clocks and the map keep their types; the controller lists the   *)
(* service with one stamp at most.                                         *)
THEOREM TypeCorrect == Spec => []TypeOK
  BY Always, PTL DEF Inv

(* Whatever the delays, intervals and clocks, and however often connections *)
(* are lost, answers dropped or services missed by a check: a silent       *)
(* service that answers still name is never known for longer than from one *)
(* check that comes by it to the next.                                     *)
THEOREM GhostsAreBrief == Spec => []GhostIsBrief
<1>1. Inv => GhostIsBrief
  <2> SUFFICES ASSUME Inv, Service \in members,
                      now > lastSent + HeartbeatTimeout + Skew + CheckInterval
               PROVE  now <= joined + CheckInterval \/ missed
    BY DEF GhostIsBrief
  <2>1. /\ now \in Int /\ lastSent \in Int /\ joined \in Int /\ checkDue \in Int
        /\ skew \in Int /\ skew <= Skew /\ Skew \in Int
        /\ CheckInterval \in Int /\ HeartbeatTimeout \in Int
    BY PeriodAssumption DEF Inv, TypeOK
  <2>2. /\ now <= checkDue
        /\ joined < checkDue - CheckInterval /\ ~missed
             => checkDue - CheckInterval <= lastSent + skew + HeartbeatTimeout
    BY DEF Inv, Checked
  <2>3. QED BY <2>1, <2>2
<1>2. QED BY <1>1, Always, PTL

(* While a service stays a member, its heartbeat does not move backwards:  *)
(* whatever the controller repeats and whatever is lost, stamps arrive in  *)
(* the order in which they were read from the service's clock.             *)
THEOREM HeartbeatIsMonotone == Spec => HeartbeatMonotone
<1>1. Inv /\ [Next]_vars =>
        [(members # {} /\ members' # {}) => heard'[Service] >= heard[Service]]_vars
  <2> SUFFICES ASSUME Inv, [Next]_vars, members # {}, members' # {}
               PROVE  heard'[Service] >= heard[Service]
    OBVIOUS
  <2>1. Service \in members /\ heard[Service] \in Int
    BY DEF Inv, TypeOK
  <2>2. CASE ProcessAnswer
    <3>1. /\ Head(answers).stamp \in Stamps(answers)
          /\ Head(answers).stamp \in Int
      BY <2>2, QueueTail, QueueStamps DEF ProcessAnswer, Inv, TypeOK, Ordered
    <3>2. heard[Service] <= Head(answers).stamp
      BY <2>1, <3>1 DEF Inv, Ordered, UpTo, Heard
    <3>3. heard'[Service] = Head(answers).stamp
      BY <2>2 DEF ProcessAnswer, StampOf, Listener!Join, Listener!HearOf, Inv, TypeOK
    <3>4. QED BY <2>1, <3>1, <3>2, <3>3
  <2>3. CASE Erase
    <3>1. members' = {}
      BY <2>3 DEF Erase, Listener!Leave, Inv, TypeOK
    <3>2. QED BY <3>1
  <2>4. CASE FindLate
    BY <2>1, <2>4 DEF FindLate, Listener!FindLate
  <2>5. CASE UNCHANGED heard
    BY <2>1, <2>5
  <2>6. CASE Tick \/ Beat \/ Simulate \/ Link \/ LoseLink \/ Consume \/ LoseQueue
    BY <2>5, <2>6 DEF Tick, Beat, Simulate, Link, LoseLink, Consume, LoseQueue,
       listenerVars, mapVars
  <2>7. CASE \/ ReadPresence \/ Answer \/ Forget \/ DropAnswer
             \/ PassCheck \/ MissLate \/ UNCHANGED vars
    BY <2>5, <2>7 DEF ReadPresence, Answer, Forget, DropAnswer, PassCheck,
       MissLate, vars, listenerVars, mapVars
  <2>8. QED BY <2>2, <2>3, <2>4, <2>6, <2>7 DEF Next
<1>2. QED BY <1>1, Always, PTL DEF Spec, HeartbeatMonotone

-----------------------------------------------------------------------------
(* A steady service stays known.  Time is cut into windows: in each one    *)
(* that is over, the heartbeat thread has sent a presence, the controller  *)
(* an answer that is no older than the presence allows, and both have      *)
(* either arrived or are on their way, where nothing stays for longer than *)
(* its delay.                                                              *)

Lenient == HeartbeatTimeout >= Age + Skew

UnderWay(q, delay, at) ==
  /\ \A j \in DOMAIN q : q[j].sent <= at /\ at <= q[j].sent + delay
  /\ \A j, k \in DOMAIN q : j <= k => q[j].sent <= q[k].sent

Punctual ==
  /\ UnderWay(presences, PresenceDelay, now)
  /\ UnderWay(answers, AnswerDelay, now)
  /\ now <= beatDue /\ beatDue <= now + HeartbeatInterval
  /\ now <= answerDue /\ answerDue <= now + AnswerPeriod
  /\ steadySince <= now

(* The queue holds a message sent by u with a stamp later than t.          *)
Carries(q, u, t) == \E j \in DOMAIN q : q[j].sent <= u /\ q[j].stamp > t

(* From a beat to the controller, and from a beat to an answer.            *)
ToController == HeartbeatInterval + PresenceDelay
ToAnswer == ToController + AnswerPeriod

Told ==
  \A u \in Int : steadySince + HeartbeatInterval <= u /\ u < beatDue =>
    \/ \E x \in listed : x > u - HeartbeatInterval + skew
    \/ Carries(presences, u, u - HeartbeatInterval + skew)

Fresh ==
  \A u \in Int : steadySince + ToAnswer <= u /\ u < answerDue =>
    \/ \A x \in Heard \cup Stamps(answers) : x > u - ToAnswer + skew
    \/ Carries(answers, u, u - ToAnswer + skew)

Known ==
  \A u \in Int : steadySince + Age + AnswerPeriod <= u /\ u < answerDue =>
    Service \in members \/ \E j \in DOMAIN answers : answers[j].sent <= u

Trusted == now > steadySince + Age => suspects = {}

LookedAfter == Lenient /\ Steady => Told /\ Fresh /\ Known /\ Trusted

-----------------------------------------------------------------------------
LEMMA Lengths ==
  /\ HeartbeatInterval \in Nat \ {0} /\ AnswerPeriod \in Nat \ {0}
  /\ PresenceDelay \in Nat /\ AnswerDelay \in Nat /\ Skew \in Nat
  /\ HeartbeatTimeout \in Nat
  /\ ToController \in Nat /\ ToController = HeartbeatInterval + PresenceDelay
  /\ ToAnswer \in Nat /\ ToAnswer = ToController + AnswerPeriod
  /\ Age \in Nat /\ Age = ToAnswer + AnswerDelay
  BY PeriodAssumption DEF ToController, ToAnswer, Age

LEMMA MessageFields ==
  ASSUME NEW q \in Seq(Message)
  PROVE  \A j \in DOMAIN q : q[j].stamp \in Int /\ q[j].sent \in Nat
<1>1. \A j \in DOMAIN q : q[j] \in Message
  OBVIOUS
<1>2. QED BY <1>1 DEF Message

LEMMA Appended ==
  ASSUME NEW q \in Seq(Message), NEW m \in Message
  PROVE  LET r == Append(q, m)
         IN  /\ r \in Seq(Message) /\ Len(q) \in Nat
             /\ DOMAIN q = 1 .. Len(q) /\ DOMAIN r = 1 .. Len(q) + 1
             /\ r[Len(q) + 1] = m /\ \A j \in 1 .. Len(q) : r[j] = q[j]
  OBVIOUS

LEMMA Shortened ==
  ASSUME NEW q \in Seq(Message), q # <<>>
  PROVE  /\ Tail(q) \in Seq(Message) /\ Len(q) \in Nat \ {0}
         /\ DOMAIN q = 1 .. Len(q) /\ DOMAIN Tail(q) = 1 .. Len(q) - 1
         /\ \A j \in 1 .. Len(q) - 1 : Tail(q)[j] = q[j + 1]
         /\ Head(q) = q[1]
  OBVIOUS

(* What a queue's delay says survives the four things that happen to it.   *)
LEMMA UnderWayKept ==
  ASSUME NEW q \in Seq(Message), NEW delay \in Nat, NEW at \in Nat,
         UnderWay(q, delay, at)
  PROVE  /\ \A m \in Message : m.sent = at => UnderWay(Append(q, m), delay, at)
         /\ q # <<>> => UnderWay(Tail(q), delay, at)
         /\ \A n \in 0 .. Len(q) : UnderWay(SubSeq(q, 1, n), delay, at)
         /\ InTime(q, delay) /\ at = now => UnderWay(q, delay, at + 1)
<1>1. ASSUME NEW m \in Message, m.sent = at
      PROVE  UnderWay(Append(q, m), delay, at)
  <2> DEFINE r == Append(q, m)
  <2>1. /\ Len(q) \in Nat /\ DOMAIN q = 1 .. Len(q)
        /\ DOMAIN r = 1 .. Len(q) + 1
        /\ r[Len(q) + 1] = m /\ \A j \in 1 .. Len(q) : r[j] = q[j]
    BY Appended
  <2> HIDE DEF r
  <2>2. ASSUME NEW j \in DOMAIN r
        PROVE  (j \in DOMAIN q /\ r[j] = q[j]) \/ r[j] = m
    <3>1. j \in DOMAIN q \/ j = Len(q) + 1
      BY <2>1
    <3>2. QED BY <2>1, <3>1
  <2>3. \A j \in DOMAIN r : r[j].sent <= at /\ at <= r[j].sent + delay
    BY <1>1, <2>2 DEF UnderWay
  <2>4. ASSUME NEW j \in DOMAIN r, NEW k \in DOMAIN r, j <= k
        PROVE  r[j].sent <= r[k].sent
    <3>1. CASE k \in DOMAIN q
      <4>1. j \in DOMAIN q
        BY <2>1, <2>4, <3>1
      <4>2. QED BY <2>1, <2>4, <3>1, <4>1 DEF UnderWay
    <3>2. CASE k \notin DOMAIN q
      <4>1. r[k] = m
        BY <2>2, <3>2
      <4>2. QED BY <1>1, <2>3, <4>1
    <3>3. QED BY <3>1, <3>2
  <2>5. UnderWay(r, delay, at)
    BY <2>3, <2>4 DEF UnderWay
  <2>6. QED BY <2>5 DEF r
<1>2. ASSUME q # <<>> PROVE UnderWay(Tail(q), delay, at)
  BY <1>2, Shortened DEF UnderWay
<1>3. ASSUME NEW n \in 0 .. Len(q) PROVE UnderWay(SubSeq(q, 1, n), delay, at)
  <2> DEFINE r == SubSeq(q, 1, n)
  <2>1. DOMAIN r \subseteq DOMAIN q /\ \A j \in DOMAIN r : r[j] = q[j]
    OBVIOUS
  <2> HIDE DEF r
  <2>2. UnderWay(r, delay, at)
    BY <2>1 DEF UnderWay
  <2>3. QED BY <2>2 DEF r
<1>4. ASSUME InTime(q, delay), at = now PROVE UnderWay(q, delay, at + 1)
  <2>1. CASE q = <<>>
    BY <2>1 DEF UnderWay
  <2>2. CASE q # <<>>
    <3>1. at < q[1].sent + delay
      BY <1>4, <2>2, Shortened DEF InTime
    <3>2. DOMAIN q = 1 .. Len(q) /\ Len(q) \in Nat \ {0}
      BY <2>2, Shortened
    <3>3. \A j \in DOMAIN q : q[1].sent <= q[j].sent
      BY <3>2 DEF UnderWay
    <3>4. \A j \in DOMAIN q : q[j].sent \in Nat
      BY MessageFields
    <3>5. 1 \in DOMAIN q
      BY <3>2
    <3>6. ASSUME NEW j \in DOMAIN q
          PROVE  q[j].sent <= at + 1 /\ at + 1 <= q[j].sent + delay
      <4>1. q[j].sent \in Int /\ q[1].sent \in Int
        BY <3>4, <3>5
      <4>2. q[1].sent <= q[j].sent /\ q[j].sent <= at
        BY <3>3 DEF UnderWay
      <4>3. QED BY <3>1, <4>1, <4>2
    <3>7. QED BY <3>6 DEF UnderWay
  <2>3. QED BY <2>1, <2>2
<1>5. QED BY <1>1, <1>2, <1>3, <1>4

LEMMA CarriesKept ==
  ASSUME NEW q \in Seq(Message), NEW u \in Int, NEW t \in Int
  PROVE  /\ \A m \in Message :
              Carries(q, u, t) \/ (m.sent <= u /\ m.stamp > t)
                => Carries(Append(q, m), u, t)
         /\ q # <<>> /\ Carries(q, u, t)
              => Carries(Tail(q), u, t) \/ (Head(q).sent <= u /\ Head(q).stamp > t)
<1>1. ASSUME NEW m \in Message, Carries(q, u, t) \/ (m.sent <= u /\ m.stamp > t)
      PROVE  Carries(Append(q, m), u, t)
  BY <1>1, Appended DEF Carries
<1>2. ASSUME q # <<>>, Carries(q, u, t)
      PROVE  Carries(Tail(q), u, t) \/ (Head(q).sent <= u /\ Head(q).stamp > t)
  <2>1. PICK j \in DOMAIN q : q[j].sent <= u /\ q[j].stamp > t
    BY <1>2 DEF Carries
  <2>2. CASE j = 1
    BY <1>2, <2>1, <2>2, Shortened
  <2>3. CASE j # 1
    <3>1. j - 1 \in DOMAIN Tail(q) /\ Tail(q)[j - 1] = q[j]
      BY <1>2, <2>3, Shortened
    <3>2. QED BY <2>1, <3>1 DEF Carries
  <2>4. QED BY <2>2, <2>3
<1>3. QED BY <1>1, <1>2

(* What was sent more than a delay ago has arrived.                        *)
LEMMA Arrived ==
  ASSUME NEW q \in Seq(Message), NEW delay \in Nat, NEW at \in Nat,
         UnderWay(q, delay, at), NEW u \in Int, u + delay < at
  PROVE  \A j \in DOMAIN q : ~(q[j].sent <= u)
  BY MessageFields DEF UnderWay

-----------------------------------------------------------------------------
LEMMA PunctualInit == Init => Punctual
  BY PeriodAssumption DEF Init, Punctual, UnderWay

(* Steps that take no time and wake nobody.                                *)
LEMMA PunctualLater ==
  ASSUME Inv, Punctual, UNCHANGED <<now, beatDue, answerDue>>,
         steadySince' \in {0, steadySince, now},
         UnderWay(presences', PresenceDelay, now),
         UnderWay(answers', AnswerDelay, now)
  PROVE  Punctual'
<1>1. now \in Nat /\ steadySince \in Nat /\ steadySince' <= now
  BY DEF Inv, TypeOK, Punctual
<1>2. QED BY <1>1 DEF Punctual

LEMMA PunctualStep == Inv /\ Punctual /\ Next => Punctual'
<1> SUFFICES ASSUME Inv, Punctual, Next PROVE Punctual'
  OBVIOUS
<1>1. /\ presences \in Seq(Message) /\ answers \in Seq(Message)
      /\ now \in Nat /\ steadySince \in Nat /\ beatDue \in Nat /\ answerDue \in Nat
      /\ skew \in Int
      /\ UnderWay(presences, PresenceDelay, now) /\ UnderWay(answers, AnswerDelay, now)
      /\ steadySince <= now
  BY PeriodAssumption DEF Inv, TypeOK, Punctual
<1> USE Lengths
<1>2. CASE Tick
  <2>1. /\ now' = now + 1 /\ now < beatDue /\ now < answerDue
        /\ InTime(presences, PresenceDelay) /\ InTime(answers, AnswerDelay)
        /\ UNCHANGED <<beatDue, answerDue, steadySince, presences, answers>>
    BY <1>2 DEF Tick, beatVars, controllerVars, linkVars
  <2>2. /\ UnderWay(presences, PresenceDelay, now + 1)
        /\ UnderWay(answers, AnswerDelay, now + 1)
    BY <1>1, <2>1, UnderWayKept
  <2>3. UnderWay(presences, PresenceDelay, now)' /\ UnderWay(answers, AnswerDelay, now)'
    BY <2>1, <2>2
  <2>4. QED BY <1>1, <2>1, <2>3 DEF Punctual
<1>3. CASE Beat
  <2>1. /\ now = beatDue /\ beatDue' = now + HeartbeatInterval
        /\ UNCHANGED <<now, answerDue, steadySince, answers>>
    BY <1>3 DEF Beat, NextBeat, linkVars, controllerVars
  <2>2. UnderWay(presences', PresenceDelay, now)
    <3>1. CASE UNCHANGED presences
      BY <1>1, <3>1
    <3>2. CASE presences' = Append(presences, Presence)
      <4>1. Presence \in Message /\ Presence.sent = now
        BY <1>1 DEF Presence, Message
      <4>2. QED BY <1>1, <3>2, <4>1, UnderWayKept
    <3>3. QED BY <1>3, <3>1, <3>2 DEF Beat
  <2>3. QED BY <1>1, <2>1, <2>2 DEF Punctual
<1>4. CASE Simulate \/ Link \/ Consume \/ LoseLink \/ LoseQueue
  <2>1. /\ UNCHANGED <<now, beatDue, answerDue>>
        /\ steadySince' \in {0, steadySince, now}
    BY <1>4 DEF Simulate, Link, Consume, LoseLink, LoseQueue, BecomesSteady,
       beatVars, controllerVars
  <2>2. UnderWay(presences', PresenceDelay, now)
    <3>1. CASE UNCHANGED presences
      BY <1>1, <3>1
    <3>2. CASE \E n \in 0 .. Len(presences) : presences' = SubSeq(presences, 1, n)
      BY <1>1, <3>2, UnderWayKept
    <3>3. QED BY <1>4, <3>1, <3>2 DEF Simulate, Link, Consume, LoseLink, LoseQueue
  <2>3. UnderWay(answers', AnswerDelay, now)
    <3>1. CASE UNCHANGED answers
      BY <1>1, <3>1
    <3>2. CASE answers' = <<>>
      BY <3>2 DEF UnderWay
    <3>3. QED BY <1>4, <3>1, <3>2 DEF Simulate, Link, Consume, LoseLink, LoseQueue
  <2>4. QED BY <2>1, <2>2, <2>3, PunctualLater
<1>5. CASE ReadPresence
  <2>1. /\ presences # <<>> /\ presences' = Tail(presences)
        /\ UNCHANGED <<now, beatDue, answerDue, steadySince, answers>>
    BY <1>5 DEF ReadPresence, beatVars, linkVars
  <2>2. UnderWay(presences', PresenceDelay, now)
    BY <1>1, <2>1, UnderWayKept
  <2>3. QED BY <1>1, <2>1, <2>2, PunctualLater
<1>6. CASE Answer
  <2>1. /\ now = answerDue /\ answerDue' \in now + 1 .. now + AnswerPeriod
        /\ UNCHANGED <<now, beatDue, steadySince, presences>>
    BY <1>6 DEF Answer, linkVars, beatVars
  <2>2. UnderWay(answers', AnswerDelay, now)
    <3>1. CASE UNCHANGED answers
      BY <1>1, <3>1
    <3>2. CASE listed # {} /\ ~UNCHANGED answers
      <4>1. PICK t \in listed :
              answers' = Append(answers, [stamp |-> t, sent |-> now])
        BY <1>6, <3>2 DEF Answer
      <4>2. [stamp |-> t, sent |-> now] \in Message
        BY <1>1 DEF Inv, TypeOK, Message
      <4>3. QED BY <1>1, <4>1, <4>2, UnderWayKept
    <3>3. QED BY <1>6, <3>1, <3>2 DEF Answer
  <2>3. answerDue' <= now + AnswerPeriod /\ now <= answerDue'
    BY <1>1, <2>1
  <2>4. QED BY <1>1, <2>1, <2>2, <2>3 DEF Punctual
<1>7. CASE ProcessAnswer
  <2>1. /\ answers # <<>> /\ answers' = Tail(answers)
        /\ UNCHANGED <<now, beatDue, answerDue, steadySince, presences>>
    BY <1>7 DEF ProcessAnswer, Listener!Join, Listener!HearOf, beatVars,
       linkVars, controllerVars
  <2>2. UnderWay(answers', AnswerDelay, now)
    BY <1>1, <2>1, UnderWayKept
  <2>3. QED BY <1>1, <2>1, <2>2, PunctualLater
<1>8. CASE DropAnswer
  <2>1. /\ answers # <<>> /\ answers' = Tail(answers)
        /\ UNCHANGED <<now, beatDue, answerDue, presences>>
        /\ steadySince' \in {0, steadySince, now}
    BY <1>8 DEF DropAnswer, beatVars, controllerVars
  <2>2. UnderWay(answers', AnswerDelay, now)
    BY <1>1, <2>1, UnderWayKept
  <2>3. QED BY <1>1, <2>1, <2>2, PunctualLater
<1>9. CASE Forget \/ PassCheck \/ MissLate \/ FindLate \/ Erase
  <2>1. UNCHANGED <<now, beatDue, answerDue, steadySince, presences, answers>>
    BY <1>9 DEF Forget, PassCheck, MissLate, FindLate, Erase, Listener!FindLate,
       Listener!Leave, beatVars, linkVars, controllerVars
  <2>2. QED BY <1>1, <2>1, PunctualLater
<1>10. QED BY <1>2, <1>3, <1>4, <1>5, <1>6, <1>7, <1>8, <1>9 DEF Next

-----------------------------------------------------------------------------
(* What the controller lists a steady service with.                        *)
LEMMA ListedIsFresh ==
  ASSUME Inv, Punctual, Told, now > steadySince + ToController
  PROVE  \E x \in listed : x \in Int /\ x >= now - ToController + skew
<1>1. /\ now \in Nat /\ steadySince \in Nat /\ beatDue \in Nat /\ skew \in Int
      /\ presences \in Seq(Message) /\ listed \subseteq Int
      /\ UnderWay(presences, PresenceDelay, now) /\ now <= beatDue
  BY PeriodAssumption DEF Inv, TypeOK, Punctual
<1> DEFINE u == now - PresenceDelay - 1
<1>2. /\ u \in Int /\ u + PresenceDelay < now
      /\ steadySince + HeartbeatInterval <= u /\ u < beatDue
  BY <1>1, Lengths
<1>3. \A j \in DOMAIN presences : ~(presences[j].sent <= u)
  BY <1>1, <1>2, Arrived, Lengths
<1>4. PICK x \in listed : x > u - HeartbeatInterval + skew
  BY <1>2, <1>3 DEF Told, Carries
<1>5. x \in Int /\ x >= now - ToController + skew
  BY <1>1, <1>4, Lengths
<1>6. QED BY <1>5

(* Nothing is forgotten of what a steady service was listed with.          *)
LEMMA ToldForget ==
  ASSUME Inv, Punctual, Lenient, Told, Forget
  PROVE  \A x \in listed : ~(x > steadySince + skew)
<1> SUFFICES ASSUME NEW x \in listed, x > steadySince + skew PROVE FALSE
  OBVIOUS
<1>1. /\ now \in Int /\ steadySince \in Int /\ skew \in Int /\ x \in Int
      /\ -Skew <= skew /\ \A y \in listed : y = x
  BY PeriodAssumption DEF Inv, TypeOK
<1>2. now > x + HeartbeatTimeout + 2 * Skew
  BY <1>1 DEF Forget
<1>3. HeartbeatTimeout >= Age + Skew
  BY DEF Lenient
<1>4. CASE now > steadySince + ToController
  <2>1. x >= now - ToController + skew
    BY <1>1, <1>4, ListedIsFresh
  <2>2. QED BY <1>1, <1>2, <1>3, <2>1, Lengths
<1>5. CASE ~(now > steadySince + ToController)
  BY <1>1, <1>2, <1>3, <1>5, Lengths
<1>6. QED BY <1>4, <1>5

(* The record of a steady service.                                         *)
LEMMA HeardIsFresh ==
  ASSUME Inv, Punctual, Fresh, now > steadySince + Age, Service \in members
  PROVE  heard[Service] >= now - Age + skew
<1>1. /\ now \in Nat /\ steadySince \in Nat /\ answerDue \in Nat /\ skew \in Int
      /\ answers \in Seq(Message) /\ heard[Service] \in Int
      /\ UnderWay(answers, AnswerDelay, now) /\ now <= answerDue
  BY PeriodAssumption DEF Inv, TypeOK, Punctual
<1> DEFINE u == now - AnswerDelay - 1
<1>2. /\ u \in Int /\ u + AnswerDelay < now
      /\ steadySince + ToAnswer <= u /\ u < answerDue
  BY <1>1, Lengths
<1>3. \A j \in DOMAIN answers : ~(answers[j].sent <= u)
  BY <1>1, <1>2, Arrived, Lengths
<1>4. heard[Service] \in Heard
  BY DEF Heard
<1>5. heard[Service] > u - ToAnswer + skew
  BY <1>2, <1>3, <1>4 DEF Fresh, Carries
<1>6. QED BY <1>1, <1>5, Lengths

(* A steady service is not found late.                                     *)
LEMMA SteadyIsNotLate ==
  ASSUME Inv, Punctual, Lenient, Fresh, FindLate
  PROVE  ~(now > steadySince + Age)
<1> SUFFICES ASSUME now > steadySince + Age PROVE FALSE
  OBVIOUS
<1>1. /\ Service \in members /\ allowed[Service] = HeartbeatTimeout
      /\ Listener!Late(now, heard[Service], allowed[Service])
  BY DEF FindLate, Listener!FindLate, Inv, Checked
<1>2. /\ now \in Int /\ heard[Service] \in Int /\ skew \in Int /\ -Skew <= skew
  BY PeriodAssumption DEF Inv, TypeOK
<1>3. now - heard[Service] > HeartbeatTimeout
  BY <1>1, <1>2, ExpiredIsLate, Lengths
<1>4. heard[Service] >= now - Age + skew /\ HeartbeatTimeout >= Age + Skew
  BY <1>1, HeardIsFresh DEF Lenient
<1>5. QED BY <1>2, <1>3, <1>4, Lengths

-----------------------------------------------------------------------------
(* Nothing is promised for windows that have not begun.                    *)
LEMMA WaitBegins ==
  ASSUME Inv, Punctual, steadySince' = now,
         UNCHANGED <<now, beatDue, answerDue>>
  PROVE  (Told /\ Fresh /\ Known /\ Trusted)'
<1>1. /\ now \in Nat /\ beatDue \in Nat /\ answerDue \in Nat
      /\ beatDue <= now + HeartbeatInterval /\ answerDue <= now + AnswerPeriod
  BY DEF Inv, TypeOK, Punctual
<1>2. \A u \in Int : ~(now + HeartbeatInterval <= u /\ u < beatDue)
  BY <1>1, Lengths
<1>3. \A u \in Int : ~(now + ToAnswer <= u /\ u < answerDue)
  BY <1>1, Lengths
<1>4. \A u \in Int : ~(now + Age + AnswerPeriod <= u /\ u < answerDue)
  BY <1>1, Lengths
<1>5. Told' /\ Fresh' /\ Known'
  BY <1>2, <1>3, <1>4 DEF Told, Fresh, Known
<1>6. Trusted'
  BY <1>1, Lengths DEF Trusted
<1>7. QED BY <1>5, <1>6

(* The wait begins when the service becomes steady, and anew when an       *)
(* answer is dropped.                                                      *)
LEMMA TurnsSteady ==
  ASSUME Inv, Punctual, LookedAfter, BecomesSteady,
         UNCHANGED <<now, skew, heard, members, suspects, listed>>,
         UNCHANGED <<beatDue, answerDue>>,
         Steady' => UNCHANGED <<presences, answers>>
  PROVE  LookedAfter'
<1> SUFFICES ASSUME Lenient, Steady' PROVE (Told /\ Fresh /\ Known /\ Trusted)'
  BY DEF LookedAfter, Lenient, Age
<1>1. CASE Steady
  <2>1. steadySince' = steadySince /\ Told /\ Fresh /\ Known /\ Trusted
    BY <1>1 DEF BecomesSteady, LookedAfter
  <2>2. Told'
    BY <2>1 DEF Told, Carries
  <2>3. Fresh'
    BY <2>1 DEF Fresh, Carries, Heard, Stamps
  <2>4. Known'
    BY <2>1 DEF Known
  <2>5. Trusted'
    BY <2>1 DEF Trusted
  <2>6. QED BY <2>2, <2>3, <2>4, <2>5
<1>2. CASE ~Steady
  <2>1. steadySince' = now
    BY <1>2 DEF BecomesSteady
  <2>2. QED BY <2>1, WaitBegins
<1>3. QED BY <1>1, <1>2

LEMMA LookedAfterDrop == Inv /\ Punctual /\ DropAnswer => LookedAfter'
<1> SUFFICES ASSUME Inv, Punctual, DropAnswer, Steady'
             PROVE  (Told /\ Fresh /\ Known /\ Trusted)'
  BY DEF LookedAfter
<1>1. Steady /\ UNCHANGED <<now, beatDue, answerDue>>
  BY DEF DropAnswer, Steady, serviceVars, beatVars, controllerVars
<1>2. steadySince' = now
  BY <1>1 DEF DropAnswer
<1>3. QED BY <1>1, <1>2, WaitBegins

LEMMA LookedAfterInit == Init => LookedAfter
  BY DEF Init, LookedAfter, Steady

LEMMA LookedAfterLinks ==
  ASSUME Inv, Punctual, LookedAfter,
         Simulate \/ Link \/ Consume \/ LoseLink \/ LoseQueue
  PROVE  LookedAfter'
<1>1. /\ BecomesSteady
      /\ UNCHANGED <<now, skew, heard, members, suspects, listed>>
      /\ UNCHANGED <<beatDue, answerDue>>
  BY DEF Simulate, Link, Consume, LoseLink, LoseQueue, listenerVars, mapVars,
     beatVars, controllerVars
<1>2. Steady' => UNCHANGED <<presences, answers>>
  BY DEF Simulate, Link, Consume, LoseLink, LoseQueue, Steady
<1>3. QED BY <1>1, <1>2, TurnsSteady

-----------------------------------------------------------------------------
(* The steps that leave a steady service steady.                           *)
Attended == Lenient /\ Steady /\ Told /\ Fresh /\ Known /\ Trusted

LEMMA StaysSteady ==
  ASSUME LookedAfter, UNCHANGED <<enabled, linked, consuming>>,
         Attended => (Told /\ Fresh /\ Known /\ Trusted)'
  PROVE  LookedAfter'
  BY DEF LookedAfter, Attended, Steady, Lenient, Age

(* The clock is in no window that is over: every thread wakes in time.     *)
LEMMA AttendedTick ==
  ASSUME Attended, Tick PROVE (Told /\ Fresh /\ Known /\ Trusted)'
<1>1. /\ UNCHANGED <<heard, members, listed, presences, answers, skew>>
      /\ UNCHANGED <<beatDue, answerDue, steadySince>>
      /\ suspects' = {}
  BY DEF Tick, listenerVars, mapVars, beatVars, controllerVars, linkVars
<1>2. Told'
  BY <1>1 DEF Attended, Told, Carries
<1>3. Fresh'
  BY <1>1 DEF Attended, Fresh, Carries, Heard, Stamps
<1>4. Known' /\ Trusted'
  BY <1>1 DEF Attended, Known, Trusted
<1>5. QED BY <1>2, <1>3, <1>4

(* Steps of the service and the controller that add no answer.             *)
LEMMA ListenerWaits ==
  ASSUME Attended,
         UNCHANGED <<now, heard, members, suspects, answers, skew>>,
         UNCHANGED <<answerDue, steadySince>>
  PROVE  (Fresh /\ Known /\ Trusted)'
<1>1. Fresh'
  BY DEF Attended, Fresh, Carries, Heard, Stamps
<1>2. Known' /\ Trusted'
  BY DEF Attended, Known, Trusted
<1>3. QED BY <1>1, <1>2

LEMMA AttendedBeat ==
  ASSUME Inv, Attended, Beat PROVE (Told /\ Fresh /\ Known /\ Trusted)'
<1>1. /\ UNCHANGED <<now, heard, members, suspects, answers, skew>>
      /\ UNCHANGED <<answerDue, steadySince, listed>>
      /\ now = beatDue /\ beatDue' = now + HeartbeatInterval
      /\ presences' = Append(presences, Presence)
  BY DEF Beat, NextBeat, Attended, Steady, listenerVars, mapVars, linkVars,
     controllerVars
<1>2. /\ now \in Nat /\ skew \in Int /\ presences \in Seq(Message)
      /\ HeartbeatInterval \in Nat
  BY PeriodAssumption DEF Inv, TypeOK
<1>3. Presence \in Message /\ Presence.sent = now /\ Presence.stamp = now + skew
  BY <1>2 DEF Presence, Message
<1>4. ASSUME NEW u \in Int, steadySince + HeartbeatInterval <= u,
             u < now + HeartbeatInterval
      PROVE  \/ \E x \in listed : x > u - HeartbeatInterval + skew
             \/ Carries(presences', u, u - HeartbeatInterval + skew)
  <2> DEFINE t == u - HeartbeatInterval + skew
  <2>1. t \in Int
    BY <1>2
  <2>2. CASE u < now
    <3>1. \/ \E x \in listed : x > t
          \/ Carries(presences, u, t)
      BY <1>1, <1>4, <2>2 DEF Attended, Told
    <3>2. QED BY <1>1, <1>2, <1>3, <2>1, <3>1, CarriesKept
  <2>3. CASE ~(u < now)
    <3>1. Presence.sent <= u /\ Presence.stamp > t
      BY <1>2, <1>3, <1>4, <2>3
    <3>2. QED BY <1>1, <1>2, <1>3, <2>1, <3>1, CarriesKept
  <2>4. QED BY <2>2, <2>3
<1>5. Told'
  BY <1>1, <1>4 DEF Told
<1>6. QED BY <1>1, <1>5, ListenerWaits

(* What the controller lists now is no older than what it listed before.   *)
LEMMA AttendedReadPresence ==
  ASSUME Inv, Attended, ReadPresence
  PROVE  (Told /\ Fresh /\ Known /\ Trusted)'
<1> DEFINE h == Head(presences)
<1>1. /\ UNCHANGED <<now, heard, members, suspects, answers, skew>>
      /\ UNCHANGED <<answerDue, steadySince, beatDue>>
      /\ presences # <<>> /\ presences' = Tail(presences) /\ listed' = {h.stamp}
  BY DEF ReadPresence, listenerVars, mapVars, linkVars, beatVars
<1>2. /\ skew \in Int /\ presences \in Seq(Message) /\ HeartbeatInterval \in Nat
      /\ listed \subseteq Int
  BY PeriodAssumption DEF Inv, TypeOK
<1>3. h.stamp \in Int /\ \A x \in listed : x <= h.stamp
  BY <1>1, <1>2, QueueTail, QueueStamps DEF Inv, Ordered, UpTo
<1>4. ASSUME NEW u \in Int, steadySince + HeartbeatInterval <= u, u < beatDue
      PROVE  \/ h.stamp > u - HeartbeatInterval + skew
             \/ Carries(presences', u, u - HeartbeatInterval + skew)
  <2> DEFINE t == u - HeartbeatInterval + skew
  <2>1. t \in Int
    BY <1>2
  <2>2. \/ \E x \in listed : x > t
        \/ Carries(presences, u, t)
    BY <1>4 DEF Attended, Told
  <2>3. CASE \E x \in listed : x > t
    BY <1>2, <1>3, <2>1, <2>3
  <2>4. CASE Carries(presences, u, t)
    BY <1>1, <1>2, <2>1, <2>4, CarriesKept
  <2>5. QED BY <2>2, <2>3, <2>4
<1>5. Told'
  BY <1>1, <1>4 DEF Told
<1>6. QED BY <1>1, <1>5, ListenerWaits

LEMMA AttendedForget ==
  ASSUME Inv, Punctual, Attended, Forget
  PROVE  (Told /\ Fresh /\ Known /\ Trusted)'
<1>1. /\ UNCHANGED <<now, heard, members, suspects, answers, skew>>
      /\ UNCHANGED <<answerDue, steadySince, beatDue, presences>>
  BY DEF Forget, listenerVars, mapVars, linkVars, beatVars
<1>2. \A x \in listed : ~(x > steadySince + skew)
  BY ToldForget DEF Attended
<1>3. /\ skew \in Int /\ steadySince \in Int /\ HeartbeatInterval \in Nat
      /\ listed \subseteq Int
  BY PeriodAssumption DEF Inv, TypeOK
<1>4. ASSUME NEW u \in Int, steadySince + HeartbeatInterval <= u, u < beatDue
      PROVE  Carries(presences, u, u - HeartbeatInterval + skew)
  <2>1. \A x \in listed : ~(x > u - HeartbeatInterval + skew)
    BY <1>2, <1>3, <1>4
  <2>2. QED BY <1>4, <2>1 DEF Attended, Told
<1>5. Told'
  BY <1>1, <1>4 DEF Told, Carries
<1>6. QED BY <1>1, <1>5, ListenerWaits

(* By the time an answer counts, the controller lists what a beat and its  *)
(* way allow, so the answer carries that.                                  *)
LEMMA AttendedAnswer ==
  ASSUME Inv, Punctual, Attended, Answer
  PROVE  (Told /\ Fresh /\ Known /\ Trusted)'
<1>1. /\ UNCHANGED <<now, heard, members, suspects, listed, skew>>
      /\ UNCHANGED <<steadySince, beatDue, presences>>
      /\ now = answerDue /\ answerDue' \in now + 1 .. now + AnswerPeriod
      /\ consuming
  BY DEF Answer, Attended, Steady, listenerVars, mapVars, linkVars, beatVars
<1>2. /\ now \in Nat /\ skew \in Int /\ steadySince \in Nat
      /\ answers \in Seq(Message) /\ listed \subseteq Int
      /\ \A x, y \in listed : x = y
  BY PeriodAssumption DEF Inv, TypeOK
<1>3. Told' /\ Trusted'
  BY <1>1 DEF Attended, Told, Trusted, Carries
<1>4. CASE ~(now > steadySince + ToController)
  <2>1. \A u \in Int : ~(steadySince + ToAnswer <= u /\ u < answerDue')
    BY <1>1, <1>2, <1>4, Lengths
  <2>2. \A u \in Int : ~(steadySince + Age + AnswerPeriod <= u /\ u < answerDue')
    BY <1>1, <1>2, <1>4, Lengths
  <2>3. Fresh' /\ Known'
    BY <1>1, <2>1, <2>2 DEF Fresh, Known
  <2>4. QED BY <1>3, <2>3
<1>5. CASE now > steadySince + ToController
  <2>1. PICK x \in listed : x \in Int /\ x >= now - ToController + skew
    BY <1>5, ListedIsFresh DEF Attended
  <2> DEFINE m == [stamp |-> x, sent |-> now]
  <2>2. m \in Message /\ m.sent = now /\ m.stamp = x
    BY <1>2, <2>1 DEF Message
  <2>3. answers' = Append(answers, m)
    <3>1. (CHOOSE t \in listed : TRUE) = x
      BY <1>2, <2>1
    <3>2. QED BY <1>1, <2>1, <3>1 DEF Answer
  <2>4. /\ UpTo(Stamps(answers), {m.stamp}) /\ InOrder(answers)
    BY <2>1, <2>2 DEF Inv, Ordered, UpTo
  <2>5. Stamps(answers') = Stamps(answers) \cup {x}
    BY <1>2, <2>2, <2>3, <2>4, QueueAppended
  <2>6. Heard' = Heard
    BY <1>1 DEF Heard
  <2> HIDE DEF m
  <2>7. ASSUME NEW u \in Int, steadySince + ToAnswer <= u, u < answerDue'
        PROVE  \/ \A y \in Heard' \cup Stamps(answers') : y > u - ToAnswer + skew
               \/ Carries(answers', u, u - ToAnswer + skew)
    <3> DEFINE t == u - ToAnswer + skew
    <3>1. t \in Int /\ x > t
      BY <1>1, <1>2, <2>1, <2>7, Lengths
    <3>2. CASE u < now
      <4>1. \/ \A y \in Heard \cup Stamps(answers) : y > t
            \/ Carries(answers, u, t)
        BY <1>1, <2>7, <3>2 DEF Attended, Fresh
      <4>2. CASE \A y \in Heard \cup Stamps(answers) : y > t
        BY <2>5, <2>6, <3>1, <4>2
      <4>3. CASE Carries(answers, u, t)
        BY <1>2, <2>2, <2>3, <3>1, <4>3, CarriesKept
      <4>4. QED BY <4>1, <4>2, <4>3
    <3>3. CASE ~(u < now)
      <4>1. m.sent <= u /\ m.stamp > t
        BY <1>2, <2>2, <3>1, <3>3
      <4>2. QED BY <1>2, <2>2, <2>3, <3>1, <4>1, CarriesKept
    <3>4. QED BY <3>2, <3>3
  <2>8. Fresh'
    BY <1>1, <2>7 DEF Fresh
  <2>9. ASSUME NEW u \in Int, steadySince + Age + AnswerPeriod <= u, u < answerDue'
        PROVE  Service \in members \/ \E j \in DOMAIN answers' : answers'[j].sent <= u
    <3>1. /\ DOMAIN answers = 1 .. Len(answers) /\ Len(answers) \in Nat
          /\ DOMAIN answers' = 1 .. Len(answers) + 1
          /\ answers'[Len(answers) + 1] = m
          /\ \A j \in 1 .. Len(answers) : answers'[j] = answers[j]
      BY <1>2, <2>2, <2>3, Appended
    <3>2. CASE u < now
      <4>1. Service \in members \/ \E j \in DOMAIN answers : answers[j].sent <= u
        BY <1>1, <2>9, <3>2 DEF Attended, Known
      <4>2. QED BY <3>1, <4>1
    <3>3. CASE ~(u < now)
      BY <1>2, <2>2, <3>1, <3>3
    <3>4. QED BY <3>2, <3>3
  <2>10. Known'
    BY <1>1, <2>9 DEF Known
  <2>11. QED BY <1>3, <2>8, <2>10
<1>6. QED BY <1>4, <1>5

(* Answers come in the order of their stamps: what the record takes over   *)
(* is no older than what it had, and no later than what follows.           *)
LEMMA AttendedProcessAnswer ==
  ASSUME Inv, Attended, ProcessAnswer
  PROVE  (Told /\ Fresh /\ Known /\ Trusted)'
<1> DEFINE h == Head(answers)
<1>1. /\ UNCHANGED <<now, suspects, listed, skew>>
      /\ UNCHANGED <<steadySince, beatDue, answerDue, presences>>
      /\ answers # <<>> /\ answers' = Tail(answers)
  BY DEF ProcessAnswer, Listener!Join, Listener!HearOf, linkVars, beatVars,
     controllerVars
<1>2. /\ skew \in Int /\ answers \in Seq(Message) /\ InOrder(answers)
  BY PeriodAssumption DEF Inv, TypeOK, Ordered
<1>3. members' = {Service} /\ heard' = [heard EXCEPT ![Service] = h.stamp]
  BY DEF ProcessAnswer, StampOf, Listener!Join, Listener!HearOf, Inv, TypeOK
<1>4. Heard' = {h.stamp}
  BY <1>3 DEF Heard, Inv, TypeOK
<1>5. /\ h.stamp \in Stamps(answers) /\ h.stamp \in Int
      /\ Stamps(answers') \subseteq Stamps(answers) /\ Stamps(answers') \subseteq Int
      /\ UpTo({h.stamp}, Stamps(answers'))
  BY <1>1, <1>2, QueueTail, QueueStamps
<1>6. Told' /\ Trusted'
  BY <1>1 DEF Attended, Told, Trusted, Carries
<1>7. Known'
  BY <1>3 DEF Known
<1>8. ASSUME NEW u \in Int, steadySince + ToAnswer <= u, u < answerDue
      PROVE  \/ \A y \in Heard' \cup Stamps(answers') : y > u - ToAnswer + skew
             \/ Carries(answers', u, u - ToAnswer + skew)
  <2> DEFINE t == u - ToAnswer + skew
  <2>1. t \in Int
    BY <1>2, Lengths
  <2>2. \/ \A y \in Heard \cup Stamps(answers) : y > t
        \/ Carries(answers, u, t)
    BY <1>8 DEF Attended, Fresh
  <2>3. CASE \A y \in Heard \cup Stamps(answers) : y > t
    BY <1>4, <1>5, <2>3
  <2>4. CASE Carries(answers, u, t)
    <3>1. Carries(answers', u, t) \/ h.stamp > t
      BY <1>1, <1>2, <2>1, <2>4, CarriesKept
    <3>2. CASE h.stamp > t
      BY <1>4, <1>5, <2>1, <3>2 DEF UpTo
    <3>3. QED BY <3>1, <3>2
  <2>5. QED BY <2>2, <2>3, <2>4
<1>9. Fresh'
  BY <1>1, <1>8 DEF Fresh
<1>10. QED BY <1>6, <1>7, <1>9

(* Checks find nobody late whom the service's beats have reached; whoever  *)
(* was found before then is erased before the clock goes on.               *)
LEMMA AttendedCheck ==
  ASSUME Inv, Punctual, Attended, PassCheck \/ MissLate \/ FindLate \/ Erase
  PROVE  (Told /\ Fresh /\ Known /\ Trusted)'
<1>1. /\ UNCHANGED <<now, listed, skew, steadySince, beatDue, answerDue>>
      /\ UNCHANGED <<presences, answers>>
  BY DEF PassCheck, MissLate, FindLate, Erase, Listener!FindLate,
     Listener!Leave, linkVars, beatVars, controllerVars
<1>2. Told'
  BY <1>1 DEF Attended, Told, Carries
<1>3. CASE PassCheck \/ MissLate
  <2>1. UNCHANGED <<heard, members, suspects>>
    BY <1>3 DEF PassCheck, MissLate, mapVars
  <2>2. QED BY <1>1, <1>2, <2>1, ListenerWaits
<1>4. CASE FindLate
  <2>1. UNCHANGED <<heard, members>>
    BY <1>4 DEF FindLate, Listener!FindLate
  <2>2. Fresh' /\ Known'
    BY <1>1, <2>1 DEF Attended, Fresh, Known, Carries, Heard, Stamps
  <2>3. Trusted'
    BY <1>1, <1>4, SteadyIsNotLate, Lengths DEF Attended, Trusted, Age
  <2>4. QED BY <1>2, <2>2, <2>3
<1>5. CASE Erase
  <2>1. members' = {} /\ suspects' = {} /\ suspects # {}
    BY <1>5 DEF Erase, Listener!Leave, Inv, TypeOK
  <2>2. ~(now > steadySince + Age)
    BY <2>1 DEF Attended, Trusted
  <2>3. /\ now \in Nat /\ steadySince \in Nat /\ answerDue \in Nat
        /\ answerDue <= now + AnswerPeriod
    BY DEF Inv, TypeOK, Punctual
  <2>4. \A u \in Int : ~(steadySince + Age + AnswerPeriod <= u /\ u < answerDue)
    BY <2>2, <2>3, Lengths
  <2>5. Known' /\ Trusted'
    BY <1>1, <2>1, <2>4 DEF Known, Trusted
  <2>6. Heard' = {} /\ Stamps(answers') = Stamps(answers)
    BY <1>1, <2>1 DEF Heard
  <2>7. Fresh'
    BY <1>1, <2>6 DEF Attended, Fresh, Carries
  <2>8. QED BY <1>2, <2>5, <2>7
<1>6. QED BY <1>3, <1>4, <1>5

-----------------------------------------------------------------------------
LEMMA LookedAfterStep == Inv /\ Punctual /\ LookedAfter /\ Next => LookedAfter'
<1> SUFFICES ASSUME Inv, Punctual, LookedAfter, Next PROVE LookedAfter'
  OBVIOUS
<1>1. CASE Simulate \/ Link \/ Consume \/ LoseLink \/ LoseQueue
  BY <1>1, LookedAfterLinks
<1>2. CASE Tick \/ Beat \/ ReadPresence \/ Answer \/ Forget \/ ProcessAnswer
             \/ PassCheck \/ MissLate \/ FindLate \/ Erase
  <2>1. UNCHANGED <<enabled, linked, consuming>>
    BY <1>2 DEF Tick, Beat, ReadPresence, Answer, Forget, ProcessAnswer,
       PassCheck, MissLate, FindLate, Erase, serviceVars, linkVars
  <2>2. Attended => (Told /\ Fresh /\ Known /\ Trusted)'
    BY <1>2, AttendedTick, AttendedBeat, AttendedReadPresence, AttendedAnswer,
       AttendedForget, AttendedProcessAnswer, AttendedCheck
  <2>3. QED BY <2>1, <2>2, StaysSteady
<1>3. CASE DropAnswer
  BY <1>3, LookedAfterDrop
<1>4. QED BY <1>1, <1>2, <1>3 DEF Next

LEMMA AlwaysLookedAfter == Spec => [](Inv /\ Punctual /\ LookedAfter)
<1>1. Init => Inv /\ Punctual /\ LookedAfter
  BY Initially, PunctualInit, LookedAfterInit
<1>2. Inv /\ Punctual /\ LookedAfter /\ UNCHANGED vars => Punctual' /\ LookedAfter'
  BY DEF vars, listenerVars, mapVars, serviceVars, linkVars, beatVars,
     controllerVars, Punctual, UnderWay, LookedAfter, Lenient, Age, Steady, Told,
     Fresh, Known, Trusted, Carries, Heard, Stamps, ToAnswer, ToController
<1>3. Inv /\ Punctual /\ LookedAfter /\ [Next]_vars
        => (Inv /\ Punctual /\ LookedAfter)'
  BY <1>2, Preserved, PunctualStep, LookedAfterStep
<1>4. QED BY <1>1, <1>3, PTL DEF Spec

(* A service that keeps its heartbeat on and its connection, and whose      *)
(* listener keeps its own and drops no answer, is known once a presence and *)
(* an answer have had time to arrive, and is never expired after that: for  *)
(* every timeout that covers the heartbeat interval, both ways, the time    *)
(* between two answers and the difference of the clocks.  A dropped answer  *)
(* only makes the wait begin anew, however many came before it.             *)
THEOREM SteadyStaysMember == Spec => []SteadyIsMember
<1>1. Inv /\ Punctual /\ LookedAfter => SteadyIsMember
  <2> SUFFICES ASSUME Inv, Punctual, LookedAfter, HeartbeatTimeout >= Age + Skew,
                      Steady, now > steadySince + Age + AnswerPeriod + AnswerDelay
               PROVE  Service \in members
    BY DEF SteadyIsMember
  <2>1. Known
    BY DEF LookedAfter, Lenient
  <2>2. /\ now \in Nat /\ steadySince \in Nat /\ answerDue \in Nat
        /\ answers \in Seq(Message)
        /\ UnderWay(answers, AnswerDelay, now) /\ now <= answerDue
    BY DEF Inv, TypeOK, Punctual
  <2> DEFINE u == now - AnswerDelay - 1
  <2>3. /\ u \in Int /\ u + AnswerDelay < now
        /\ steadySince + Age + AnswerPeriod <= u /\ u < answerDue
    BY <2>2, Lengths
  <2>4. \A j \in DOMAIN answers : ~(answers[j].sent <= u)
    BY <2>2, <2>3, Arrived, Lengths
  <2>5. QED BY <2>1, <2>3, <2>4 DEF Known
<1>2. QED BY <1>1, AlwaysLookedAfter, PTL

(* The listener neither suspects a steady service nor holds an old stamp   *)
(* of it, from the moment the first presence and the first answer after    *)
(* the last one dropped have had time to arrive.                           *)
THEOREM SteadyStaysFresh ==
  Spec => [](Lenient /\ Steady /\ now > steadySince + Age
               => /\ suspects = {}
                  /\ Service \in members => heard[Service] >= now - Age + skew)
<1>1. Inv /\ Punctual /\ LookedAfter =>
        (Lenient /\ Steady /\ now > steadySince + Age
           => /\ suspects = {}
              /\ Service \in members => heard[Service] >= now - Age + skew)
  BY HeardIsFresh DEF LookedAfter, Trusted
<1>2. QED BY <1>1, AlwaysLookedAfter, PTL

=============================================================================
