-------------------------- MODULE NNGClientProofs --------------------------
(***************************************************************************)
(* Theorems about NNGClient, for every interval and every number of        *)
(* failures.                                                               *)
(***************************************************************************)
EXTENDS NNGClient, TLAPS

(* What is left of the interval and what has passed since the last attempt *)
(* make up the interval.                                                   *)
IInv == TypeOK /\ wait + since = Interval /\ ConnectedIsDialed

LEMMA Initially == Init => IInv
<1> USE IntervalAssumption, BoundsAssumption DEF Init
<1>1. Init => TypeOK
  <2>1. 0 \in 0 .. Interval /\ Interval \in 0 .. Interval /\ 0 \in 0 .. MaxFailures
    OBVIOUS
  <2>2. QED
    BY <2>1, Zenon DEF TypeOK
<1>2. Init => wait + since = Interval /\ ConnectedIsDialed
  BY DEF ConnectedIsDialed
<1>3. QED
  BY <1>1, <1>2 DEF IInv

(* Every step preserves the type and the sum of the two times, and leaves  *)
(* a connected client on a dialed socket.                                  *)
LEMMA Inductive == IInv /\ [Next]_vars => IInv'
<1> SUFFICES ASSUME IInv, [Next]_vars
             PROVE  IInv'
  OBVIOUS
<1> USE IntervalAssumption, BoundsAssumption DEF IInv, TypeOK, ConnectedIsDialed
<1>1. CASE Tick
  BY <1>1 DEF Tick
<1>2. ASSUME Attempt
      PROVE  wait' \in 0 .. Interval /\ since' \in 0 .. Interval /\ wait' + since' = Interval
  BY <1>2 DEF Attempt, Postpone
<1>3. CASE DialSucceeds
  BY <1>2, <1>3 DEF DialSucceeds, Attempt
<1>4. CASE DialFails
  BY <1>2, <1>4 DEF DialFails, Attempt, MayDial
<1>5. CASE ListenSucceeds
  BY <1>5 DEF ListenSucceeds
<1>6. CASE ListenFails
  BY <1>6 DEF ListenFails
<1>7. CASE SendFails
  BY <1>7 DEF SendFails, ClearFlag
<1>8. CASE PeerLost
  BY <1>8 DEF PeerLost
<1>9. CASE PeerReturns
  BY <1>9 DEF PeerReturns
<1>10. CASE UNCHANGED vars
  BY <1>10 DEF vars
<1>11. QED
  BY <1>1, <1>3, <1>4, <1>5, <1>6, <1>7, <1>8, <1>9, <1>10 DEF Next, Connect

LEMMA Invariant == Spec => []IInv
  BY Initially, Inductive, PTL DEF Spec

(* nextConnect is never more than reconnect_interval ahead, and every      *)
(* other variable keeps its type.                                          *)
THEOREM TypeCorrect == Spec => []TypeOK
<1>1. IInv => TypeOK
  BY DEF IInv
<1>2. QED
  BY <1>1, Invariant, PTL

(* A client that dials and takes itself for connected has a socket that    *)
(* was dialed.                                                             *)
THEOREM ConnectedHasDialed == Spec => []ConnectedIsDialed
<1>1. IInv => ConnectedIsDialed
  BY DEF IInv
<1>2. QED
  BY <1>1, Invariant, PTL

(* Attempts of connect are at least reconnect_interval apart.              *)
THEOREM AttemptsAreRateLimited == Spec => RateLimited
<1>1. IInv /\ [Next]_vars => [Connect => since = Interval]_vars
  <2>1. ASSUME IInv, Connect
        PROVE  since = Interval
    <3>1. wait = 0
      BY <2>1 DEF Connect, DialSucceeds, DialFails, Attempt, MayDial
    <3>2. QED
      BY <2>1, <3>1, IntervalAssumption DEF IInv, TypeOK
  <2>2. QED
    BY <2>1
<1>2. QED
  BY <1>1, Invariant, PTL DEF Spec, RateLimited
=============================================================================
