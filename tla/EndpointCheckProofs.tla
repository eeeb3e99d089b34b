------------------------- MODULE EndpointCheckProofs -------------------------
(***************************************************************************)
(* The safety of checkTCPEndpoint for any number of addresses.  The        *)
(* invariant says, at every point of the loop, which socket may be open,   *)
(* what is known of the address at hand and what has been found so far.    *)
(***************************************************************************)
EXTENDS EndpointCheck, Integers, TLAPS

InLoop == {"connect", "select", "getsockopt"}

Sockets ==
  /\ open \subseteq {p}
  /\ open # {} => pc \in InLoop
  /\ allocated => pc \in InLoop \cup {"next"}

Links ==
  /\ \A a \in Address : link[a] = "up" => a \in answered
  /\ pc = "select" => timed
  /\ pc \in {"select", "getsockopt"} => link[p] # "none"
  /\ pc = "getsockopt" /\ timed => link[p] # "progress"
  /\ timed /\ connected => p - 1 \in answered

Findings ==
  /\ pc = "resolve" => p = 0
  /\ pc = "next" => p \in 1 .. N + 1
  /\ connected => pc \in {"next", "done"} /\ p - 1 \in Address
  /\ \A a \in Address :
       finding[a] = IF a >= p THEN "none"
                    ELSE IF connected /\ a = p - 1 THEN "reachable"
                    ELSE "unreachable"
  /\ pc = "done" /\ ~connected => p \in {0, N + 1}

Inv == TypeOK /\ Sockets /\ Links /\ Findings

LEMMA Initially == Init => Inv
<1> SUFFICES ASSUME Init PROVE Inv
  OBVIOUS
<1>1. TypeOK
  <2>1. p \in 0 .. N + 1
    BY NAssumption DEF Init
  <2>2. QED BY <2>1 DEF Init, TypeOK
<1>2. Sockets /\ Links
  BY DEF Init, Sockets, Links, InLoop
<1>3. Findings
  BY NAssumption DEF Init, Findings, Address
<1>4. QED BY <1>1, <1>2, <1>3 DEF Inv

LEMMA InvResolve == Inv /\ Resolve => Inv'
<1> SUFFICES ASSUME Inv, Resolve PROVE Inv'
  OBVIOUS
<1>1. p = 0 /\ ~connected /\ ~connected' /\ finding' = finding
  BY DEF Resolve, Inv, Findings
<1>2. p' \in {0, 1} /\ (p' = 1 <=> pc' = "next") /\ pc' \in {"next", "done"}
  BY <1>1 DEF Resolve
<1>3. TypeOK' /\ Sockets' /\ Links'
  <2>1. p' \in 0 .. N + 1
    BY <1>2, NAssumption
  <2>2. TypeOK'
    BY <1>1, <1>2, <2>1 DEF Resolve, Inv, TypeOK
  <2>3. Sockets'
    BY <1>2 DEF Resolve, Inv, Sockets, InLoop
  <2>4. Links'
    BY <1>1, <1>2 DEF Resolve, Inv, Links
  <2>5. QED BY <2>2, <2>3, <2>4
<1>4. \A a \in Address : finding[a] = "none" /\ a >= p'
  BY <1>1, <1>2, NAssumption DEF Inv, Findings, Address
<1>5. p' \in {0, N + 1} \cup 1 .. N + 1 /\ pc' # "resolve"
      /\ (pc' = "next" => p' \in 1 .. N + 1) /\ (pc' = "done" => p' = 0)
  BY <1>2, NAssumption
<1>6. Findings'
  BY <1>1, <1>4, <1>5 DEF Findings
<1>7. QED BY <1>3, <1>6 DEF Inv

(* What the end of a branch does, whatever it has found: the loop is one   *)
(* address further, and the findings are those before plus this one.       *)
LEMMA Advanced ==
  ASSUME TypeOK, Findings, NEW f \in {"reachable", "unreachable"},
         p \in Address, ~connected, Advance(f),
         connected' = (f = "reachable")
  PROVE  /\ Findings'
         /\ p' \in 0 .. N + 1 /\ pc' = "next"
         /\ finding' \in [Address -> {"none", "unreachable", "reachable"}]
<1>1. p' = p + 1 /\ pc' = "next" /\ finding' = [finding EXCEPT ![p] = f]
  BY DEF Advance
<1>2. finding' \in [Address -> {"none", "unreachable", "reachable"}]
  BY <1>1 DEF TypeOK
<1>3. ASSUME NEW a \in Address
      PROVE  finding'[a] = IF a >= p' THEN "none"
                           ELSE IF connected' /\ a = p' - 1 THEN "reachable"
                           ELSE "unreachable"
  <2>1. CASE a = p
    <3>1. finding'[a] = f /\ ~(a >= p') /\ a = p' - 1
      BY <1>1, <2>1, NAssumption DEF TypeOK, Address
    <3>2. QED BY <3>1
  <2>2. CASE a # p
    BY <1>1, <2>2, NAssumption DEF TypeOK, Findings, Address
  <2>3. QED BY <2>1, <2>2
<1>4. QED BY <1>1, <1>2, <1>3, NAssumption DEF Findings, Address

LEMMA InvSocket == Inv /\ Socket => Inv'
<1> SUFFICES ASSUME Inv, Socket PROVE Inv'
  OBVIOUS
<1>1. p \in Address /\ ~connected /\ pc = "next"
  BY DEF Socket, InList
<1>2. CASE Advance("unreachable") /\ UNCHANGED open
  <2>1. connected' = FALSE
    BY <1>1 DEF Socket, Inv, TypeOK
  <2>2. /\ Findings' /\ p' \in 0 .. N + 1 /\ pc' = "next"
        /\ finding' \in [Address -> {"none", "unreachable", "reachable"}]
    BY <1>1, <1>2, <2>1, Advanced DEF Inv
  <2>3. QED
    BY <1>1, <1>2, <2>1, <2>2 DEF Socket, Inv, TypeOK, Sockets, Links, InLoop
<1>3. CASE open' = open \cup {p} /\ pc' = "connect" /\ UNCHANGED <<p, finding>>
  BY <1>1, <1>3 DEF Socket, Inv, TypeOK, Sockets, Links, Findings, InLoop
<1>4. QED BY <1>2, <1>3 DEF Socket

(* GiveUp closes the socket of the address it gives up.                    *)
LEMMA GivenUp ==
  ASSUME Inv, pc \in InLoop, GiveUp,
         UNCHANGED <<timed, allocated, link, connected, answered>>
  PROVE  Inv'
<1>1. p \in Address /\ ~connected
  BY DEF Inv, TypeOK, Findings, InLoop
<1>2. connected' = FALSE
  BY <1>1 DEF Inv, TypeOK
<1>3. /\ Findings' /\ p' \in 0 .. N + 1 /\ pc' = "next"
      /\ finding' \in [Address -> {"none", "unreachable", "reachable"}]
  BY <1>1, <1>2, Advanced DEF Inv, GiveUp
<1>4. open' = {}
  BY DEF Inv, Sockets, GiveUp, Close
<1>5. QED
  BY <1>1, <1>2, <1>3, <1>4 DEF Inv, TypeOK, Sockets, Links, InLoop

LEMMA InvConnect == Inv /\ Connect => Inv'
<1> SUFFICES ASSUME Inv, Connect PROVE Inv'
  OBVIOUS
<1>1. CASE GiveUp /\ UNCHANGED <<link, answered>>
  BY <1>1, GivenUp DEF Connect, InLoop
<1>2. ASSUME NEW l \in {"progress", "up"},
             link' = [link EXCEPT ![p] = l],
             answered' = IF l = "up" THEN answered \cup {p} ELSE answered,
             pc' = IF timed THEN "select" ELSE "getsockopt",
             UNCHANGED <<p, open, finding>>
      PROVE  Inv'
  BY <1>2 DEF Connect, Inv, TypeOK, Sockets, Links, Findings, InLoop
<1>3. QED BY <1>1, <1>2 DEF Connect

LEMMA InvSelect == Inv /\ Select => Inv'
<1> SUFFICES ASSUME Inv, Select PROVE Inv'
  OBVIOUS
<1>1. CASE GiveUp
  BY <1>1, GivenUp DEF Select, InLoop
<1>2. CASE link[p] # "progress" /\ pc' = "getsockopt" /\ UNCHANGED <<p, open, finding>>
  BY <1>2 DEF Select, Inv, TypeOK, Sockets, Links, Findings, InLoop
<1>3. QED BY <1>1, <1>2 DEF Select

(* Timed, and without an error: the handshake is neither unstarted, nor in *)
(* progress, nor failed; the address has answered.                         *)
LEMMA InvGetSockOpt == Inv /\ GetSockOpt => Inv'
<1> SUFFICES ASSUME Inv, GetSockOpt PROVE Inv'
  OBVIOUS
<1>1. CASE SocketError /\ GiveUp /\ UNCHANGED connected
  BY <1>1, GivenUp DEF GetSockOpt, InLoop
<1>2. CASE ~SocketError /\ connected' = TRUE /\ Advance("reachable") /\ Close
  <2>1. p \in Address /\ ~connected
    BY DEF GetSockOpt, Inv, TypeOK, Findings
  <2>2. /\ Findings' /\ p' \in 0 .. N + 1 /\ pc' = "next"
        /\ finding' \in [Address -> {"none", "unreachable", "reachable"}]
    BY <1>2, <2>1, Advanced DEF Inv
  <2>3. open' = {} /\ p' - 1 = p
    BY <1>2, <2>1 DEF Inv, Sockets, Close, Advance, Address
  <2>4. timed => p \in answered
    BY <1>2, <2>1 DEF GetSockOpt, SocketError, Inv, Links, TypeOK
  <2>5. QED
    BY <1>2, <2>1, <2>2, <2>3, <2>4
    DEF GetSockOpt, Inv, TypeOK, Sockets, Links, InLoop
<1>3. QED BY <1>1, <1>2 DEF GetSockOpt

LEMMA InvFreeAddrInfo == Inv /\ FreeAddrInfo => Inv'
<1> SUFFICES ASSUME Inv, FreeAddrInfo PROVE Inv'
  OBVIOUS
<1>1. TypeOK' /\ Sockets' /\ Links'
  BY DEF FreeAddrInfo, Inv, TypeOK, Sockets, Links, InLoop
<1>2. Findings'
  BY NAssumption DEF FreeAddrInfo, InList, Inv, TypeOK, Findings, Address
<1>3. QED BY <1>1, <1>2 DEF Inv

(* The network touches open sockets only: one the loop is waiting for.     *)
LEMMA InvNetwork ==
  ASSUME Inv, NEW a \in Address, Handshake(a) \/ Refuse(a) PROVE Inv'
<1>1. UNCHANGED <<timed, pc, p, open, allocated, connected, finding>>
  BY DEF Handshake, Refuse
<1>2. /\ \E l \in {"up", "failed"} :
           /\ link' = [link EXCEPT ![a] = l]
           /\ l = "up" => a \in answered'
      /\ answered \subseteq answered' /\ answered' \subseteq Address
  BY DEF Handshake, Refuse, Inv, TypeOK
<1>3. TypeOK'
  BY <1>1, <1>2 DEF Inv, TypeOK
<1>4. Sockets' /\ Findings'
  BY <1>1 DEF Inv, Sockets, Findings
<1>5. Links'
  BY <1>1, <1>2 DEF Inv, TypeOK, Links, Findings
<1>6. QED BY <1>3, <1>4, <1>5 DEF Inv

LEMMA Preserved == Inv /\ [Next]_vars => Inv'
<1>1. Inv /\ UNCHANGED vars => Inv'
  BY DEF vars, Inv, TypeOK, Sockets, Links, Findings
<1>2. QED
  BY <1>1, InvResolve, InvSocket, InvConnect, InvSelect, InvGetSockOpt,
     InvFreeAddrInfo, InvNetwork DEF Next, CallStep

LEMMA Always == Spec => []Inv
  BY Initially, Preserved, PTL DEF Spec

(* Every variable of the call keeps its type; the loop's address is one of *)
(* the list wherever a socket is used.                                     *)
THEOREM TypeCorrect == Spec => []TypeOK
  BY Always, PTL DEF Inv

(* For any number of addresses, and on whatever way out of the loop, the   *)
(* call closes every socket it opened and frees the list.                  *)
THEOREM NothingIsLeft == Spec => []NothingLeft
<1>1. Inv => NothingLeft
  BY DEF Inv, Sockets, NothingLeft, InLoop
<1>2. QED BY <1>1, Always, PTL

(* With a timeout, "reachable" means that the address has answered.        *)
THEOREM ReportsTheTruth == Spec => []ReportsTruth
<1>1. Inv => ReportsTruth
  BY DEF Inv, Links, ReportsTruth
<1>2. QED BY <1>1, Always, PTL

(* The call asks the addresses in turn until one answers, and all of them  *)
(* before it reports that none does.                                       *)
THEOREM AsksThemInTurn == Spec => []AsksInTurn
<1>1. Inv => AsksInTurn
  BY DEF Inv, Findings, AsksInTurn
<1>2. QED BY <1>1, Always, PTL

-----------------------------------------------------------------------------
(* The work left to the call: four steps for each address it has not come  *)
(* past, fewer in the middle of one.                                       *)
Stage ==
  CASE pc = "resolve"    -> 5
    [] pc = "next"       -> 4
    [] pc = "connect"    -> 3
    [] pc = "select"     -> 2
    [] pc = "getsockopt" -> 1
    [] OTHER             -> 0

CallLeft == 4 * (N + 1 - p) + Stage

LEMMA StageDown ==
  ASSUME Inv, NEW k \in 0 .. 4, Stage' = k, p' = p, k < Stage
  PROVE  CallLeft' < CallLeft
<1>1. p \in Int /\ N \in Int
  BY NAssumption DEF Inv, TypeOK
<1>2. Stage \in 0 .. 5
  BY DEF Stage
<1>3. QED BY <1>1, <1>2 DEF CallLeft

LEMMA AddressDown ==
  ASSUME Inv, pc \in InLoop \cup {"next"}, NEW f, Advance(f)
  PROVE  CallLeft' < CallLeft
<1>1. p \in Int /\ N \in Int
  BY NAssumption DEF Inv, TypeOK
<1>2. p' = p + 1 /\ Stage' = 4 /\ Stage \in 1 .. 4
  BY DEF Advance, Stage, InLoop
<1>3. QED BY <1>1, <1>2 DEF CallLeft

(* The call takes a bounded number of steps, at most four for each address *)
(* and nine besides: every one of its steps leaves less to do, and nothing *)
(* the network does in between brings it back.                             *)
THEOREM CallIsBounded ==
  Spec => /\ [](CallLeft \in Nat /\ CallLeft <= 4 * N + 9)
          /\ [][IF CallStep THEN CallLeft' < CallLeft
                            ELSE CallLeft' = CallLeft]_vars
<1>1. Inv => CallLeft \in Nat /\ CallLeft <= 4 * N + 9
  <2> SUFFICES ASSUME Inv PROVE CallLeft \in Nat /\ CallLeft <= 4 * N + 9
    OBVIOUS
  <2>1. p \in 0 .. N + 1 /\ N \in Nat
    BY NAssumption DEF Inv, TypeOK
  <2>2. Stage \in 0 .. 5
    BY DEF Stage
  <2>3. N + 1 - p \in 0 .. N + 1
    BY <2>1
  <2>4. QED BY <2>1, <2>2, <2>3 DEF CallLeft
<1>2. ASSUME Inv, CallStep PROVE CallLeft' < CallLeft
  <2>1. CASE Resolve
    <3>1. p = 0 /\ N \in Nat /\ Stage = 5
      BY <1>2, <2>1, NAssumption DEF Resolve, Inv, Findings, Stage
    <3>2. (p' = 0 /\ Stage' = 0) \/ (p' = 1 /\ Stage' = 4)
      BY <2>1, <3>1 DEF Resolve, Stage
    <3>3. QED BY <3>1, <3>2 DEF CallLeft
  <2>2. CASE Socket
    <3>1. CASE Advance("unreachable")
      BY <1>2, <2>2, <3>1, AddressDown DEF Socket
    <3>2. CASE pc' = "connect" /\ p' = p
      <4>1. Stage' = 3 /\ Stage = 4
        BY <2>2, <3>2 DEF Socket, Stage
      <4>2. QED BY <1>2, <3>2, <4>1, StageDown
    <3>3. QED BY <2>2, <3>1, <3>2 DEF Socket
  <2>3. CASE Connect
    <3>1. CASE GiveUp
      BY <1>2, <2>3, <3>1, AddressDown DEF Connect, GiveUp, InLoop
    <3>2. CASE pc' \in {"select", "getsockopt"} /\ p' = p
      <4>1. Stage' \in {1, 2} /\ Stage = 3
        BY <2>3, <3>2 DEF Connect, Stage
      <4>2. QED BY <1>2, <3>2, <4>1, StageDown
    <3>3. QED BY <2>3, <3>1, <3>2 DEF Connect
  <2>4. CASE Select
    <3>1. CASE GiveUp
      BY <1>2, <2>4, <3>1, AddressDown DEF Select, GiveUp, InLoop
    <3>2. CASE pc' = "getsockopt" /\ p' = p
      <4>1. Stage' = 1 /\ Stage = 2
        BY <2>4, <3>2 DEF Select, Stage
      <4>2. QED BY <1>2, <3>2, <4>1, StageDown
    <3>3. QED BY <2>4, <3>1, <3>2 DEF Select
  <2>5. CASE GetSockOpt
    BY <1>2, <2>5, AddressDown DEF GetSockOpt, GiveUp, InLoop
  <2>6. CASE FreeAddrInfo
    <3>1. Stage' = 0 /\ Stage = 4 /\ p' = p
      BY <2>6 DEF FreeAddrInfo, Stage
    <3>2. QED BY <1>2, <3>1, StageDown
  <2>7. QED BY <1>2, <2>1, <2>2, <2>3, <2>4, <2>5, <2>6 DEF CallStep
<1>3. ASSUME [Next]_vars, ~CallStep PROVE CallLeft' = CallLeft
  BY <1>3 DEF Next, Handshake, Refuse, vars, CallLeft, Stage
<1>4. Inv /\ [Next]_vars => [IF CallStep THEN CallLeft' < CallLeft
                                        ELSE CallLeft' = CallLeft]_vars
  BY <1>2, <1>3
<1>5. QED BY <1>1, <1>4, Always, PTL DEF Spec
=============================================================================
