---------------------------- MODULE EndpointCheck ----------------------------
(***************************************************************************)
(* One call of checkTCPEndpoint, and the network that completes, refuses   *)
(* or resets handshakes while the call goes on.                            *)
(*                                                                         *)
(* Addresses are numbered in the order getaddrinfo lists them.  A socket   *)
(* is named by the address it was created for.  What fcntl does to the     *)
(* socket only decides whether connect blocks; either way connect fails,   *)
(* succeeds or is in progress.  Descriptors are taken to fit an fd_set.    *)
(***************************************************************************)
EXTENDS Naturals

CONSTANT N  \* addresses the host resolves to

ASSUME NAssumption == N \in Nat \ {0}

Address == 1 .. N

VARIABLES
  timed,      \* timeout_ms >= 0
  pc,         \* where the call is
  p,          \* the address of the loop, N + 1 for nullptr, 0 before the loop
  open,       \* sockets that have not been closed
  allocated,  \* the list of addresses has not been freed
  link,       \* what the network has made of each socket's handshake
  connected,  \* the variable of that name, and the result
  (* History.                                                              *)
  finding,    \* what the call has found out about each address
  answered    \* addresses that have completed a handshake

vars == <<timed, pc, p, open, allocated, link, connected, finding, answered>>

Init ==
  /\ timed \in BOOLEAN
  /\ pc = "resolve"
  /\ p = 0
  /\ open = {}
  /\ allocated = FALSE
  /\ link = [a \in Address |-> "none"]
  /\ connected = FALSE
  /\ finding = [a \in Address |-> "none"]
  /\ answered = {}

-----------------------------------------------------------------------------
(* Each branch of the loop ends here: p = p->ai_next.                      *)

(* Faulty forms: two steps along the list; none.                           *)
AdvanceTwice(found) ==
  /\ finding' = [finding EXCEPT ![p] = found]
  /\ p' = IF p < N THEN p + 2 ELSE p + 1
  /\ pc' = "next"

AdvanceNot(found) ==
  /\ finding' = [finding EXCEPT ![p] = found]
  /\ p' = p
  /\ pc' = "next"

Advance(found) ==
  /\ finding' = [finding EXCEPT ![p] = found]
  /\ p' = p + 1
  /\ pc' = "next"

Close == open' = open \ {p}

(* Faulty form: continue without close.                                    *)
GiveUpOpen == Advance("unreachable") /\ UNCHANGED open

GiveUp == Advance("unreachable") /\ Close

Resolve ==
  /\ pc = "resolve"
  /\ \/ /\ pc' = "done"
        /\ UNCHANGED <<p, allocated>>
     \/ /\ pc' = "next"
        /\ p' = 1
        /\ allocated' = TRUE
  /\ UNCHANGED <<timed, open, link, connected, finding, answered>>

(* Faulty form: the loop does not look for the end of the list.            *)
InListUnchecked == TRUE

InList == p \in Address  \* p != nullptr

Socket ==
  /\ pc = "next"
  /\ InList
  /\ ~connected
  /\ \/ Advance("unreachable") /\ UNCHANGED open
     \/ /\ open' = open \cup {p}
        /\ pc' = "connect"
        /\ UNCHANGED <<p, finding>>
  /\ UNCHANGED <<timed, allocated, link, connected, answered>>

Connect ==
  /\ pc = "connect"
  /\ \/ /\ GiveUp
        /\ UNCHANGED <<link, answered>>
     \/ /\ \E l \in {"progress", "up"} :
             /\ link' = [link EXCEPT ![p] = l]
             /\ answered' = IF l = "up" THEN answered \cup {p} ELSE answered
        /\ pc' = IF timed THEN "select" ELSE "getsockopt"
        /\ UNCHANGED <<p, open, finding>>
  /\ UNCHANGED <<timed, allocated, connected>>

(* Writable, because the handshake has ended one way or the other; or the  *)
(* time has passed, or select was interrupted.                             *)
Select ==
  /\ pc = "select"
  /\ \/ /\ link[p] # "progress"
        /\ pc' = "getsockopt"
        /\ UNCHANGED <<p, open, finding>>
     \/ GiveUp
  /\ UNCHANGED <<timed, allocated, link, connected, answered>>

(* Faulty form: select's word is taken for it.                             *)
SocketErrorIgnored == FALSE

(* SO_ERROR: zero as well while the handshake is in progress.              *)
SocketError == link[p] = "failed"

GetSockOpt ==
  /\ pc = "getsockopt"
  /\ \/ SocketError /\ GiveUp /\ UNCHANGED connected
     \/ /\ ~SocketError
        /\ connected' = TRUE
        /\ Advance("reachable")
        /\ Close
  /\ UNCHANGED <<timed, allocated, link, answered>>

FreeAddrInfo ==
  /\ pc = "next"
  /\ ~InList \/ connected
  /\ allocated' = FALSE
  /\ pc' = "done"
  /\ UNCHANGED <<timed, p, open, link, connected, finding, answered>>

-----------------------------------------------------------------------------
(* The network.                                                            *)

Handshake(a) ==
  /\ a \in open
  /\ link[a] = "progress"
  /\ link' = [link EXCEPT ![a] = "up"]
  /\ answered' = answered \cup {a}
  /\ UNCHANGED <<timed, pc, p, open, allocated, connected, finding>>

(* Refused, or reset after it was established.                             *)
Refuse(a) ==
  /\ a \in open
  /\ link[a] \in {"progress", "up"}
  /\ link' = [link EXCEPT ![a] = "failed"]
  /\ UNCHANGED <<timed, pc, p, open, allocated, connected, finding, answered>>

-----------------------------------------------------------------------------
CallStep == Resolve \/ Socket \/ Connect \/ Select \/ GetSockOpt \/ FreeAddrInfo

Next == CallStep \/ \E a \in Address : Handshake(a) \/ Refuse(a)

(* The caller's thread runs, and select ends when its time has passed.     *)
Spec == Init /\ [][Next]_vars /\ WF_vars(CallStep)

-----------------------------------------------------------------------------
TypeOK ==
  /\ timed \in BOOLEAN
  /\ pc \in {"resolve", "next", "connect", "select", "getsockopt", "done"}
  /\ p \in 0 .. N + 1
  /\ pc \in {"connect", "select", "getsockopt"} => p \in Address
  /\ open \subseteq Address
  /\ allocated \in BOOLEAN
  /\ link \in [Address -> {"none", "progress", "up", "failed"}]
  /\ connected \in BOOLEAN
  /\ finding \in [Address -> {"none", "unreachable", "reachable"}]
  /\ answered \subseteq Address

(* Whichever of its seven ways out the loop took for each address, nothing *)
(* is left behind: every socket is closed and the list is freed.           *)
NothingLeft == pc = "done" => open = {} /\ ~allocated

(* With a timeout, an endpoint is reported reachable only if the address   *)
(* the call stopped at has answered; neither a refusal that makes the      *)
(* socket writable nor a reset after the handshake passes for an answer.   *)
ReportsTruth == (timed /\ connected) => p - 1 \in answered

(* The result is that of the addresses up to the one the call stopped at,  *)
(* none skipped, none asked after a success: unreachable means that all    *)
(* were asked in vain, if the host was resolved.                           *)
AsksInTurn ==
  pc = "done" =>
    /\ \A a \in Address :
         finding[a] = IF a >= p THEN "none"
                      ELSE IF connected /\ a = p - 1 THEN "reachable"
                      ELSE "unreachable"
    /\ ~connected => p \in {0, N + 1}

(* The call returns, however the network behaves.                          *)
Returns == <>(pc = "done")
=============================================================================
