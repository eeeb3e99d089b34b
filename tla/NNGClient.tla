------------------------------ MODULE NNGClient ------------------------------
(***************************************************************************)
(* An NNGClient used by one thread: dialing with a minimum interval        *)
(* between attempts, listening, and the sends that discover a lost         *)
(* connection.                                                             *)
(*                                                                         *)
(* Time is relative: wait is what is left until nextConnect.  A call       *)
(* returns at once but for the dial, which blocks for any time.  Calls     *)
(* that change nothing (connect while connected or too early, a send or a  *)
(* receive that succeeds, a receive that fails) are stuttering steps.      *)
(***************************************************************************)
EXTENDS Naturals

CONSTANTS
  Interval,    \* reconnect_interval
  MaxFailures  \* bound: failed dials in a row

ASSUME IntervalAssumption == Interval \in Nat \ {0}
ASSUME BoundsAssumption == MaxFailures \in Nat

VARIABLES
  alive,        \* FALSE once the end of listen has been run through
  type,         \* PUSH, REQ or PUB
  connected,    \* _connected
  socket,       \* what the nng socket has been brought to
  wait,         \* nextConnect - now, 0 if that is past
  fail_counter, \* _fail_counter
  (* History.                                                              *)
  since         \* time since the last attempt began, at most Interval

vars == <<alive, type, connected, socket, wait, fail_counter, since>>

Init ==
  /\ alive = TRUE
  /\ type \in {"PUSH", "REQ", "PUB"}
  /\ connected = FALSE
  /\ socket = "closed"
  /\ wait = 0
  /\ fail_counter = 0
  /\ since = Interval

Tick ==
  /\ alive
  /\ wait > 0 \/ since < Interval
  /\ wait' = IF wait > 0 THEN wait - 1 ELSE 0
  /\ since' = IF since < Interval THEN since + 1 ELSE Interval
  /\ UNCHANGED <<alive, type, connected, socket, fail_counter>>

-----------------------------------------------------------------------------
(* connect.                                                                *)

(* Faulty forms: connected is not looked at; the clock is not looked at.   *)
MayDialAgain == wait = 0
MayDialEarly == ~connected

MayDial == ~connected /\ wait = 0

(* Faulty form: every failure in a row lengthens the pause.                *)
PostponeLonger(spent) == wait' = Interval * (fail_counter + 1) - spent

(* nextConnect is set before the dial, which takes spent of the interval.  *)
Postpone(spent) == wait' = Interval - spent

Attempt ==
  /\ alive
  /\ MayDial
  /\ \E spent \in 0 .. Interval : Postpone(spent) /\ since' = spent
  /\ UNCHANGED <<alive, type>>

(* PUB has no open(): it dials from the socket listen has left, if any.    *)
DialSucceeds ==
  /\ Attempt
  /\ type = "PUB" => socket # "closed"
  /\ socket' = "dialed"
  /\ connected' = TRUE
  /\ fail_counter' = 0

(* open, the send timeout or the dial throws.  The socket that open()      *)
(* returns closes the one it replaces.                                     *)
DialFails ==
  /\ Attempt
  /\ fail_counter < MaxFailures
  /\ fail_counter' = fail_counter + 1
  /\ socket' \in IF type = "PUB" THEN {socket} ELSE {socket, "open"}
  /\ UNCHANGED connected

-----------------------------------------------------------------------------
(* listen, for PUB only; another type returns an error.                    *)

(* After listening the function ends without a return statement: the       *)
(* caller gets an arbitrary error code, or the process ends.               *)
ListenSucceeds ==
  /\ alive
  /\ type = "PUB"
  /\ socket' = "listening"
  /\ connected' = TRUE
  /\ alive' \in BOOLEAN
  /\ UNCHANGED <<type, wait, fail_counter, since>>

(* open() has replaced the socket before listen throws.                    *)
ListenFails ==
  /\ alive
  /\ type = "PUB"
  /\ socket' \in {socket, "open"}
  /\ UNCHANGED <<alive, type, connected, wait, fail_counter, since>>

-----------------------------------------------------------------------------
(* Faulty form: the flag is left as it is.                                 *)
FlagKept == UNCHANGED connected

ClearFlag == connected' = FALSE

(* A send that throws, for whatever reason: no socket, no peer, a full     *)
(* queue.                                                                  *)
SendFails ==
  /\ alive
  /\ ClearFlag
  /\ UNCHANGED <<alive, type, socket, wait, fail_counter, since>>

(* The peer goes away; nng does not tell.                                  *)
PeerLost ==
  /\ alive
  /\ socket = "dialed"
  /\ socket' = "lost"
  /\ UNCHANGED <<alive, type, connected, wait, fail_counter, since>>

(* Its dialer goes on trying in the background.                            *)
PeerReturns ==
  /\ alive
  /\ socket = "lost"
  /\ socket' = "dialed"
  /\ UNCHANGED <<alive, type, connected, wait, fail_counter, since>>

Connect == DialSucceeds \/ DialFails

Next ==
  \/ Tick \/ Connect \/ ListenSucceeds \/ ListenFails
  \/ SendFails \/ PeerLost \/ PeerReturns

Spec == Init /\ [][Next]_vars

(* Time passes.                                                            *)
FairSpec == Spec /\ WF_vars(Tick)

-----------------------------------------------------------------------------
(* The type of the state; the next attempt is never further off than       *)
(* reconnect_interval.                                                     *)
TypeOK ==
  /\ alive \in BOOLEAN
  /\ type \in {"PUSH", "REQ", "PUB"}
  /\ connected \in BOOLEAN
  /\ socket \in {"closed", "open", "dialed", "listening", "lost"}
  /\ wait \in 0 .. Interval
  /\ fail_counter \in 0 .. MaxFailures
  /\ since \in 0 .. Interval

(* A client that dials and takes itself for connected has a socket that    *)
(* was dialed: no failed attempt has replaced it since.                    *)
ConnectedIsDialed == connected /\ type # "PUB" => socket \in {"dialed", "lost"}

(* Attempts are at least reconnect_interval apart, however long the dials  *)
(* take and whatever sends fail in between.                                *)
RateLimited == [][Connect => since = Interval]_vars

(* The caller goes on trying to connect and, while connected, to send, and *)
(* from some time on dials succeed.                                        *)
Retrying == WF_vars(Connect) /\ WF_vars(socket = "lost" /\ SendFails)
Reachable == <>[][~DialFails]_vars /\ <>[][~PeerLost]_vars

(* Then the client is connected again and again, and in the end to a peer  *)
(* that is there.                                                          *)
Reconnects ==
  (Retrying /\ Reachable /\ type # "PUB") => []<>(connected /\ socket = "dialed")

=============================================================================
