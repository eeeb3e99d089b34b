----------------------------- MODULE Membership -----------------------------
(***************************************************************************)
(* What a ServiceDiscoveryClient promises of the services it knows,        *)
(* without threads, mutexes and traversals: a service joins or is heard of *)
(* again when it is reported, and leaves when it has been found late.      *)
(*                                                                         *)
(* Being found late is final: a heartbeat that comes between the finding   *)
(* and the departure does not keep the service.                            *)
(***************************************************************************)
EXTENDS RecordExpiry

CONSTANTS
  ServiceId,  \* services that may be reported
  Timeout,    \* values of heartbeat_timeout
  Stamp       \* values of last_heartbeat

VARIABLES
  now,       \* the clock, in ticks
  running,   \* FALSE once the process has been terminated
  members,   \* services known
  heard,     \* heard[s]: the stamp s was last reported with, 0 if unknown
  allowed,   \* allowed[s]: the timeout s joined with, 0 if unknown
  suspects   \* members that have been found late

vars == <<now, running, members, heard, allowed, suspects>>

Init ==
  /\ now = 0
  /\ running = TRUE
  /\ members = {}
  /\ heard = [s \in ServiceId |-> 0]
  /\ allowed = [s \in ServiceId |-> 0]
  /\ suspects = {}

Tick ==
  /\ running
  /\ now' = now + 1
  /\ UNCHANGED <<running, members, heard, allowed, suspects>>

Join(s, stamp, timeout) ==
  /\ running
  /\ s \notin members
  /\ members' = members \cup {s}
  /\ heard' = [heard EXCEPT ![s] = stamp]
  /\ allowed' = [allowed EXCEPT ![s] = timeout]
  /\ UNCHANGED <<now, running, suspects>>

HearOf(s, stamp) ==
  /\ running
  /\ s \in members
  /\ heard' = [heard EXCEPT ![s] = stamp]
  /\ UNCHANGED <<now, running, members, allowed, suspects>>

FindLate(s) ==
  /\ running
  /\ s \in members
  /\ Late(now, heard[s], allowed[s])
  /\ suspects' = suspects \cup {s}
  /\ UNCHANGED <<now, running, members, heard, allowed>>

Leave(s) ==
  /\ running
  /\ s \in suspects
  /\ members' = members \ {s}
  /\ suspects' = suspects \ {s}
  /\ heard' = [heard EXCEPT ![s] = 0]
  /\ allowed' = [allowed EXCEPT ![s] = 0]
  /\ UNCHANGED <<now, running>>

End ==
  /\ running
  /\ running' = FALSE
  /\ UNCHANGED <<now, members, heard, allowed, suspects>>

Next ==
  \/ Tick \/ End
  \/ \E s \in ServiceId :
       \/ \E stamp \in Stamp :
            HearOf(s, stamp) \/ \E timeout \in Timeout : Join(s, stamp, timeout)
       \/ FindLate(s) \/ Leave(s)

Spec == Init /\ [][Next]_vars
=============================================================================
