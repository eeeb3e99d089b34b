---------------------------- MODULE RecordExpiry ----------------------------
(***************************************************************************)
(* The arithmetic of a ServiceDiscoveryRecord: how the heartbeat carried   *)
(* by an answer is stored and when the record counts as expired.           *)
(*                                                                         *)
(* Clock readings are in ticks, TicksPerSecond of them to a second         *)
(* (nanoseconds in the build, a few in the checked instances); heartbeats  *)
(* and timeouts are in whole seconds, as in the code.                      *)
(***************************************************************************)
EXTENDS Integers

CONSTANTS
  TicksPerSecond,  \* resolution of std::chrono::system_clock
  IntMax           \* INT_MAX of the build, 2^31 - 1

ASSUME TicksAssumption == TicksPerSecond \in Nat \ {0}
ASSUME IntMaxAssumption == IntMax \in Nat

(* A JSON integer of any size read with get<int>(): the conversion keeps   *)
(* the low bits, in two's complement.                                      *)
ToInt(n) == ((n + IntMax + 1) % (2 * (IntMax + 1))) - (IntMax + 1)

(* duration_cast<seconds>(now - last): truncation towards zero.            *)
TimeDifference(now, last) ==
  LET ticks == now - last * TicksPerSecond
  IN  IF ticks >= 0 THEN ticks \div TicksPerSecond
                    ELSE -((-ticks) \div TicksPerSecond)

(* Faulty forms: not strict; operands swapped.                             *)
IsExpiredEarly(now, last, timeout) == TimeDifference(now, last) >= timeout

IsExpiredSwapped(now, last, timeout) == -TimeDifference(now, last) > timeout

(* is_expired(): strictly more than heartbeat_timeout whole seconds.       *)
IsExpired(now, last, timeout) == TimeDifference(now, last) > timeout

(* What the comments of the code call expired: more than heartbeat_timeout *)
(* seconds without a heartbeat, to the tick.                               *)
Late(at, last, timeout) == at > (last + timeout) * TicksPerSecond
=============================================================================
