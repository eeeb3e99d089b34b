----------------------- MODULE ClientConnectionProofs -----------------------
(***************************************************************************)
(* A client whose user calls connect once is never stranded; one that      *)
(* switches its heartbeat off falls silent after one presence at most.     *)
(***************************************************************************)
EXTENDS ClientConnection, TLAPS

(* Where the two threads can be.                                           *)
PcType ==
  /\ pc \in [Thread -> {"outside", "test", "connection", "channel", "retry",
                        "handlers", "flag", "dispatch?", "dispatch", "asleep"}]
  /\ pc[User] \notin {"dispatch", "asleep"} /\ pc[Event] # "outside"

(* The libevent thread starts when the user's call of connect is over, so  *)
(* that only one of the two is in connect.                                 *)
TurnsInv ==
  /\ ~dispatching => pc[Event] = "dispatch"
  /\ dispatching => pc[User] = "outside"
  /\ calls \in Nat
  /\ (dispatching \/ pc[User] # "outside") => calls = 1

(* Whoever is at work on a new connection, or about to, has seen connected *)
(* FALSE.                                                                  *)
RetryingInv ==
  \A t \in Thread :
    pc[t] \in {"asleep", "connection", "channel", "retry"} => ~connected

(* A dead channel is known to be, and somebody is about to replace it.     *)
DeadInv ==
  Dead => /\ ~connected
          /\ \E t \in Thread :
               pc[t] \in {"asleep", "test", "connection", "channel", "retry"}

(* No error of a channel has been reported before it failed.               *)
ReportedInv == Usable => ~reported

IInv == PcType /\ TurnsInv /\ RetryingInv /\ DeadInv /\ ReportedInv

LEMMA InvInit == Init => IInv
BY ThreadAssumption, MaxConnectsAssumption
   DEF Init, IInv, PcType, TurnsInv, RetryingInv, DeadInv, ReportedInv, Dead,
       Usable, Thread

LEMMA PcStep == PcType /\ [Next]_vars => PcType'
<1> SUFFICES ASSUME PcType, [Next]_vars PROVE PcType'
  OBVIOUS
<1> USE ThreadAssumption DEF PcType, Goto, Thread
<1>1. CASE Call
  BY <1>1 DEF Call
<1>2. ASSUME NEW t \in Thread, ConnectStep(t)
      PROVE  PcType'
  BY <1>2 DEF ConnectStep, Test, NewConnection, NewChannel, Retry, SetHandlers,
              SetFlag, StartDispatch, Back
<1>3. ASSUME NEW t \in Thread, Throw(t)
      PROVE  PcType'
  BY <1>3 DEF Throw
<1>4. CASE OnError \/ Reconnect
  BY <1>4 DEF OnError, Reconnect
<1>5. CASE UNCHANGED pc
  BY <1>5
<1> QED
  BY <1>1, <1>2, <1>3, <1>4, <1>5
     DEF Next, LoopStep, HeartbeatStep, Establish, Fail, TestHeartbeat, GetChannel,
         Publish, WakeHeartbeat, EnableHeartbeat, DisableHeartbeat, connectVars, vars

LEMMA InvStep ==
  ASSUME MaxConnects = 1
  PROVE  IInv /\ [Next]_vars => IInv'
<1> SUFFICES ASSUME IInv, [Next]_vars PROVE IInv'
  OBVIOUS
<1> DEFINE Rest == TurnsInv /\ RetryingInv /\ DeadInv /\ ReportedInv
<1>0. PcType'
  BY PcStep DEF IInv
<1> USE ThreadAssumption
    DEF IInv, PcType, TurnsInv, RetryingInv, DeadInv, ReportedInv, Dead, Usable,
        Goto, Thread
<1>1. CASE Call
  BY <1>1 DEF Call, channelVars
<1>2. ASSUME NEW t \in Thread, ConnectStep(t) \/ Throw(t)
      PROVE  Rest'
  <2>1. CASE Test(t)
    BY <2>1 DEF Test, channelVars
  <2>2. CASE NewConnection(t)
    BY <2>2 DEF NewConnection
  <2>3. CASE NewChannel(t)
    BY <2>3 DEF NewChannel
  <2>4. CASE Throw(t) \/ Retry(t)
    BY <2>4 DEF Throw, Retry, channelVars
  <2>5. CASE SetHandlers(t)
    BY <2>5 DEF SetHandlers
  <2>6. CASE SetFlag(t)
    BY <2>6 DEF SetFlag, channelVars
  <2>7. CASE StartDispatch(t)
    BY <2>7 DEF StartDispatch, Back, channelVars
  <2> QED
    BY <1>2, <2>1, <2>2, <2>3, <2>4, <2>5, <2>6, <2>7 DEF ConnectStep
<1>3. CASE Fail \/ Establish
  BY <1>3 DEF Fail, Establish, connectVars
<1>4. CASE OnError
  BY <1>4 DEF OnError, ClearFlag
<1>5. CASE Reconnect
  BY <1>5 DEF Reconnect, channelVars
<1>6. CASE UNCHANGED <<channelVars, connectVars, calls>>
  BY <1>6 DEF channelVars, connectVars
<1>7. CASE HeartbeatStep \/ EnableHeartbeat \/ DisableHeartbeat \/ UNCHANGED vars
  BY <1>6, <1>7
     DEF HeartbeatStep, TestHeartbeat, GetChannel, Publish, WakeHeartbeat,
         EnableHeartbeat, DisableHeartbeat, vars
<1> QED
  BY <1>0, <1>1, <1>2, <1>3, <1>4, <1>5, <1>7 DEF Next, LoopStep

(* If connect is called once, the client goes on retrying as long as its   *)
(* channel is dead: each loss of the connection leads to another attempt.  *)
THEOREM NotStranded ==
  ASSUME MaxConnects = 1
  PROVE  Spec => []NeverStranded
<1>1. Init => IInv
  BY InvInit
<1>2. IInv /\ [Next]_vars => IInv'
  BY InvStep
<1>3. IInv => NeverStranded
  BY DEF IInv, DeadInv, NeverStranded
<1> QED
  BY <1>1, <1>2, <1>3, PTL DEF Spec

-----------------------------------------------------------------------------
(* A presence under way when the heartbeat is disabled is the last.        *)
StaleInv ==
  ~enabled => stale = 0 \/ (stale = 1 /\ heartbeatPc \in {"asleep", "test"})

(* After disable_heartbeat has returned, however often the client connects *)
(* and reconnects, at most one more presence is sent.                      *)
THEOREM AtMostOneStale == Spec => []OneStalePresence
<1>1. Init => StaleInv
  BY DEF Init, StaleInv
<1>2. StaleInv /\ [Next]_vars => StaleInv'
  <2> SUFFICES ASSUME StaleInv, [Next]_vars PROVE StaleInv'
    OBVIOUS
  <2>1. CASE UNCHANGED <<enabled, stale, heartbeatPc>>
    BY <2>1 DEF StaleInv
  <2>2. CASE HeartbeatStep \/ EnableHeartbeat \/ DisableHeartbeat
    BY <2>2
       DEF StaleInv, HeartbeatStep, TestHeartbeat, MaySend, GetChannel,
           Publish, WakeHeartbeat, EnableHeartbeat, DisableHeartbeat
  <2> QED
    BY <2>1, <2>2
       DEF Next, ConnectStep, LoopStep, Call, Test, NewConnection, NewChannel,
           Throw, Retry, SetHandlers, SetFlag, StartDispatch, Fail, Establish,
           OnError, Reconnect, presenceVars, vars
<1>3. StaleInv => OneStalePresence
  BY DEF StaleInv, OneStalePresence
<1> QED
  BY <1>1, <1>2, <1>3, PTL DEF Spec

-----------------------------------------------------------------------------
(* Types, in groups of variables that change together.                     *)
ChannelType ==
  /\ link \in {"none", "opening", "consuming", "failed", "detached"}
  /\ handled \in BOOLEAN /\ reported \in BOOLEAN

FlagType == connected \in BOOLEAN /\ dispatching \in BOOLEAN

CallsType == calls \in 0 .. MaxConnects

PresenceType ==
  /\ enabled \in BOOLEAN
  /\ heartbeatPc \in {"test", "get", "publish", "asleep"}
  /\ held \in BOOLEAN /\ reached \in BOOLEAN
  /\ stale \in Nat

LEMMA ChannelTypeStep == ChannelType /\ [Next]_vars => ChannelType'
BY Zenon
   DEF ChannelType, Next, ConnectStep, LoopStep, HeartbeatStep, Call, Test,
       NewConnection, NewChannel, Throw, Retry, SetHandlers, SetFlag,
       StartDispatch, Fail, Establish, OnError, Reconnect, TestHeartbeat,
       GetChannel, Publish, WakeHeartbeat, EnableHeartbeat, DisableHeartbeat,
       channelVars, vars

LEMMA FlagTypeStep == FlagType /\ [Next]_vars => FlagType'
BY Zenon
   DEF FlagType, Next, ConnectStep, LoopStep, HeartbeatStep, Call, Test,
       NewConnection, NewChannel, Throw, Retry, SetHandlers, SetFlag,
       StartDispatch, Fail, Establish, OnError, ClearFlag, Reconnect,
       TestHeartbeat, GetChannel, Publish, WakeHeartbeat, EnableHeartbeat,
       DisableHeartbeat, connectVars, vars

LEMMA CallsTypeStep == CallsType /\ [Next]_vars => CallsType'
<1> SUFFICES ASSUME CallsType, [Next]_vars PROVE CallsType'
  OBVIOUS
<1>1. CASE Call
  BY <1>1, MaxConnectsAssumption DEF Call, CallsType
<1>2. CASE UNCHANGED calls
  BY <1>2 DEF CallsType
<1> QED
  BY <1>1, <1>2
     DEF Next, ConnectStep, LoopStep, HeartbeatStep, Test, NewConnection,
         NewChannel, Throw, Retry, SetHandlers, SetFlag, StartDispatch, Fail,
         Establish, OnError, Reconnect, TestHeartbeat, GetChannel, Publish,
         WakeHeartbeat, EnableHeartbeat, DisableHeartbeat, vars

LEMMA PresenceTypeStep == PresenceType /\ [Next]_vars => PresenceType'
<1> SUFFICES ASSUME PresenceType, [Next]_vars PROVE PresenceType'
  OBVIOUS
<1>1. CASE \E t \in Thread : NewChannel(t)
  BY <1>1, Zenon DEF NewChannel, PresenceType
<1>2. CASE Publish
  <2>1. stale' \in Nat
    BY <1>2 DEF Publish, PresenceType
  <2> QED
    BY <1>2, <2>1, Zenon DEF Publish, PresenceType
<1>3. CASE TestHeartbeat \/ GetChannel \/ WakeHeartbeat
  BY <1>3, Zenon DEF TestHeartbeat, GetChannel, WakeHeartbeat, PresenceType
<1>4. CASE EnableHeartbeat \/ DisableHeartbeat
  <2>1. stale' \in Nat
    BY <1>4 DEF EnableHeartbeat, DisableHeartbeat
  <2> QED
    BY <1>4, <2>1, Zenon DEF EnableHeartbeat, DisableHeartbeat, PresenceType
<1>5. CASE UNCHANGED <<enabled, presenceVars>>
  BY <1>5, Zenon DEF presenceVars, PresenceType
<1> QED
  BY <1>1, <1>2, <1>3, <1>4, <1>5
     DEF Next, ConnectStep, LoopStep, HeartbeatStep, Call, Test, NewConnection,
         Throw, Retry, SetHandlers, SetFlag, StartDispatch, Fail, Establish,
         OnError, Reconnect, presenceVars, vars

(* Every variable keeps its type; the libevent thread is never outside     *)
(* connect and the event loop, and the user never runs the event loop.     *)
THEOREM TypeCorrect == Spec => []TypeOK
<1> DEFINE Types == PcType /\ ChannelType /\ FlagType /\ CallsType /\ PresenceType
<1>1. Init => Types
  <2> SUFFICES ASSUME Init PROVE Types
    OBVIOUS
  <2>1. PcType
    BY InvInit DEF IInv
  <2>2. ChannelType /\ FlagType
    BY Zenon DEF Init, ChannelType, FlagType
  <2>3. CallsType
    BY MaxConnectsAssumption DEF Init, CallsType
  <2>4. PresenceType
    <3>1. stale \in Nat
      BY DEF Init
    <3> QED
      BY <3>1, Zenon DEF Init, PresenceType
  <2> QED
    BY <2>1, <2>2, <2>3, <2>4
<1>2. Types /\ [Next]_vars => Types'
  BY PcStep, ChannelTypeStep, FlagTypeStep, CallsTypeStep, PresenceTypeStep
<1>3. Types => TypeOK
  BY DEF PcType, ChannelType, FlagType, CallsType, PresenceType, TypeOK
<1> QED
  BY <1>1, <1>2, <1>3, PTL DEF Spec

-----------------------------------------------------------------------------
(* What the missing mutex would be for.                                    *)

InConnect(t) == pc[t] \notin {"outside", "dispatch", "asleep"}

(* If connect is called once, the user and the libevent thread are never   *)
(* both in connect, although nothing excludes them: the thread that could  *)
(* call it again is started by the last step of the first call.            *)
THEOREM ConnectIsExclusive ==
  ASSUME MaxConnects = 1
  PROVE  Spec => []~(InConnect(User) /\ InConnect(Event))
<1>1. Init => IInv
  BY InvInit
<1>2. IInv /\ [Next]_vars => IInv'
  BY InvStep
<1>3. IInv => ~(InConnect(User) /\ InConnect(Event))
  BY DEF IInv, TurnsInv, InConnect
<1> QED
  BY <1>1, <1>2, <1>3, PTL DEF Spec

(* From SetHandlers on, the channel in hand has its error handler.         *)
HandlersInv ==
  /\ connected => handled /\ link \notin {"none", "detached"}
  /\ \A t \in Thread :
       /\ pc[t] = "handlers" => ~connected /\ link \notin {"none", "detached"}
       /\ pc[t] = "flag"     => handled /\ link \notin {"none", "detached"}

LEMMA HandlersStep ==
  ASSUME MaxConnects = 1
  PROVE  IInv /\ HandlersInv /\ [Next]_vars => HandlersInv'
<1> SUFFICES ASSUME IInv, HandlersInv, [Next]_vars PROVE HandlersInv'
  OBVIOUS
<1> USE ThreadAssumption
    DEF IInv, PcType, TurnsInv, RetryingInv, HandlersInv, Usable, Goto, Thread
<1>1. CASE Call
  BY <1>1 DEF Call, channelVars
<1>2. ASSUME NEW t \in Thread, ConnectStep(t) \/ Throw(t)
      PROVE  HandlersInv'
  <2>1. CASE Test(t)
    BY <2>1 DEF Test, channelVars
  <2>2. CASE NewConnection(t)
    BY <2>2 DEF NewConnection
  <2>3. CASE NewChannel(t)
    BY <2>3 DEF NewChannel
  <2>4. CASE Throw(t) \/ Retry(t)
    BY <2>4 DEF Throw, Retry, channelVars
  <2>5. CASE SetHandlers(t)
    BY <2>5 DEF SetHandlers
  <2>6. CASE SetFlag(t)
    BY <2>6 DEF SetFlag, channelVars
  <2>7. CASE StartDispatch(t)
    BY <2>7 DEF StartDispatch, Back, channelVars
  <2> QED
    BY <1>2, <2>1, <2>2, <2>3, <2>4, <2>5, <2>6, <2>7 DEF ConnectStep
<1>3. CASE Fail \/ Establish
  BY <1>3 DEF Fail, Establish, connectVars
<1>4. CASE OnError
  BY <1>4 DEF OnError, ClearFlag
<1>5. CASE Reconnect
  BY <1>5 DEF Reconnect, channelVars
<1>6. CASE UNCHANGED <<link, handled, connectVars>>
  BY <1>6 DEF connectVars
<1>7. CASE HeartbeatStep \/ EnableHeartbeat \/ DisableHeartbeat \/ UNCHANGED vars
  BY <1>6, <1>7
     DEF HeartbeatStep, TestHeartbeat, GetChannel, Publish, WakeHeartbeat,
         EnableHeartbeat, DisableHeartbeat, channelVars, vars
<1> QED
  BY <1>1, <1>2, <1>3, <1>4, <1>5, <1>7 DEF Next, LoopStep

(* And connected, which is set before anything has been established, never *)
(* hides a loss: while it is TRUE, the channel is on its way, in use, or   *)
(* has failed and will report it, to an error handler that is in place.    *)
THEOREM NoLossIsHidden ==
  ASSUME MaxConnects = 1
  PROVE  Spec => [](connected => /\ handled
                                 /\ link \in {"opening", "consuming", "failed"}
                                 /\ link = "failed" => ~reported)
<1>1. Init => IInv /\ HandlersInv /\ ChannelType
  BY InvInit, ThreadAssumption DEF Init, HandlersInv, ChannelType, Thread
<1>2. IInv /\ HandlersInv /\ ChannelType /\ [Next]_vars
        => (IInv /\ HandlersInv /\ ChannelType)'
  BY InvStep, HandlersStep, ChannelTypeStep
<1>3. IInv /\ HandlersInv /\ ChannelType
        => (connected => /\ handled
                         /\ link \in {"opening", "consuming", "failed"}
                         /\ link = "failed" => ~reported)
  BY DEF IInv, DeadInv, Dead, HandlersInv, ChannelType
<1> QED
  BY <1>1, <1>2, <1>3, PTL DEF Spec
=============================================================================
