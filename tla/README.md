# TagTwo network discovery in TLA+

Specifications, model-checking configurations and machine-checked proofs for the
code in `src/`: a C++ client library with which the services of a distributed
application announce themselves and learn of each other through a RabbitMQ
broker. All names and line numbers below are those of
`src/service/src/ServiceDiscoveryClient.cpp` (`C:`),
`.../ServiceDiscoveryClient.h` (`CH:`), `ServiceDiscoveryRecord.cpp` (`R:`),
`.../ServiceDiscoveryRecord.h` (`RH:`), `.../Queue/NNGClient.h` (`N:`),
`.../Util/SocketUtil.h` (`SU:`), `util/JsonBuilder.cpp` (`JB:`) and `main.cpp` (`M:`).

    tlc -config registry_safety.cfg MCServiceRegistry    # check one run
    tlapm ServiceRegistryProofs.tla                       # check the proofs of one module

## 1. The system

A service owns a `ServiceDiscoveryClient`. Every `heartbeat_interval` seconds the
client publishes a *presence* (service, id, timeout, time stamp, metadata) on the
exchange `amq.topic`. A *controller* (a Python program that `src/README.md`
describes and the repository does not contain) collects presences and publishes
*answers*: JSON arrays that list the services it knows. Every client consumes the
answers from an exclusive queue of its own and keeps the services it has heard of
in a map, from which a monitor thread removes those whose last heartbeat is older
than their timeout. Users read the map, and the metadata of each record.

Four kinds of threads touch one client:

| thread | runs | takes |
|---|---|---|
| user threads | `connect`, `get_services`, `get_existing_services`, `enable_heartbeat`, `disable_heartbeat`, `add_metadata_*`, methods of records | `services_mutex` in the two getters |
| libevent thread | `process_message`, the channel's callbacks, `connect` from the error handler | nothing |
| monitor thread (detached) | `check_services` every `service_check_interval` | `services_mutex` |
| heartbeat thread (detached) | `send_presence` every `heartbeat_interval` | nothing |

### Components

| component | state | operations | interacts by |
|---|---|---|---|
| Record expiry | `_last_heartbeat`, `heartbeat_timeout` of a record | `is_expired`, `time_difference`, `get<int>()` of a stamp | called by `check_services`; written by `process_message` |
| Service registry | `services`, `services_mutex` | `process_message`, `check_services`, `get_services`, `get_existing_services` | map shared by three kinds of threads |
| Record metadata cache | `metadata`, `metadata_json`, `metadata_mutex` | `update_metadata`, `get_metadata_json`, `get_metadata` | records are shared pointers in the map and in users' vectors |
| Client connection | `connection`, `channel`, `connected`, `libevent_thread` | `connect`, error handler, queue declaration | AMQP-CPP callbacks on the libevent thread |
| Presence | `heartbeat_enabled`, `metadata` | `start_heartbeat_thread`, `send_presence`, enable, disable | publishes on the channel that `connect` replaces |
| Client lifecycle | the threads, `stor_monitoring`, `evbase` | constructor, destructor | starts and abandons the threads above |
| JSON builder | one JSON document | `set`, `toJSON` | written by users, dumped by the heartbeat thread |
| NNG client | `_connected`, `nextConnect`, `_fail_counter`, the socket | `connect`, `listen`, `send`, `receive` | independent of the rest; used by one thread |
| TCP endpoint check | none | `checkTCPEndpoint` in `SocketUtil.h` | POSIX sockets |
| DotEnv | `env_vars` | `load`, `get`, `require` | used by the simulation |
| Simulation (`main.cpp`) | 500 clients that switch their heartbeats off and on, one listener | `simulate_service`, `main` | the client's public interface |
| Controller (external) | unknown | reads presences, publishes answers | the broker |
| Python bindings, buffer protocol, web page, build files | none the client reads | - | - |

### What is hard, and what makes each component correct

- *Registry.* `process_message` does not take `services_mutex`, so its writes
  fall between the steps of a traversal: a service is refreshed between
  `is_expired()` and `erase()`, a key disappears between `count()` and `at()`, an
  insertion rehashes the map under an iterator. One malformed entry or one
  unparsable message in the middle of a stream takes the rest with it. Correct
  means: services leave only because they were late, what a caller gets is the
  map and not a part of it, a scan leaves nothing overdue behind, everybody gets
  the mutex in the end.
- *Expiry.* Truncating division, a strict comparison, 32-bit stamps.
- *Metadata.* `metadata_json` is tested before the mutex is taken and read again
  after it has been released; the caller keeps a raw pointer. Correct means: the
  cached document is that of the current string, and a caller gets a document
  that was current during its call.
- *Connection.* `connect` runs on two threads at once, `connected` is set before
  anything has been established, and only an error callback takes it back.
  Correct means: a dead channel is never left to itself, and once the broker
  stays, answers are consumed.
- *Presence.* Flag and channel are tested before they are used. Correct means: a
  client that leaves its heartbeat on is heard of, one that switches it off falls
  silent.
- *Lifecycle.* Two threads are detached and one is joined after its event base has
  been freed. Correct means: nothing runs on members that are gone, and the
  destructor returns. The code achieves it for the libevent thread only.
- *JSON builder.* `set` goes down a document level by level, creates what is missing
  and may throw half way, while the heartbeat thread dumps the document. Correct
  means: a call has the effect of one assignment, or none.
- *NNG client.* Attempts to dial are limited in rate although dials block and
  sends fail in between; the loss of a peer shows only in a send that fails.
- *TCP endpoint check.* Seven ways out of a loop that owns a socket, and a network
  that refuses and resets between two calls. Correct means: everything is released
  on every way, and "reachable" is the truth.
- *The whole.* A service that is there is known to the others, one that has gone is
  forgotten, although its presence passes through two queues, a controller with a
  period of its own, two clocks, and connections that break.

Every hazard of this kind, with its line and with the properties that would catch
it, is listed in `PROJECT.json`; the ones no property covers say why.

## 2. The modules

| module | models | proofs in |
|---|---|---|
| `RecordExpiry` | the arithmetic of stamps and timeouts, as operators | `ServiceRegistryProofs` |
| `ServiceRegistry` (extends it) | the map and the threads that share it | `ServiceRegistryProofs` |
| `Membership` (extends `RecordExpiry`) | abstract: the services a client knows, without threads | `ServiceRegistryProofs` |
| `MCServiceRegistry` | symmetry of readers and ids for TLC | |
| `RecordMetadata` | one record's metadata and its cached document | `RecordMetadataProofs` |
| `ClientConnection` | `connect`, error handler, event loop, heartbeat thread | `ClientConnectionProofs` |
| `ClientLifecycle` | constructor, threads, destructor | `ClientLifecycleProofs` |
| `JsonBuilder` | the metadata document and `set` | `JsonBuilderProofs` |
| `MCJsonBuilder` | keys and values for TLC | |
| `NNGClient` | dial, listen, send and their bookkeeping | `NNGClientProofs` |
| `EndpointCheck` | one call of `checkTCPEndpoint` and the network under it | `EndpointCheckProofs` |
| `Discovery` (instantiates `Membership`) | a service, broker, controller and a listener, with time | `DiscoveryProofs` |

Each modelled definition is tied to its lines in `PROJECT.json`, under `map`.
Some modules define *faulty forms*, operators next to the one they vary (a dropped
guard, a missing reset); nothing uses them. They are the mutations by which each
property is shown to be able to fail.

**RecordExpiry.** `ToInt` is `get<int>()` in an `int` of any width (two's
complement), `TimeDifference` the truncating `duration_cast`, `IsExpired` the strict
comparison. The clock counts ticks, `TicksPerSecond` to a second.

**ServiceRegistry.** One action is one access to the map.
`ReceiveAnswer`, `Lookup`, `UpdateHeartbeat`, `UpdateMetadata` and `Emplace` are
`process_message` (C:130-197): extraction and `count()`, the two `at()` calls, the
insertion. `KeyGone` is the exception of `at()`, `Abandon` the `return` of the catch
clause, `ReceiveUnparsable` the exception of `json::parse`, which nothing on the
libevent thread catches. `BeginScan`, `Examine`, `Erase`, `EndScan` are
`check_services`; `Call`, `BeginCopy`, `Copy`, `EndCopy` the two getters, which differ
only in what they copy of each element. A traversal is the set of keys it has yet
to visit. The data race is modelled by its outcomes: `Scramble` (a rehash sends a
traversal anywhere), `LostWrite` (an update reaches a record already out of the
map) and `RaceCrash`. What a torn read of a machine word could give is left out.
`get_services(type)` filters the vector of `get_services` by a constant of the
record and is not an action of its own. `result.reserve(services.size())` before the
lock (C:373) has no effect on the result.

**Membership** is the abstract specification the registry implements: services
`Join`, are heard of again (`HearOf`), are found late (`FindLate`) and `Leave`, in
single steps. The refinement mapping `Members` in `ServiceRegistry` takes the keys of
the map for the members, the stamps and timeouts *stored in the records* for what
was heard and allowed, and the service at the monitor's cursor for the suspect. That
being found late is final is the one concession to the code, which erases a service
even if an answer refreshes it after `is_expired()`.

**RecordMetadata.** One action is one access to a field: `CallUpdate`, `UpdateLocks`,
`Assign`, `Reset` are `update_metadata` (R:52); `CallGetJson`, `TestEmpty`,
`TestParsed`, `ReaderLocks`, `Parse`, `Return` are `get_metadata_json` (R:78), with the
branch on which `json::parse` throws; `Forget` is the caller that is done with the
pointer. `metadata_json` is an address, since what is at stake is which document a
pointer refers to and when it is freed. `get_metadata` copies without the mutex; its
result is not modelled, since the copy races inside the string class.

**ClientConnection.** The steps of `connect` (C:199-277), for the thread `User` and for
`Event`, the libevent thread: `Test`, `NewConnection`, `NewChannel`, `SetHandlers`,
`SetFlag`, `StartDispatch`, and `Throw` and `Retry` for the catch clause. `OnError` and
`Reconnect` are the error handler, `Establish` the success of handshake, queue
declaration and consumption, `Fail` the broker or the network. Only the current
channel is described: replacing it destroys the old one with its callbacks.
`link` says what has become of it. `detached` is a channel whose connection has
been destroyed, which never reports anything. `TestHeartbeat`, `GetChannel`,
`Publish`, `WakeHeartbeat` are the heartbeat thread (C:75-112): the channel is tested
once and got again. Not modelled: the undefined outcomes of the races on `channel`
itself, and that an event loop without events ends. With one caller of `connect` it
never has none: the error handler has made a new connection before it returns to
the loop.

**NNGClient.** `connect`, `listen` and `send` of a client that one thread uses. Time is
relative: `wait` is `nextConnect - now`. `Attempt` sets `nextConnect` before a dial that
takes `spent` of the interval, as N:111 does. `ListenSucceeds` may end the process:
`listen` has no return statement on its success path (N:100). `PeerLost` and
`PeerReturns` are nng's. Calls that change nothing are stuttering steps.

**ClientLifecycle.** The owner goes through the constructor (C:320-355), `Connect` (the
part of `connect` that creates the libevent thread, C:270) and the destructor line by
line (C:300-315): `Stop`, `LoopBreak`, `FreeBase`, `JoinMonitor`, `JoinLibevent`,
`DestroyMembers`. `Test`, `Round`, `Wake` are the loops of the two detached threads
(C:64-70, C:76-86). `EnterLoop` clears the request to leave, as `event_base_dispatch`
does; `LeaveLoop` is not fair, since nothing in the code makes `event_base_loopbreak`
wake a loop that waits. `NullThread` is the dereference of `libevent_thread` (C:312)
when `connect` was never called. Undefined behaviour is modelled by the outcomes the
build can produce: `FreedUnderLoop` (the loop goes on with a base that is gone: an
error, a crash, or waiting for ever), `DetachFromFreed` (the connection, a member,
takes its events off that base) and `UseAfterDestruction` (a detached thread reads a
member of a destroyed client). The module has no parameters, so that its run is
exhaustive; the proofs add the invariant the destructor relies on, and why it holds.

**JsonBuilder.** A document is a function from paths to what is at the path: an object,
null, or a scalar (anything `operator[]` with a string throws on). `Call` splits the key
(JB:29), `Index` is one `operator[]` with the `find` before it (JB:15-24), `Assign` the
assignment of a new level or of the value, `Throw` the exception. `RaceCrash` is a dump
by `send_presence` (C:102) that overlaps a change; one that falls between two steps sees
`doc` as it is. `Above` and `WithValue` are the reference: what the assignment means.

**EndpointCheck.** `Resolve`, `Socket`, `Connect`, `Select`, `GetSockOpt`, `FreeAddrInfo` are
the calls of SU:31-87, each with all its outcomes; `Handshake` and `Refuse` are the
network, which answers, refuses and resets at any moment. `open` and `allocated` are
what the call has to give back.

**Discovery.** One service and one listener, each with a client. The heartbeat thread
(`Beat`, C:75-112) publishes the service's own clock (C:101); the simulation loop
(`Simulate`, M:35-59) switches it off and on; `Link`, `LoseLink`, `Consume`, `LoseQueue` are
the two connections, which take undelivered presences and the exclusive answer
queue with them. `ProcessAnswer`, `PassCheck`, `FindLate`, `Erase` are the listener's
libevent and monitor threads: the map changes by the actions of `Membership`, so that an
answer may come between `FindLate` and `Erase`. `Membership` says what may become of the
map, not that an answer or a check has any effect, and the other services can see to it
that one has none. `DropAnswer`: an entry before this service's is malformed, or its key is
erased between `count()` and `at()`, and the rest of the answer is abandoned (C:189-192;
`Abandon` and `KeyGone` in the registry). `MissLate`: another service is inserted while the
monitor walks the map, and the walk passes this one by (C:174; `Scramble` in the registry).
Nothing limits how often either happens. Two history variables keep account:
`steadySince` begins anew when an answer is dropped, `missed` says that the last check was
such a walk. Broker and controller are external: queues keep their order, the controller
answers at least every `AnswerPeriod` with the stamp it read last and may drop a
silent service (`Forget`), or not. A tick is a second and time stands still while
something is due: every delay is anything between none and its bound. The end of the
listener's process is not an action of this module: what it says of the listener holds
up to then.

## 3. The runs

| run | module | states | asks |
|---|---|---|---|
| `registry_safety` | MCServiceRegistry | 2.3 million | why services leave, whether snapshots and scans are complete, whether the map changes as `Membership` says |
| `registry_liveness` | MCServiceRegistry | 31 000 | whether the overdue leave, calls return and answers end |
| `registry_erase_refreshed` | MCServiceRegistry | violation | only expired services erased? |
| `metadata` | RecordMetadata | 124 000 | coherence of the cached document, results of calls, and that they end |
| `metadata_null_result` | RecordMetadata | violation | null only for empty metadata? |
| `connection` | ClientConnection | 442 | reconnection and presence with one call of `connect` |
| `connection_stranded` | ClientConnection | violation | the same with a second call of `connect` |
| `nng` | NNGClient | 263 | rate limit, flag, reconnection |
| `lifecycle` | ClientLifecycle | 1 971 | which threads still run when the client goes, and whether its destructor returns |
| `json` | MCJsonBuilder | 12 000 | what a call of `set` does, in the end and on its way |
| `endpoint` | EndpointCheck | 779 | resources, result and termination of the endpoint check |
| `discovery` | Discovery | 4.1 million | how long until a service is known, and until it is forgotten |

### What the passing runs show

*Registry.* `DepartureJustified`: a service leaves the map only by the monitor, alone
in the mutex, and only if at the moment `is_expired()` looked more than
`heartbeat_timeout` seconds had passed since the heartbeat then last reported. This
is the strongest form that holds: at the moment of the erasure the service may be
fresh again (below). `SnapshotExact`: a returned snapshot contains only services in
the map, and is the whole map unless an insertion raced with it. `ScanThorough`: a
scan no insertion raced with leaves none of the services that were overdue when it
began. `ImplementsMembership`: whatever the interleaving, no service is
lost, revived, given another one's stamp or another timeout, or removed without having
been found late. `OverdueLeaves`, `CallReturns`, `AnswerEnds`: the three things that must
eventually happen, with several threads after one mutex and races throughout.

*Metadata.* `CacheCoherent`: whatever the order of tests, locks and parses, the
document in the cache was parsed from the string of the last settled update. The
unlocked test (R:86) makes threads parse twice; it does not make the cache stale,
because both parses happen under the mutex. `ReturnsCurrentJson`: the pointer read
after the mutex is released is null or a document that was current during the call.

*Connection.* `NeverStranded`, `ConsumesInTheEnd`: the optimistic flag is harmless for
one caller because the error handler is set before the event loop can report the
error. `OneStalePresence`: `disable_heartbeat` may be followed by one presence, never
by two. `HeardOf`: the heartbeat reaches the broker although it may be published on
a channel that is not open yet, or no longer there.

*Lifecycle.* `OneMoreRound`: after `stor_monitoring` is set a detached thread ends the
round it is in and no other, as long as it can read the flag; `DetachedEnd`: if the
destructor takes long enough, both end. `LoopEndsFirst`: whatever the freed base does to
the libevent thread, the members are not destroyed before it has ended.
`DestructionEnds`: the destructor returns, unless undefined behaviour ends the process or
leaves the loop waiting on a base that is gone. It is the freeing of the base, not
`event_base_loopbreak`, that makes it return: if the base is kept, the request may be
cleared by `EnterLoop`, or never be looked at.

*JSON builder.* `SetsExactly`: however many levels are found, created or turned from null
into objects, a call that returns has set its value, made objects of what is above, and
left everything else alone. `ThrowsUnchanged`: although levels are created on the way, a
call that throws has changed nothing, because what stops it cannot be below a new
level. `KeepsOthers`: a presence sent during a call shows the document before it, the
old value included, and at most the way to the key besides.

*Endpoint check.* `NothingLeft`, `AsksInTurn`, `Returns`; `ReportsTruth`: with a timeout,
reachable means that the address completed a handshake. The hypothesis is needed:
with a negative timeout the code reads `SO_ERROR` of a connection still in progress
(SU:56), finds none, and reports success.

*Discovery.* `SteadyIsMember`: with a timeout of at least heartbeat interval, way to the
controller, answer period, way back and clock difference together (`Age` + `Skew`), a
service left alone is known after `Age` and the time of one more answer, and stays
known until the next disturbance. Disturbances are a lost connection, a heartbeat
switched off, and an answer dropped by the listener because of another service's entry;
missed checks are none. After any number of them the same wait brings the service
back. Without the new wait after a dropped answer TLC finds the service unknown or
expired: a timeout of `Age` + `Skew` has no room for one. The bound is tight: the additional answer is due to the erasure that was decided
before the first fresh answer and carried out after it (C:122), and disappears if check
and erasure are one step. `GhostIsBrief`: a silent service is forgotten by the first check
that comes by it after its timeout; an answer that still names it brings it back until the
next check, however long the controller goes on. A check raced by an insertion may pass
it by, which keeps it for one more interval each time; without that exception (`missed`)
TLC finds a ghost that stays. `HeartbeatMonotone`: the stamps of a member never go
backwards, although `update_heartbeat` takes over any stamp (C:162), since both queues
keep their order.

*NNG.* `RateLimited`, `ConnectedIsDialed`, `Reconnects`. The last states the caller's
part as its hypothesis (`Retrying`): nothing in the class retries by itself.

### What the violations show

Each of these runs has a statement of a comment or of the documentation as its
only property, and TLC finds a behaviour of the code that contradicts it.

- `OnlyExpiredErased` (C:121 "If the service is expired, remove it"): answer between
  `is_expired()` and `erase()`.
- `NullOnlyWhenEmpty` (R:80, R:93): an update between the parse and the return.
- `NeverStranded` with two calls of `connect` (CH:90 "it will continue retrying until
  a successful connection is established").

Disagreements that have no run of their own, though the modules show them:
"stopping the monitoring thread" is what the destructor is said to do (CH:70), and
`UseAfterDestruction` is reached in `lifecycle`: the thread is detached and may be asleep.
The answer that creates a record does not give it its metadata (`Emplace`, C:174; RH:87
"Returns the metadata associated with the service."). A stamp beyond `int`
wraps (C:155, from January 2038 on) and the service is removed at once: with `IntMax` = 3
in `registry_safety.cfg`, TLC finds `DepartureJustified` violated, and
`WrappedServiceExpired` proves that every such stamp counts as expired while the clock is
less than `IntMax` seconds behind it. The header promises a shared pointer (RH:94), `get_metadata_json` returns a raw one that the next update frees
(`Reset`).
"Max reconnect attempts reached. Giving up." (N:132) is logged and `connect` dials again
(`Attempt` has no such guard).

Met while reading: `check_services`
takes the mutex "to prevent multiple threads from accessing it at once" (C:115) and
`process_message` does not; it is said to process "each service data object in the
message" (C:145) and drops what follows a malformed one; `update_heartbeat` stores
the stamp it is given and not "the current time" (RH:45); two callers both parse,
although R:85 speaks of a variable "not initialized"; `get_metadata` does not take
the mutex that is there "to protect access to the metadata variable" (RH:112);
`connect` returns before the handshake, whatever CH:90 suggests; after
`disable_heartbeat` one message may still go out (CH:121); `src/README.md` and the web
page name the exchange `amqp.topic`, the code uses `amq.topic`.

### Bounds, and why they are enough

- *Registry*: two service ids in the safety run, so that one service can be treated
  wrongly because of another (a traversal has somewhere to skip to); stamps 0, 1 and 4
  with a clock of half seconds that stops after 2 seconds (`MaxNow` = 4) and a timeout
  of one second, so that records are fresh, due, late and in the future; answers of two
  entries (`MaxEntries`), so that one entry can be processed and the next be malformed.
  A second reader adds contention, not new accesses: it is in the liveness run, which
  has one service, two readers and the monitor after one mutex, and a clock that goes
  past every deadline. `TicksPerSecond` is small in the runs; the proofs cover
  every resolution, and `IntMax` = 100 there is far from every stamp.
- *Metadata*: two readers (a reader interferes with an updater and with another
  reader), a parsable and an unparsable string besides the empty one; two addresses,
  one for the document in the cache and one for the document being parsed, so that an
  address that has been freed is soon used again.
- *Connection*: `MaxConnects` = 1 is the documented use; failures are unbounded.
- *NNG*: an interval of 3 (an attempt can end at, before and at the end of it) and
  `MaxFailures` = 3.
- *Lifecycle*: none but the history `rounds`, which counts to 2.
- *JSON builder*: keys of up to three parts, so that a call can find a level, create the
  next and assign below it; documents grow to three levels by any sequence of calls.
- *Endpoint check*: three addresses: a first, a middle and a last one.
- *Discovery*: `HeartbeatTimeout` = 4 is just `Age` + `Skew` with a heartbeat and an answer
  every second, no way for a presence, one second for an answer and one of clock difference;
  a check every second, so that a ghost can be erased, brought back and erased again; the
  service stays away for three rounds of its loop (5 to 400 in M:28, with pauses of up to 5
  seconds), long enough to be erased, and comes back; one connection is lost (`MaxFaults`);
  dropped answers and missed checks are unbounded; `MaxNow` = 8 is past
  the wait of `SteadyIsMember` (over at 6) and of `GhostIsBrief` (over at 7), and lets a service be known, silent, forgotten and known again. With a timeout one second
  shorter TLC finds a live service expired.

`CHECK_DEADLOCK FALSE` is used where the process may really end (an uncaught
exception, undefined behaviour) or, in the registry, where the clock and the users
may all have stopped.

### Fairness, and why the code justifies it

- Threads run on (`WF` of their next step). They block only in a mutex or in a sleep
  of bounded length.
- Threads that want a mutex get it in the end (`SF`): holders release it within one
  traversal or one parse, and the monitor sleeps for seconds between two scans. A
  `std::mutex` promises no fairness by itself; this is an assumption about a mutex
  held for microseconds.
- Nothing obliges the controller to answer, a user to call, or the broker to fail or
  to stay. Where a property needs it, it is a named hypothesis in the property:
  `Quiet` (answers stop), `Stable` (the broker stays), `Retrying` and `Reachable`.
- In `NNGClient` time passes; the class has no thread of its own.
- `ClientLifecycle`: the destructor runs on, the detached threads run on until they use
  what is gone, a started thread enters its loop. That the loop sees a request to leave
  is not assumed.
- `EndpointCheck`: the call goes on; `connect`, `select` and `getsockopt` return (`select` has a
  timeout, and a blocking `connect` that of the system).
- `Discovery` states bounds instead: time cannot pass something that is due.

## 4. The proofs

Every theorem holds for all values of the constants, under the ASSUMEs of the
modules (thread names distinct, timeouts in `0..IntMax`, bounds natural numbers).

- `ServiceRegistryProofs`, on the operators of `RecordExpiry`: `ToIntIdentity` (no wrap for
  stamps that fit), `ToIntRange`, `DivisionBounds`; **`ExpiryInstant`**: `is_expired()` holds
  exactly from `heartbeat_timeout + 1` seconds after the stamp on; **`ExpiryMonotone`**;
  **`WrappedStampExpires`**: a stamp beyond the build's `int` is read as one that has long
  expired (`ModBelow`: `x % m` is at most `x - m` once `x` has reached `m`).
- `ServiceRegistryProofs`, on the registry: **`TypeCorrect`**, **`SnapshotIsExact`**,
  **`DepartureIsJustified`**, **`ScanIsThorough`**, **`RegistryImplementsMembership`**. The
  last three assume `StampsFit`: a stamp that wraps expires its service at once
  (section 3, *a stamp beyond `int`*). None of the properties is inductive.
  The invariant `IInv` relates the program counters to the mutex (at most one
  holder; the monitor is in a scan exactly if it is the holder), what is copied and
  pending to the map (unless scrambled, together they are what was there when the mutex
  was taken), and the history to the records (`record[s].last` is the stamp
  `reported`, as an `int`; an overdue service is expired and pending). The refinement
  is proved from it action by action: `UpdateHeartbeat` maps to `HearOf`, `Emplace` to
  `Join`, `Examine` of an expired record to `FindLate`, `Erase` to `Leave`, the two ways
  the process can end to `End`, and every other step to a stutter.
  **`WrappedServiceExpired`** is what happens without `StampsFit`: every service with a stamp
  beyond `int` is expired at every scan, however fresh (unless the stamp is `IntMax` seconds
  and more ahead of the clock). **`TraversalsEnd`** gives each traversal a variant:
  `ScanLeft` and `CopyLeft` count what is pending (two steps a record for the monitor, the
  one in hand included, one for a reader), are bounded by the size of the map, go down
  with every step of the thread in the mutex and up with no other step than an insertion.
  It rests on the map being finite (`FiniteInv`), whatever the set of ids is.
  **`AnswerIsBounded`** is its counterpart for `process_message`: `AnswerLeft` is at most three steps an entry, goes down with each step of
  the libevent thread (`KeyGone` and `LostWrite`, after an erasure, included) and does not
  move when another thread steps.
- `RecordMetadataProofs`: **`TypeCorrect`**, **`CacheIsCoherent`**, **`JsonIsCurrent`**.
  The invariant says that except between `Assign` and `Reset` `metadata` equals
  `settled`, that the cached document is that of `settled` all along, and that `settled`
  is in `seen` of every call under way.
- `ClientConnectionProofs`: **`NotStranded`** under `MaxConnects = 1`; the invariant
  says which of the two threads can be in `connect` (the user before dispatching
  begins, the libevent thread after it) and what the state of the channel is at each
  line of it. **`AtMostOneStale`** for any number of calls: a second presence would
  have to pass the test of `heartbeat_enabled` after it was cleared. **`TypeCorrect`**, by
  groups of variables that change together. From the same invariant and under the same
  hypothesis, **`ConnectIsExclusive`**: the two threads are never both inside `connect`;
  no mutex keeps them apart, but the first call starts the libevent thread as its last
  step. And **`NoLossIsHidden`**: `connected`, which is set before anything has been
  established, is TRUE only while the channel has its error handler and no error of it
  has been consumed; it needs `HandlersInv` besides, on what `SetHandlers` leaves.
- `NNGClientProofs`: **`TypeCorrect`**, **`ConnectedHasDialed`**,
  **`AttemptsAreRateLimited`**, from the invariant that the time left until
  `nextConnect` and the time since the last attempt add up to the interval.
- `EndpointCheckProofs`: **`TypeCorrect`**, **`NothingIsLeft`**, **`ReportsTheTruth`**,
  **`AsksThemInTurn`** for any number of addresses, from an invariant that says at every
  line which socket may be open, what is known of the address at hand, and what has been
  found of those before it. **`CallIsBounded`**: `CallLeft`, four for each address not
  yet come past and the stage of the one at hand, goes down with every step of the call
  and does not move otherwise; the call is over after at most `4 N + 9` steps.
- `ClientLifecycleProofs`: **`TypeCorrect`**, **`RoundsAreBounded`**, **`LoopHasEnded`**. The
  invariant says what the owner's place implies of the object, of the flag and of the
  detached threads (`OwnerInv`), that past the join the libevent thread has ended for good
  (`EventInv`), and that a thread inside a round has ended none since the flag was set
  (`RoundsInv`), which is what makes `OneMoreRound` inductive. `MonitorIsNotJoined`: the
  destructor's `join` of the monitor thread (C:309) is always skipped.
  **`DetachedStepsBounded`**: `StepsLeft`, three at most, is counted down by the thread's own
  steps between the flag and the end of the members, and by nothing else.
- `JsonBuilderProofs`: **`TypeCorrect`**, **`OthersAreKept`**, **`SetIsExact`**,
  **`ThrowsLeavesUnchanged`** for keys and documents of any depth. The first part is a small
  theory of paths (prefixes are an order in which the paths above one form a chain;
  what remains of a path after a prefix) and that `Indexed` and `Graft` make documents of
  documents. The invariant: as long as each part of the key has been found nothing has
  changed (`Fresh`), from the first missing part on the level reached is a new object with
  nothing below it, and what is about to be made was not there before (`Missing`).
  No induction over the key is needed, since a document is closed under going up.
  **`SetIsBounded`**: `PartsLeft`, two steps for each part of the key, goes down with every step.
- `DiscoveryProofs`: **`TypeCorrect`**, **`GhostsAreBrief`**, **`HeartbeatIsMonotone`**, for all
  timeouts, periods, delays and clock differences. The invariant orders the stamps along
  their way (`Ordered`: record, answers, controller, presences, each at most the next), bounds
  them by the presence last sent (`Latest`), and says what the last check can have let pass
  (`Checked`). **`SteadyStaysMember`** needs a second invariant, `LookedAfter`, on top of it.
  It cuts time into windows: for every heartbeat interval that is over, a stamp of that
  interval is listed by the controller or on its way there (`Told`); for every answer period
  that is over, a stamp as fresh as the first part allows is on its way to the listener,
  or nothing older is left in the record and the queue (`Fresh`), and from `Age` + `AnswerPeriod`
  on the service is known or an answer is on its way (`Known`). What is late (`UnderWay`,
  `Arrived`) has arrived, so no check finds a steady service late (`SteadyIsNotLate`); an
  erasure decided before the first fresh answer is over by then (`Trusted`).
  When an answer is dropped every window begins anew, as when the service becomes steady
  (`WaitBegins`); a missed check changes nothing a window speaks of.
  **`SteadyStaysFresh`** is what else these invariants say of a steady service: it is not even
  a suspect, and the stamp in its record is at most `Age` old. What the composition takes
  from the registry: that the map changes only as `RegistryImplementsMembership` says; that an
  answer which is not dropped reaches its entries, and that a check which is not raced examines every
  record (`ScanIsThorough`). Neither of the last two follows from the refinement, which
  allows the registry to do nothing; where the code does not provide them, `DropAnswer` and
  `MissLate` stand. Stamps fit an `int` here.

The invariants were checked with TLC before they were proved.

Every invariant and action property of the passing runs is a theorem. Only
model-checked are the liveness properties (`OverdueLeaves`, `CallReturns`, `AnswerEnds`,
`CallEnds`, `UpdateEnds`, `ConsumesInTheEnd`, `HeardOf`, `Reconnects`, `Returns`,
`DestructionEnds`, `DetachedEnd`): a step from `WF` and `SF` needs ENABLED, which the prover
does not support, and a variant leads to its end by an induction its backends cannot
instantiate. `TraversalsEnd`, `AnswerIsBounded`, `CallIsBounded` and
`DetachedStepsBounded` are the half of such an argument that can be proved: what is left
to do is bounded and shrinks, so that `AnswerEnds`, `Returns` and `DetachedEnd` rest on
nothing but that threads run on, and `CallReturns` besides on insertions that end and a
mutex that is fair. The violations of section 3 are TLC's counterexamples.

## 5. Not modelled

- The Python bindings: each names a method of a class above.
- `NumpyBufferProtocol.h`, a struct without operations; the web page, which keeps no state
  the client reads; build files and vendored CMake code.
- `DotEnv`: one sequential pass over a file into a map, and a lookup. It has no state two
  actors share and no step that can fail half way; a model would repeat it.
- `start_simulation` and `main` (M:62-121), which start many copies of what `Discovery` has
  one of, and print the map. The services share the listener's map and the controller's
  answers, and through them act on each other: by dropped answers and missed checks, which
  `Discovery` leaves to chance (`DropAnswer`, `MissLate`).
- `generateUUID` is taken to give distinct ids.
- What happens inside AMQP-CPP, libevent and nng when two threads use one channel or one
  event base at a time (`publish` on the heartbeat thread, C:111), beyond the outcomes
  named above.
- In `ClientConnection`: the order in which `connect` destroys the old handler and the old
  connection (C:218), and the credentials, which `connect` called from the error handler has
  by reference from a closure that goes with the old channel (C:230); `Usable` turns false when the failure happens, before the loop has seen it.
- In `NNGClient`: steps of the system clock, on which `nextConnect` is computed.
- In `JsonBuilder`: a second user thread that changes the same document.
- A restart of the listener's process: it keeps nothing, so it starts from `Init`.
