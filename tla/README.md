# Verification of the MCP BLE server

TLA+ models of mcp-ble-server (`src/`, a Node.js server that gives MCP clients access to
Bluetooth LE devices over WebSockets), the TLC runs that check them, and proofs checked by TLAPS.
Paths below are relative to `src/src/` unless they start with `docs/`, `tests/` or `src/`.

`PROJECT.json` lists the components, the runs with their properties, a mutant for each property (a
wrong variant of one definition that the run must notice), the source lines of every definition,
the findings, the hazards and the theorems.

    tlc -workers 2 -config BleService_uses.cfg MCBleService.tla     # check one run
    tlapm MessageBatcherProofs.tla                                  # check one proof module

## 1. The system

The server is one Node.js process. Its code is single-threaded; what interleaves is the code
between two `await`s of different calls, timer callbacks, events of sockets and devices, and
microtasks. Almost every hazard of this code is a variable read before an `await` and used after
it, or a promise that settles later than its caller expects.

| component (code) | state | operations | talks to |
|---|---|---|---|
| MessageBatcher (`mcp/server/MessageBatcher.js`) | one batch, timer, sequence number and promise chain per client | addMessage, removeClient, flush, processBatch, stop, the batch timer | emits `batch` to the WebSocket server |
| CircuitBreaker (`mcp/server/CircuitBreaker.js`) | state, failure count, last failure, half-open count per connection | execute, allowRequest, getState, recordSuccess, recordFailure, reset | called by failover and high availability |
| server pool (`mcp/server/ConnectionPool.js`) | pool, available, in use, validation interval | initialize, acquire, release, validation, load balancing | called by failover |
| BLE service (`ble/bleService.js`) | isScanning, discoveredDevices, connectedDevices, listeners on noble and on devices | scanning, connect with timeout and retry, reconnect, disconnect, cleanup, characteristics | noble (adapter and devices) |
| MCP WebSocket server (`mcp/server/WebSocketServer.js`) | clients, isShuttingDown | connection, message, authentication, logout, disconnect, stop | AuthService, MessageBatcher |
| front end (`websocket/*.js`), not modelled | clients | connection, message, stop | handlers |
| MCP handlers (`mcp/handlers/*.js`) | activeConnections, activeScans per client | connect, disconnect, scan, stop, client left | the BLE interface |
| AuthService (`auth/AuthService.js`) | sessions, failure counts, lockouts | authenticate, create/validate/remove session, cleanup | keys, tokens, rate limiter, threat detection |
| keys and tokens (`auth/ApiKey*.js`, `TokenAuthentication.js`, `OAuth2Service.js`) | keys with expiry, grace periods, blacklists | issue, rotate, validate, refresh, revoke | AuthService |
| characteristic operations (`ble/CharacteristicOperations.js`) | queue, history, subscriptions per device | queueRead, queueWrite, batch timer | – |
| BLE pool (`ble/ConnectionPool.js`) | connections, available, in use | acquire, release, cleanup, configuration, stop | – |
| caching layer (`mcp/server/CachingLayer.js`, `utils/MemoryManager.js`) | entries with expiry, preload queue | get, set, delete, eviction, invalidation, preload, destroy | – |
| failover (`ConnectionFailover.js`, `ConnectionRetry.js`, `ConnectionTimeout.js`) | attempts per priority, timers per connection | acquire with fallback priorities, health check, recovery | pool, breaker, keep-alive |
| supervision (`ConnectionHealth/KeepAlive/Cleaner/Shutdown.js`, `ResourceLimiter.js`) | monitors per connection, counters | start, ping, stop, quiescence, shutdown | connections |
| consistency and recovery (`DataConsistency.js`, `DisasterRecovery.js`, `HighAvailability.js`) | active transactions, log, saved state | begin, commit, roll back, recover, checkpoint, restore | pool, state manager, log |
| entry point (`index.js`) | – | start, graceful shutdown | all of the above |

The rest (radio tuning heuristics, protocol conversions, signing, metrics, prediction,
configuration) is sequential computation on data: `PROJECT.json` names every file and why it is
left out.

What makes each component correct, and where that is hard:

* **MessageBatcher** – nothing accepted is lost, repeated or reordered, no batch waits without a
  timer, calls settle, one client does not disturb another. Hard: size flushes, timers, removal,
  manual flushes and stop overlap; removal restarts the numbers the order rests on; a rejected
  call rejects the chain behind it.
* **CircuitBreaker** – a tripped circuit stays open for its timeout, probes are limited, the
  circuit neither stays open nor half open without cause. Hard: operations admitted in one state
  settle in another.
* **Server pool** – bounded size, collections that agree, one holder per connection. Hard: a
  connection is available to others while the caller it was created for is suspended.
* **BLE service** – `connectedDevices` agrees with the links, `isScanning` with the adapter, calls
  settle. Hard: a timeout does not withdraw the connect it lost to; drops, reconnections,
  disconnections and cleanup overlap.
* **WebSocket server** – the limit on connections holds, counters balance, nothing follows a logout,
  stop ends. Hard: handlers of one client overlap across the awaits of the authentication service,
  with its logout, the closing of its socket and the shutdown.
* **AuthService** – lockouts hold and end, sessions stay removed. Hard: all of it crosses awaits.
* **Handlers** – a client that leaves leaves no scan, connection or listener behind.
* **Caching layer** – an entry does not outlive its age by more than one period of the invalidation, and
  no Buffer is overwritten while an entry refers to it, unless its caller handed it over twice. Hard: calls
  interleave at the look at the memory; a value belongs to its caller as well.
* **Consistency** – the log settles a transaction only after the pool has, through crashes and
  recoveries. (It may say "rolled back" of one the pool has committed: section 6.)

`PROJECT.json` lists the hazards one by one with the line where each bites and the properties
that cover it; section 6 lists those that no property covers.

## 2. The modules

| module | models | run by |
|---|---|---|
| `MessageBatcher` | `mcp/server/MessageBatcher.js` 56-128, 364-592, 702-745, 807-865, 959-992 | `MCMessageBatcher` |
| `MessageChannel` | the abstract specification of the batcher | `MCMessageBatcher` (refinement) |
| `CircuitBreaker` | `mcp/server/CircuitBreaker.js` | `MCCircuitBreaker` |
| `ServerConnectionPool` | `mcp/server/ConnectionPool.js` | `MCServerConnectionPool` |
| `BleService` | `ble/bleService.js` 7-164, 291-304 | `MCBleService` |
| `McpServer` | `mcp/server/WebSocketServer.js` 9-457 | `MCMcpServer` |
| `Lockout` | `auth/AuthService.js`: authenticate, validateApiKey, the lockout test of createSession | `MCComponents` |
| `Sessions` | `auth/AuthService.js`: create, validate, remove, connections, the cleanup | `MCComponents` |
| `RateLimiter` | `auth/RateLimiter.js`, and `isRateLimited` of AuthService | `MCComponents` |
| `ApiKeys` | `auth/ApiKeyManager.js`, `auth/ApiKeyRotation.js` | `MCComponents` |
| `Tokens` | `auth/OAuth2Service.js`: codes and sessions | `MCComponents` |
| `Threats` | `security/ThreatDetectionService.js` | `MCComponents` |
| `Audits` | `security/SecurityAuditor.js`, `security/VulnerabilityScanner.js` | `MCComponents` |
| `ScanHandler`, `ConnectionHandler` | `mcp/handlers/*.js` with `HandlerFactory.handleClientDisconnect` | `MCComponents` |
| `CharacteristicOperations` | `ble/CharacteristicOperations.js` | `MCComponents` |
| `Subscriptions` | `ble/bleService.js` 165-290 | `MCComponents` |
| `BlePool` | `ble/ConnectionPool.js` | `MCComponents` |
| `RadioTuning` | `ble/ConnectionParameters.js`, `ble/PowerLevelAdjustment.js` | `MCComponents` |
| `CachingLayer` | `mcp/server/CachingLayer.js` with the buffers of `utils/MemoryManager.js` | `MCComponents` |
| `Failover` | `mcp/server/ConnectionFailover.js` | `MCComponents`, and itself (`failover_reset`) |
| `Supervision` | `ConnectionTimeout.js`, `ConnectionKeepAlive.js`, `ConnectionHealth.js` | `MCComponents` |
| `Closing` | `ConnectionShutdown.js`, `ConnectionCleaner.js` | `MCComponents` |
| `ResourceLimiter` | `mcp/server/ResourceLimiter.js` | `MCComponents` |
| `DataConsistency` | `mcp/server/DataConsistency.js` with crashes | `MCComponents` |
| `Recovery` | `DisasterRecovery.js` over `HighAvailability.js` | `MCComponents` |
| `ConnectionRetry` | `mcp/server/ConnectionRetry.js` | `MCComponents` |
| `Components` | nothing of its own: the twenty-one modules above that name `MCComponents`, side by side | `MCComponents` |

Three modules hold the proofs about the components: `AuthProofs` (Lockout, Sessions, RateLimiter, ApiKeys,
Tokens, Threats, Audits), `DeviceProofs` (BlePool, ScanHandler, ConnectionHandler,
CharacteristicOperations, Subscriptions, RadioTuning) and `SupervisionProofs` (Supervision,
ResourceLimiter, Failover, DataConsistency, Recovery, ConnectionRetry, Closing, CachingLayer). MessageBatcher,
CircuitBreaker, ServerConnectionPool, BleService and McpServer each have a `<M>Proofs`.

How code becomes actions, in every module:

* A function without `await` is one action. An `async` function is cut at every `await`: one
  action up to the first, one for each stretch after; the action after an `await` reads the state
  anew wherever the code does, and uses what the code kept in locals wherever it does not.
* `Quiescent` says that no microtask is left. Timers, the radio, devices and the passing of time
  act only then, as in the Node.js event loop; callers may call at any moment, since a caller may
  itself be a microtask.
* Variables marked *history* record what happened for the properties; no guard reads them.
  Comments marked *bound* name what only keeps the instance finite.
* Devices, the adapter, sockets and storage are external: they may answer late, never or with an
  error, and links drop at any time. Logging and metrics have no effect.
* Next to a definition may stand a wrong variant of it, named after a defect (`DueLate`,
  `TimerKept`, `WatchFirstAttempt`, ...). No specification uses it; `PROJECT.json` pairs it with
  the property that must notice it.

**MessageBatcher.** `tail[c]`/`prev[k]` are the promise chain in `operationQueues`: call `k` runs
(`AcceptCall`, `RejectCall`) when the call it is chained on has settled, and is rejected unrun if that one
was rejected. A batch is a set with the comparator `Before`, since the array is sorted after every
push. Size and timer flushes are the synchronous `Flush`; `removeClient` and `flush` await after
it, and `FinishRemove`/`FinishManualFlush` delete whatever batch the client has by then.
`ProcessBatch` emits and throws before it deletes, so the batch stays (`kept`). Left out: analytics,
compression, and the adaptive size (`currentBatchSize` is computed and never read by the flush).

**CircuitBreaker.** `Observed` is `getState` with its lazy transition to HALF_OPEN, which every
operation that calls `getState` performs. Failure counts are kept up to the threshold and time up
to the timeout, which is as far as the code compares them. `ReportSuccess`/`ReportFailure` are the
outcomes that `ConnectionFailover.checkConnectionHealth` records without `execute`.

**ServerConnectionPool.** A caller is suspended in load balancing (`balancing`), after it
(`balanced`), or on the connection it creates (`creating`). `Initialize` and `Validate` fill the
pool one `await` at a time. Priorities and performance statistics only order the search and are
left out; `shared` records connections taken in the window of `creating`.

**BleService.** A task is a call of `connectToDevice` in `withRetry`: `racing` a timer, `resolved`,
waiting in `delay`. `dialled` outlives the task: a timeout does not withdraw `device.connect()`.
`LinkDrops` is the device's `disconnect` event with `handleDeviceDisconnect`, reconnection
included. `late` and `released` record links answered after every timer, and devices disconnected
on request. `AdapterOff` is the adapter being switched off: the handler of noble's `stateChange`
(`bleService.js:121`) only logs it, so `isScanning` and `connectedDevices` stay as they are; `silenced` notes
a scan that ended so, `unheard` the links that went before noble says so. Characteristics are in `Subscriptions`.

**McpServer.** `clients` is the map, `socket` the `readyState` of each WebSocket; the two part at a
logout, which deletes the entry and leaves the socket open. A handler suspended on the
authentication service, or on the timer of the rate limit (`limited`), is an element of `call`; it goes
on with the client object it started with (`authenticated`), in the map or not. The service is modelled
by the interface that the server's unit tests give it, since the real one takes other arguments (see
below): it answers yes, no or with an error, or never. With batching enabled `SendMessage` does
nothing: `addMessage` rejects a message without an id (`MessageBatcher.js:401`) and none has one. What
the process does with the unhandled rejection belongs to whoever embeds the server: `index.js:116`
shuts down, which is the action `Stop`. `handleBatch` is therefore never called, and is left out with
the analytics.

**Authentication.** `Lockout` and `Sessions` are two halves of AuthService that share only the test of
the lockout. A call of `Lockout` waits in `checks` (rate limiter and threat detection, which may answer
anything), at the `key`, or in `create`; a call of `Sessions` waits for the encryption or the decryption,
and `cleaner` is the pass of `cleanupSessions`, which an error may abort (`CleanAborts`). `begunBefore`, `testedBefore`, `removed` and `revived` are
history. `RateLimiter` keeps the list of time stamps
as a set, each stamp numbered among those of its time. `ApiKeys` keeps the
keys of a client as a sequence, the oldest first. `removeSession` calls
`apiKeyManager.deleteKey`, which ApiKeyManager does not have; the model has the services of the unit tests.

**Handlers.** A message that awaits the BLE service is an element of `handling` or `call`;
what it does afterwards uses the client it started with, gone or not. The handlers call `startScan`,
`stopScan`, `connect` and `disconnect`, which `bleService.js` names otherwise: the service modelled is the
one they call and their tests provide.

**Queues, pools, caches.** `CharacteristicOperations` is one device: queue, batches in flight, the timer
that is started once. `BlePool` creates a connection at once and awaits it (`awaited`, `creating`);
`ceiling` is history. The constructor takes any two limits, also a minimum above the maximum (`Constructed`).
In `CachingLayer`, `pending` is the microtask queue of the calls that looked at the memory first; a value
is no Buffer (None), a Buffer of the callers, which they may hand over again (`twice`), or one that
compression made; `zeroed` has those that `returnToPool` overwrote, and `ClearAllPools` is the memory
monitor's. `Subscriptions` is one characteristic: `listening[k]` counts the listeners that the attempts of
call `k` registered; noble keeps one object per characteristic, as the tests do, and after a
reconnection nobody subscribes again.

**Supervision and recovery.** `Supervision` counts the timers that run apart from the field that names
them. `Failover` takes any answer from pool, breaker and health check. In `DataConsistency` the pool and the log are
durable, the set of active transactions and the calls are lost in `Crash`. In `Recovery` each collaborator
of a restore may fail at each step, and calls of `initiateRecovery` overlap with each other and with callers of
`HighAvailability.start` and `stop`; `alone` is the call that no other has overlapped or followed, if there is one.

**Components.** The components without a run of their own share no state with each other. `Components` instantiates
each of them with constants and variables of its own; `MCComponents` adds the instance. `part` chooses one at
the start of a behaviour, the others stay as they begin, and `View` shows TLC the part chosen with its
variables: nothing else ever changes, so the view loses nothing. The run explores the sum of twenty-one
state spaces, and its properties are those of the modules, each with the type invariant of its module.

Many classes count what they do through `require('../utils/metrics')`. Some call methods it does not have
(`metrics.counter` in `CircuitBreaker.js`), others use the module itself where its `metrics` is meant
(`auth/AuthService.js:3`): without the mocks of the unit tests these calls throw. The models take a metrics object as
the tests provide it. `this.metrics.record` of the batcher (`MessageBatcher.js:517`) is another matter: that
object is its own and has no such method, and the model has the exception.

## 3. The runs

| run | checks | instance |
|---|---|---|
| `batcher_uses` | BatchesGuarded, FlushedOnceInOrder, AcceptanceOrder | 1 client, 2 ids, 2 priorities, 3 calls, size 2; removal, flush, stop |
| `batcher_clients` | RejectionHasCause, EveryCallSettles, AcceptedIsDelivered, ImplementsChannel | 2 clients, 2 ids, 2 calls, all operations, fairness |
| `batcher_loss` | NoLoss, violated | 1 client, 3 calls, removal |
| `breaker_uses` | SlotsAccounted, TrippedIsOpen, OpenEnds | 2 circuits, 2 requests, threshold 2, timeout 2, 1 probe |
| `pool_uses` | PoolAccounted, PoolHeals | 3 callers, 5 ids, sizes 2..2 |
| `pool_double` | ExclusiveHolders, violated | 2 callers, 4 ids, sizes 1..2 |
| `ble_uses` | AgreesWithRadio, ConnectedIsWatched, ConnectSettles | 1 device, 2 tasks, 1 scan caller and cleanup, 2 attempts |
| `ble_disconnect` | DisconnectedStays, violated | 1 device, 1 task |
| `server_uses` | ClientsAccounted, LogoutLast, LeavingEnds | 2 clients, 2 suspended handlers, 1 connection at a time, all four configurations |
| `server_answers` | Answered, violated | 1 client, 1 handler |
| `components_uses` | 22 properties, below | one of twenty-one components per behaviour; 297,382 states, about 3 minutes |
| `failover_reset` | HealthCheckResets, violated | 1 call, 1 connection, limit 2 |

Some properties are conjunctions of parts that the modules name: BatchesGuarded (TypeOK, PendingHasTimer,
BatchBounded), FlushedOnceInOrder (CallOrder, EmittedOnce), SlotsAccounted (TypeOK, ProbeLimit,
SlotsAreRunning), PoolAccounted (TypeOK, PoolBounded, PoolPartition, HolderAccounted), PoolHeals (MinRestored,
StaleRemoved), AgreesWithRadio (TypeOK, ScanFlagAgrees, LinksKnown), ClientsAccounted (TypeOK, GaugeCounts,
ConnectionsBounded, SocketsAccounted) and LeavingEnds (StopSettles, LimitedLeave).

What `components_uses` checks, and what it shows of the code:

| property | says | instance |
|---|---|---|
| LockoutHonoured | overlapping attempts get past a lockout only if they were under way when it began | 1 client, 2 calls, limit 2 |
| RemovedStaysRemoved, ExpiredRemoved | a removed session returns only through a validation that overlapped the removal; expired ones leave, although a pass may be aborted | 2 sessions, 2 calls and the cleanup, 1 aborted pass |
| RateBounded | the sliding window bounds every window; the fixed one lets twice as many through across a boundary | window 2, limit 2, time 0..3 |
| KeysSound | a managed key is rotated within its interval and one period; the current stored key is accepted until it expires | ages 2 and 3, 2 keys |
| CodeExchangedOnce | a code yields tokens once, although stop forgets which were used | 2 codes |
| ThreatsAnswered | who has a threat on record is blocked or was unblocked since, and only an analysis under way then undoes an unblocking | 2 clients, 2 analyses |
| AuditsAccounted | what is reported as running runs, within the limit of audits | 2 devices, 2 calls |
| ScansAccounted, ConnectionsReleased | who left holds no scan, device or listener, unless a start or a connect was awaited meanwhile | 2 clients, 2 messages in progress |
| OperationsAccounted, EarlyOperationsRun | no operation is lost or run twice; what is queued before the timer fires is run | 4 operations, batches of 3 |
| SubscriptionsAccounted | subscribers are heard, retries register again, an unsubscription silences all that ended before it | 2 calls, 3 attempts |
| BlePoolAccounted | size and partition of the pool, through lowered limits | 4 ids, 2 callers, 2 cleanups, 3 pairs of limits, one with its minimum above its maximum |
| TuningServes | adjustments of interval, latency and power add up to what the classes accept, up to one named case | every class of rate, battery, drops and RSSI |
| CachingSound | no entry outlives its age by more than a period; no entry refers to an overwritten buffer, unless its caller shared it | 2 keys, pool of 1, 2 values, 1 Buffer of the callers |
| LockedUntilSuccess | a priority that is used up is opened by no call of another priority, fallback or delay | limit 2 |
| NoOrphanTimer | every timer that runs is named by the field that clears it | 1 connection, 2 handlers in progress |
| ClosedIsClean | closed connections are disconnected and clean; others failed | 2 connections, shutdown and cleaner |
| LimitsAccounted | across resets and refusals: the count never exceeds what is open nor misses more than a reset forgot, and every byte let through counts | 2 connections, 3 sizes, cpu 1..4 |
| LogFollowsPool | the log settles nothing before the pool, and a transaction is unknown only after one kind of crash | 1 transaction, 2 calls, 1 crash |
| RecoverySound | a pool recovered by a call that none overlaps is watched and restored, and no health check runs meanwhile; retries exceed their limit by the overlapping calls only | 2 callers, 2 attempts, 2 retries |

Why these bounds are enough for what the properties say: the batcher's keep state per client and
interfere through nothing but `tail` and the event loop, so two clients show interference and one
client the rest; with size 2 and 3 calls a batch fills, is flushed by each path, and starts again,
and two priorities and equal ids make the sort and the deduplication matter. For the breaker, one
request may be admitted before and one after each change of state, and a threshold of 2 tells
"counting" from "tripped". In the pool, three callers make two overlap on a connection while a
third balances or releases; 5 ids are more than maxSize plus those a holder still knows. In the
BLE service, two tasks overlap on one device (a second device would share nothing with the first
but the adapter), and two attempts separate a first from a last one; discover listeners are
counted up to 3, beyond any the properties tell apart. In the server, two handlers of one client
overlap each other, its logout and its closing, which is all the shared state they have; a second client
with `MaxConnections` 1 shows who counts toward the limit. In the components, two calls overlap in every way two
can, each limit is one or two so that it is reached and exceeded, and clocks run past every expiry and
one period of what looks for it. In `Sessions`, calls and tokens are interchangeable, so that the first free one
is taken, and `MaxInvolved` 3 of them are in play: two sessions and a call, or one and two. `MaxAborts` 1 is
also an assumption: an error that aborted every pass would keep expired sessions for ever.

Deadlock is checked in every run except the batcher's, the server's, the failover's and the components'. The
number of calls, of connections or of ticks is bounded there: after the last timer the batcher rightly
stops, as does a stopped server, a destroyed cache or a clock that has reached its bound.

**Fairness.** Weak fairness for what a settled promise resumes: the event loop drains the microtask
queue. Strong fairness for timers and intervals: each needs `Quiescent`, which other calls make
false again and again, and Node.js fires a due timer all the same. Callers, devices and the radio
have none, with one exception: `OpenEnds` assumes that callers keep calling `execute`, because the
transition out of OPEN is made only by a call, and that operations settle and time passes.
For the server, the timer of the rate limit fires (nothing disables it, so weak fairness is enough), a
socket that one side has closed ends (ws destroys it after 30 seconds), and `wss.close` calls back when no
socket is left. Clients need not close and the authentication service need not answer. In the components two
things go on: a pass of `cleanupSessions` and its interval, and the batch timer of characteristic operations with
the batches it starts, whose operations only wait. The channel promises that what waits leaves (weak fairness of
its `Send`); the batcher keeps that by the fairness of its timers.

**What the violations show** (findings in `PROJECT.json`):

1. `batcher_loss`: `removeClient` awaits the flush and then deletes the batch the client has *by
   then* (`MessageBatcher.js:581`): a message accepted during the await is lost, against "Process
   any pending messages" (line 577).
2. `pool_double`: a connection created for one caller sits in `availableConnections` during the
   await (`ConnectionPool.js:121`); a second acquisition takes it and both hold it.
3. `ble_disconnect`: `disconnectDevice` keeps the entry during its await (`bleService.js:298`); the
   `disconnect` event finds it, and `handleDeviceDisconnect` (line 162) reconnects a device that was
   disconnected on request, against `tests/integration/ble/deviceCommunication.test.js:89`.
4. `server_answers`: with batching enabled, the default, a connected client is never sent anything: every
   message goes to `addMessage` (`mcp/server/WebSocketServer.js:402`), which refuses it for want of an id,
   against `tests/unit/mcp/server/WebSocketServer.test.js:699`, which waits for a batch.
5. `failover_reset`: the health check deletes the entry of the unhealthy connection's *id* from a map that is
   otherwise kept by priority (`mcp/server/ConnectionFailover.js:204`): the priority stays refused, against
   "Reset failover attempts for this connection's priority" (line 203).

What the passing properties say with an exception names the rest of the truth: `HolderAccounted`
(a second holder *only* through the window above), `LinksKnown` (a link is lost track of *only*
through an answer after the last timeout, line 142), `ScanFlagAgrees` (the flag is wrong *only* when the adapter was
switched off while it scanned, line 121), `SlotsAreRunning` (a circuit is stuck half open
*only* after a success recorded while it was open, `CircuitBreaker.js:100`), `AcceptedIsDelivered`
(messages are lost *only* by removeClient, flush and stop), `GaugeCounts` (the gauge of connections is
too low *only* by the logouts that ended after their client had gone, `mcp/server/WebSocketServer.js:348`),
`ConnectionsBounded`, `SocketsAccounted` and `StopSettles` (*only* a client that logged out keeps a socket
that nobody counts, closes at shutdown or stops waiting for, line 347), and the exceptions in the table of the
components (`overlapped`, `crossed`, `revived`, `lost`, `undone`, `twice`, `alone`).

Observed while reading, without a run of their own:

* `config.auto_reconnect || true` (`bleService.js:16`) is always true; `auto_reconnect: false`
  (`docs/CONFIGURATION.md:80`) has no effect. The model reconnects always.
* every `startScanning`, retries included, registers listeners on noble (`bleService.js:93-94`);
  cleanup removes one registration of one of them (line 79). `hearing` counts them.
* `processBatch` (`MessageBatcher.js:834`) emits a batch, and `_processBatch` throws on
  `this.metrics.record` (line 517) before the batch is deleted: its messages are emitted again by the
  timer. `EmittedOnce` therefore speaks of flushes (`~ kept`).
* `index.js:140` cleans the BLE service up before it stops the server, and cleanup waits for
  `device.disconnect()` without a timeout.
* `index.js:47` calls `authService.cleanupExpiredSessions`, which AuthService does not have.
* the WebSocket server calls `validateApiKey` with one argument (`mcp/server/WebSocketServer.js:238`)
  where AuthService takes two (`auth/AuthService.js:227`) and then answers false.
* `index.js` starts the front end of `websocket/`, not `mcp/server/WebSocketServer.js`, and constructs it from
  a module that exports an object; components are modelled against their collaborators' interfaces, as
  their unit tests drive them.
* a session of a client that disconnects without logging out stays with the authentication service
  until it expires: `handleDisconnect` does not remove it.
* `SecurityAuditor` reads `threatDetection.config` and `rateLimiter.config`, which those services never set.
* `ResourceLimiter.checkCpuUsage` moves its base only when it passes (line 81): after one refusal it refuses
  until `reset`, which nothing calls, however idle the process is, although the comments speak of a percentage
  of the CPU (lines 9 and 65). The model has it so (`CheckCpuUsage`).
* `websocket/WebSocketServer.js:13` passes the BLE service as the only argument of `HandlerFactory`, which takes it for
  the authentication service: the handlers of the front end have no BLE service, and no scan or connection
  can succeed. Its `handleClientDisconnect` tells no handler that a client has left, though nothing could be
  recorded of it.
* `get` of `CachingLayer` deletes an expired entry through an await (line 514): a set that waits already is
  stored first, and its fresh value deleted.
* `ThreatDetectionService` blocks a client once more after an await (line 46): a client unblocked meanwhile is
  blocked again. ThreatsAnswered exempts that analysis, and only that one.
* `VulnerabilityScanner` and `SecurityAuditor` mark the running scan or audit of a device as failed when
  they refuse another one (`security/SecurityAuditor.js:66`).
* disconnection and logout never call `removeClient` of the batcher; `stop` drops every answer still to be
  sent (`mcp/server/WebSocketServer.js:423`, `:392`).

## 4. Proofs

TLAPS proves the following for every value of the constants: any number of clients, connections,
devices, callers and concurrent calls, any sizes, limits and retries. Every safety property and every
action property that a run checks is proved. Each proof assumes only the module's named ASSUME
(`BatcherAssumption`, `BreakerAssumption`, `PoolAssumption`, `BleAssumption`, `ServerAssumption`,
`BlePoolAssumption`, `ComponentsAssumption`), which the runs evaluate.

| module | theorems |
|---|---|
| `MessageBatcherProofs` | BatchesGuarded and its parts, AcceptanceOrder, RejectionHasCause, FlushedOnceInOrder, and Spec => Channel!Spec (refinement) |
| `CircuitBreakerProofs` | SlotsAccounted and its parts, TrippedIsOpen |
| `ServerConnectionPoolProofs` | PoolAccounted and its parts |
| `BleServiceProofs` | AgreesWithRadio and its parts, ConnectedIsWatched |
| `McpServerProofs` | ClientsAccounted and its parts, LogoutLast (an action property) |
| `AuthProofs` | LockoutHonoured, RemovedStaysRemoved, RateBounded, KeysSound, CodeExchangedOnce, ThreatsAnswered, AuditsAccounted |
| `DeviceProofs` | BlePoolAccounted, ScansAccounted, ConnectionsReleased, OperationsAccounted, SubscriptionsAccounted, TuningServes |
| `SupervisionProofs` | NoOrphanTimer, LimitsAccounted, LockedUntilSuccess (an action property), LogFollowsPool, RecoverySound, ClosedIsClean, CachingSound |

A theorem about a component is one about `ComponentsSpec`: `PartStep` shows that a step of it is a step of one
component that leaves the others alone, and a lemma per component (`LockStep`, `SessionStep`, ...) brings it down to
`[M!Next]` of that component. Since the components share nothing, the initial states and the steps of the
component alone are all that the rest of the proof uses.

`ComponentsAssumption` says that times, durations and limits are numbers, positive where the constructors
replace zero by a default (`config.x || d`), while those spread from the configuration may be zero (the attempts of a recovery, the
retries of a connection, a batch of preloads); that None is no connection and no call, and a Buffer of a caller none of
the numbers that stand for those made by compression; that the priorities asked for are among the four
that `ConnectionFailover` has; and that the sets which are counted (calls, devices, retries) are finite.
`BlePoolAssumption` asks no order of the two limits. `PoolSize` and `MaxAge` of the cache are positive: `MemoryManager` takes
a size of zero for its default, and without `maxAge` the cache does not invalidate at all.

The arguments, and why the invariants need strengthening:

* **Batcher.** BatchBounded is kept only by finite batches (`BoundInv`). AcceptanceOrder speaks of
  what was emitted; a flush keeps it because `OrderInv` holds of what is *not* emitted yet: the
  sequence numbers of a batch follow acceptance within a priority (`SoundBatch`), and every message
  in a batch was accepted after every flushed message of its client (`AfterFlushed`). That carries
  the order across a restart of the sequence numbers.
* **Breaker.** TrippedIsOpen is inductive with the types. ProbeLimit and SlotsAreRunning both follow
  from `SlotInv`, which bounds the probes in flight by the half-open count, and equates them while
  the failures reach the threshold; each operation that settles releases exactly its own slot.
* **Pool.** PoolBounded: every creation is below a limit that is at most maxSize (`TargetType` for load
  balancing). PoolPartition needs `CreatedInPool`: validation cannot remove a connection whose creator
  is suspended, as microtasks end before the interval fires. HolderAccounted needs the uniqueness
  of whoever *knows* a connection, creators included (`KnowsOne`), and where it stands
  (`KnownInPlace`).
* **BLE service.** A type invariant alone does not bound the attempts: a call waits for a retry only
  while attempts are left (`ScanTypes`, `TaskTypes`). The safety invariants are silent about, or
  broken by, the moments between the answer of a device or of the radio and the microtask that
  records it. `WatchInv` says that the link of an answering device is up, and that no entry is of a link answered too late; `ScanInv` that the radio
  has at most one unrecorded answer, which tells its state; `LinkInv` counts the answering
  devices among the known ones, and says that a device that has just been left is not connected
  again before `disconnectDevice` forgets it.
* **Server.** The number of open sockets is not inductive; the number of entries is (`EntriesBounded`), and
  SocketsAccounted puts the open sockets among the entries and the logged-out clients. SocketsAccounted
  in turn needs `StoppingCloses`: a logout that ends during shutdown finds its socket closed already.
  LogoutLast holds because a client that was told has no entry any more (`ToldAreGone`) and
  `sendMessage` writes only to entries.
* **Channel.** The mapping takes from the batcher what its batches hold, what the listener heard and what was
  dropped. Each action is a step of the channel or changes nothing of it (`ChannelAccept`, `ChannelSend`,
  `ChannelDrop`, `ChannelCopy`, `ChannelClose`); that a flush emits each message of a batch and
  nothing twice rests on TypeOK and OrderInv. The channel's fairness is only checked.
* **Calls of the batcher.** RejectionHasCause and FlushedOnceInOrder relate what happened to the whole chain of
  calls. `ChainInv`: calls are issued in order and each is chained on an earlier one of its client.
  `WholeChain`: unless the chain of a client was cut by a removal, it holds all its calls, the tail is the last
  one, and all those before a call that ran have succeeded; so none of them can still fail or overtake.
  `KnownInv`: each message that waits or was flushed is that of one call that ran, and those of an uncut client were
  accepted in the order of their calls.
* **Authentication.** *Lockout*: a call gets to the check of a key only past a test of the lockout, and the
  lockout notes which calls are past it (`LockInv`). *Sessions*: only tokens that were issued are read or removed
  (`SessionInv`), so that a token issued later is not one that was removed. *RateLimiter*: what was let through within
  the window that ends now is still on the list (`SlidingKept`), whatever cleanup has dropped; of the fixed
  window, what was let through in the last `windowMs` before it began was let through by one window (`FixedKept`,
  `JustBefore`), hence twice the limit. *ApiKeys*: no key was due when the interval last fired (`Managed`);
  neither the filter of the expired nor the slice of the latest keys drops the last key made (`Stored`), for which
  `KeyPlaces` counts the places of the elements that remain. *Tokens*: a code that was never made is unknown and never
  exchanged. *Threats*: an analysis that no unblocking has overtaken
  is not about to block a client that was unblocked (`ThreatInv`). *Audits*: nothing is removed from `activeAudits`, so that the
  limit on its entries is one on the audits that run (`AuditInv`).
* **Radio.** *BlePool*: the partition needs that what is awaited is awaited once and what is held is held once
  (`Single`); the size, that `ceiling` never falls below the maximum and that cleanups count
  what is being created (`PoolInv`). *ScanHandler*, *ConnectionHandler*: of a client whose calls never
  overlapped, what is under way tells what is recorded (`ScanInv`, `ConnectInv`).
  *CharacteristicOperations*: the sort permutes the queue, because of two elements one goes before the other
  and there are as many places as elements; a queue never outgrows a batch, so a batch takes all of it (`OpsInv`).
  *Subscriptions*: an attempt registers one listener, between its discovery and its request (`SubsInv`).
  *RadioTuning*: holds of every state of the right types; the proof follows the adjustments one after the other.
* **Supervision.** *Supervision*: the two maps of the keep-alive, and those of the health check, hold the same
  connections, so that stopping, which reads one, undoes what the other says (`WatchInv`). *ResourceLimiter*: inductive
  with the types (`ResourceInv`): what a reset forgets is what is open then. *Failover*: an attempt
  is counted only where one is left, so that a locked priority changes by `stop` or by a call of its own (`FailKept`).
  *DataConsistency*: what the pool has done for a call that is about to write the log (`CallsFollow`), and
  that recovery meets only transactions the pool knows (`BegunInPool`). *Recovery*: while a call is alone nobody else is
  under way, and what it restored stays until it ends (`DisasterInv`). *ConnectionRetry*: what waits was counted
  below the limit, and only by the others beyond it (`RetryInv`). *Closing*: nothing links a
  connection again between its disconnect and its cleanup (`CloseInv`). *CachingLayer*: but for what a caller shares, a
  value is in one place, a call, the preload queue, an entry or among the overwritten (`Placed`), and what a check
  leaves is no older than `maxAge`, the next check being one period away (`Timed`).

The data of three components is represented so that it can be reasoned about without recursion or folds: a sort
and a slice are given by the places of the elements (`Before` and `Place` of CharacteristicOperations,
`Kept` of ApiKeys), and the time stamps of RateLimiter are a set.

Only model-checked:

* liveness under fairness (EveryCallSettles, AcceptedIsDelivered, OpenEnds, PoolHeals, ConnectSettles,
  LeavingEnds, ExpiredRemoved, EarlyOperationsRun, the fairness of the channel), which is out of the
  prover's reach;
* the five violations.

## 5. The plan

Every component with control of its own is modelled. What a next step would add, in this order:

1. an abstract device (absent, connecting, connected) that `BleService` implements per device, proved like
   the channel, and its fusion with the handlers once these call the service by its names;
2. `Failover` fused with `CircuitBreaker` and `ServerConnectionPool`: today each meets the others' interface
   with arbitrary answers, which covers the fusion but does not use what the others promise.

## 6. What is not modelled, and why

* **Entry point** (`index.js`): it calls stops one after the other and wires services that do not fit (above).
* **The front end** (`websocket/WebSocketServer.js`): it keeps a map of sockets, and the handlers behind it have no
  BLE service as it constructs them (section 3); the handlers are modelled with the service their tests give them.
* **AuthHandler** (`mcp/handlers/AuthHandler.js`): it calls the authentication service with arguments it does not
  take and `rateLimiter.delete`, which does not exist; it keeps nothing.
* **`websocket/server.js`**: an older copy of the front end without handlers.
* **TokenAuthentication**, the signed tokens of `OAuth2Service` and `mcp/auth/OAuth2Service.js`: a token is
  checked from its own text; the last calls an HTTP service and keeps nothing.
* **`security/RateLimiter.js`**: the sliding window of `auth/RateLimiter.js` again, used by nobody.
* **Signing and encryption** (`RequestSigning`, `SessionEncryption`, `MessageSecurity`): conversions. Their
  awaits and failures are in `Sessions`.
* **Protocol layers**, `CompressionUtils`, `Base64Utils`, `BatchCompressor`: conversions and validation of data.
* **`PriorityScanning`, `RSSIThresholds`, `DeviceDiscoveryOptimization`, `DeviceFilterConfiguration`**: heuristics over
  maps of their own, that no other component reads.
* **Metrics, `AdvancedMetrics`, `BatchPredictor`**: statistics over floating point numbers that no control
  flow reads. The same holds of the batcher's analytics and adaptive size, of the statistics of
  pools and caches, and of the history of characteristic operations.
* **Subscriptions of `CharacteristicOperations`**: a map that only its getter reads.
* **`CachingLayer.evictEntries`**: never reached, since `getMemoryStats` has no field `heapUsed`.
* **`ConnectionShutdown.shutdown`**: it calls methods that do not exist.
* **Checkpoints of `DataConsistency`**: written and never read.
* **`DisasterRecovery.drainConnections`**: it awaits the pool's `drain` and keeps nothing.
* **`HighAvailability.acquireConnection`, `releaseConnection`**: they keep start times for a histogram; what they
  report to the breaker is among the outcomes that `CircuitBreaker` takes from others.
* **Configuration, logging, helpers**, and four files without content.

Hazards without a property:

* a lockout expires only in `authenticate`: `validateApiKey` and `createSession` refuse the client until it
  calls that (`auth/AuthService.js:234`); the model does the same, and nothing in the code says otherwise;
* `releaseConnection` does not check that a connection was in use (`mcp/server/ConnectionPool.js:164`): callers of
  the model release what they hold;
* `stop` of `ble/ConnectionPool.js` clears one of its three maps (line 303): BlePoolAccounted speaks of
  the time before it;
* an unhealthy connection is not given back (`ConnectionFailover.js:80`); nothing that `Failover` keeps changes;
* the recovery timer outlives a new use of the connection (`ConnectionTimeout.js:106`): NoOrphanTimer says
  only that it can be cleared;
* `handleAuth` marks a client it has kept across an await (`mcp/server/WebSocketServer.js:245`), in the map or
  not: nothing is sent to one that is not;
* the error path of `CharacteristicOperations` throws on missing statistics (line 388);
* listeners on noble pile up with every scan (`bleService.js:94`), and `device.disconnect()` has no timeout
  (line 298): the device is external and promises nothing;
* an operation queued after the batch timer has fired waits until the queue is full
  (`CharacteristicOperations.js:283`): EarlyOperationsRun is about those queued before;
* a keep-alive ping that fails late stops a monitoring that was stopped and started again
  (`ConnectionKeepAlive.js:77`); NoOrphanTimer holds all the same;
* a client whose own calls overlap, or that leaves while its connect is awaited, may be recorded after it has left, its
  device connected with nobody to disconnect it (`ConnectionHandler.js:124`): ConnectionsReleased exempts it;
* a crash between the commit in the pool and the mark in the log makes recovery roll a committed transaction back
  (`DataConsistency.js:60`): LogFollowsPool exempts it;
* recoveries overlap (`DisasterRecovery.js:63`): one may report success over a pool that another has stopped;
* the adapter is switched off (`bleService.js:121`), `get` deletes a fresh entry (`CachingLayer.js:514`), a client
  unblocked meanwhile is blocked again (`ThreatDetectionService.js:46`), a CPU check that refuses once refuses for
  good (`ResourceLimiter.js:81`): section 3;
* `index.js:140` cleans the BLE service up before it stops the server.

`PROJECT.json` gives the reason file by file.
