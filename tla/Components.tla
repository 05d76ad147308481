------------------------------ MODULE Components ------------------------------
(***************************************************************************)
(* The components that have no run of their own, side by side.  They share *)
(* no state: a behaviour exercises one of them, chosen at the start        *)
(* (part), and leaves the others as they begin.  One run so explores the   *)
(* sum of their state spaces, and one specification carries the theorems.  *)
(* What the constants and variables are is said in the module of the       *)
(* component; a name is changed here where two components use it.          *)
(***************************************************************************)
EXTENDS BlePool, Integers

CONSTANTS
  Calls, Clients, Devices,
  SomeClients,  \* the clients of the components whose clients share nothing
  SomeDevices,  \* the devices or connections of those whose devices share nothing
  MaxFailed, LockoutDuration, LockoutTime,                                  \* Lockout
  Tokens, SessionDuration, MaxAuthConnections, MaxAborts, MaxInvolved, SessionTime,    \* Sessions
  WindowMs, MaxRequests, LimiterTime,                                       \* RateLimiter
  RotationInterval, MaxKeyAge, MaxKeys, MaxMade, KeyTime,                   \* ApiKeys
  Codes, OAuthSessions, Users, CodeExpiry, SessionExpiry, MaxSessions, TokenTime, \* Tokens
  Ips, MaxAuthFailures,                                                     \* Threats
  MaxConcurrentAudits, MaxConcurrentScans,                                  \* Audits
  MaxListeners,                                                             \* ScanHandler
  MaxLost,                                                                  \* ConnectionHandler
  QueuedOperations, Ranks, MaxBatchSize,                                    \* CharacteristicOperations
  Requests, MaxAttempts,                                                    \* Subscriptions
  MaxLimitConnections, MaxCpuUsage, MaxNetworkUsage, Sizes, MaxOpen, MaxCpu, \* ResourceLimiter
  Bytes, Batteries,                                                         \* RadioTuning
  CacheKeys, Buffers, MaxAge, PoolSize, PreloadBatch, Ttls, MaxSets, MaxPending, \* CachingLayer
  Asked, MaxFailoverAttempts,                                               \* Failover
  MaxPingFailures, MaxErrors, MaxRuns,                                      \* Supervision
  Txs, MaxCrashes,                                                          \* DataConsistency
  RecoveryAttempts, MaxSaved,                                               \* Recovery
  Retries, MaxRetries,                                                      \* ConnectionRetry
  QuiescenceRetries                                                         \* Closing

(* Times, durations, sizes and limits are numbers; those that the constructors take from a default other  *)
(* than zero are positive, and so are the size of a batch of operations and of the pool of buffers and the *)
(* cache's maximal age, without which it does not invalidate.  None is no device, no connection and no call, *)
(* and a caller's Buffer is none of the numbered ones.  Devices are those that one adapter has found and  *)
(* calls those in progress, so that both are finite, as are the calls of retry.                           *)
ASSUME ComponentsAssumption ==
  /\ {LockoutTime, LockoutDuration, MaxFailed, SessionTime, SessionDuration, TokenTime, CodeExpiry,
      SessionExpiry, LimiterTime, WindowMs, MaxRequests, KeyTime, MaxMade, MaxSets} \subseteq Nat
  /\ {RotationInterval, MaxKeyAge, MaxKeys, MaxBatchSize, PoolSize, MaxAge} \subseteq Nat \ {0}
  /\ Ranks \subseteq Nat /\ Ttls \subseteq Nat /\ PreloadBatch \in Nat
  /\ \A b \in Buffers : b \notin Nat
  /\ MaxAuthFailures \in Nat \ {0} /\ MaxConcurrentAudits \in Nat
  /\ IsFiniteSet(Devices) /\ IsFiniteSet(Calls)
  /\ None \notin SomeDevices \cup Calls
  /\ MaxAttempts \in Nat \ {0}
  /\ Bytes \subseteq Nat /\ Batteries \subseteq Nat
  /\ {MaxNetworkUsage, MaxCpuUsage, MaxOpen} \subseteq Nat /\ MaxCpu \in Nat \ {0} /\ Sizes \subseteq Nat
  /\ {MaxPingFailures, MaxErrors, MaxRuns, MaxCrashes, QuiescenceRetries} \subseteq Nat
  /\ MaxFailoverAttempts \in Nat /\ Asked \subseteq {"high", "medium", "low", "default"}
  /\ {RecoveryAttempts, MaxRetries, MaxSaved} \subseteq Nat /\ IsFiniteSet(Retries)

VARIABLE part

VARIABLES lockTime, authFailures, blockedUntil, lockCall, begunBefore, testedBefore
lockoutState == <<lockTime, authFailures, blockedUntil, lockCall, begunBefore, testedBefore>>
Lock == INSTANCE Lockout WITH
  Clients <- SomeClients, Lockout <- LockoutDuration, MaxTime <- LockoutTime, now <- lockTime, call <- lockCall

VARIABLES sessionTime, sessionCall, activeSessions, expiresAt, issued, cleaner, cleanupTimer, aborts, removed,
          revived
sessionState == <<sessionTime, sessionCall, activeSessions, expiresAt, issued, cleaner, cleanupTimer, aborts,
                  removed, revived>>
Sess == INSTANCE Sessions WITH
  MaxConnections <- MaxAuthConnections, MaxTime <- SessionTime, now <- sessionTime, call <- sessionCall

VARIABLES limitTime, requests, limitCleaning, fixedCount, fixedReset, admitted, fixedAdmitted
limiterState == <<limitTime, requests, limitCleaning, fixedCount, fixedReset, admitted, fixedAdmitted>>
Limit == INSTANCE RateLimiter WITH
  Clients <- SomeClients, MaxTime <- LimiterTime, now <- limitTime, cleaning <- limitCleaning

VARIABLES keyTime, keyHeld, createdAt, rotatedAt, nextFire, keyStore, made, newest, startedAt
keyState == <<keyTime, keyHeld, createdAt, rotatedAt, nextFire, keyStore, made, newest, startedAt>>
ApiKey == INSTANCE ApiKeys WITH
  Clients <- SomeClients, MaxTime <- KeyTime, now <- keyTime, held <- keyHeld

VARIABLES tokenTime, authorizationCodes, usedAuthorizationCodes, oauthSessions, codesMade, sessionsMade, exchanged
tokenState == <<tokenTime, authorizationCodes, usedAuthorizationCodes, oauthSessions, codesMade,
                sessionsMade, exchanged>>
Token == INSTANCE Tokens WITH
  Sessions <- OAuthSessions, MaxTime <- TokenTime, now <- tokenTime, activeSessions <- oauthSessions

VARIABLES failures, highSeverity, blockedClients, blockedIps, threatCall, pardoned, overtaken, undone
threatState == <<failures, highSeverity, blockedClients, blockedIps, threatCall, pardoned, overtaken, undone>>
Threat == INSTANCE Threats WITH call <- threatCall

VARIABLES activeAudits, auditResults, deviceScans, scanResults, auditCall
auditState == <<activeAudits, auditResults, deviceScans, scanResults, auditCall>>
Audit == INSTANCE Audits WITH
  activeScans <- deviceScans, call <- auditCall

VARIABLES activeScans, listeners, scanning, scanHandling, gone, scanOverlapped, crossed
scanState == <<activeScans, listeners, scanning, scanHandling, gone, scanOverlapped, crossed>>
Scan == INSTANCE ScanHandler WITH
  ScanClients <- Clients, ScanCalls <- Calls,
  handling <- scanHandling, overlapped <- scanOverlapped

VARIABLES device, hears, lostListeners, links, connectCall, left, overlapped, failed
connectionState == <<device, hears, lostListeners, links, connectCall, left, overlapped, failed>>
Connect == INSTANCE ConnectionHandler WITH
  Devices <- SomeDevices, lost <- lostListeners, call <- connectCall

VARIABLES queue, status, batches, batchTimer, early
operationState == <<queue, status, batches, batchTimer, early>>
Ops == INSTANCE CharacteristicOperations WITH Operations <- QueuedOperations

VARIABLES connected, request, listening, notifying, meanwhile, silenced
subscriptionState == <<connected, request, listening, notifying, meanwhile, silenced>>
Subs == INSTANCE Subscriptions

VARIABLES cpu, lastCpuUsage, currentConnections, currentNetworkUsage, open, forgotten, admittedBytes
resourceState == <<cpu, lastCpuUsage, currentConnections, currentNetworkUsage, open, forgotten, admittedBytes>>
Resource == INSTANCE ResourceLimiter WITH MaxConnections <- MaxLimitConnections, admitted <- admittedBytes

VARIABLES priority, rate, battery, drops, draining, rssi
radioState == <<priority, rate, battery, drops, draining, rssi>>
Radio == INSTANCE RadioTuning WITH Absent <- None

VARIABLES cache, pool, pending, preloadQueue, preloading, again, untilCheck, compressed, zeroed, handed, twice, sets
cacheState == <<cache, pool, pending, preloadQueue, preloading, again, untilCheck, compressed, zeroed, handed,
                twice, sets>>
Caching == INSTANCE CachingLayer WITH Keys <- CacheKeys, BatchSize <- PreloadBatch

VARIABLES failoverAttempts, known, failoverCall, acquiredAt
failoverState == <<failoverAttempts, known, failoverCall, acquiredAt>>
Fail == INSTANCE Failover WITH
  Conns <- SomeDevices, call <- failoverCall

VARIABLES timeouts, timeoutId, timeoutHandling, recoveries, recoveryId, kept, keepMonitors, keepIntervals,
          pings, pingFailures, watched, monitors, intervals, errors
supervisionState == <<timeouts, timeoutId, timeoutHandling, recoveries, recoveryId, kept, keepMonitors,
                      keepIntervals, pings, pingFailures, watched, monitors, intervals, errors>>
Watch == INSTANCE Supervision WITH
  Connections <- SomeDevices, handling <- timeoutHandling

VARIABLES db, log, activeTxs, txCall, lostTxs, crashes
transactionState == <<db, log, activeTxs, txCall, lostTxs, crashes>>
Data == INSTANCE DataConsistency WITH
  active <- activeTxs, call <- txCall, lost <- lostTxs

VARIABLES saved, poolState, keepAlive, healthCheckTimer, recovery, alone
recoveryState == <<saved, poolState, keepAlive, healthCheckTimer, recovery, alone>>
Disaster == INSTANCE Recovery WITH Callers <- Calls

VARIABLES counted, retryCount, retrying
retryState == <<counted, retryCount, retrying>>
Repeat == INSTANCE ConnectionRetry WITH Conns <- SomeDevices

VARIABLES active, fresh, linked, uncleaned, closed, shutdown, closing, cleaning
closingState == <<active, fresh, linked, uncleaned, closed, shutdown, closing, cleaning>>
Close == INSTANCE Closing WITH Connections <- Devices, MaxRetries <- QuiescenceRetries

----
Parts == {"pool", "lockout", "sessions", "limiter", "keys", "tokens", "threats", "audits", "scans",
          "connections", "operations", "radio", "cache", "failover", "supervision", "transactions",
          "recovery", "retries", "closing", "subscriptions", "resources"}

ComponentsInit ==
  /\ part \in Parts
  /\ Init /\ (part # "pool" => limits = CHOOSE l \in Constructed : TRUE)
  /\ Lock!Init /\ Sess!Init /\ Limit!Init /\ ApiKey!Init /\ Token!Init /\ Threat!Init /\ Audit!Init
     /\ Scan!Init /\ Connect!Init /\ Ops!Init /\ Radio!Init /\ Caching!Init /\ Fail!Init /\
     Watch!Init /\ Data!Init /\ Disaster!Init /\ Repeat!Init /\ Close!Init /\ Subs!Init /\ Resource!Init

\* The other components stay as they are.
Only(p) ==
  /\ part' = part
  /\ p # "pool" => UNCHANGED blePoolVars
  /\ p # "lockout" => UNCHANGED lockoutState
  /\ p # "sessions" => UNCHANGED sessionState
  /\ p # "limiter" => UNCHANGED limiterState
  /\ p # "keys" => UNCHANGED keyState
  /\ p # "tokens" => UNCHANGED tokenState
  /\ p # "threats" => UNCHANGED threatState
  /\ p # "audits" => UNCHANGED auditState
  /\ p # "scans" => UNCHANGED scanState
  /\ p # "connections" => UNCHANGED connectionState
  /\ p # "operations" => UNCHANGED operationState
  /\ p # "radio" => UNCHANGED radioState
  /\ p # "cache" => UNCHANGED cacheState
  /\ p # "failover" => UNCHANGED failoverState
  /\ p # "supervision" => UNCHANGED supervisionState
  /\ p # "transactions" => UNCHANGED transactionState
  /\ p # "recovery" => UNCHANGED recoveryState
  /\ p # "retries" => UNCHANGED retryState
  /\ p # "closing" => UNCHANGED closingState
  /\ p # "subscriptions" => UNCHANGED subscriptionState
  /\ p # "resources" => UNCHANGED resourceState

PoolStep == part = "pool" /\ Next /\ Only("pool")
LockoutStep == part = "lockout" /\ Lock!Next /\ Only("lockout")
SessionsStep == part = "sessions" /\ Sess!Next /\ Only("sessions")
LimiterStep == part = "limiter" /\ Limit!Next /\ Only("limiter")
KeysStep == part = "keys" /\ ApiKey!Next /\ Only("keys")
TokensStep == part = "tokens" /\ Token!Next /\ Only("tokens")
ThreatsStep == part = "threats" /\ Threat!Next /\ Only("threats")
AuditsStep == part = "audits" /\ Audit!Next /\ Only("audits")
ScansStep == part = "scans" /\ Scan!Next /\ Only("scans")
ConnectionsStep == part = "connections" /\ Connect!Next /\ Only("connections")
OperationsStep == part = "operations" /\ Ops!Next /\ Only("operations")
RadioStep == part = "radio" /\ Radio!Next /\ Only("radio")
CacheStep == part = "cache" /\ Caching!Next /\ Only("cache")
FailoverStep == part = "failover" /\ Fail!Next /\ Only("failover")
SupervisionStep == part = "supervision" /\ Watch!Next /\ Only("supervision")
TransactionsStep == part = "transactions" /\ Data!Next /\ Only("transactions")
RecoveryStep == part = "recovery" /\ Disaster!Next /\ Only("recovery")
RetriesStep == part = "retries" /\ Repeat!Next /\ Only("retries")
SubscriptionsStep == part = "subscriptions" /\ Subs!Next /\ Only("subscriptions")
ResourcesStep == part = "resources" /\ Resource!Next /\ Only("resources")
ClosingStep == part = "closing" /\ Close!Next /\ Only("closing")

ComponentsNext ==
  \/ PoolStep \/ LockoutStep \/ SessionsStep \/ LimiterStep \/ KeysStep
  \/ TokensStep \/ ThreatsStep \/ AuditsStep \/ ScansStep \/ ConnectionsStep
  \/ OperationsStep \/ RadioStep \/ CacheStep \/ FailoverStep \/ SupervisionStep
  \/ TransactionsStep \/ RecoveryStep \/ RetriesStep \/ ClosingStep \/ SubscriptionsStep \/ ResourcesStep

componentVars == <<part, blePoolVars, lockoutState, sessionState, limiterState, keyState, tokenState, threatState,
    auditState, scanState, connectionState, operationState, radioState, cacheState, failoverState,
    supervisionState, transactionState, recoveryState, retryState, closingState, subscriptionState, resourceState>>

\* The part chosen and its state: what else the state holds never changes.
View ==
  <<part,
    CASE part = "pool" -> blePoolVars
      [] part = "lockout" -> lockoutState
      [] part = "sessions" -> sessionState
      [] part = "limiter" -> limiterState
      [] part = "keys" -> keyState
      [] part = "tokens" -> tokenState
      [] part = "threats" -> threatState
      [] part = "audits" -> auditState
      [] part = "scans" -> scanState
      [] part = "connections" -> connectionState
      [] part = "operations" -> operationState
      [] part = "radio" -> radioState
      [] part = "cache" -> cacheState
      [] part = "failover" -> failoverState
      [] part = "supervision" -> supervisionState
      [] part = "transactions" -> transactionState
      [] part = "recovery" -> recoveryState
      [] part = "retries" -> retryState
      [] part = "closing" -> closingState
      [] part = "subscriptions" -> subscriptionState
      [] part = "resources" -> resourceState>>

(* Fairness: passes of cleanupSessions go on, and batches of operations are *)
(* run and answered.                                                        *)
ComponentsSpec ==
  /\ ComponentsInit /\ [][ComponentsNext]_componentVars
  /\ WF_sessionState(part = "sessions" /\ Sess!Cleanup /\ Only("sessions"))
  /\ WF_operationState(part = "operations" /\ Ops!Progress /\ Only("operations"))

----
(* The properties of the components.  Each is explained in the module of the *)
(* component; its type invariant goes with it.                               *)

\* AuthService: a lockout is honoured by calls begun after it.
LockoutHonoured == part = "lockout" => Lock!TypeOK /\ Lock!LockoutHonoured

\* AuthService: a session that was removed does not come back, unless it was in use.
RemovedStaysRemoved == part = "sessions" => Sess!TypeOK /\ Sess!RemovedStaysRemoved

\* Both rate limiters admit no more than the limit in a window.
RateBounded == part = "limiter" => Limit!TypeOK /\ Limit!RateBounded

\* ApiKeyManager and ApiKeyRotation: the ages, the numbers and the expiry of keys.
KeysSound == part = "keys" => ApiKey!TypeOK /\ ApiKey!KeysSound

\* OAuth2Service: a code is exchanged at most once.
CodeExchangedOnce == part = "tokens" => Token!TypeOK /\ Token!CodeExchangedOnce

\* ThreatDetectionService: threats block, and a client that was unblocked stays so
\* until its next threat, but for an analysis that was about to block it.
ThreatsAnswered == part = "threats" => Threat!TypeOK /\ Threat!ThreatsAnswered

\* SecurityAuditor and VulnerabilityScanner: what is reported as running runs.
AuditsAccounted == part = "audits" => Audit!TypeOK /\ Audit!AuditsAccounted

\* ScanHandler: what is recorded of a client is what its listeners and the adapter do.
ScansAccounted == part = "scans" => Scan!TypeOK /\ Scan!ScansAccounted

\* ConnectionHandler: clients that leave hold nothing.
ConnectionsReleased == part = "connections" => Connect!TypeOK /\ Connect!ConnectionsReleased

\* CharacteristicOperations: no operation is lost or runs twice.
OperationsAccounted == part = "operations" => Ops!TypeOK /\ Ops!OperationsAccounted

\* bleService: subscribers are heard, and unsubscribed ones are not.
SubscriptionsAccounted == part = "subscriptions" => Subs!TypeOK /\ Subs!SubscriptionsAccounted

\* ResourceLimiter: the counts of connections and bytes, resets and refusals among them.
LimitsAccounted == part = "resources" => Resource!TypeOK /\ Resource!LimitsAccounted

\* ConnectionParameters and PowerLevelAdjustment: the adjustments add up to what is legal.
TuningServes == part = "radio" => Radio!TypeOK /\ Radio!TuningServes

\* CachingLayer: no entry outlives its age, and no buffer is overwritten under an entry
\* unless its callers share it.
CachingSound == part = "cache" => Caching!TypeOK /\ Caching!CachingSound

\* ConnectionTimeout, ConnectionKeepAlive, ConnectionHealth: every timer that runs can be stopped.
NoOrphanTimer == part = "supervision" => Watch!TypeOK /\ Watch!NoOrphanTimer

\* DataConsistency: the log says no more than what the pool did.
LogFollowsPool == part = "transactions" => Data!TypeOK /\ Data!LogFollowsPool

\* DisasterRecovery and ConnectionRetry: what is brought back is watched, unless calls
\* overlap, and no connection is tried without end.
RecoverySound ==
  /\ part = "recovery" => Disaster!TypeOK /\ Disaster!RecoveredIsWatched
  /\ part = "retries" => Repeat!TypeOK /\ Repeat!RetriesBounded

\* ConnectionShutdown and ConnectionCleaner: what is marked closed is clean.
ClosedIsClean == part = "closing" => Close!TypeOK /\ Close!ClosedIsClean

\* AuthService: under fairness of its cleanup an expired session leaves.
ExpiredRemoved == Sess!ExpiredRemoved

\* CharacteristicOperations: an operation queued before the batch timer fires is run.
EarlyOperationsRun == Ops!EarlyOperationsRun

\* ConnectionFailover: a priority that is used up stays refused, health checks aside.
LockedUntilSuccess == Fail!LockedUntilSuccess /\ [](part = "failover" => Fail!TypeOK)
====
