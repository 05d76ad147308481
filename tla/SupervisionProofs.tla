------------------------- MODULE SupervisionProofs -------------------------
(***************************************************************************)
(* Proofs about what watches, limits and recovers connections, and about   *)
(* the cache: Supervision, ResourceLimiter, Failover, DataConsistency,     *)
(* ConnectionRetry, Recovery, Closing and CachingLayer, for every value of *)
(* the constants.                                                          *)
(***************************************************************************)
EXTENDS Components, Sequences, FiniteSetTheorems, SequenceTheorems, TLAPS

\* A step is one of one component, and leaves the others as they are.
LEMMA PartStep ==
  ASSUME [ComponentsNext]_componentVars
  PROVE  \E p \in Parts \cup {"none"} :
           /\ Only(p)
           /\ p = "supervision" => Watch!Next
           /\ p = "resources" => Resource!Next
           /\ p = "failover" => Fail!Next
           /\ p = "transactions" => Data!Next
           /\ p = "retries" => Repeat!Next
           /\ p = "recovery" => Disaster!Next
           /\ p = "closing" => Close!Next
           /\ p = "cache" => Caching!Next
<1>1. CASE UNCHANGED componentVars
  BY <1>1 DEF componentVars, Only
<1>2. CASE ComponentsNext
  BY <1>2
  DEF ComponentsNext, Parts, PoolStep, LockoutStep, SessionsStep, LimiterStep, KeysStep, TokensStep,
      ThreatsStep, AuditsStep, ScansStep, ConnectionsStep, OperationsStep, RadioStep, CacheStep,
      FailoverStep, SupervisionStep, TransactionsStep, RecoveryStep, ClosingStep, SubscriptionsStep,
      ResourcesStep, RetriesStep
<1> QED
  BY <1>1, <1>2

-----------------------------------------------------------------------------
(* Supervision: the timers that watch a connection.  The two maps of the   *)
(* keep-alive hold the same connections, and so do those of the health     *)
(* check: stopping, which reads the one, undoes what the other says.       *)
LEMMA WatchConstants == {MaxPingFailures, MaxErrors, MaxRuns} \subseteq Nat
BY ComponentsAssumption

WatchInv == Watch!TypeOK /\ Watch!NoOrphanTimer /\ keepMonitors = kept /\ monitors = watched

LEMMA WatchInit == Watch!Init => WatchInv
BY WatchConstants DEF Watch!Init, WatchInv, Watch!TypeOK, Watch!NoOrphanTimer, Watch!Zero, Watch!NoId, Watch!Ids

LEMMA WatchNext == ASSUME WatchInv, [Watch!Next]_supervisionState PROVE WatchInv'
<1> USE WatchConstants DEF WatchInv, Watch!TypeOK, Watch!NoOrphanTimer, Watch!Ids
<1>1. ASSUME NEW c \in SomeDevices, Watch!StartTimeout(c) \/ Watch!ClearTimeout(c) \/ Watch!TimeoutFires(c) PROVE WatchInv'
  <2>1. CASE Watch!StartTimeout(c)
    <3>1. Watch!Cleared(timeouts, timeoutId, c) = 0
      BY DEF Watch!Cleared
    <3>2. timeouts' = [timeouts EXCEPT ![c] = 1]
      BY <2>1, <3>1 DEF Watch!StartTimeout
    <3> QED
      BY <2>1, <3>2 DEF Watch!StartTimeout, Watch!keepVars, Watch!healthVars
  <2>2. CASE Watch!ClearTimeout(c)
    BY <2>2 DEF Watch!ClearTimeout, Watch!Cleared, Watch!keepVars, Watch!healthVars
  <2>3. CASE Watch!TimeoutFires(c)
    BY <2>3 DEF Watch!TimeoutFires, Watch!Fired, Watch!keepVars, Watch!healthVars
  <2> QED
    BY <1>1, <2>1, <2>2, <2>3
<1>2. ASSUME NEW c \in SomeDevices, Watch!TimeoutHandled(c) \/ Watch!ClearRecovery(c) \/ Watch!RecoveryFires(c) PROVE WatchInv'
  <2>1. CASE Watch!TimeoutHandled(c)
    BY <2>1 DEF Watch!TimeoutHandled, Watch!StartRecovery, Watch!Cleared, Watch!keepVars, Watch!healthVars
  <2>2. CASE Watch!ClearRecovery(c)
    BY <2>2 DEF Watch!ClearRecovery, Watch!Cleared, Watch!keepVars, Watch!healthVars
  <2>3. CASE Watch!RecoveryFires(c)
    BY <2>3 DEF Watch!RecoveryFires, Watch!Fired, Watch!keepVars, Watch!healthVars
  <2> QED
    BY <1>2, <2>1, <2>2, <2>3
<1>3. ASSUME NEW c \in SomeDevices, Watch!StartKeepAlive(c) PROVE WatchInv'
  <2>1. UNCHANGED <<pings, pingFailures, timeouts, timeoutId, timeoutHandling, recoveries, recoveryId, watched,
                    monitors, intervals, errors>>
    BY <1>3 DEF Watch!StartKeepAlive, Watch!timeoutVars, Watch!healthVars
  <2>2. /\ c \notin kept /\ kept' = kept \cup {c} /\ keepMonitors' = keepMonitors \cup {c}
        /\ keepIntervals' = [keepIntervals EXCEPT ![c] = @ + 1]
    BY <1>3 DEF Watch!StartKeepAlive
  <2>3. \A d \in SomeDevices : keepIntervals'[d] = IF d = c THEN keepIntervals[d] + 1 ELSE keepIntervals[d]
    BY <2>2
  <2>4. Watch!TypeOK'
    BY <2>1, <2>2
  <2> QED
    BY <2>1, <2>2, <2>3, <2>4
<1>4. ASSUME NEW c \in SomeDevices, Watch!StopsKeepAlive(c), UNCHANGED <<Watch!timeoutVars, Watch!healthVars>>,
             pings' \in [SomeDevices -> 0..MaxRuns], pingFailures' \in [SomeDevices -> 0..MaxPingFailures]
      PROVE  WatchInv'
  <2>1. UNCHANGED <<timeouts, timeoutId, timeoutHandling, recoveries, recoveryId, watched, monitors, intervals, errors>>
    BY <1>4 DEF Watch!timeoutVars, Watch!healthVars
  <2>2. CASE c \in keepMonitors
    <3>1. /\ keepIntervals' = [keepIntervals EXCEPT ![c] = @ - 1]
          /\ keepMonitors' = keepMonitors \ {c} /\ kept' = kept \ {c}
      BY <1>4, <2>2 DEF Watch!StopsKeepAlive
    <3>2. \A d \in SomeDevices : keepIntervals'[d] = IF d = c THEN keepIntervals[d] - 1 ELSE keepIntervals[d]
      BY <3>1
    <3>3. keepIntervals[c] = 1
      BY <2>2
    <3> QED
      BY <1>4, <2>1, <3>1, <3>2, <3>3
  <2>3. CASE c \notin keepMonitors
    BY <1>4, <2>1, <2>3 DEF Watch!StopsKeepAlive
  <2> QED
    BY <2>2, <2>3
<1>5. ASSUME UNCHANGED <<kept, keepMonitors, keepIntervals>>, UNCHANGED <<Watch!timeoutVars, Watch!healthVars>>,
             pings' \in [SomeDevices -> 0..MaxRuns], pingFailures' \in [SomeDevices -> 0..MaxPingFailures]
      PROVE  WatchInv'
  BY <1>5 DEF Watch!timeoutVars, Watch!healthVars
<1>6. ASSUME NEW c \in SomeDevices, Watch!StopKeepAlive(c) PROVE WatchInv'
  BY <1>4, <1>6 DEF Watch!StopKeepAlive
<1>7. ASSUME NEW c \in SomeDevices, Watch!SendKeepAlive(c) \/ Watch!PingAnswered(c) PROVE WatchInv'
  BY <1>5, <1>7 DEF Watch!SendKeepAlive, Watch!PingAnswered
<1>8. ASSUME NEW c \in SomeDevices, Watch!PingFailed(c) PROVE WatchInv'
  <2>1. /\ pings' \in [SomeDevices -> 0..MaxRuns] /\ pingFailures' \in [SomeDevices -> 0..MaxPingFailures]
        /\ UNCHANGED <<Watch!timeoutVars, Watch!healthVars>>
    BY <1>8 DEF Watch!PingFailed
  <2>2. Watch!StopsKeepAlive(c) \/ UNCHANGED <<kept, keepMonitors, keepIntervals>>
    BY <1>8 DEF Watch!PingFailed
  <2> QED
    BY <2>1, <2>2, <1>4, <1>5
<1>9. ASSUME NEW c \in SomeDevices, Watch!MonitorConnection(c) \/ Watch!StopMonitoring(c) PROVE WatchInv'
  <2>1. UNCHANGED <<errors, timeouts, timeoutId, timeoutHandling, recoveries, recoveryId, kept, keepMonitors,
                    keepIntervals, pings, pingFailures>>
    BY <1>9 DEF Watch!MonitorConnection, Watch!StopMonitoring, Watch!timeoutVars, Watch!keepVars
  <2>2. CASE Watch!MonitorConnection(c)
    BY <2>1, <2>2 DEF Watch!MonitorConnection
  <2>3. CASE Watch!StopMonitoring(c)
    BY <2>1, <2>3 DEF Watch!StopMonitoring, Watch!StopsMonitoring
  <2> QED
    BY <1>9, <2>2, <2>3
<1>10. ASSUME NEW c \in SomeDevices, NEW healthy \in BOOLEAN, Watch!CheckHealth(c, healthy) PROVE WatchInv'
  BY <1>10 DEF Watch!CheckHealth, Watch!CountErrors, Watch!StopsMonitoring, Watch!timeoutVars, Watch!keepVars
<1>11. CASE Watch!CleanupKeepAlive
  <2>1. keepIntervals' = [c \in SomeDevices |-> 0]
    BY <1>11 DEF Watch!CleanupKeepAlive
  <2> QED
    BY <1>11, <2>1 DEF Watch!CleanupKeepAlive, Watch!timeoutVars, Watch!healthVars
<1>12. CASE Watch!CleanupHealth
  <2>1. intervals' = [c \in SomeDevices |-> 0]
    BY <1>12 DEF Watch!CleanupHealth
  <2> QED
    BY <1>12, <2>1 DEF Watch!CleanupHealth, Watch!timeoutVars, Watch!keepVars
<1>13. CASE UNCHANGED supervisionState
  BY <1>13 DEF supervisionState, Watch!timeoutVars, Watch!keepVars, Watch!healthVars
<1> QED
  BY <1>1, <1>2, <1>3, <1>8, <1>9, <1>10, <1>11, <1>13, <1>6, <1>7, <1>12 DEF Watch!Next

LEMMA WatchStep == [ComponentsNext]_componentVars => [Watch!Next]_supervisionState
BY PartStep DEF Only

\* Whatever is started, cleared, restarted and fires meanwhile, a connection has at most one
\* timer of each kind, and the field or map that clearing reads names it
\* (ConnectionTimeout, ConnectionKeepAlive, ConnectionHealth).
THEOREM NoOrphanTimerAlways == ComponentsSpec => []NoOrphanTimer
<1>1. ComponentsInit => WatchInv
  BY WatchInit DEF ComponentsInit
<1>2. WatchInv /\ [ComponentsNext]_componentVars => WatchInv'
  BY WatchStep, WatchNext
<1>3. WatchInv => NoOrphanTimer
  BY DEF WatchInv, NoOrphanTimer
<1> QED
  BY <1>1, <1>2, <1>3, PTL DEF ComponentsSpec

-----------------------------------------------------------------------------
(* ResourceLimiter: the account is inductive with the types; a check of     *)
(* the network counts bytes before it is known whether they are allowed.   *)
LEMMA ResourceConstants == MaxOpen \in Nat /\ MaxCpu \in Nat \ {0} /\ MaxNetworkUsage \in Nat /\ Sizes \subseteq Nat /\ MaxCpuUsage \in Nat
BY ComponentsAssumption

ResourceInv == Resource!TypeOK /\ Resource!LimitsAccounted

LEMMA ResourceInit == Resource!Init => ResourceInv
BY ResourceConstants DEF Resource!Init, ResourceInv, Resource!TypeOK, Resource!LimitsAccounted

LEMMA ResourceNext == ASSUME ResourceInv, [Resource!Next]_resourceState PROVE ResourceInv'
<1> USE ResourceConstants DEF ResourceInv, Resource!TypeOK, Resource!LimitsAccounted
<1>1. CASE Resource!IncrementConnections
  BY <1>1 DEF Resource!IncrementConnections
<1>2. CASE Resource!DecrementConnections
  BY <1>2 DEF Resource!DecrementConnections
<1>3. ASSUME NEW bytes \in Sizes, NEW memoryWithin \in BOOLEAN, Resource!EnforceLimits(bytes, memoryWithin)
      PROVE  ResourceInv'
  BY <1>3 DEF Resource!EnforceLimits, Resource!CheckCpuUsage, Resource!CheckNetworkUsage, Resource!CpuWithin, Resource!NetworkWithin
<1>4. CASE Resource!Reset
  BY <1>4 DEF Resource!Reset
<1>5. CASE Resource!Tick
  BY <1>5 DEF Resource!Tick
<1>6. CASE UNCHANGED resourceState
  BY <1>6 DEF resourceState
<1> QED
  BY <1>1, <1>2, <1>3, <1>4, <1>5, <1>6 DEF Resource!Next

LEMMA ResourceStep == [ComponentsNext]_componentVars => [Resource!Next]_resourceState
BY PartStep DEF Only

\* Whatever is counted, uncounted and reset, the limiter counts no connection that is
\* not open and misses no more than the last reset forgot; and it counts all bytes that
\* were allowed since (incrementConnections, checkNetworkUsage, enforceLimits, reset).
THEOREM LimitsAccountedAlways == ComponentsSpec => []LimitsAccounted
<1>1. ComponentsInit => ResourceInv
  BY ResourceInit DEF ComponentsInit
<1>2. ResourceInv /\ [ComponentsNext]_componentVars => ResourceInv'
  BY ResourceStep, ResourceNext
<1>3. ResourceInv => LimitsAccounted
  BY DEF ResourceInv, LimitsAccounted
<1> QED
  BY <1>1, <1>2, <1>3, PTL DEF ComponentsSpec

-----------------------------------------------------------------------------
(* ConnectionFailover: what keeps a priority locked.                       *)
LEMMA FailConstants == MaxFailoverAttempts \in Nat /\ Asked \subseteq {"high", "medium", "low", "default"}
BY ComponentsAssumption

LEMMA FailPriorities == Fail!Priorities = {"high", "medium", "low", "default"}
BY DEF Fail!Priorities, Fail!Order

LEMMA FailNextPriority ==
  ASSUME NEW p \in Fail!Priorities
  PROVE  Fail!NextPriority(p) = None \/ Fail!NextPriority(p) \in Fail!Priorities
BY DEF Fail!NextPriority, Fail!Priorities, Fail!Order

LEMMA FailInit == Fail!Init => Fail!TypeOK
BY FailConstants DEF Fail!Init, Fail!TypeOK

\* Entering a priority counts an attempt there, and only where one is left.
LEMMA FailEnter ==
  ASSUME Fail!TypeOK, NEW k \in Calls, NEW p \in Fail!Priorities, Fail!Enter(k, p)
  PROVE  /\ failoverAttempts' \in [Fail!Priorities -> 0..MaxFailoverAttempts]
         /\ failoverCall' \in [Calls -> {Fail!Idle} \cup
               [pc : {"acquiring", "checking", "delayed", "last"}, priority : Fail!Priorities,
                attempts : 0..MaxFailoverAttempts - 1]]
         /\ \A q \in Fail!Priorities : Fail!Locked(q) => failoverAttempts'[q] = failoverAttempts[q]
BY FailConstants DEF Fail!TypeOK, Fail!Enter, Fail!At, Fail!Locked

LEMMA FailGoOn ==
  ASSUME Fail!TypeOK, NEW k \in Calls, failoverCall[k].pc # "idle", Fail!GoOn(k)
  PROVE  /\ failoverAttempts' \in [Fail!Priorities -> 0..MaxFailoverAttempts]
         /\ failoverCall' \in [Calls -> {Fail!Idle} \cup
               [pc : {"acquiring", "checking", "delayed", "last"}, priority : Fail!Priorities,
                attempts : 0..MaxFailoverAttempts - 1]]
         /\ \A q \in Fail!Priorities : Fail!Locked(q) => failoverAttempts'[q] = failoverAttempts[q]
<1>1. failoverCall[k].priority \in Fail!Priorities
  BY DEF Fail!TypeOK, Fail!Idle
<1>2. CASE Fail!NextPriority(failoverCall[k].priority) # None /\ Fail!Enter(k, Fail!NextPriority(failoverCall[k].priority))
  BY <1>1, <1>2, FailNextPriority, FailEnter
<1>3. CASE failoverCall' = [failoverCall EXCEPT ![k] = Fail!Idle] /\ UNCHANGED failoverAttempts
  BY <1>3 DEF Fail!TypeOK
<1> QED
  BY <1>2, <1>3 DEF Fail!GoOn

\* With the types, what a step does to the attempts of a locked priority.
FailKept ==
  \A p \in Fail!Priorities : Fail!Locked(p) /\ (\A k \in Calls : failoverCall[k].priority # p) =>
    failoverAttempts'[p] = failoverAttempts[p] \/ failoverAttempts' = [q \in Fail!Priorities |-> 0]

LEMMA FailNext == ASSUME Fail!TypeOK, [Fail!Next]_failoverState PROVE Fail!TypeOK' /\ FailKept
<1> USE FailConstants
<1>1. ASSUME NEW k \in Calls, NEW p \in Asked, Fail!AcquireConnection(k, p) PROVE Fail!TypeOK' /\ FailKept
  BY <1>1, FailEnter, FailPriorities DEF Fail!AcquireConnection, FailKept, Fail!TypeOK, Fail!connVars
<1>2. ASSUME NEW k \in Calls, Fail!PoolGives(k) PROVE Fail!TypeOK' /\ FailKept
  BY <1>2 DEF Fail!PoolGives, Fail!TypeOK, Fail!connVars, FailKept, Fail!Idle
<1>3. ASSUME NEW k \in Calls, Fail!PoolFails(k) PROVE Fail!TypeOK' /\ FailKept
  BY <1>3 DEF Fail!PoolFails, Fail!TypeOK, Fail!connVars, FailKept, Fail!Idle
<1>4. ASSUME NEW k \in Calls, Fail!DelayEnds(k) PROVE Fail!TypeOK' /\ FailKept
  <2>1. CASE Fail!GoOn(k) /\ failoverCall[k].pc # "idle" /\ UNCHANGED Fail!connVars
    BY <2>1, FailGoOn DEF Fail!TypeOK, Fail!connVars, FailKept
  <2>2. CASE failoverCall[k].pc = "delayed" /\ failoverCall' = [failoverCall EXCEPT ![k].pc = "last"] /\ UNCHANGED <<failoverAttempts, Fail!connVars>>
    BY <2>2 DEF Fail!TypeOK, Fail!connVars, FailKept, Fail!Idle
  <2> QED
    BY <1>4, <2>1, <2>2 DEF Fail!DelayEnds
<1>5. ASSUME NEW k \in Calls, NEW d \in SomeDevices, Fail!Healthy(k, d) PROVE Fail!TypeOK' /\ FailKept
  BY <1>5 DEF Fail!Healthy, Fail!TypeOK, Fail!connVars, FailKept, Fail!Idle
<1>6. ASSUME NEW k \in Calls, Fail!Unhealthy(k) PROVE Fail!TypeOK' /\ FailKept
  <2>1. CASE Fail!GoOn(k) /\ failoverCall[k].pc # "idle" /\ UNCHANGED Fail!connVars
    BY <2>1, FailGoOn DEF Fail!TypeOK, Fail!connVars, FailKept
  <2>2. CASE failoverCall' = [failoverCall EXCEPT ![k] = Fail!Idle] /\ UNCHANGED <<failoverAttempts, Fail!connVars>>
    BY <2>2 DEF Fail!TypeOK, Fail!connVars, FailKept
  <2> QED
    BY <1>6, <2>1, <2>2 DEF Fail!Unhealthy
<1>7. ASSUME NEW d \in SomeDevices, Fail!HealthCheck(d) PROVE Fail!TypeOK' /\ FailKept
  BY <1>7 DEF Fail!HealthCheck, Fail!TypeOK, Fail!connVars, FailKept
<1>8. CASE Fail!Stop \/ UNCHANGED failoverState
  BY <1>8 DEF Fail!Stop, failoverState, Fail!TypeOK, Fail!connVars, FailKept
<1> QED
  BY <1>1, <1>2, <1>3, <1>4, <1>5, <1>6, <1>7, <1>8 DEF Fail!Next

LEMMA FailLocked ==
  ASSUME Fail!TypeOK, [Fail!Next]_failoverState
  PROVE  [\A p \in Fail!Priorities :
       Fail!Locked(p) /\ (\A k \in Calls : failoverCall[k].priority # p) =>
          \/ failoverAttempts'[p] = MaxFailoverAttempts
          \/ failoverAttempts' = [q \in Fail!Priorities |-> 0]
          \/ \E d \in SomeDevices : Fail!HealthCheck(d)]_Fail!failoverVars
<1>1. FailKept
  BY FailNext
<1>2. \A p \in Fail!Priorities : Fail!Locked(p) => failoverAttempts[p] = MaxFailoverAttempts
  BY FailConstants DEF Fail!Locked, Fail!TypeOK
<1> QED
  BY <1>1, <1>2 DEF FailKept, failoverState, Fail!failoverVars

LEMMA FailStep == [ComponentsNext]_componentVars => [Fail!Next]_failoverState
BY PartStep DEF Only

\* No delay and no call of another priority opens a priority whose attempts are used up
\* again: only stop, a call of that priority let through before, or what the health check
\* does (acquireConnection, startHealthCheck, stop).
THEOREM LockedUntilSuccessAlways == ComponentsSpec => LockedUntilSuccess
<1>1. ComponentsInit => Fail!TypeOK
  BY FailInit DEF ComponentsInit
<1>2. Fail!TypeOK /\ [ComponentsNext]_componentVars => Fail!TypeOK'
  BY FailStep, FailNext
<1>3. ComponentsSpec => [](part = "failover" => Fail!TypeOK)
  BY <1>1, <1>2, PTL DEF ComponentsSpec
<1>4. ComponentsSpec => Fail!LockedUntilSuccess
  BY <1>1, <1>2, FailStep, FailLocked, PTL DEF ComponentsSpec, Fail!LockedUntilSuccess
<1> QED
  BY <1>3, <1>4 DEF LockedUntilSuccess

-----------------------------------------------------------------------------
(* DataConsistency.  The property is not inductive: a call that has had    *)
(* the answer of the pool writes the log later, whatever other calls,      *)
(* recoveries and crashes do in between.  CallsFollow says what the pool   *)
(* has done for it by then and still has when it writes; BegunInPool, that *)
(* recovery and rollback meet only transactions the pool knows.            *)
\* What the pool has done for a call that waits.
LEMMA DataConstants == MaxCrashes \in Nat
BY ComponentsAssumption

Follows(c) ==
  /\ c.pc \in Data!Steps \ {"beginning"} => c.tx \in Txs /\ db[c.tx] # "none"
  /\ c.pc = "marking" => db[c.tx] = "committed"
  /\ c.pc = "unmarking" => db[c.tx] \in {"committed", "rolledBack"}
  /\ \A t \in c.todo : db[t] # "none"
CallsFollow == \A k \in Calls : Follows(txCall[k])

BegunInPool == \A t \in Txs : log[t] # "none" => db[t] # "none"

LogBooks == BegunInPool /\ Data!LogFollowsPool
TxInv == Data!TypeOK /\ CallsFollow /\ LogBooks

LEMMA LogTypeStep == ASSUME TxInv, [Data!Next]_transactionState PROVE Data!TypeOK'
<1> USE DEF TxInv, Data!TypeOK, CallsFollow, Follows, Data!Steps, Data!Idle, Data!Waits, Data!Start, Data!Ends, Data!At
<1>1. ASSUME NEW k \in Calls,
             Data!BeginTransaction(k) \/ Data!LogAppends(k) \/ Data!Refused(k) \/ Data!PoolCommits(k) \/ Data!MarkCommitted(k)
      PROVE  Data!TypeOK'
  BY <1>1 DEF Data!BeginTransaction, Data!LogAppends, Data!Refused, Data!PoolCommits, Data!MarkCommitted
<1>2. ASSUME NEW k \in Calls, NEW t \in Txs,
             Data!PoolBegins(k, t) \/ Data!CommitTransaction(k, t) \/ Data!RollbackTransaction(k, t)
      PROVE  Data!TypeOK'
  BY <1>2 DEF Data!PoolBegins, Data!CommitTransaction, Data!RollbackTransaction
<1>3. ASSUME NEW k \in Calls, Data!PoolRollsBack(k) \/ Data!MarkRolledBack(k) PROVE Data!TypeOK'
  BY <1>3 DEF Data!PoolRollsBack, Data!RolledBack, Data!MarkRolledBack, Data!GoesOn, Data!Recovers
<1>4. ASSUME NEW k \in Calls, Data!RecoverTransactions(k) \/ Data!RecoverNext(k) \/ Data!RefusedInRecovery(k)
      PROVE  Data!TypeOK'
  BY <1>4 DEF Data!RecoverTransactions, Data!RecoverNext, Data!RefusedInRecovery, Data!GoesOn, Data!Recovers
<1>5. CASE Data!Crash \/ UNCHANGED transactionState
  BY <1>5, DataConstants DEF Data!Crash, transactionState
<1> QED BY <1>1, <1>2, <1>3, <1>4, <1>5 DEF Data!Next

\* The pool settles a transaction once, and what it has begun it does not forget.
LEMMA PoolSettles ==
  ASSUME TxInv, [Data!Next]_transactionState, NEW t \in Txs
  PROVE  /\ db[t] # "none" => db'[t] # "none"
         /\ db[t] \in {"committed", "rolledBack"} => db'[t] = db[t]
<1> USE DEF TxInv, Data!TypeOK
<1>1. ASSUME NEW k \in Calls, NEW u \in Txs, Data!PoolBegins(k, u)
      PROVE  db' = [db EXCEPT ![u] = "open"] /\ db[u] = "none"
  BY <1>1 DEF Data!PoolBegins
<1>2. ASSUME NEW k \in Calls, Data!PoolCommits(k)
      PROVE  db' = [db EXCEPT ![txCall[k].tx] = "committed"] /\ db[txCall[k].tx] = "open"
  BY <1>2 DEF Data!PoolCommits
<1>3. ASSUME NEW k \in Calls, Data!PoolRollsBack(k)
      PROVE  db' = [db EXCEPT ![txCall[k].tx] = Data!RolledBack(txCall[k].tx)]
  BY <1>3 DEF Data!PoolRollsBack
<1>4. \/ db' = db
      \/ \E k \in Calls : Data!PoolCommits(k) \/ Data!PoolRollsBack(k) \/ \E u \in Txs : Data!PoolBegins(k, u)
  BY DEF Data!Next, transactionState, Data!BeginTransaction, Data!LogAppends, Data!Refused, Data!CommitTransaction, Data!RollbackTransaction,
         Data!MarkCommitted, Data!MarkRolledBack, Data!RecoverTransactions, Data!RecoverNext, Data!RefusedInRecovery, Data!Crash
<1> QED BY <1>1, <1>2, <1>3, <1>4 DEF Data!RolledBack

LEMMA FollowStep == ASSUME TxInv, [Data!Next]_transactionState PROVE CallsFollow'
<1> SUFFICES ASSUME NEW j \in Calls PROVE Follows(txCall[j])'
  BY DEF CallsFollow
<1> USE DEF TxInv, Data!TypeOK, CallsFollow, Follows, Data!Steps, LogBooks
<1>1. CASE txCall'[j] = txCall[j] \/ txCall'[j] = Data!Idle
  BY <1>1, PoolSettles DEF Data!Idle
<1>2. ASSUME NEW k \in Calls, NEW t \in Txs,
             Data!PoolBegins(k, t) \/ Data!CommitTransaction(k, t) \/ Data!RollbackTransaction(k, t)
      PROVE  Follows(txCall[j])'
  BY <1>1, <1>2 DEF Data!PoolBegins, Data!CommitTransaction, Data!RollbackTransaction, Data!Begun, BegunInPool, Data!Waits, Data!Start, Data!At
<1>3. ASSUME NEW k \in Calls, Data!PoolCommits(k) PROVE Follows(txCall[j])'
  BY <1>1, <1>3, PoolSettles DEF Data!PoolCommits, Data!At
<1>4. ASSUME NEW k \in Calls, Data!PoolRollsBack(k) PROVE Follows(txCall[j])'
  BY <1>1, <1>4, PoolSettles DEF Data!PoolRollsBack, Data!RolledBack, Data!At
<1>5. ASSUME NEW k \in Calls, Data!MarkRolledBack(k) \/ Data!RefusedInRecovery(k) PROVE Follows(txCall[j])'
  BY <1>1, <1>5, PoolSettles DEF Data!MarkRolledBack, Data!RefusedInRecovery, Data!GoesOn, Data!Ends, Data!Waits, Data!Recovers
<1>6. ASSUME NEW k \in Calls, Data!RecoverTransactions(k) PROVE Follows(txCall[j])'
  BY <1>1, <1>6 DEF Data!RecoverTransactions, BegunInPool, Data!Waits, Data!Start
<1>7. ASSUME NEW k \in Calls, Data!RecoverNext(k) PROVE Follows(txCall[j])'
  BY <1>1, <1>7 DEF Data!RecoverNext, Data!Ends, Data!Waits, Data!At
<1>8. ASSUME NEW k \in Calls,
             Data!BeginTransaction(k) \/ Data!LogAppends(k) \/ Data!Refused(k) \/ Data!MarkCommitted(k)
      PROVE  Follows(txCall[j])'
  BY <1>1, <1>8 DEF Data!BeginTransaction, Data!LogAppends, Data!Refused, Data!MarkCommitted, Data!Waits, Data!Start, Data!Ends
<1>9. CASE Data!Crash \/ UNCHANGED transactionState
  BY <1>1, <1>9 DEF Data!Crash, transactionState
<1> QED BY <1>2, <1>3, <1>4, <1>5, <1>6, <1>7, <1>8, <1>9 DEF Data!Next

LEMMA LogBooksStep == ASSUME TxInv, [Data!Next]_transactionState PROVE LogBooks'
<1> USE DEF TxInv, Data!TypeOK, LogBooks, BegunInPool, Data!LogFollowsPool, Data!LogSettlesAfterPool, Data!OpenIsFollowed
<1>1. ASSUME NEW k \in Calls, NEW t \in Txs, Data!PoolBegins(k, t) PROVE LogBooks'
  BY <1>1 DEF Data!PoolBegins
<1>2. ASSUME NEW k \in Calls, Data!PoolCommits(k) \/ Data!PoolRollsBack(k) PROVE LogBooks'
  <2>1. log' = log /\ activeTxs' = activeTxs /\ lostTxs' = lostTxs
    BY <1>2 DEF Data!PoolCommits, Data!PoolRollsBack
  <2>2. \A t \in Txs : db'[t] = "open" => db[t] = "open"
    BY <1>2 DEF Data!PoolCommits, Data!PoolRollsBack, Data!RolledBack
  <2> QED BY <2>1, <2>2, PoolSettles
<1>3. ASSUME NEW k \in Calls, Data!LogAppends(k) PROVE LogBooks'
  BY <1>3 DEF Data!LogAppends, CallsFollow, Follows, Data!Steps, Data!At
<1>4. ASSUME NEW k \in Calls, Data!MarkCommitted(k) \/ Data!MarkRolledBack(k) PROVE LogBooks'
  BY <1>4 DEF Data!MarkCommitted, Data!MarkRolledBack, CallsFollow, Follows, Data!Steps, Data!At
<1>5. CASE Data!Crash
  BY <1>5 DEF Data!Crash
<1>6. CASE UNCHANGED <<db, log, activeTxs, lostTxs>>
  BY <1>6
<1> QED
  BY <1>1, <1>2, <1>3, <1>4, <1>5, <1>6
  DEF Data!Next, transactionState, Data!BeginTransaction, Data!Refused, Data!CommitTransaction, Data!RollbackTransaction,
      Data!RecoverTransactions, Data!RecoverNext, Data!RefusedInRecovery

LEMMA LogInit == Data!Init => TxInv
BY DataConstants
DEF Data!Init, TxInv, Data!TypeOK, Data!Steps, Data!Idle, CallsFollow, Follows, LogBooks, BegunInPool, Data!LogFollowsPool,
    Data!LogSettlesAfterPool, Data!OpenIsFollowed

LEMMA LogNext == TxInv /\ [Data!Next]_transactionState => TxInv'
BY LogTypeStep, FollowStep, LogBooksStep DEF TxInv

LEMMA DataStep == [ComponentsNext]_componentVars => [Data!Next]_transactionState
BY PartStep DEF Only

\* The log never says more of a transaction than the pool has done, and an open one
\* is followed unless a crash cut its begin short (beginTransaction,
\* commitTransaction, rollbackTransaction, recoverTransactions).
THEOREM LogFollowsPoolAlways == ComponentsSpec => []LogFollowsPool
<1>1. ComponentsInit => TxInv
  BY LogInit DEF ComponentsInit
<1>2. TxInv /\ [ComponentsNext]_componentVars => TxInv'
  BY DataStep, LogNext
<1>3. TxInv => LogFollowsPool
  BY DEF TxInv, LogBooks, LogFollowsPool
<1> QED
  BY <1>1, <1>2, <1>3, PTL DEF ComponentsSpec

-----------------------------------------------------------------------------
(* ConnectionRetry.  A retry that begins is one of at most as many as      *)
(* there are calls, one that ends moves from the calls to the count; and   *)
(* of a connection without a count nothing has begun.                      *)
LEMMA RepeatConstants == /\ MaxRetries \in Nat /\ IsFiniteSet(Retries) /\ None \notin SomeDevices
BY ComponentsAssumption

RetryInv ==
  /\ Repeat!TypeOK
  /\ Repeat!RetriesBounded
  /\ \A d \in SomeDevices \ counted : retryCount[d] = 0
  /\ \A r \in Retries : retrying[r] \in counted \cup {None}

LEMMA RetryCardinality == \A S : Repeat!Cardinality(S) = Cardinality(S)
BY DEF Repeat!Cardinality, Cardinality, Repeat!IsFiniteSet, IsFiniteSet

RetryLimit == IF MaxRetries = 0 THEN 1 ELSE MaxRetries
Tried(d) == {r \in Retries : retrying[r] = d}

LEMMA RetryNumbers ==
  /\ RetryLimit \in Nat /\ RetryLimit >= 1 /\ MaxRetries \in Nat /\ MaxRetries <= RetryLimit /\ Cardinality(Retries) \in Nat
  /\ \A S \in SUBSET Retries :
       IsFiniteSet(S) /\ Cardinality(S) \in Nat /\ Cardinality(S) <= Cardinality(Retries)
BY RepeatConstants, FS_Subset, FS_CardinalityType DEF RetryLimit

\* The bound, by the limit and the calls that wait for a connection.
LEMMA RetryBound ==
  Repeat!RetriesBounded <=> \A d \in SomeDevices : retryCount[d] + Cardinality(Tried(d)) <= RetryLimit + Cardinality(Retries) - 1
BY RetryCardinality DEF Repeat!RetriesBounded, RetryLimit, Tried

LEMMA RetryBoundNext ==
  Repeat!RetriesBounded' <=> \A d \in SomeDevices : retryCount'[d] + Cardinality(Tried(d)') <= RetryLimit + Cardinality(Retries) - 1
BY RetryCardinality DEF Repeat!RetriesBounded, RetryLimit, Tried

LEMMA RetryInit == Repeat!Init => RetryInv
<1> SUFFICES ASSUME Repeat!Init PROVE RetryInv
  OBVIOUS
<1>1. Repeat!TypeOK
  BY DEF Repeat!Init, Repeat!TypeOK
<1>2. Repeat!RetriesBounded
  <2> SUFFICES ASSUME NEW d \in SomeDevices
               PROVE  retryCount[d] + Cardinality(Tried(d)) <= RetryLimit + Cardinality(Retries) - 1
    BY RetryBound
  <2>1. Tried(d) = {} /\ retryCount[d] = 0
    BY RepeatConstants DEF Repeat!Init, Tried
  <2>2. Cardinality(Tried(d)) = 0
    BY <2>1, FS_EmptySet
  <2> QED
    BY <2>1, <2>2, RetryNumbers
<1> QED
  BY <1>1, <1>2 DEF Repeat!Init, RetryInv

LEMMA RetryNext == ASSUME RetryInv, [Repeat!Next]_retryState PROVE RetryInv'
<1>1. \A d : Tried(d) \subseteq Retries /\ Tried(d)' \subseteq Retries
  BY DEF Tried
<1>2. ASSUME NEW r \in Retries, NEW d \in SomeDevices, Repeat!Retry(r, d) PROVE RetryInv'
  <2>1. /\ retryCount' = retryCount /\ retrying' = [retrying EXCEPT ![r] = d] /\ retrying[r] = None
        /\ counted' = counted \cup {d}
    BY <1>2 DEF Repeat!Retry
  <2>2. retryCount[d] \in Nat /\ retryCount[d] <= RetryLimit - 1
    <3>1. CASE d \in counted
      BY <1>2, <3>1, RetryNumbers DEF Repeat!Retry, Repeat!ShouldRetry, RetryInv, Repeat!TypeOK
    <3>2. CASE d \notin counted
      BY <3>2, RetryNumbers DEF RetryInv
    <3> QED
      BY <3>1, <3>2
  <2>3. \A e \in SomeDevices : retryCount'[e] + Cardinality(Tried(e)') <= RetryLimit + Cardinality(Retries) - 1
    <3> TAKE e \in SomeDevices
    <3>1. CASE e = d
      <4>1. Cardinality(Tried(e)') \in Nat /\ Cardinality(Tried(e)') <= Cardinality(Retries)
        BY <1>1, RetryNumbers
      <4> QED
        BY <2>1, <2>2, <3>1, <4>1, RetryNumbers
    <3>2. CASE e # d
      <4>1. Tried(e)' = Tried(e)
        BY <2>1, <3>2, RepeatConstants DEF RetryInv, Repeat!TypeOK, Tried
      <4> QED
        BY <2>1, <4>1, RetryBound DEF RetryInv
    <3> QED
      BY <3>1, <3>2
  <2>4. Repeat!TypeOK'
    BY <2>1 DEF RetryInv, Repeat!TypeOK
  <2> QED
    BY <2>1, <2>3, <2>4, RetryBoundNext DEF RetryInv
<1>3. ASSUME NEW r \in Retries, NEW success \in BOOLEAN, Repeat!Reconnected(r, success) PROVE RetryInv'
  <2>1. PICK d \in SomeDevices : d = retrying[r]
    BY <1>3 DEF Repeat!Reconnected, RetryInv, Repeat!TypeOK
  <2>2. /\ retrying' = [retrying EXCEPT ![r] = None] /\ counted' = counted
        /\ retryCount' = [retryCount EXCEPT ![d] = IF success THEN 0 ELSE @ + 1]
    BY <1>3, <2>1 DEF Repeat!Reconnected
  <2>3. d \in counted
    BY <2>1, <1>3 DEF Repeat!Reconnected, RetryInv
  <2>4. \A e \in SomeDevices : retryCount'[e] + Cardinality(Tried(e)') <= RetryLimit + Cardinality(Retries) - 1
    <3> TAKE e \in SomeDevices
    <3>1. CASE e = d
      <4>1. Tried(d)' = Tried(d) \ {r} /\ r \in Tried(d)
        BY <2>1, <2>2, RepeatConstants DEF RetryInv, Repeat!TypeOK, Tried
      <4>2. Cardinality(Tried(d)') = Cardinality(Tried(d)) - 1 /\ Cardinality(Tried(d)) \in Nat
        BY <4>1, <1>1, RetryNumbers, FS_RemoveElement
      <4>3. retryCount[d] \in Nat /\ retryCount[d] + Cardinality(Tried(d)) <= RetryLimit + Cardinality(Retries) - 1
        BY RetryBound DEF RetryInv, Repeat!TypeOK
      <4>4. retryCount'[d] <= retryCount[d] + 1 /\ retryCount'[d] \in Nat
        BY <2>2, <4>3 DEF RetryInv, Repeat!TypeOK
      <4> QED
        BY <3>1, <4>2, <4>3, <4>4, RetryNumbers
    <3>2. CASE e # d
      <4>1. Tried(e)' = Tried(e)
        BY <2>1, <2>2, <3>2, RepeatConstants DEF RetryInv, Repeat!TypeOK, Tried
      <4>2. retryCount'[e] = retryCount[e]
        BY <2>2, <3>2 DEF RetryInv, Repeat!TypeOK
      <4> QED
        BY <4>1, <4>2, RetryBound DEF RetryInv
    <3> QED
      BY <3>1, <3>2
  <2>5. Repeat!TypeOK'
    BY <2>2 DEF RetryInv, Repeat!TypeOK
  <2>6. \A e \in SomeDevices \ counted' : retryCount'[e] = 0
    BY <2>2, <2>3 DEF RetryInv, Repeat!TypeOK
  <2>7. \A q \in Retries : retrying'[q] \in counted' \cup {None}
    BY <2>2 DEF RetryInv, Repeat!TypeOK
  <2> QED
    BY <2>4, <2>5, <2>6, <2>7, RetryBoundNext DEF RetryInv
<1>4. CASE UNCHANGED retryState
  BY <1>4, RetryCardinality DEF retryState, RetryInv, Repeat!TypeOK, Repeat!RetriesBounded
<1> QED
  BY <1>2, <1>3, <1>4 DEF Repeat!Next

LEMMA RetryStep == [ComponentsNext]_componentVars => [Repeat!Next]_retryState
BY PartStep DEF Only

-----------------------------------------------------------------------------
(* DisasterRecovery.  While one call is alone, no other one is in          *)
(* progress; an attempt that runs has not used up the attempts, and what   *)
(* an attempt that is alone restored is in place until it ends.            *)
LEMMA DisasterConstants == RecoveryAttempts \in Nat /\ MaxSaved \in Nat /\ None \notin Calls
BY ComponentsAssumption

DisasterInv ==
  /\ Disaster!TypeOK
  /\ Disaster!RecoveredIsWatched
  /\ \A c \in Calls : recovery[c].recovers /\ recovery[c].pc \in Disaster!Stages => recovery[c].attempts < RecoveryAttempts
  /\ \A c \in Calls : alone = c /\ recovery[c].recovers /\ recovery[c].pc = "starting"
       => poolState = recovery[c].state
  /\ alone \in Calls => \A d \in Calls \ {alone} : ~Disaster!InProgress(d)
  /\ \A c \in Calls : recovery[c].pc \in {"loading", "delayed"} => recovery[c].recovers

LEMMA DisasterInit == Disaster!Init => DisasterInv
<1> SUFFICES ASSUME Disaster!Init PROVE DisasterInv
  OBVIOUS
<1> USE DisasterConstants DEF Disaster!At, Disaster!Stages, Disaster!Ends
<1>1. Disaster!TypeOK
  BY DEF Disaster!Init, Disaster!TypeOK
<1>2. \A c \in Calls : recovery[c].pc = "none" /\ ~recovery[c].recovers
  BY DEF Disaster!Init
<1> QED
  BY <1>1, <1>2 DEF DisasterInv, Disaster!RecoveredIsWatched, Disaster!InProgress

\* What the step of a call leaves of the others: theirs, and whether it is alone.
LEMMA DisasterOthers ==
  ASSUME DisasterInv, NEW c \in Calls, alone' = alone, Disaster!InProgress(c), NEW r,
         recovery' = [recovery EXCEPT ![c] = r],
         saved' \in 0..MaxSaved, poolState' \in 0..MaxSaved,
         keepAlive' \in BOOLEAN, healthCheckTimer' \in BOOLEAN,
         r \in [recovers : BOOLEAN, pc : Disaster!Stages \cup Disaster!Ends, attempts : 0..RecoveryAttempts, state : 0..MaxSaved],
         r.recovers /\ r.pc \in Disaster!Stages => r.attempts < RecoveryAttempts,
         r.pc \in {"loading", "delayed"} => r.recovers,
         alone = c /\ r.recovers /\ r.pc = "starting" => poolState' = r.state,
         alone = c /\ r.recovers =>
           /\ r.pc = "recovered" => healthCheckTimer' /\ keepAlive' /\ poolState' = r.state
           /\ r.pc \in {"stopping", "restoring", "starting"} => ~healthCheckTimer'
  PROVE  DisasterInv'
<1>1. recovery'[c] = r /\ \A d \in Calls \ {c} : recovery'[d] = recovery[d]
  BY DEF DisasterInv, Disaster!TypeOK
<1>2. alone \in Calls => alone = c
  BY DEF DisasterInv
<1>3. Disaster!TypeOK'
  <2>1. recovery' \in [Calls -> [recovers : BOOLEAN, pc : Disaster!Stages \cup Disaster!Ends, attempts : 0..RecoveryAttempts,
                                   state : 0..MaxSaved]]
    BY DEF DisasterInv, Disaster!TypeOK
  <2> QED
    BY <2>1 DEF DisasterInv, Disaster!TypeOK, Disaster!Stages, Disaster!Ends
<1>4. Disaster!RecoveredIsWatched'
  BY <1>1, <1>2 DEF Disaster!RecoveredIsWatched
<1>5. \A d \in Calls : recovery'[d].recovers /\ recovery'[d].pc \in Disaster!Stages => recovery'[d].attempts < RecoveryAttempts
  BY <1>1 DEF DisasterInv
<1>6. \A d \in Calls : alone' = d /\ recovery'[d].recovers /\ recovery'[d].pc = "starting"
        => poolState' = recovery'[d].state
  BY <1>1, <1>2
<1>7. alone' \in Calls => \A d \in Calls \ {alone'} : ~Disaster!InProgress(d)'
  BY <1>1, <1>2 DEF DisasterInv, Disaster!InProgress
<1>8. \A d \in Calls : recovery'[d].pc \in {"loading", "delayed"} => recovery'[d].recovers
  BY <1>1 DEF DisasterInv
<1> QED
  BY <1>3, <1>4, <1>5, <1>6, <1>7, <1>8 DEF DisasterInv, Disaster!Stages

\* The same when a call begins: it is alone if no other one is in progress.
LEMMA DisasterBegins ==
  ASSUME DisasterInv, NEW c \in Calls, NEW r, Disaster!Begins(c, r),
         saved' = saved, poolState' = poolState, keepAlive' = keepAlive, healthCheckTimer' \in BOOLEAN,
         r \in [recovers : BOOLEAN, pc : Disaster!Stages \cup Disaster!Ends, attempts : 0..RecoveryAttempts, state : 0..MaxSaved],
         r.pc \in {"loading", "delayed"} => r.recovers,
         r.recovers => r.pc \in {"loading", "failed"} /\ (r.pc = "loading" => r.attempts < RecoveryAttempts)
  PROVE  DisasterInv'
<1>1. recovery'[c] = r /\ \A d \in Calls \ {c} : recovery'[d] = recovery[d]
  BY DEF DisasterInv, Disaster!TypeOK, Disaster!Begins
<1>2. alone' \in Calls \cup {None}
  BY DEF Disaster!Begins
<1>3. alone' \in Calls => (\A d \in Calls : ~Disaster!InProgress(d)) /\ alone' = c
  BY DisasterConstants DEF Disaster!Begins
<1>4. Disaster!TypeOK'
  <2>1. recovery' \in [Calls -> [recovers : BOOLEAN, pc : Disaster!Stages \cup Disaster!Ends, attempts : 0..RecoveryAttempts,
                                   state : 0..MaxSaved]]
    BY DEF DisasterInv, Disaster!TypeOK, Disaster!Begins
  <2> QED
    BY <1>2, <2>1 DEF DisasterInv, Disaster!TypeOK, Disaster!Stages, Disaster!Ends
<1> QED
  BY <1>1, <1>2, <1>3, <1>4 DEF DisasterInv, Disaster!RecoveredIsWatched, Disaster!InProgress, Disaster!Stages

\* An error, and a step to the next await.
LEMMA DisasterFails ==
  ASSUME DisasterInv, NEW c \in Calls, Disaster!InProgress(c), Disaster!Fails(c), alone' = alone,
         saved' = saved, poolState' = poolState, keepAlive' = keepAlive,
         healthCheckTimer' \in BOOLEAN
  PROVE  DisasterInv'
<1> DEFINE n == recovery[c].attempts + 1
           r == IF recovery[c].recovers
                THEN Disaster!At(TRUE, IF n < RecoveryAttempts THEN "delayed" ELSE "failed", n, 0)
                ELSE [recovery[c] EXCEPT !.pc = "none"]
<1>1. /\ recovery[c] \in [recovers : BOOLEAN, pc : Disaster!Stages \cup Disaster!Ends, attempts : 0..RecoveryAttempts,
                          state : 0..MaxSaved]
      /\ recovery[c].recovers => recovery[c].attempts < RecoveryAttempts
  BY DEF DisasterInv, Disaster!TypeOK, Disaster!InProgress
<1>2. recovery' = [recovery EXCEPT ![c] = r]
  BY DEF Disaster!Fails, Disaster!Goes, DisasterInv, Disaster!TypeOK
<1>3. r \in [recovers : BOOLEAN, pc : Disaster!Stages \cup Disaster!Ends, attempts : 0..RecoveryAttempts, state : 0..MaxSaved]
  BY <1>1, DisasterConstants DEF Disaster!At, Disaster!Stages, Disaster!Ends
<1>4. r.recovers => r.pc \in {"delayed", "failed"} /\ (r.pc = "delayed" => r.attempts < RecoveryAttempts)
  BY <1>1 DEF Disaster!At
<1>5. saved' \in 0..MaxSaved /\ poolState' \in 0..MaxSaved /\ keepAlive' \in BOOLEAN
  BY DEF DisasterInv, Disaster!TypeOK
<1>6. r.recovers \/ r.pc = "none"
  BY <1>1 DEF Disaster!At
<1> HIDE DEF r
<1>7. /\ r.recovers /\ r.pc \in Disaster!Stages => r.attempts < RecoveryAttempts
      /\ ~(r.recovers /\ r.pc \in {"recovered", "stopping", "restoring", "starting"})
      /\ r.pc \in {"loading", "delayed"} => r.recovers
  BY <1>4, <1>6 DEF Disaster!Stages
<1> QED
  BY <1>2, <1>3, <1>5, <1>7, DisasterOthers

LEMMA DisasterGoes ==
  ASSUME DisasterInv, NEW c \in Calls, Disaster!InProgress(c), NEW pc \in Disaster!Stages \cup Disaster!Ends,
         pc \in {"loading", "delayed"} => recovery[c].recovers,
         alone' = alone, Disaster!Goes(c, pc), saved' = saved, poolState' \in 0..MaxSaved,
         keepAlive' \in BOOLEAN, healthCheckTimer' \in BOOLEAN,
         alone = c /\ recovery[c].recovers => pc \notin {"starting", "recovered"} \/ poolState' = recovery[c].state,
         alone = c /\ recovery[c].recovers =>
           /\ pc = "recovered" => healthCheckTimer' /\ keepAlive'
           /\ pc \in {"stopping", "restoring", "starting"} => ~healthCheckTimer'
  PROVE  DisasterInv'
<1> DEFINE r == [recovery[c] EXCEPT !.pc = pc]
<1>1. /\ recovery[c] \in [recovers : BOOLEAN, pc : Disaster!Stages \cup Disaster!Ends, attempts : 0..RecoveryAttempts,
                          state : 0..MaxSaved]
      /\ recovery[c].recovers => recovery[c].attempts < RecoveryAttempts
  BY DEF DisasterInv, Disaster!TypeOK, Disaster!InProgress
<1>2. recovery' = [recovery EXCEPT ![c] = r]
  BY DEF Disaster!Goes, DisasterInv, Disaster!TypeOK
<1>3. /\ r \in [recovers : BOOLEAN, pc : Disaster!Stages \cup Disaster!Ends, attempts : 0..RecoveryAttempts, state : 0..MaxSaved]
      /\ r.recovers = recovery[c].recovers /\ r.pc = pc /\ r.attempts = recovery[c].attempts
      /\ r.state = recovery[c].state
  BY <1>1
<1>4. saved' \in 0..MaxSaved
  BY DEF DisasterInv, Disaster!TypeOK
<1> HIDE DEF r
<1> QED
  BY <1>1, <1>2, <1>3, <1>4, DisasterOthers

LEMMA DisasterNext == ASSUME DisasterInv, [Disaster!Next]_recoveryState PROVE DisasterInv'
<1>1. /\ recovery \in [Calls -> [recovers : BOOLEAN, pc : Disaster!Stages \cup Disaster!Ends, attempts : 0..RecoveryAttempts,
                                   state : 0..MaxSaved]]
      /\ saved \in 0..MaxSaved /\ poolState \in 0..MaxSaved /\ saved \in Nat
      /\ keepAlive \in BOOLEAN /\ healthCheckTimer \in BOOLEAN /\ alone \in Calls \cup {None}
  BY DisasterConstants DEF DisasterInv, Disaster!TypeOK
<1>2. CASE UNCHANGED recoveryState
  BY <1>2 DEF recoveryState, DisasterInv, Disaster!TypeOK, Disaster!RecoveredIsWatched, Disaster!InProgress
<1>3. CASE Disaster!SaveSystemState
  <2>1. saved' \in 0..MaxSaved /\ UNCHANGED <<poolState, keepAlive, healthCheckTimer, recovery, alone>>
    BY <1>1, <1>3, DisasterConstants DEF Disaster!SaveSystemState
  <2> QED
    BY <2>1 DEF DisasterInv, Disaster!TypeOK, Disaster!RecoveredIsWatched, Disaster!InProgress
<1>4. ASSUME NEW c \in Calls, Disaster!InitiateRecovery(c) PROVE DisasterInv'
  <2> DEFINE r == Disaster!At(TRUE, IF RecoveryAttempts = 0 THEN "failed" ELSE "loading", 0, 0)
  <2>1. r \in [recovers : BOOLEAN, pc : Disaster!Stages \cup Disaster!Ends, attempts : 0..RecoveryAttempts, state : 0..MaxSaved]
    BY DisasterConstants DEF Disaster!At, Disaster!Stages, Disaster!Ends
  <2>2. r.recovers /\ r.pc \in {"loading", "failed"} /\ (r.pc = "loading" => r.attempts < RecoveryAttempts)
    BY DisasterConstants DEF Disaster!At
  <2>3. Disaster!Begins(c, r) /\ UNCHANGED <<saved, poolState, keepAlive, healthCheckTimer>>
    BY <1>4 DEF Disaster!InitiateRecovery
  <2> HIDE DEF r
  <2> QED
    BY <1>1, <2>1, <2>2, <2>3, DisasterBegins
<1>5. ASSUME NEW c \in Calls, Disaster!StartHighAvailability(c) \/ Disaster!StopHighAvailability(c) PROVE DisasterInv'
  <2>1. PICK pc \in {"starting", "stopping"} :
           Disaster!Begins(c, Disaster!At(FALSE, pc, 0, 0)) /\ healthCheckTimer' \in BOOLEAN /\ UNCHANGED <<saved, poolState, keepAlive>>
    BY <1>1, <1>5 DEF Disaster!StartHighAvailability, Disaster!StopHighAvailability
  <2> DEFINE r == Disaster!At(FALSE, pc, 0, 0)
  <2>2. /\ r \in [recovers : BOOLEAN, pc : Disaster!Stages \cup Disaster!Ends, attempts : 0..RecoveryAttempts, state : 0..MaxSaved]
        /\ ~r.recovers /\ r.pc \notin {"loading", "delayed"}
    BY DisasterConstants DEF Disaster!At, Disaster!Stages, Disaster!Ends
  <2>3. Disaster!Begins(c, r)
    BY <2>1
  <2> HIDE DEF r
  <2> QED
    BY <2>1, <2>2, <2>3, DisasterBegins
<1>6. ASSUME NEW c \in Calls, Disaster!DelayEnds(c) PROVE DisasterInv'
  <2>1. /\ Disaster!InProgress(c) /\ Disaster!Goes(c, "loading")
        /\ UNCHANGED <<saved, poolState, keepAlive, healthCheckTimer, alone>>
    BY <1>6 DEF Disaster!DelayEnds, Disaster!InProgress, Disaster!Stages
  <2>2. "loading" \in Disaster!Stages /\ recovery[c].recovers
    BY <1>6 DEF Disaster!Stages, Disaster!DelayEnds, DisasterInv
  <2> QED
    BY <1>1, <2>1, <2>2, DisasterGoes
<1>7. ASSUME NEW c \in Calls, Disaster!LoadState(c) PROVE DisasterInv'
  <2>1. Disaster!InProgress(c) /\ UNCHANGED <<saved, poolState, keepAlive, alone>>
    BY <1>7 DEF Disaster!LoadState, Disaster!InProgress, Disaster!Stages
  <2>2. CASE Disaster!Fails(c) /\ UNCHANGED healthCheckTimer
    BY <1>1, <2>1, <2>2, DisasterFails
  <2>3. CASE /\ recovery' = [recovery EXCEPT ![c] = Disaster!At(TRUE, "stopping", recovery[c].attempts, saved)]
             /\ healthCheckTimer' = FALSE
    <3> DEFINE r == Disaster!At(TRUE, "stopping", recovery[c].attempts, saved)
    <3>1. /\ r \in [recovers : BOOLEAN, pc : Disaster!Stages \cup Disaster!Ends, attempts : 0..RecoveryAttempts, state : 0..MaxSaved]
          /\ r.pc = "stopping" /\ r.recovers /\ r.attempts = recovery[c].attempts
      BY <1>1 DEF Disaster!At, Disaster!Stages, Disaster!Ends
    <3>2. recovery[c].attempts < RecoveryAttempts
      BY <1>7, <2>1 DEF DisasterInv, Disaster!InProgress, Disaster!LoadState
    <3>3. recovery' = [recovery EXCEPT ![c] = r]
      BY <2>3
    <3> HIDE DEF r
    <3> QED
      BY <1>1, <2>1, <2>3, <3>1, <3>2, <3>3, DisasterOthers
  <2> QED
    BY <1>7, <2>2, <2>3 DEF Disaster!LoadState
<1>8. ASSUME NEW c \in Calls, Disaster!Stop(c) PROVE DisasterInv'
  <2>1. Disaster!InProgress(c) /\ recovery[c].pc = "stopping" /\ UNCHANGED <<saved, poolState, healthCheckTimer, alone>>
    BY <1>8 DEF Disaster!Stop, Disaster!InProgress, Disaster!Stages
  <2>2. CASE Disaster!Fails(c) /\ UNCHANGED keepAlive
    BY <1>1, <2>1, <2>2, DisasterFails
  <2>3. CASE keepAlive' = FALSE /\ Disaster!Goes(c, IF recovery[c].recovers THEN "restoring" ELSE "none")
    <3>1. alone = c /\ recovery[c].recovers => ~healthCheckTimer'
      BY <2>1 DEF DisasterInv, Disaster!RecoveredIsWatched
    <3>2. "restoring" \in Disaster!Stages \cup Disaster!Ends /\ "none" \in Disaster!Stages \cup Disaster!Ends
      BY DEF Disaster!Stages, Disaster!Ends
    <3> QED
      BY <1>1, <2>1, <2>3, <3>1, <3>2, DisasterGoes
  <2> QED
    BY <1>8, <2>2, <2>3 DEF Disaster!Stop
<1>9. ASSUME NEW c \in Calls, Disaster!Restore(c) PROVE DisasterInv'
  <2>1. Disaster!InProgress(c) /\ recovery[c].pc = "restoring" /\ UNCHANGED <<saved, keepAlive, healthCheckTimer, alone>>
    BY <1>9 DEF Disaster!Restore, Disaster!InProgress, Disaster!Stages
  <2>2. CASE Disaster!Fails(c) /\ UNCHANGED poolState
    BY <1>1, <2>1, <2>2, DisasterFails
  <2>3. CASE poolState' = recovery[c].state /\ Disaster!Goes(c, "starting")
    <3>1. alone = c /\ recovery[c].recovers => ~healthCheckTimer'
      BY <2>1 DEF DisasterInv, Disaster!RecoveredIsWatched
    <3>2. "starting" \in Disaster!Stages \cup Disaster!Ends
      BY DEF Disaster!Stages
    <3> QED
      BY <1>1, <2>1, <2>3, <3>1, <3>2, DisasterGoes
  <2> QED
    BY <1>9, <2>2, <2>3 DEF Disaster!Restore
<1>10. ASSUME NEW c \in Calls, Disaster!Start(c) PROVE DisasterInv'
  <2>1. Disaster!InProgress(c) /\ recovery[c].pc = "starting" /\ UNCHANGED <<saved, poolState, alone>>
    BY <1>10 DEF Disaster!Start, Disaster!InProgress, Disaster!Stages
  <2>2. CASE Disaster!Fails(c) /\ healthCheckTimer' = FALSE /\ UNCHANGED keepAlive
    BY <1>1, <2>1, <2>2, DisasterFails
  <2>3. CASE /\ keepAlive' = TRUE /\ healthCheckTimer' = TRUE
             /\ Disaster!Goes(c, IF recovery[c].recovers THEN "recovered" ELSE "none")
    <3>1. alone = c /\ recovery[c].recovers => poolState = recovery[c].state
      BY <2>1 DEF DisasterInv
    <3>2. "recovered" \in Disaster!Stages \cup Disaster!Ends /\ "none" \in Disaster!Stages \cup Disaster!Ends
      BY DEF Disaster!Ends
    <3> QED
      BY <1>1, <2>1, <2>3, <3>1, <3>2, DisasterGoes
  <2> QED
    BY <1>10, <2>2, <2>3 DEF Disaster!Start
<1> QED
  BY <1>2, <1>3, <1>4, <1>5, <1>6, <1>7, <1>8, <1>9, <1>10 DEF Disaster!Next

LEMMA DisasterStep == [ComponentsNext]_componentVars => [Disaster!Next]_recoveryState
BY PartStep DEF Only

\* However calls overlap and whatever fails: a recovery that no other call has overlapped or
\* followed leaves the pool watched and in the state it loaded when it reports success; and
\* retries exceed their limit by no more than the calls that wait (initiateRecovery,
\* HighAvailability, retry).
THEOREM RecoverySoundAlways == ComponentsSpec => []RecoverySound
<1>1. ComponentsInit => DisasterInv /\ RetryInv
  BY DisasterInit, RetryInit DEF ComponentsInit
<1>2. DisasterInv /\ [ComponentsNext]_componentVars => DisasterInv'
  BY DisasterStep, DisasterNext
<1>3. RetryInv /\ [ComponentsNext]_componentVars => RetryInv'
  BY RetryStep, RetryNext
<1>4. DisasterInv /\ RetryInv => RecoverySound
  BY DEF RecoverySound, DisasterInv, RetryInv
<1> QED
  BY <1>1, <1>2, <1>3, <1>4, PTL DEF ComponentsSpec

-----------------------------------------------------------------------------
(* Closing: shutdown and the cleaner.  Between the disconnect and the      *)
(* cleanup of a connection that is being closed nothing links it again,    *)
(* and one whose closing ended is closed.  The rest of shutdownAll, before *)
(* it begins to close, has touched nothing.                                *)
LEMMA CloseConstants == QuiescenceRetries \in Nat
BY ComponentsAssumption

CloseInv ==
  /\ Close!TypeOK
  /\ active \subseteq linked
  /\ \A c \in Devices :
       /\ closing[c] \in {"cleanup", "ended"} => c \notin linked
       /\ closing[c] = "ended" <=> c \in closed
       /\ c \in closed => c \notin uncleaned
  /\ shutdown.pc = "ended" => \A c \in Devices : closing[c] \in {"failed", "ended"}
  /\ shutdown.pc \in {"none", "waiting", "quiet", "failed"} => \A c \in Devices : closing[c] = "none"
  /\ cleaning.pc \in {"disconnect", "cleanup"} => cleaning.of \in Devices

LEMMA CloseInit == Close!Init => CloseInv
BY CloseConstants DEF Close!Init, CloseInv, Close!TypeOK, Close!Stages, Close!NotCleaning

LEMMA CloseNext == ASSUME CloseInv, [Close!Next]_closingState PROVE CloseInv'
<1> USE CloseConstants DEF CloseInv, Close!TypeOK, Close!Stages, Close!connectionVars
<1>1. ASSUME NEW c \in Devices, Close!Activity(c) \/ Close!Rest(c) \/ Close!Age(c) PROVE CloseInv'
  BY <1>1 DEF Close!Activity, Close!Rest, Close!Age
<1>2. ASSUME NEW c \in Devices, Close!Disconnected(c) PROVE CloseInv'
  BY <1>2 DEF Close!Disconnected, Close!Disconnects
<1>3. ASSUME NEW c \in Devices, Close!CleanedUp(c) PROVE CloseInv'
  BY <1>3 DEF Close!CleanedUp, Close!CleansUp
<1>4. CASE Close!ShutdownAll \/ Close!ShutdownEnds
  BY <1>4 DEF Close!ShutdownAll, Close!ShutdownEnds
<1>5. CASE Close!CheckQuiescence
  BY <1>5 DEF Close!CheckQuiescence
<1>6. CASE Close!BeginClosing
  BY <1>6 DEF Close!BeginClosing
<1>7. \A stale \in SUBSET Devices : \A n \in Close!NextStale(stale) :
        /\ n \in [pc : {"idle"} \cup Close!Stages, of : Devices \cup {None}, left : SUBSET Devices]
        /\ n.pc \in {"disconnect", "cleanup"} => n.of \in Devices
  BY DEF Close!NextStale
<1>8. CASE Close!CleanStaleConnections
  BY <1>7, <1>8 DEF Close!CleanStaleConnections
<1>9. CASE Close!StaleDisconnected
  BY <1>9 DEF Close!StaleDisconnected, Close!Disconnects
<1>10. CASE Close!StaleCleanedUp
  BY <1>7, <1>10 DEF Close!StaleCleanedUp, Close!CleansUp
<1>11. CASE UNCHANGED closingState
  BY <1>11 DEF closingState
<1> QED
  BY <1>1, <1>2, <1>3, <1>4, <1>5, <1>6, <1>8, <1>9, <1>10, <1>11 DEF Close!Next

LEMMA CloseClean == CloseInv => Close!ClosedIsClean
BY DEF CloseInv, Close!TypeOK, Close!ClosedIsClean, Close!Stages

LEMMA CloseStep == [ComponentsNext]_componentVars => [Close!Next]_closingState
BY PartStep DEF Only

\* Whatever the cleaner does meanwhile and whichever connection fails, what is marked
\* closed is disconnected and cleaned up, and after shutdownAll a connection is not closed
\* only because its disconnect or cleanup failed (initiateShutdown, cleanStaleConnections).
THEOREM ClosedIsCleanAlways == ComponentsSpec => []ClosedIsClean
<1>1. ComponentsInit => CloseInv
  BY CloseInit DEF ComponentsInit
<1>2. CloseInv /\ [ComponentsNext]_componentVars => CloseInv'
  BY CloseStep, CloseNext
<1>3. CloseInv => ClosedIsClean
  BY CloseClean DEF CloseInv, ClosedIsClean
<1> QED
  BY <1>1, <1>2, <1>3, PTL DEF ComponentsSpec

-----------------------------------------------------------------------------
(* CachingLayer.  But for what is no Buffer and what a caller shares, a    *)
(* value is in one place at most: it waits in a call, it waits to be       *)
(* preloaded, an entry has it or it has been returned to the pool.  A set  *)
(* and a preload bring a new one, compression makes a new one, and every   *)
(* step moves values on or drops them.  As for the ages: what is left      *)
(* after a check is no older than maxAge, and the next check is one period *)
(* away.                                                                   *)
LEMMA CachingConstants == /\ {MaxAge, PoolSize} \subseteq Nat \ {0} /\ MaxSets \in Nat /\ PreloadBatch \in Nat /\ Ttls \subseteq Nat /\ \A b \in Buffers : b \notin Nat
BY ComponentsAssumption

Vals(s) == {s[i].value : i \in DOMAIN s}
Once(s, F) == \A i, j \in DOMAIN s : s[i].value = s[j].value => i = j \/ s[i].value \in F

CallVals(c) == IF c.op = "set" THEN {c.value} \cup Vals(c.rest) ELSE {}
CallOnce(c, F) == c.op = "set" => (c.value \in F \/ c.value \notin Vals(c.rest)) /\ Once(c.rest, F)
WaitingVals(q) == UNION {CallVals(q[i]) : i \in DOMAIN q}
Apart(q, F) ==
  /\ \A i \in DOMAIN q : CallOnce(q[i], F)
  /\ \A i, j \in DOMAIN q : i # j => CallVals(q[i]) \cap CallVals(q[j]) \subseteq F

Cached(c) == {k \in CacheKeys : c[k] # None}
CacheVals(c) == {c[k].value : k \in Cached(c)}
Sole(c, F) == \A k, l \in Cached(c) : c[k].value = c[l].value => k = l \/ c[k].value \in F

\* Of the calls q, the queue p, the cache c, what was returned z, and of the values that may
\* be in several places, F, that were handed over, H, and that compression made, 1..n.
Placed(q, p, c, z, F, H, n) ==
  /\ Apart(q, F) /\ Once(p, F) /\ Sole(c, F)
  /\ WaitingVals(q) \cap Vals(p) \subseteq F
  /\ (WaitingVals(q) \cup Vals(p)) \cap (CacheVals(c) \cup z) \subseteq F
  /\ CacheVals(c) \cap z \subseteq F
  /\ WaitingVals(q) \cup Vals(p) \subseteq H
  /\ CacheVals(c) \cup z \subseteq H \cup 1..n

Timed(c, u) == \A k \in Cached(c) : c[k].age + u <= MaxAge + Caching!Interval

CacheInv ==
  /\ Caching!TypeOK /\ Len(pool) <= PoolSize /\ Timed(cache, untilCheck)
  /\ Placed(pending, preloadQueue, cache, zeroed, twice \cup {None}, handed \cup {None}, compressed)

LEMMA CacheNumbers == /\ MaxAge \in Nat /\ MaxSets \in Nat /\ Caching!Interval \in Nat \ {0}
                      /\ PoolSize \in Nat \ {0} /\ PreloadBatch \in Nat /\ Ttls \subseteq Nat
<1>1. MaxAge \in Nat /\ (MaxAge >= 2 => MaxAge \div 2 \in Nat \ {0})
  BY CachingConstants
<1> QED
  BY <1>1, CachingConstants DEF Caching!Interval

LEMMA CacheInit == Caching!Init => CacheInv
<1> SUFFICES ASSUME Caching!Init PROVE CacheInv
  OBVIOUS
<1>1. Caching!TypeOK
  <2>1. \A S : <<>> \in Seq(S)
    OBVIOUS
  <2>2. cache \in [CacheKeys -> Caching!Entry \cup {None}]
    BY DEF Caching!Init
  <2> QED
    BY <2>1, <2>2, CacheNumbers DEF Caching!Init, Caching!TypeOK
<1>2. Cached(cache) = {} /\ CacheVals(cache) = {}
  BY DEF Caching!Init, Cached, CacheVals
<1>3. DOMAIN pending = {} /\ DOMAIN preloadQueue = {} /\ zeroed = {}
  BY DEF Caching!Init
<1>4. WaitingVals(pending) = {} /\ Vals(preloadQueue) = {}
  BY <1>3 DEF WaitingVals, Vals
<1>5. Placed(pending, preloadQueue, cache, zeroed, twice \cup {None}, handed \cup {None}, compressed)
  BY <1>2, <1>3, <1>4 DEF Placed, Apart, Once, Sole
<1>6. Timed(cache, untilCheck) /\ Len(pool) <= PoolSize
  BY <1>2, CacheNumbers DEF Timed, Caching!Init
<1> QED
  BY <1>1, <1>5, <1>6 DEF CacheInv

-----------------------------------------------------------------------------
\* A call that is added brings its values, a call that is taken takes them.
LEMMA CallAdded ==
  ASSUME NEW F, NEW q \in Seq(Caching!Waiting), NEW c \in Caching!Waiting, Apart(q, F), CallOnce(c, F),
         CallVals(c) \cap WaitingVals(q) \subseteq F
  PROVE  /\ Append(q, c) \in Seq(Caching!Waiting) /\ Apart(Append(q, c), F)
         /\ WaitingVals(Append(q, c)) = WaitingVals(q) \cup CallVals(c)
<1> DEFINE W == Caching!Waiting
           a == Append(q, c)
           n == Len(q)
<1> HIDE DEF W
<1>1. /\ a \in Seq(W) /\ n \in Nat /\ DOMAIN q = 1..n /\ DOMAIN a = 1..n + 1
      /\ a[n + 1] = c /\ \A i \in 1..n : a[i] = q[i]
  <2>1. q \in Seq(W) /\ c \in W
    BY DEF W
  <2> QED
    BY <2>1
<1> HIDE DEF a, n
<1>2. \A i \in 1..n + 1 : i \in 1..n \/ i = n + 1
  BY <1>1
<1>3. n + 1 \in 1..n + 1 /\ n + 1 \notin 1..n /\ 1..n \subseteq 1..n + 1
  BY <1>1
<1>4. \A i \in 1..n : CallVals(a[i]) = CallVals(q[i]) /\ CallOnce(a[i], F) /\ CallVals(q[i]) \subseteq WaitingVals(q)
  BY <1>1 DEF Apart, WaitingVals
<1>5. CallVals(a[n + 1]) = CallVals(c) /\ CallOnce(a[n + 1], F)
  BY <1>1
<1>6. WaitingVals(a) = WaitingVals(q) \cup CallVals(c)
  <2>1. \A i \in 1..n + 1 : CallVals(a[i]) \subseteq WaitingVals(q) \cup CallVals(c)
    BY <1>2, <1>4, <1>5
  <2>2. WaitingVals(a) \subseteq WaitingVals(q) \cup CallVals(c)
    BY <1>1, <2>1 DEF WaitingVals
  <2>3. CallVals(c) \subseteq WaitingVals(a)
    BY <1>1, <1>3, <1>5 DEF WaitingVals
  <2>4. WaitingVals(q) \subseteq WaitingVals(a)
    <3>1. \A i \in 1..n : CallVals(q[i]) \subseteq WaitingVals(a)
      BY <1>1, <1>3, <1>4 DEF WaitingVals
    <3> QED
      BY <1>1, <3>1 DEF WaitingVals
  <2> QED
    BY <2>2, <2>3, <2>4
<1>7. ASSUME NEW i \in 1..n + 1, NEW j \in 1..n + 1, i # j PROVE CallVals(a[i]) \cap CallVals(a[j]) \subseteq F
  <2>1. CASE i \in 1..n /\ j \in 1..n
    BY <1>1, <1>4, <1>7, <2>1 DEF Apart
  <2>2. CASE i = n + 1 /\ j \in 1..n
    BY <1>4, <1>5, <2>2
  <2>3. CASE j = n + 1 /\ i \in 1..n
    BY <1>4, <1>5, <2>3
  <2> QED
    BY <1>2, <1>7, <2>1, <2>2, <2>3
<1>8. Apart(a, F)
  BY <1>1, <1>2, <1>4, <1>5, <1>7 DEF Apart
<1> QED
  BY <1>1, <1>6, <1>8 DEF a, W

LEMMA CallTaken ==
  ASSUME NEW F, NEW q \in Seq(Caching!Waiting), q # <<>>, Apart(q, F)
  PROVE  /\ Head(q) \in Caching!Waiting /\ Tail(q) \in Seq(Caching!Waiting) /\ CallOnce(Head(q), F) /\ Apart(Tail(q), F)
         /\ WaitingVals(q) = CallVals(Head(q)) \cup WaitingVals(Tail(q))
         /\ CallVals(Head(q)) \cap WaitingVals(Tail(q)) \subseteq F
<1> DEFINE W == Caching!Waiting
           t == Tail(q)
           n == Len(t)
<1> HIDE DEF W
<1>1. /\ t \in Seq(W) /\ n \in Nat /\ DOMAIN t = 1..n /\ DOMAIN q = 1..n + 1
      /\ Head(q) = q[1] /\ Head(q) \in W /\ \A i \in 1..n : t[i] = q[i + 1]
  <2>1. q \in Seq(W)
    BY DEF W
  <2> QED
    BY <2>1
<1> DEFINE h == Head(q)
<1> HIDE DEF t, n, h
<1>2. 1 \in 1..n + 1 /\ \A i \in 1..n : i + 1 \in 1..n + 1 /\ i + 1 # 1
  BY <1>1
<1>3. \A i \in 1..n + 1 : i = 1 \/ \E j \in 1..n : i = j + 1
  <2> TAKE i \in 1..n + 1
  <2>1. i # 1 => i - 1 \in 1..n /\ i = (i - 1) + 1
    BY <1>1
  <2> QED
    BY <2>1
<1>4. \A i \in 1..n : CallVals(t[i]) = CallVals(q[i + 1]) /\ CallOnce(t[i], F)
  BY <1>1, <1>2 DEF Apart
<1>5. h = q[1] /\ CallOnce(h, F)
  BY <1>1, <1>2 DEF Apart, h
<1>6. \A i \in 1..n : CallVals(h) \cap CallVals(t[i]) \subseteq F
  BY <1>1, <1>2, <1>4, <1>5 DEF Apart
<1>7. CallVals(h) \cap WaitingVals(t) \subseteq F
  BY <1>1, <1>6 DEF WaitingVals
<1>8. Apart(t, F)
  <2>1. \A i, j \in 1..n : i # j => i + 1 # j + 1
    BY <1>1
  <2>2. \A i, j \in 1..n : i # j => CallVals(t[i]) \cap CallVals(t[j]) \subseteq F
    BY <1>1, <1>2, <1>4, <2>1 DEF Apart
  <2> QED
    BY <1>1, <1>4, <2>2 DEF Apart
<1>9. WaitingVals(q) = CallVals(h) \cup WaitingVals(t)
  <2>1. \A i \in 1..n + 1 : CallVals(q[i]) \subseteq CallVals(h) \cup WaitingVals(t)
    <3>1. \A j \in 1..n : CallVals(q[j + 1]) \subseteq WaitingVals(t)
      BY <1>1, <1>4 DEF WaitingVals
    <3> QED
      BY <1>3, <1>5, <3>1
  <2>2. WaitingVals(q) \subseteq CallVals(h) \cup WaitingVals(t)
    BY <1>1, <2>1 DEF WaitingVals
  <2>3. CallVals(h) \subseteq WaitingVals(q)
    BY <1>1, <1>2, <1>5 DEF WaitingVals
  <2>4. \A i \in 1..n : CallVals(t[i]) \subseteq WaitingVals(q)
    BY <1>1, <1>2, <1>4 DEF WaitingVals
  <2>5. WaitingVals(t) \subseteq WaitingVals(q)
    BY <1>1, <2>4 DEF WaitingVals
  <2> QED
    BY <2>2, <2>3, <2>5
<1> QED
  BY <1>1, <1>5, <1>7, <1>8, <1>9 DEF t, h, W

\* The set that begins with the first of some values has them all.
LEMMA NewSetVals ==
  ASSUME NEW F, NEW vs \in Seq(Caching!Value), vs # <<>>, NEW ttl \in Ttls \cup {0}, NEW batch \in BOOLEAN, Once(vs, F)
  PROVE  Caching!NewSet(vs, ttl, batch) \in Caching!Waiting /\ CallVals(Caching!NewSet(vs, ttl, batch)) = Vals(vs) /\ CallOnce(Caching!NewSet(vs, ttl, batch), F)
<1> DEFINE V == Caching!Value
           t == Tail(vs)
           n == Len(t)
           c == Caching!NewSet(vs, ttl, batch)
<1>1. \A v \in V : v.key \in CacheKeys /\ v.value \in Caching!Given
  BY DEF Caching!Value
<1> HIDE DEF V
<1>2. /\ t \in Seq(V) /\ n \in Nat /\ DOMAIN t = 1..n /\ DOMAIN vs = 1..n + 1
      /\ Head(vs) = vs[1] /\ Head(vs) \in V /\ \A i \in 1..n : t[i] = vs[i + 1]
  <2>1. vs \in Seq(V)
    BY DEF V
  <2> QED
    BY <2>1
<1> HIDE DEF t, n
<1>3. c.op = "set" /\ c.value = vs[1].value /\ c.rest = t
  BY <1>2 DEF Caching!NewSet, t
<1>4. c \in Caching!SetCall
  <2>1. Head(vs).key \in CacheKeys /\ Head(vs).value \in Caching!Given /\ t \in Seq(Caching!Value)
    BY <1>1, <1>2 DEF V
  <2> QED
    BY <2>1 DEF Caching!NewSet, Caching!SetCall, t
<1> HIDE DEF c
<1>5. 1 \in 1..n + 1 /\ \A i \in 1..n : i + 1 \in 1..n + 1 /\ i + 1 # 1
  BY <1>2
<1>6. \A i \in 1..n + 1 : i = 1 \/ \E j \in 1..n : i = j + 1
  <2> TAKE i \in 1..n + 1
  <2>1. i # 1 => i - 1 \in 1..n /\ i = (i - 1) + 1
    BY <1>2
  <2> QED
    BY <2>1
<1>7. c.value \in F \/ c.value \notin Vals(t)
  <2>1. c.value \in F \/ \A i \in 1..n : vs[i + 1].value # vs[1].value
    BY <1>2, <1>3, <1>5 DEF Once
  <2>2. c.value \in F \/ \A i \in 1..n : t[i].value # c.value
    BY <1>2, <1>3, <2>1
  <2> QED
    BY <1>2, <2>2 DEF Vals
<1>8. Once(t, F)
  <2> SUFFICES ASSUME NEW i \in 1..n, NEW j \in 1..n, t[i].value = t[j].value,
                      t[i].value \notin F
               PROVE  i = j
    BY <1>2 DEF Once
  <2>1. vs[i + 1].value = vs[j + 1].value /\ vs[i + 1].value \notin F
    BY <1>2
  <2>2. i + 1 = j + 1
    BY <1>2, <1>5, <2>1 DEF Once
  <2> QED
    BY <2>2
<1>9. Vals(vs) = {c.value} \cup Vals(t)
  <2>1. \A i \in 1..n + 1 : vs[i].value \in {c.value} \cup Vals(t)
    <3>1. \A j \in 1..n : vs[j + 1].value \in Vals(t)
      BY <1>2 DEF Vals
    <3> QED
      BY <1>3, <1>6, <3>1
  <2>2. Vals(t) \subseteq Vals(vs)
    <3>1. \A j \in 1..n : t[j].value \in Vals(vs)
      BY <1>2, <1>5 DEF Vals
    <3> QED
      BY <1>2, <3>1 DEF Vals
  <2>3. c.value \in Vals(vs)
    BY <1>2, <1>3, <1>5 DEF Vals
  <2> QED
    BY <1>2, <2>1, <2>2, <2>3 DEF Vals
<1> QED
  BY <1>3, <1>4, <1>7, <1>8, <1>9 DEF CallVals, CallOnce, Caching!Waiting, c

\* splice: the batch and what is left have no value in common.
LEMMA BatchVals ==
  ASSUME NEW F, NEW q \in Seq(Caching!Value), NEW n \in 1..Len(q), Once(q, F)
  PROVE  LET b == SubSeq(q, 1, n)
             r == SubSeq(q, n + 1, Len(q))
         IN /\ b \in Seq(Caching!Value) /\ b # <<>> /\ Once(b, F) /\ r \in Seq(Caching!Value) /\ Once(r, F)
            /\ Vals(b) \subseteq Vals(q) /\ Vals(r) \subseteq Vals(q) /\ Vals(b) \cap Vals(r) \subseteq F
<1> DEFINE V == Caching!Value
           b == SubSeq(q, 1, n)
           r == SubSeq(q, n + 1, Len(q))
           l == Len(q)
           m == l - n
<1> HIDE DEF V
<1>1. q \in Seq(V) /\ l \in Nat /\ n \in Nat /\ n <= l /\ 1 <= n /\ DOMAIN q = 1..l /\ m \in Nat
  BY DEF V
<1>2. b \in Seq(V) /\ DOMAIN b = 1..n /\ \A i \in 1..n : b[i] = q[i]
  BY <1>1
<1>3. r \in Seq(V) /\ DOMAIN r = 1..m /\ \A i \in 1..m : r[i] = q[i + n]
  <2> DEFINE k == n + 1
  <2>1. k \in Int /\ l \in Int /\ m = l - k + 1 /\ (k <= l => m >= 1) /\ (k > l => m = 0)
    <3> HIDE DEF l
    <3> QED
      BY <1>1
  <2>2. \A i \in k..l : q[i] \in V
    BY <1>1
  <2>3. \A i \in 1..m : k + i - 1 = i + n
    BY <1>1
  <2>4. r = SubSeq(q, k, l)
    OBVIOUS
  <2> HIDE DEF k, l, r, m
  <2>5. /\ SubSeq(q, k, l) \in Seq(V)
        /\ Len(SubSeq(q, k, l)) = IF k <= l THEN l - k + 1 ELSE 0
        /\ \A i \in 1..l - k + 1 : SubSeq(q, k, l)[i] = q[k + i - 1]
    BY <2>1, <2>2, SubSeqProperties
  <2>6. r \in Seq(V) /\ Len(r) = m /\ \A i \in 1..m : r[i] = q[k + i - 1]
    BY <2>1, <2>4, <2>5
  <2>7. r \in Seq(V) => DOMAIN r = 1..Len(r)
    OBVIOUS
  <2> QED
    BY <2>3, <2>6, <2>7
<1> HIDE DEF b, r, l, m
<1>4. /\ \A i \in 1..n : i \in 1..l
      /\ \A i \in 1..m : i + n \in 1..l
      /\ \A i \in 1..n, j \in 1..m : i # j + n
  BY <1>1 DEF l, m
<1>5. Once(b, F)
  BY <1>1, <1>2, <1>4 DEF Once
<1>6. Once(r, F)
  <2> SUFFICES ASSUME NEW i \in 1..m, NEW j \in 1..m, r[i].value = r[j].value,
                      r[i].value \notin F
               PROVE  i = j
    BY <1>3 DEF Once
  <2>1. i + n = j + n
    BY <1>1, <1>3, <1>4 DEF Once
  <2> QED
    BY <1>1, <2>1
<1>7. Vals(b) \subseteq Vals(q)
  <2>1. \A i \in 1..n : b[i].value \in Vals(q)
    BY <1>1, <1>2, <1>4 DEF Vals
  <2> QED
    BY <1>2, <2>1 DEF Vals
<1>8. Vals(r) \subseteq Vals(q)
  <2>1. \A i \in 1..m : r[i].value \in Vals(q)
    BY <1>1, <1>3, <1>4 DEF Vals
  <2> QED
    BY <1>3, <2>1 DEF Vals
<1>9. Vals(b) \cap Vals(r) \subseteq F
  <2>1. \A i \in 1..n, j \in 1..m : b[i].value = r[j].value => b[i].value \in F
    BY <1>1, <1>2, <1>3, <1>4 DEF Once
  <2> QED
    BY <1>2, <1>3, <2>1 DEF Vals
<1>10. b # <<>>
  BY <1>1, <1>2
<1> QED
  BY <1>2, <1>3, <1>5, <1>6, <1>7, <1>8, <1>9, <1>10 DEF b, r, V

-----------------------------------------------------------------------------
\* What may be in several places grows, and so does what is known.
LEMMA PlacedGrows ==
  ASSUME NEW q, NEW p, NEW c, NEW z, NEW F, NEW H, NEW n, Placed(q, p, c, z, F, H, n),
         NEW G, NEW I, NEW m, F \subseteq G, H \subseteq I, 1..n \subseteq 1..m
  PROVE  Placed(q, p, c, z, G, I, m)
<1>1. Apart(q, G) /\ Once(p, G) /\ Sole(c, G)
  <2>1. \A i \in DOMAIN q : CallOnce(q[i], F) => CallOnce(q[i], G)
    BY DEF CallOnce, Once
  <2> QED
    BY <2>1 DEF Placed, Apart, Once, Sole
<1> DEFINE W == WaitingVals(q)
           Q == Vals(p)
           C == CacheVals(c)
<1>2. /\ W \cap Q \subseteq F /\ (W \cup Q) \cap (C \cup z) \subseteq F /\ C \cap z \subseteq F
      /\ W \cup Q \subseteq H /\ C \cup z \subseteq H \cup 1..n
  BY DEF Placed
<1>3. /\ W \cap Q \subseteq G /\ (W \cup Q) \cap (C \cup z) \subseteq G /\ C \cap z \subseteq G
      /\ W \cup Q \subseteq I /\ C \cup z \subseteq I \cup 1..m
  <2> HIDE DEF W, Q, C
  <2> QED
    BY <1>2
<1> QED
  BY <1>1, <1>3 DEF Placed

\* Calls bring a value that nothing else has, or go without one.
LEMMA PlacedCalls ==
  ASSUME NEW q, NEW p, NEW c, NEW z, NEW F, NEW H, NEW n, Placed(q, p, c, z, F, H, n),
         NEW r, NEW V, Apart(r, F), WaitingVals(r) \subseteq WaitingVals(q) \cup V,
         \A v \in V : v \in F \/ v \notin Vals(p) \cup CacheVals(c) \cup z,
         V \subseteq H
  PROVE  Placed(r, p, c, z, F, H, n)
<1> DEFINE W == WaitingVals(q)
           Q == Vals(p)
           C == CacheVals(c)
           R == WaitingVals(r)
<1>1. /\ W \cap Q \subseteq F /\ (W \cup Q) \cap (C \cup z) \subseteq F /\ C \cap z \subseteq F
      /\ W \cup Q \subseteq H /\ C \cup z \subseteq H \cup 1..n /\ R \subseteq W \cup V
      /\ \A v \in V : v \in F \/ v \notin Q \cup C \cup z
  BY DEF Placed
<1>2. R \cap Q \subseteq F /\ (R \cup Q) \cap (C \cup z) \subseteq F /\ R \cup Q \subseteq H
  <2> HIDE DEF W, Q, C, R
  <2> QED
    BY <1>1
<1> QED
  BY <1>1, <1>2 DEF Placed

\* Calls go.
LEMMA PlacedFewer ==
  ASSUME NEW q, NEW p, NEW c, NEW z, NEW F, NEW H, NEW n, Placed(q, p, c, z, F, H, n),
         NEW r, Apart(r, F), WaitingVals(r) \subseteq WaitingVals(q)
  PROVE  Placed(r, p, c, z, F, H, n)
<1> DEFINE V == {}
<1>1. /\ WaitingVals(r) \subseteq WaitingVals(q) \cup V /\ V \subseteq H
      /\ \A v \in V : v \in F \/ v \notin Vals(p) \cup CacheVals(c) \cup z
  OBVIOUS
<1> HIDE DEF V
<1> QED
  BY <1>1, PlacedCalls

\* Entries go, or their ages change.
LEMMA PlacedDropped ==
  ASSUME NEW q, NEW p, NEW c, NEW z, NEW F, NEW H, NEW n, Placed(q, p, c, z, F, H, n),
         NEW d, \A k \in Cached(d) : k \in Cached(c) /\ d[k].value = c[k].value
  PROVE  Placed(q, p, d, z, F, H, n)
<1> DEFINE W == WaitingVals(q)
           Q == Vals(p)
           C == CacheVals(c)
           D == CacheVals(d)
<1>1. D \subseteq C
  BY DEF CacheVals
<1>2. Sole(d, F)
  BY DEF Placed, Sole
<1>3. /\ (W \cup Q) \cap (C \cup z) \subseteq F /\ C \cap z \subseteq F /\ C \cup z \subseteq H \cup 1..n
  BY DEF Placed
<1>4. (W \cup Q) \cap (D \cup z) \subseteq F /\ D \cap z \subseteq F /\ D \cup z \subseteq H \cup 1..n
  <2> HIDE DEF W, Q, C, D
  <2> QED
    BY <1>1, <1>3
<1> QED
  BY <1>2, <1>4 DEF Placed

\* An entry goes, and its value to the pool.
LEMMA PlacedReturned ==
  ASSUME NEW q, NEW p, NEW c, NEW z, NEW F, NEW H, NEW n, Placed(q, p, c, z, F, H, n),
         NEW k \in Cached(c), NEW d, \A l \in Cached(d) : l \in Cached(c) /\ l # k /\ d[l] = c[l]
  PROVE  Placed(q, p, d, z \cup {c[k].value}, F, H, n)
<1> DEFINE W == WaitingVals(q)
           Q == Vals(p)
           C == CacheVals(c)
           D == CacheVals(d)
           v == c[k].value
<1>1. D \subseteq C /\ v \in C
  BY DEF CacheVals
<1>2. v \in F \/ v \notin D
  BY DEF CacheVals, Placed, Sole
<1>3. Sole(d, F)
  BY DEF Placed, Sole
<1>4. /\ (W \cup Q) \cap (C \cup z) \subseteq F /\ C \cap z \subseteq F /\ C \cup z \subseteq H \cup 1..n
  BY DEF Placed
<1>5. /\ (W \cup Q) \cap (D \cup (z \cup {v})) \subseteq F /\ D \cap (z \cup {v}) \subseteq F
      /\ D \cup (z \cup {v}) \subseteq H \cup 1..n
  <2> HIDE DEF W, Q, C, D, v
  <2> QED
    BY <1>1, <1>2, <1>4
<1> QED
  BY <1>3, <1>5 DEF Placed

\* An entry comes, with a value that nothing has.
Stored(c, d, k, v) ==
  \A l \in Cached(d) : (l = k /\ d[l].value = v) \/ (l # k /\ l \in Cached(c) /\ d[l] = c[l])
LEMMA PlacedStored ==
  ASSUME NEW q, NEW p, NEW c, NEW z, NEW F, NEW H, NEW n, Placed(q, p, c, z, F, H, n),
         NEW d, NEW k, NEW v, Stored(c, d, k, v),
         v \in F \/ v \notin WaitingVals(q) \cup Vals(p) \cup CacheVals(c) \cup z,
         v \in H \cup 1..n
  PROVE  Placed(q, p, d, z, F, H, n)
<1> DEFINE W == WaitingVals(q)
           Q == Vals(p)
           C == CacheVals(c)
           D == CacheVals(d)
<1>1. D \subseteq C \cup {v}
  BY DEF CacheVals, Stored
<1>2. Sole(d, F)
  <2>1. \A l \in Cached(c) : c[l].value \in C
    BY DEF CacheVals
  <2> SUFFICES ASSUME NEW l \in Cached(d), NEW m \in Cached(d), d[l].value = d[m].value, d[l].value \notin F
               PROVE  l = m
    BY DEF Sole
  <2> HIDE DEF C
  <2>2. CASE l # k /\ m # k
    BY <2>2 DEF Placed, Sole, Stored
  <2>3. CASE l = k \/ m = k
    BY <2>1, <2>3 DEF C, Stored
  <2> QED
    BY <2>2, <2>3
<1>3. /\ (W \cup Q) \cap (C \cup z) \subseteq F /\ C \cap z \subseteq F /\ C \cup z \subseteq H \cup 1..n
      /\ v \in F \/ v \notin W \cup Q \cup C \cup z
  BY DEF Placed
<1>4. (W \cup Q) \cap (D \cup z) \subseteq F /\ D \cap z \subseteq F /\ D \cup z \subseteq H \cup 1..n
  <2> HIDE DEF W, Q, C, D
  <2> QED
    BY <1>1, <1>3
<1> QED
  BY <1>2, <1>4 DEF Placed

-----------------------------------------------------------------------------
LEMMA CacheConstant == Caching!Waiting' = Caching!Waiting /\ Caching!Value' = Caching!Value /\ Caching!Entry' = Caching!Entry /\ Caching!Interval' = Caching!Interval /\ Caching!Given' = Caching!Given
BY DEF Caching!Waiting, Caching!SetCall, Caching!Value, Caching!Entry, Caching!Interval, Caching!Given

\* What is handed over is known already, and shared from now on, or is nowhere yet.
LEMMA CacheHanded ==
  ASSUME CacheInv, NEW v \in Caching!Given, Caching!Hand(v)
  PROVE  /\ handed' \subseteq Buffers /\ twice' \subseteq handed' /\ sets' \in 0..MaxSets
         /\ twice \subseteq twice' /\ handed \subseteq handed' /\ v \in handed' \cup {None}
         /\ \/ v \in twice' \cup {None}
            \/ v \notin (handed \cup {None}) \cup 1..compressed
<1>1. handed \subseteq Buffers /\ twice \subseteq handed /\ sets \in 0..MaxSets
  BY DEF CacheInv, Caching!TypeOK
<1>2. /\ sets < MaxSets /\ sets' = sets + 1 /\ handed' = handed \cup ({v} \cap Buffers)
      /\ twice' = twice \cup ({v} \cap handed)
  BY DEF Caching!Hand
<1>3. sets' \in 0..MaxSets
  BY <1>1, <1>2, CacheNumbers
<1>4. v \in Buffers \/ v = None
  BY DEF Caching!Given
<1>5. v \in Buffers => v \notin 1..compressed
  <2>1. compressed \in Nat
    BY DEF CacheInv, Caching!TypeOK
  <2> QED
    BY <2>1, CachingConstants
<1> QED
  BY <1>1, <1>2, <1>3, <1>4, <1>5

\* A call begins, with a new value if it is a set.
LEMMA CacheCalled ==
  ASSUME CacheInv, NEW c \in Caching!Waiting, pending' = Append(pending, c),
         UNCHANGED <<cache, pool, compressed, zeroed, preloadQueue, again, untilCheck>>,
         preloading' \in BOOLEAN,
         handed' \subseteq Buffers, twice' \subseteq handed', sets' \in 0..MaxSets,
         twice \subseteq twice', handed \subseteq handed',
         CallOnce(c, twice' \cup {None}), CallVals(c) \subseteq handed' \cup {None},
         \A v \in CallVals(c) : \/ v \in twice' \cup {None}
                                \/ v \notin (handed \cup {None}) \cup 1..compressed
  PROVE  CacheInv'
<1> DEFINE F == twice' \cup {None}
           H == handed' \cup {None}
           I == handed \cup {None}
<1>1. Placed(pending, preloadQueue, cache, zeroed, twice \cup {None}, I, compressed)
  BY DEF CacheInv
<1>2. Placed(pending, preloadQueue, cache, zeroed, F, H, compressed)
  BY <1>1, PlacedGrows
<1>3. /\ WaitingVals(pending) \cup Vals(preloadQueue) \subseteq I
      /\ CacheVals(cache) \cup zeroed \subseteq I \cup 1..compressed
  BY <1>1 DEF Placed
<1> HIDE DEF F, H, I
<1>4. \A v \in CallVals(c) : v \in F \/ v \notin WaitingVals(pending) \cup Vals(preloadQueue) \cup CacheVals(cache) \cup zeroed
  BY <1>3 DEF F, I
<1>5. /\ pending' \in Seq(Caching!Waiting) /\ Apart(pending', F)
      /\ WaitingVals(pending') = WaitingVals(pending) \cup CallVals(c)
  <2>1. pending \in Seq(Caching!Waiting) /\ Apart(pending, F) /\ CallOnce(c, F)
    BY <1>2 DEF CacheInv, Caching!TypeOK, Placed, F
  <2>2. CallVals(c) \cap WaitingVals(pending) \subseteq F
    BY <1>4
  <2> QED
    BY <2>1, <2>2, CallAdded
<1>6. Placed(pending', preloadQueue, cache, zeroed, F, H, compressed)
  <2>1. CallVals(c) \subseteq H
    BY DEF H
  <2>2. \A v \in CallVals(c) : v \in F \/ v \notin Vals(preloadQueue) \cup CacheVals(cache) \cup zeroed
    BY <1>4
  <2>3. WaitingVals(pending') \subseteq WaitingVals(pending) \cup CallVals(c)
    BY <1>5
  <2> QED
    BY <1>2, <1>5, <2>1, <2>2, <2>3, PlacedCalls
<1>7. Caching!TypeOK'
  BY <1>5, CacheConstant DEF CacheInv, Caching!TypeOK
<1>8. CacheInv' = /\ Caching!TypeOK' /\ Len(pool') <= PoolSize /\ Timed(cache', untilCheck')
                  /\ Placed(pending', preloadQueue', cache', zeroed', F, H, compressed')
  BY DEF CacheInv, F, H
<1> QED
  BY <1>6, <1>7, <1>8 DEF CacheInv

LEMMA CacheBegins ==
  ASSUME CacheInv,
         \/ \E k \in CacheKeys : \/ \E v \in Caching!Given, ttl \in Ttls : Caching!BeginSet(k, v, ttl)
                                 \/ Caching!BeginDelete(k) \/ Caching!GetExpired(k)
         \/ Caching!BeginClear \/ Caching!BeginDestroy
  PROVE  CacheInv'
<1>1. /\ preloading \in BOOLEAN /\ handed \subseteq Buffers /\ twice \subseteq handed /\ sets \in 0..MaxSets
  BY DEF CacheInv, Caching!TypeOK
<1>2. ASSUME NEW k \in CacheKeys, NEW v \in Caching!Given, NEW ttl \in Ttls, Caching!BeginSet(k, v, ttl) PROVE CacheInv'
  <2> DEFINE e == [key |-> k, value |-> v]
             vs == <<e>>
             c == Caching!NewSet(vs, ttl, FALSE)
             F == twice' \cup {None}
  <2>1. /\ Caching!Hand(v) /\ pending' = Append(pending, c)
        /\ UNCHANGED <<cache, pool, compressed, zeroed, preloadQueue, preloading, again, untilCheck>>
    BY <1>2 DEF Caching!BeginSet, Caching!Call, Caching!timers, Caching!memory
  <2>2. e \in Caching!Value /\ e.value = v
    BY DEF Caching!Value
  <2> HIDE DEF e
  <2>3. vs \in Seq(Caching!Value) /\ vs # <<>> /\ DOMAIN vs = {1} /\ vs[1] = e
    <3> DEFINE V == Caching!Value
    <3> HIDE DEF V
    <3>1. e \in V
      BY <2>2 DEF V
    <3>2. vs \in Seq(V) /\ vs # <<>> /\ DOMAIN vs = {1} /\ vs[1] = e
      BY <3>1
    <3> QED
      BY <3>2 DEF V
  <2>4. Once(vs, F) /\ Vals(vs) = {v}
    BY <2>2, <2>3 DEF Once, Vals
  <2> HIDE DEF vs, F
  <2>5. c \in Caching!Waiting /\ CallVals(c) = {v} /\ CallOnce(c, F)
    BY <2>3, <2>4, NewSetVals
  <2> HIDE DEF c
  <2>6. /\ handed' \subseteq Buffers /\ twice' \subseteq handed' /\ sets' \in 0..MaxSets
        /\ twice \subseteq twice' /\ handed \subseteq handed' /\ {v} \subseteq handed' \cup {None}
        /\ \A w \in {v} : w \in twice' \cup {None} \/ w \notin (handed \cup {None}) \cup 1..compressed
    BY <2>1, CacheHanded
  <2> QED
    BY <1>1, <2>1, <2>5, <2>6, CacheCalled DEF F
<1>3. ASSUME NEW c \in Caching!Waiting, c.op # "set", pending' = Append(pending, c), preloading' \in BOOLEAN,
             UNCHANGED <<cache, pool, compressed, zeroed, preloadQueue, again, untilCheck, Caching!hands>>
      PROVE  CacheInv'
  <2>1. CallOnce(c, twice' \cup {None}) /\ CallVals(c) = {}
    BY <1>3 DEF CallOnce, CallVals
  <2>2. handed' = handed /\ twice' = twice /\ sets' = sets
    BY <1>3 DEF Caching!hands
  <2> QED
    BY <1>1, <1>3, <2>1, <2>2, CacheCalled
<1>4. ASSUME NEW k \in CacheKeys, Caching!BeginDelete(k) \/ Caching!GetExpired(k) PROVE CacheInv'
  <2> DEFINE c == [op |-> "delete", key |-> k]
  <2>1. c \in Caching!Waiting /\ c.op # "set"
    BY DEF Caching!Waiting
  <2>2. /\ pending' = Append(pending, c)
        /\ UNCHANGED <<cache, pool, compressed, zeroed, preloadQueue, preloading, again, untilCheck, Caching!hands>>
    BY <1>4 DEF Caching!BeginDelete, Caching!GetExpired, Caching!Call, Caching!timers, Caching!memory
  <2> HIDE DEF c
  <2> QED
    BY <1>1, <1>3, <2>1, <2>2
<1>5. CASE Caching!BeginClear \/ Caching!BeginDestroy
  <2> DEFINE c == [op |-> "clear"]
  <2>1. c \in Caching!Waiting /\ c.op # "set"
    BY DEF Caching!Waiting
  <2>2. /\ pending' = Append(pending, c) /\ preloading' \in BOOLEAN
        /\ UNCHANGED <<cache, pool, compressed, zeroed, preloadQueue, again, untilCheck, Caching!hands>>
    BY <1>1, <1>5 DEF Caching!BeginClear, Caching!BeginDestroy, Caching!Call, Caching!timers, Caching!memory
  <2> HIDE DEF c
  <2> QED
    BY <1>3, <2>1, <2>2
<1> QED
  BY <1>2, <1>4, <1>5

-----------------------------------------------------------------------------
LEMMA AppendOne == ASSUME NEW S, NEW t \in Seq(S), NEW c \in S PROVE t \o <<c>> = Append(t, c)
<1>1. /\ <<c>> \in Seq(S) /\ Len(<<c>>) = 1 /\ <<c>>[1] = c /\ Len(t) \in Nat
      /\ Append(t, c) \in Seq(S) /\ Len(Append(t, c)) = Len(t) + 1
      /\ \A i \in 1..Len(t) : Append(t, c)[i] = t[i]
      /\ Append(t, c)[Len(t) + 1] = c
  OBVIOUS
<1>2. /\ t \o <<c>> \in Seq(S) /\ Len(t \o <<c>>) = Len(t) + 1
      /\ \A i \in 1..Len(t) + 1 : (t \o <<c>>)[i] = IF i <= Len(t) THEN t[i] ELSE <<c>>[i - Len(t)]
  BY <1>1, ConcatProperties
<1>3. ASSUME NEW i \in 1..Len(t) + 1 PROVE (t \o <<c>>)[i] = Append(t, c)[i]
  <2>1. CASE i <= Len(t)
    BY <1>1, <1>2, <2>1
  <2>2. CASE i = Len(t) + 1
    BY <1>1, <1>2, <2>2
  <2> QED
    BY <1>1, <2>1, <2>2
<1> QED
  BY <1>1, <1>2, <1>3, SeqEqual

\* The call at the head goes, and goes on with some of its values, or with none.
LEMMA CallGoesOn ==
  ASSUME NEW F, Apart(pending, F), pending \in Seq(Caching!Waiting), pending # <<>>, NEW rest \in Seq(Caching!Value), Once(rest, F),
         pending' = Tail(pending) \o (IF rest = <<>> THEN <<>> ELSE <<Caching!NewSet(rest, 0, TRUE)>>),
         Vals(rest) \subseteq CallVals(Head(pending))
  PROVE  /\ pending' \in Seq(Caching!Waiting) /\ Apart(pending', F)
         /\ WaitingVals(pending') = WaitingVals(Tail(pending)) \cup Vals(rest)
<1> DEFINE t == Tail(pending)
<1>1. t \in Seq(Caching!Waiting) /\ Apart(t, F) /\ CallVals(Head(pending)) \cap WaitingVals(t) \subseteq F
  BY CallTaken
<1>2. pending' = t \o (IF rest = <<>> THEN <<>> ELSE <<Caching!NewSet(rest, 0, TRUE)>>)
  OBVIOUS
<1> HIDE DEF t
<1>3. CASE rest = <<>>
  <2>1. pending' = t
    <3> DEFINE W == Caching!Waiting
    <3> HIDE DEF W
    <3>1. t \in Seq(W)
      BY <1>1 DEF W
    <3> QED
      BY <1>2, <1>3, <3>1
  <2>2. Vals(rest) = {}
    <3>1. DOMAIN rest = {}
      BY <1>3
    <3> QED
      BY <3>1 DEF Vals
  <2> QED
    BY <1>1, <2>1, <2>2 DEF t
<1>4. CASE rest # <<>>
  <2> DEFINE c == Caching!NewSet(rest, 0, TRUE)
  <2>1. c \in Caching!Waiting /\ CallVals(c) = Vals(rest) /\ CallOnce(c, F)
    BY <1>4, NewSetVals
  <2>2. pending' = t \o <<c>>
    BY <1>2, <1>4
  <2> HIDE DEF c
  <2>3. t \o <<c>> = Append(t, c)
    BY <1>1, <2>1, AppendOne
  <2>4. CallVals(c) \cap WaitingVals(t) \subseteq F
    BY <1>1, <2>1
  <2>5. /\ Append(t, c) \in Seq(Caching!Waiting) /\ Apart(Append(t, c), F)
        /\ WaitingVals(Append(t, c)) = WaitingVals(t) \cup CallVals(c)
    BY <1>1, <2>1, <2>4, CallAdded
  <2> QED
    BY <2>1, <2>2, <2>3, <2>5 DEF t
<1> QED
  BY <1>3, <1>4

LEMMA CallGoes ==
  ASSUME NEW F, Apart(pending, F), pending \in Seq(Caching!Waiting), pending # <<>>, pending' = Tail(pending)
  PROVE  /\ pending' \in Seq(Caching!Waiting) /\ Apart(pending', F)
         /\ WaitingVals(pending') \subseteq WaitingVals(pending)
BY CallTaken

LEMMA CacheSet ==
  ASSUME CacheInv, pending # <<>>, NEW h, h = Head(pending), h.op = "set", Caching!Set(h)
  PROVE  CacheInv'
<1> DEFINE F == twice \cup {None}
           H == handed \cup {None}
           W == WaitingVals(pending')
           Q == Vals(preloadQueue)
           C == CacheVals(cache)
<1>1. /\ pending \in Seq(Caching!Waiting) /\ cache \in [CacheKeys -> Caching!Entry \cup {None}] /\ compressed \in Nat
      /\ untilCheck \in 0..Caching!Interval /\ again \in Nat /\ preloadQueue \in Seq(Caching!Value)
      /\ handed \subseteq Buffers
  BY DEF CacheInv, Caching!TypeOK
<1>2. Placed(pending, preloadQueue, cache, zeroed, F, H, compressed) /\ Apart(pending, F)
  BY DEF CacheInv, Placed
<1>3. /\ h \in Caching!Waiting /\ CallOnce(h, F)
      /\ WaitingVals(pending) = CallVals(h) \cup WaitingVals(Tail(pending))
      /\ CallVals(h) \cap WaitingVals(Tail(pending)) \subseteq F
  BY <1>1, <1>2, CallTaken
<1>4. h.key \in CacheKeys /\ h.value \in Caching!Given /\ h.ttl \in Nat /\ h.rest \in Seq(Caching!Value)
  <2>1. h \in Caching!SetCall
    BY <1>3 DEF Caching!Waiting
  <2>2. h.key \in CacheKeys /\ h.value \in Caching!Given /\ h.ttl \in Ttls \cup {0} /\ h.rest \in Seq(Caching!Value)
    BY <2>1 DEF Caching!SetCall
  <2>3. Ttls \cup {0} \subseteq Nat
    BY CacheNumbers
  <2> QED
    BY <2>2, <2>3
<1>5. /\ h.value \in CallVals(h) /\ Vals(h.rest) \subseteq CallVals(h)
      /\ h.value \in F \/ h.value \notin Vals(h.rest)
      /\ Once(h.rest, F)
  BY <1>3 DEF CallVals, CallOnce
<1>6. /\ pending' \in Seq(Caching!Waiting) /\ Apart(pending', F)
      /\ W = WaitingVals(Tail(pending)) \cup Vals(h.rest)
  <2>1. pending' = Tail(pending) \o (IF h.rest = <<>> THEN <<>> ELSE <<Caching!NewSet(h.rest, 0, TRUE)>>)
    BY DEF Caching!Set
  <2> QED
    BY <1>1, <1>2, <1>4, <1>5, <2>1, CallGoesOn
<1>7. Placed(pending', preloadQueue, cache, zeroed, F, H, compressed)
  <2>1. WaitingVals(pending') \subseteq WaitingVals(pending)
    BY <1>3, <1>5, <1>6
  <2> HIDE DEF F, H, W
  <2> QED
    BY <1>2, <1>6, <2>1, PlacedFewer
<1>8. UNCHANGED <<pool, zeroed, preloadQueue, preloading, untilCheck, handed, twice, sets>> /\ again' \in Nat
  <2>1. Caching!More \in Nat
    BY DEF Caching!More
  <2> QED
    BY <1>1, <2>1 DEF Caching!Set, Caching!timers, Caching!hands
<1>9. ASSUME NEW v, v \in H \cup 1..compressed', v \in Caching!Given \cup Nat, v \in F \/ v \notin W \cup Q \cup C \cup zeroed,
             Caching!Store(h, v), compressed' \in Nat, compressed <= compressed'
      PROVE  CacheInv'
  <2> DEFINE e == [value |-> v, age |-> 0, ttl |-> h.ttl]
  <2>1. e \in Caching!Entry /\ e.value = v /\ e.age = 0
    BY <1>4, <1>9 DEF Caching!Entry
  <2>2. cache' = [cache EXCEPT ![h.key] = e]
    BY <1>9 DEF Caching!Store
  <2> HIDE DEF e
  <2>3. /\ cache' \in [CacheKeys -> Caching!Entry \cup {None}]
        /\ \A l \in CacheKeys : cache'[l] = IF l = h.key THEN e ELSE cache[l]
    BY <1>1, <1>4, <2>1, <2>2
  <2>4. \A l \in Cached(cache') : \/ l = h.key /\ cache'[l] = e
                                  \/ l # h.key /\ l \in Cached(cache) /\ cache'[l] = cache[l]
    BY <2>3 DEF Cached
  <2>5. Placed(pending', preloadQueue, cache', zeroed, F, H, compressed')
    <3>1. Placed(pending', preloadQueue, cache, zeroed, F, H, compressed')
      <4>1. 1..compressed \subseteq 1..compressed'
        BY <1>1, <1>9
      <4> HIDE DEF F, H
      <4> QED
        BY <1>7, <4>1, PlacedGrows
    <3>2. Stored(cache, cache', h.key, v)
      BY <2>1, <2>4 DEF Stored
    <3>3. v \in F \/ v \notin WaitingVals(pending') \cup Vals(preloadQueue) \cup CacheVals(cache) \cup zeroed
      BY <1>9
    <3>4. v \in H \cup 1..compressed'
      BY <1>9
    <3> HIDE DEF F, H, W, Q, C
    <3> QED
      BY <3>1, <3>2, <3>3, <3>4, PlacedStored
  <2>6. Timed(cache', untilCheck)
    <3> SUFFICES ASSUME NEW l \in Cached(cache') PROVE cache'[l].age + untilCheck <= MaxAge + Caching!Interval
      BY DEF Timed
    <3>1. CASE cache'[l] = e
      BY <1>1, <2>1, <3>1, CacheNumbers
    <3>2. CASE l \in Cached(cache) /\ cache'[l] = cache[l]
      BY <3>2 DEF CacheInv, Timed
    <3> QED
      BY <2>4, <3>1, <3>2
  <2>7. Caching!TypeOK'
    BY <1>6, <1>8, <1>9, <2>3, CacheConstant DEF CacheInv, Caching!TypeOK
  <2> QED
    BY <1>8, <2>5, <2>6, <2>7, CacheConstant DEF CacheInv, Timed, Cached
<1>10. CASE Caching!Store(h, h.value) /\ UNCHANGED compressed
  <2>1. h.value \in H
    BY <1>2, <1>3, <1>5 DEF Placed
  <2>2. h.value \in F \/ h.value \notin W \cup Q \cup C \cup zeroed
    <3>1. h.value \in F \/ h.value \notin Q \cup C \cup zeroed
      BY <1>2, <1>3, <1>5 DEF Placed
    <3>2. h.value \in F \/ h.value \notin W
      BY <1>3, <1>5, <1>6
    <3> QED
      BY <3>1, <3>2
  <2> QED
    BY <1>1, <1>4, <1>9, <1>10, <2>1, <2>2
<1>11. CASE Caching!Store(h, compressed + 1) /\ compressed' = compressed + 1
  <2>1. compressed + 1 \in Nat /\ compressed + 1 \in 1..compressed + 1 /\ compressed + 1 \notin 1..compressed
        /\ compressed <= compressed + 1
    BY <1>1
  <2>2. compressed + 1 \in F \/ compressed + 1 \notin H
    BY <1>1, <2>1, CachingConstants
  <2>3. W \cup Q \subseteq H /\ C \cup zeroed \subseteq H \cup 1..compressed
    BY <1>7 DEF Placed
  <2>4. compressed + 1 \in F \/ compressed + 1 \notin W \cup Q \cup C \cup zeroed
    BY <2>1, <2>2, <2>3
  <2> HIDE DEF F, H, W, Q, C
  <2> QED
    BY <1>9, <1>11, <2>1, <2>4
<1>12. CASE UNCHANGED <<cache, compressed>>
  <2>1. Caching!TypeOK'
    BY <1>6, <1>8, <1>12, CacheConstant DEF CacheInv, Caching!TypeOK
  <2> QED
    BY <1>7, <1>8, <1>12, <2>1, CacheConstant DEF CacheInv, Timed, Cached
<1> QED
  BY <1>10, <1>11, <1>12 DEF Caching!Set

-----------------------------------------------------------------------------
\* Entries stay, go, are checked or grow older, and at most the call at the head goes.
LEMMA CacheMoves ==
  ASSUME CacheInv, cache' \in [CacheKeys -> Caching!Entry \cup {None}], Timed(cache', untilCheck'),
         \A k \in Cached(cache') : k \in Cached(cache) /\ cache'[k].value = cache[k].value,
         pending' = pending \/ (pending # <<>> /\ pending' = Tail(pending)),
         UNCHANGED <<compressed, zeroed, preloadQueue, handed, twice, sets>>,
         pool' \in Seq(Buffers \cup Nat), Len(pool') <= PoolSize,
         again' \in Nat, preloading' \in BOOLEAN, untilCheck' \in 0..Caching!Interval
  PROVE  CacheInv'
<1> DEFINE F == twice \cup {None}
           H == handed \cup {None}
<1>1. Placed(pending, preloadQueue, cache, zeroed, F, H, compressed) /\ Apart(pending, F) /\ pending \in Seq(Caching!Waiting)
  BY DEF CacheInv, Placed, Caching!TypeOK
<1> HIDE DEF F, H
<1>2. pending' \in Seq(Caching!Waiting) /\ Apart(pending', F) /\ WaitingVals(pending') \subseteq WaitingVals(pending)
  <2>1. CASE pending' = pending
    BY <1>1, <2>1
  <2>2. CASE pending # <<>> /\ pending' = Tail(pending)
    BY <1>1, <2>2, CallGoes
  <2> QED
    BY <2>1, <2>2
<1>3. Placed(pending', preloadQueue, cache, zeroed, F, H, compressed)
  BY <1>1, <1>2, PlacedFewer
<1>4. Placed(pending', preloadQueue, cache', zeroed, F, H, compressed)
  BY <1>3, PlacedDropped
<1>5. Caching!TypeOK'
  BY <1>2, CacheConstant DEF CacheInv, Caching!TypeOK
<1>6. Timed(cache, untilCheck)' = Timed(cache', untilCheck')
  BY CacheConstant DEF Timed, Cached
<1> QED
  BY <1>4, <1>5, <1>6 DEF CacheInv, F, H

LEMMA CacheBuffer ==
  ASSUME CacheInv, NEW k \in CacheKeys, Caching!Buffer(k)
  PROVE  k \in Cached(cache) /\ cache[k] \in Caching!Entry /\ cache[k].value \in Buffers \cup Nat
<1>1. cache[k] \in Caching!Entry /\ cache[k].value # None /\ k \in Cached(cache)
  BY DEF Caching!Buffer, CacheInv, Caching!TypeOK, Cached
<1>2. cache[k].value \in Caching!Given \cup Nat
  BY <1>1 DEF Caching!Entry
<1> QED
  BY <1>1, <1>2 DEF Caching!Given

LEMMA PoolReturned ==
  ASSUME pool \in Seq(Buffers \cup Nat), Len(pool) <= PoolSize, NEW b \in Buffers \cup Nat, Caching!ReturnToPool(b)
  PROVE  pool' \in Seq(Buffers \cup Nat) /\ Len(pool') <= PoolSize
<1> DEFINE S == Buffers \cup Nat
<1>1. pool \in Seq(S) /\ b \in S /\ Len(pool) <= PoolSize /\ PoolSize \in Nat \ {0}
  BY CacheNumbers
<1>2. pool' = Caching!Room \/ pool' = Append(Caching!Room, b)
  BY DEF Caching!ReturnToPool
<1> HIDE DEF S
<1>3. Caching!Room \in Seq(S) /\ Len(Caching!Room) + 1 <= PoolSize
  <2>1. CASE Len(pool) >= PoolSize
    <3>1. pool # <<>> /\ Caching!Room = Tail(pool)
      BY <1>1, <2>1 DEF Caching!Room
    <3>2. Tail(pool) \in Seq(S) /\ Len(Tail(pool)) = Len(pool) - 1 /\ Len(pool) \in Nat
      BY <1>1, <3>1, HeadTailProperties
    <3> QED
      BY <1>1, <3>1, <3>2
  <2>2. CASE ~(Len(pool) >= PoolSize)
    <3>1. Caching!Room = pool /\ Len(pool) \in Nat
      BY <1>1, <2>2 DEF Caching!Room
    <3> QED
      BY <1>1, <2>2, <3>1
  <2> QED
    BY <2>1, <2>2
<1>4. Len(Caching!Room) \in Nat /\ Append(Caching!Room, b) \in Seq(S) /\ Len(Append(Caching!Room, b)) = Len(Caching!Room) + 1
  BY <1>1, <1>3
<1> QED
  BY <1>1, <1>2, <1>3, <1>4 DEF S

\* An entry's buffer goes to the pool, and at most the call at the head goes.
LEMMA CacheReturns ==
  ASSUME CacheInv, NEW k \in CacheKeys, Caching!Buffer(k), Caching!ReturnToPool(cache[k].value), cache' = [cache EXCEPT ![k] = None],
         pending' = pending \/ (pending # <<>> /\ pending' = Tail(pending)),
         UNCHANGED <<compressed, preloadQueue, again, Caching!timers, Caching!hands>>
  PROVE  CacheInv'
<1> DEFINE F == twice \cup {None}
           H == handed \cup {None}
<1>1. Placed(pending, preloadQueue, cache, zeroed, F, H, compressed) /\ Apart(pending, F) /\ pending \in Seq(Caching!Waiting)
  BY DEF CacheInv, Placed, Caching!TypeOK
<1>2. /\ k \in Cached(cache) /\ cache[k].value \in Buffers \cup Nat /\ zeroed' = zeroed \cup {cache[k].value}
      /\ UNCHANGED <<preloading, untilCheck, handed, twice, sets>>
  BY CacheBuffer DEF Caching!ReturnToPool, Caching!timers, Caching!hands
<1>3. /\ cache' \in [CacheKeys -> Caching!Entry \cup {None}]
      /\ \A l \in Cached(cache') : l \in Cached(cache) /\ l # k /\ cache'[l] = cache[l]
  <2>1. cache \in [CacheKeys -> Caching!Entry \cup {None}]
    BY DEF CacheInv, Caching!TypeOK
  <2> QED
    BY <2>1 DEF Cached
<1> HIDE DEF F, H
<1>4. pending' \in Seq(Caching!Waiting) /\ Apart(pending', F) /\ WaitingVals(pending') \subseteq WaitingVals(pending)
  <2>1. CASE pending' = pending
    BY <1>1, <2>1
  <2>2. CASE pending # <<>> /\ pending' = Tail(pending)
    BY <1>1, <2>2, CallGoes
  <2> QED
    BY <2>1, <2>2
<1>5. Placed(pending', preloadQueue, cache, zeroed, F, H, compressed)
  BY <1>1, <1>4, PlacedFewer
<1>6. Placed(pending', preloadQueue, cache', zeroed \cup {cache[k].value}, F, H, compressed)
  BY <1>2, <1>3, <1>5, PlacedReturned
<1>7. pool' \in Seq(Buffers \cup Nat) /\ Len(pool') <= PoolSize
  BY <1>2, PoolReturned DEF CacheInv, Caching!TypeOK
<1>8. Caching!TypeOK'
  <2>1. zeroed' \subseteq Buffers \cup Nat
    BY <1>2 DEF CacheInv, Caching!TypeOK
  <2> QED
    BY <1>2, <1>3, <1>4, <1>7, <2>1, CacheConstant DEF CacheInv, Caching!TypeOK
<1>9. Timed(cache', untilCheck')
  BY <1>2, <1>3 DEF CacheInv, Timed
<1>10. Timed(cache, untilCheck)' = Timed(cache', untilCheck')
  BY CacheConstant DEF Timed, Cached
<1> QED
  BY <1>2, <1>6, <1>7, <1>8, <1>9, <1>10 DEF CacheInv, F, H

LEMMA CacheGoesOn == ASSUME CacheInv, Caching!GoOn PROVE CacheInv'
<1> DEFINE h == Head(pending)
<1>1. /\ pending \in Seq(Caching!Waiting) /\ pending # <<>> /\ cache \in [CacheKeys -> Caching!Entry \cup {None}]
      /\ pool \in Seq(Buffers \cup Nat) /\ Len(pool) <= PoolSize /\ again \in Nat /\ preloading \in BOOLEAN
      /\ untilCheck \in 0..Caching!Interval /\ Timed(cache, untilCheck)
  BY DEF CacheInv, Caching!TypeOK, Caching!GoOn
<1>2. h \in Caching!Waiting
  <2>1. Apart(pending, twice \cup {None})
    BY DEF CacheInv, Placed
  <2> QED
    BY <1>1, <2>1, CallTaken
<1>3. \/ h.op = "set" /\ Caching!Set(h)
      \/ h.op = "delete" /\ Caching!Delete(h.key)
      \/ h.op = "clear" /\ ((\E k \in CacheKeys : Caching!ClearBuffer(k)) \/ Caching!ClearEnds)
  BY DEF Caching!GoOn
<1> HIDE DEF h
<1>4. CASE h.op = "set" /\ Caching!Set(h)
  BY <1>1, <1>4, CacheSet DEF h
<1>5. CASE h.op = "delete" /\ Caching!Delete(h.key)
  <2>1. h.key \in CacheKeys
    BY <1>2, <1>5 DEF Caching!Waiting, Caching!SetCall
  <2>2. /\ cache' = [cache EXCEPT ![h.key] = None] /\ pending' = Tail(pending)
        /\ UNCHANGED <<compressed, preloadQueue, again, Caching!timers, Caching!hands>>
        /\ IF Caching!Buffer(h.key) THEN Caching!ReturnToPool(cache[h.key].value) ELSE UNCHANGED <<pool, zeroed>>
    BY <1>5 DEF Caching!Delete
  <2>3. CASE Caching!Buffer(h.key)
    BY <1>1, <2>1, <2>2, <2>3, CacheReturns
  <2>4. CASE ~Caching!Buffer(h.key)
    <3>1. /\ UNCHANGED <<pool, zeroed, compressed, preloadQueue, again, preloading, untilCheck, handed, twice, sets>>
          /\ cache' \in [CacheKeys -> Caching!Entry \cup {None}]
      BY <1>1, <2>1, <2>2, <2>4 DEF Caching!timers, Caching!hands
    <3>2. \A l \in Cached(cache') : l \in Cached(cache) /\ cache'[l] = cache[l]
      BY <1>1, <2>2 DEF Cached
    <3>3. Timed(cache', untilCheck')
      BY <1>1, <3>1, <3>2 DEF Timed
    <3> QED
      BY <1>1, <2>2, <3>1, <3>2, <3>3, CacheMoves
  <2> QED
    BY <2>3, <2>4
<1>6. ASSUME NEW k \in CacheKeys, Caching!ClearBuffer(k) PROVE CacheInv'
  BY <1>6, CacheReturns DEF Caching!ClearBuffer
<1>7. CASE Caching!ClearEnds
  <2>1. /\ cache' = [k \in CacheKeys |-> None] /\ pending' = Tail(pending)
        /\ UNCHANGED <<pool, zeroed, compressed, preloadQueue, again, preloading, untilCheck, handed, twice, sets>>
    BY <1>7 DEF Caching!ClearEnds, Caching!timers, Caching!hands
  <2>2. cache' \in [CacheKeys -> Caching!Entry \cup {None}] /\ Cached(cache') = {}
    BY <2>1 DEF Cached
  <2>3. Timed(cache', untilCheck')
    BY <2>2 DEF Timed
  <2> QED
    BY <1>1, <2>1, <2>2, <2>3, CacheMoves
<1> QED
  BY <1>3, <1>4, <1>5, <1>6, <1>7

-----------------------------------------------------------------------------
LEMMA CachePreloads ==
  ASSUME CacheInv, NEW k \in CacheKeys, NEW v \in Caching!Given, Caching!Preload(k, v)
  PROVE  CacheInv'
<1> DEFINE F == twice' \cup {None}
           H == handed' \cup {None}
           I == handed \cup {None}
           W == WaitingVals(pending)
           Q == Vals(preloadQueue)
           C == CacheVals(cache)
           e == [key |-> k, value |-> v]
           l == Len(preloadQueue)
<1>1. /\ Caching!Hand(v) /\ preloadQueue' = Append(preloadQueue, e)
      /\ UNCHANGED <<pending, again, preloading, untilCheck, cache, pool, compressed, zeroed>>
  BY DEF Caching!Preload, Caching!timers, Caching!memory
<1>2. /\ handed' \subseteq Buffers /\ twice' \subseteq handed' /\ sets' \in 0..MaxSets
      /\ twice \subseteq twice' /\ handed \subseteq handed' /\ v \in H
      /\ v \in F \/ v \notin I \cup 1..compressed
  BY <1>1, CacheHanded
<1>3. Placed(pending, preloadQueue, cache, zeroed, twice \cup {None}, I, compressed)
  BY DEF CacheInv
<1>4. /\ W \cup Q \subseteq I /\ C \cup zeroed \subseteq I \cup 1..compressed
  BY <1>3 DEF Placed
<1>5. Placed(pending, preloadQueue, cache, zeroed, F, H, compressed)
  BY <1>2, <1>3, PlacedGrows
<1>6. e \in Caching!Value /\ e.value = v
  BY DEF Caching!Value
<1> HIDE DEF e
<1>7. /\ preloadQueue' \in Seq(Caching!Value) /\ l \in Nat /\ DOMAIN preloadQueue = 1..l /\ DOMAIN preloadQueue' = 1..l + 1
      /\ preloadQueue'[l + 1] = e /\ \A i \in 1..l : preloadQueue'[i] = preloadQueue[i]
  <2> DEFINE V == Caching!Value
  <2>1. preloadQueue \in Seq(V) /\ e \in V
    BY <1>6 DEF CacheInv, Caching!TypeOK
  <2> HIDE DEF V
  <2>2. /\ preloadQueue' \in Seq(V) /\ l \in Nat /\ DOMAIN preloadQueue = 1..l /\ DOMAIN preloadQueue' = 1..l + 1
        /\ preloadQueue'[l + 1] = e /\ \A i \in 1..l : preloadQueue'[i] = preloadQueue[i]
    BY <1>1, <2>1
  <2> QED
    BY <2>2 DEF V
<1> HIDE DEF l
<1>8. /\ \A i \in 1..l + 1 : i \in 1..l \/ i = l + 1
      /\ \A i \in 1..l : preloadQueue[i].value \in Q
  BY <1>7 DEF Vals
<1> HIDE DEF F, H, I, W, Q, C
<1>9. v \in F \/ v \notin W \cup Q \cup C \cup zeroed
  BY <1>2, <1>4
<1>10. Vals(preloadQueue') \subseteq Q \cup {v}
  <2>1. \A i \in 1..l + 1 : preloadQueue'[i].value \in Q \cup {v}
    BY <1>6, <1>7, <1>8
  <2> QED
    BY <1>7, <2>1 DEF Vals
<1>11. Once(preloadQueue', F)
  <2> SUFFICES ASSUME NEW i \in 1..l + 1, NEW j \in 1..l + 1, preloadQueue'[i].value = preloadQueue'[j].value,
                      preloadQueue'[i].value \notin F
               PROVE  i = j
    BY <1>7 DEF Once
  <2>1. CASE i \in 1..l /\ j \in 1..l
    BY <1>5, <1>7, <2>1 DEF Placed, Once
  <2>2. CASE i = l + 1 \/ j = l + 1
    BY <1>6, <1>7, <1>8, <1>9, <2>2
  <2> QED
    BY <1>8, <2>1, <2>2
<1>12. Placed(pending, preloadQueue', cache, zeroed, F, H, compressed)
  <2> DEFINE P == Vals(preloadQueue')
  <2>1. /\ Apart(pending, F) /\ Sole(cache, F) /\ W \cap Q \subseteq F
        /\ (W \cup Q) \cap (C \cup zeroed) \subseteq F /\ C \cap zeroed \subseteq F
        /\ W \cup Q \subseteq H /\ C \cup zeroed \subseteq H \cup 1..compressed
    BY <1>5 DEF Placed, W, Q, C
  <2>2. P \subseteq Q \cup {v}
    BY <1>10
  <2> HIDE DEF P
  <2>3. W \cap P \subseteq F /\ (W \cup P) \cap (C \cup zeroed) \subseteq F /\ W \cup P \subseteq H
    BY <1>2, <1>9, <2>1, <2>2
  <2> QED
    BY <1>11, <2>1, <2>3 DEF Placed, W, C, P
<1>13. Caching!TypeOK'
  BY <1>1, <1>2, <1>7, CacheConstant DEF CacheInv, Caching!TypeOK
<1>14. Timed(cache, untilCheck)' /\ Len(pool') <= PoolSize
  BY <1>1, CacheConstant DEF CacheInv, Timed, Cached
<1> QED
  BY <1>1, <1>12, <1>13, <1>14 DEF CacheInv, F, H

LEMMA CacheProcesses == ASSUME CacheInv, Caching!ProcessPreloadQueue PROVE CacheInv'
<1> DEFINE F == twice \cup {None}
           H == handed \cup {None}
           q == preloadQueue
           n == IF Len(q) < PreloadBatch THEN Len(q) ELSE PreloadBatch
           r == SubSeq(q, n + 1, Len(q))
           b == SubSeq(q, 1, n)
           W == WaitingVals(pending)
           Q == Vals(q)
           C == CacheVals(cache)
<1>1. /\ pending \in Seq(Caching!Waiting) /\ cache \in [CacheKeys -> Caching!Entry \cup {None}] /\ q \in Seq(Caching!Value)
      /\ pool \in Seq(Buffers \cup Nat) /\ Len(pool) <= PoolSize /\ again \in Nat /\ preloading \in BOOLEAN
      /\ untilCheck \in 0..Caching!Interval /\ Timed(cache, untilCheck)
      /\ Placed(pending, q, cache, zeroed, F, H, compressed)
  BY DEF CacheInv, Caching!TypeOK
<1>2. /\ q # <<>> /\ q' = r
      /\ IF n = 0 THEN pending' = pending ELSE pending' = Append(pending, Caching!NewSet(b, 0, TRUE))
      /\ UNCHANGED <<cache, pool, compressed, zeroed, preloading, untilCheck, handed, twice, sets>>
  BY DEF Caching!ProcessPreloadQueue, Caching!Call, Caching!timers, Caching!hands, Caching!memory
<1>3. again' \in Nat
  <2>1. \E m \in {0, 1} : again' = again + m \/ (again > 0 /\ again' = again - 1 + m)
    BY DEF Caching!ProcessPreloadQueue
  <2> QED
    BY <1>1, <2>1
<1>4. n \in Nat /\ n <= Len(q) /\ Len(q) \in Nat
  BY <1>1, CacheNumbers
<1>5. CASE n = 0
  <2>1. r = q
    <3>1. r = SubSeq(q, 1, Len(q))
      BY <1>5
    <3> QED
      BY <1>1, <3>1, SubSeqFull
  <2>2. \A k \in Cached(cache') : k \in Cached(cache) /\ cache'[k].value = cache[k].value
    BY <1>2 DEF Cached
  <2>3. pending' = pending /\ preloadQueue' = preloadQueue
    BY <1>2, <1>5, <2>1
  <2> QED
    BY <1>1, <1>2, <1>3, <2>2, <2>3, CacheMoves
<1>6. CASE n # 0
  <2> DEFINE c == Caching!NewSet(b, 0, TRUE)
  <2>1. n \in 1..Len(q) /\ Once(q, F)
    BY <1>1, <1>4, <1>6 DEF Placed
  <2> HIDE DEF n, F
  <2>2. /\ b \in Seq(Caching!Value) /\ b # <<>> /\ Once(b, F) /\ r \in Seq(Caching!Value) /\ Once(r, F)
        /\ Vals(b) \subseteq Vals(q) /\ Vals(r) \subseteq Vals(q) /\ Vals(b) \cap Vals(r) \subseteq F
    BY <1>1, <2>1, BatchVals
  <2> HIDE DEF b, r
  <2>3. c \in Caching!Waiting /\ CallVals(c) = Vals(b) /\ CallOnce(c, F)
    BY <2>2, NewSetVals
  <2> HIDE DEF c
  <2>4. /\ Apart(pending, F) /\ Sole(cache, F) /\ W \cap Q \subseteq F
        /\ (W \cup Q) \cap (C \cup zeroed) \subseteq F /\ C \cap zeroed \subseteq F
        /\ W \cup Q \subseteq H /\ C \cup zeroed \subseteq H \cup 1..compressed
    BY <1>1 DEF Placed
  <2>5. CallVals(c) \cap WaitingVals(pending) \subseteq F
    BY <2>2, <2>3, <2>4
  <2>6. /\ Append(pending, c) \in Seq(Caching!Waiting) /\ Apart(Append(pending, c), F)
        /\ WaitingVals(Append(pending, c)) = W \cup Vals(b)
    BY <1>1, <2>3, <2>4, <2>5, CallAdded
  <2>7. pending' = Append(pending, c) /\ q' = r
    BY <1>2, <1>6 DEF c
  <2>8. Placed(pending', q', cache, zeroed, F, H, compressed)
    <3> DEFINE B == Vals(b)
               R == Vals(r)
    <3>1. B \subseteq Q /\ R \subseteq Q /\ B \cap R \subseteq F
      BY <2>2
    <3> HIDE DEF B, R, W, Q, C, H
    <3>2. /\ (W \cup B) \cap R \subseteq F /\ ((W \cup B) \cup R) \cap (C \cup zeroed) \subseteq F
          /\ (W \cup B) \cup R \subseteq H
      BY <2>4, <3>1
    <3>3. Placed(Append(pending, c), r, cache, zeroed, F, H, compressed)
      BY <2>2, <2>4, <2>6, <3>2 DEF Placed, B, R, C
    <3> QED
      BY <2>7, <3>3
  <2>9. Caching!TypeOK'
    BY <1>2, <1>3, <2>2, <2>6, <2>7, CacheConstant DEF CacheInv, Caching!TypeOK
  <2>10. Timed(cache, untilCheck)' /\ Len(pool') <= PoolSize
    BY <1>1, <1>2, CacheConstant DEF Timed, Cached
  <2> QED
    BY <1>2, <2>8, <2>9, <2>10 DEF CacheInv, F
<1> QED
  BY <1>5, <1>6

LEMMA CacheTimers ==
  ASSUME CacheInv, Caching!CheckInvalidation \/ Caching!ClearAllPools \/ Caching!Tick \/ UNCHANGED cacheState
  PROVE  CacheInv'
<1>1. /\ cache \in [CacheKeys -> Caching!Entry \cup {None}] /\ pool \in Seq(Buffers \cup Nat) /\ Len(pool) <= PoolSize
      /\ again \in Nat /\ preloading \in BOOLEAN /\ untilCheck \in 0..Caching!Interval /\ Timed(cache, untilCheck)
  BY DEF CacheInv, Caching!TypeOK
<1>2. \A k \in Cached(cache) : k \in CacheKeys /\ cache[k] \in Caching!Entry /\ cache[k].age \in Nat
  BY <1>1 DEF Cached, Caching!Entry
<1>3. CASE Caching!CheckInvalidation
  <2>1. /\ cache' = [k \in CacheKeys |-> IF cache[k] # None /\ Caching!Invalidate(cache[k]) THEN None ELSE cache[k]]
        /\ untilCheck' = Caching!Interval
        /\ UNCHANGED <<pool, compressed, zeroed, pending, preloadQueue, preloading, again, handed, twice, sets>>
    BY <1>3 DEF Caching!CheckInvalidation, Caching!hands
  <2>2. cache' \in [CacheKeys -> Caching!Entry \cup {None}]
    BY <1>1, <2>1
  <2>3. \A k \in Cached(cache') : k \in Cached(cache) /\ cache'[k] = cache[k] /\ ~(cache[k].age > MaxAge)
    BY <2>1 DEF Cached, Caching!Invalidate
  <2>4. Timed(cache', untilCheck') /\ untilCheck' \in 0..Caching!Interval
    BY <1>2, <2>1, <2>3, CacheNumbers DEF Timed
  <2> QED
    BY <1>1, <2>1, <2>2, <2>3, <2>4, CacheMoves
<1>4. CASE Caching!ClearAllPools
  <2>1. /\ pool' = <<>>
        /\ UNCHANGED <<cache, compressed, zeroed, pending, preloadQueue, preloading, again, untilCheck, handed, twice, sets>>
    BY <1>4 DEF Caching!ClearAllPools, Caching!timers, Caching!hands
  <2>2. pool' \in Seq(Buffers \cup Nat) /\ Len(pool') <= PoolSize
    BY <2>1, CacheNumbers
  <2>3. Timed(cache', untilCheck') /\ \A k \in Cached(cache') : k \in Cached(cache) /\ cache'[k].value = cache[k].value
    BY <1>1, <2>1
  <2> QED
    BY <1>1, <2>1, <2>2, <2>3, CacheMoves
<1>5. CASE Caching!Tick
  <2>1. /\ untilCheck > 0 /\ untilCheck' = untilCheck - 1
        /\ cache' = [k \in CacheKeys |-> IF cache[k] = None THEN None ELSE [cache[k] EXCEPT !.age = @ + 1]]
        /\ UNCHANGED <<pool, compressed, zeroed, pending, preloadQueue, preloading, again, handed, twice, sets>>
    BY <1>5 DEF Caching!Tick, Caching!hands
  <2>2. \A k \in Cached(cache) : /\ [cache[k] EXCEPT !.age = @ + 1] \in Caching!Entry
                                 /\ [cache[k] EXCEPT !.age = @ + 1].age = cache[k].age + 1
                                 /\ [cache[k] EXCEPT !.age = @ + 1].value = cache[k].value
    BY <1>2 DEF Caching!Entry
  <2>3. \A k \in CacheKeys : cache[k] # None => k \in Cached(cache)
    BY DEF Cached
  <2>4. cache' \in [CacheKeys -> Caching!Entry \cup {None}]
    BY <2>1, <2>2, <2>3
  <2>5. \A k \in Cached(cache') : k \in Cached(cache) /\ cache'[k].age = cache[k].age + 1 /\ cache'[k].value = cache[k].value
    BY <2>1, <2>2 DEF Cached
  <2>6. untilCheck' \in 0..Caching!Interval
    BY <1>1, <2>1, CacheNumbers
  <2>7. Timed(cache', untilCheck')
    <3> SUFFICES ASSUME NEW k \in Cached(cache') PROVE cache'[k].age + untilCheck' <= MaxAge + Caching!Interval
      BY DEF Timed
    <3>1. cache'[k].age = cache[k].age + 1 /\ cache[k].age \in Nat /\ cache[k].age + untilCheck <= MaxAge + Caching!Interval
      BY <1>1, <1>2, <2>5 DEF Timed
    <3>2. untilCheck \in Nat /\ Caching!Interval \in Nat /\ MaxAge \in Nat
      BY <1>1, CacheNumbers
    <3> QED
      BY <2>1, <3>1, <3>2
  <2> QED
    BY <1>1, <2>1, <2>4, <2>5, <2>6, <2>7, CacheMoves
<1>6. CASE UNCHANGED cacheState
  <2>1. UNCHANGED <<cache, pool, compressed, zeroed, pending, preloadQueue, preloading, again, untilCheck, handed, twice, sets>>
    BY <1>6 DEF cacheState, Caching!timers, Caching!hands, Caching!memory
  <2>2. Timed(cache', untilCheck') /\ \A k \in Cached(cache') : k \in Cached(cache) /\ cache'[k].value = cache[k].value
    BY <1>1, <2>1
  <2> QED
    BY <1>1, <2>1, <2>2, CacheMoves
<1> QED
  BY <1>3, <1>4, <1>5, <1>6

LEMMA CacheNext == ASSUME CacheInv, [Caching!Next]_cacheState PROVE CacheInv'
<1>1. CASE UNCHANGED cacheState \/ Caching!CheckInvalidation \/ Caching!ClearAllPools \/ Caching!Tick
  BY <1>1, CacheTimers
<1>2. CASE Caching!ProcessPreloadQueue \/ Caching!GoOn
  BY <1>2, CacheProcesses, CacheGoesOn
<1>3. CASE Caching!BeginClear \/ Caching!BeginDestroy
  BY <1>3, CacheBegins
<1>4. ASSUME NEW k \in CacheKeys, \/ \E v \in Caching!Given : Caching!Preload(k, v) \/ \E ttl \in Ttls : Caching!BeginSet(k, v, ttl)
                                  \/ Caching!BeginDelete(k) \/ Caching!GetExpired(k)
      PROVE  CacheInv'
  BY <1>4, CachePreloads, CacheBegins
<1> QED
  BY <1>1, <1>2, <1>3, <1>4 DEF Caching!Next

LEMMA CacheSound == CacheInv => Caching!TypeOK /\ Caching!CachingSound
<1> SUFFICES ASSUME CacheInv PROVE Caching!TypeOK /\ Caching!CachingSound
  OBVIOUS
<1>1. /\ Caching!TypeOK /\ Len(pool) <= PoolSize /\ Timed(cache, untilCheck)
      /\ Placed(pending, preloadQueue, cache, zeroed, twice \cup {None}, handed \cup {None}, compressed)
  BY DEF CacheInv
<1>2. Caching!EntriesInvalidatedInTime
  <2> SUFFICES ASSUME NEW k \in CacheKeys, cache[k] # None PROVE cache[k].age <= MaxAge + Caching!Interval
    BY DEF Caching!EntriesInvalidatedInTime
  <2>1. k \in Cached(cache) /\ cache[k] \in Caching!Entry /\ untilCheck \in 0..Caching!Interval
    BY <1>1 DEF Cached, Caching!TypeOK
  <2>2. cache[k].age \in Nat /\ cache[k].age + untilCheck <= MaxAge + Caching!Interval
    BY <1>1, <2>1 DEF Timed, Caching!Entry
  <2>3. untilCheck \in Nat /\ Caching!Interval \in Nat /\ MaxAge \in Nat
    BY <2>1, CacheNumbers
  <2> QED
    BY <2>2, <2>3
<1>3. Caching!PoolSound
  <2> SUFFICES ASSUME NEW k \in CacheKeys, Caching!Buffer(k), cache[k].value \in zeroed PROVE cache[k].value \in twice
    BY <1>1 DEF Caching!PoolSound
  <2>1. cache[k].value \in CacheVals(cache) /\ cache[k].value # None
    BY DEF Caching!Buffer, Cached, CacheVals
  <2> QED
    BY <1>1, <2>1 DEF Placed
<1> QED
  BY <1>1, <1>2, <1>3 DEF Caching!CachingSound

LEMMA CachingStep == [ComponentsNext]_componentVars => [Caching!Next]_cacheState
BY PartStep DEF Only

\* However calls overlap, Buffers are handed over again, batches are preloaded, the pools are
\* cleared and a destroy fails halfway: no entry outlives maxAge by more than one period of the
\* invalidation, the pool keeps its size, and what an entry refers to is zeroed only if its
\* callers handed it over more than once (set, delete, clear, returnToPool, checkInvalidation).
THEOREM CachingSoundAlways == ComponentsSpec => []CachingSound
<1>1. ComponentsInit => CacheInv
  BY CacheInit DEF ComponentsInit
<1>2. CacheInv /\ [ComponentsNext]_componentVars => CacheInv'
  BY CachingStep, CacheNext
<1>3. CacheInv => CachingSound
  BY CacheSound DEF CachingSound
<1> QED
  BY <1>1, <1>2, <1>3, PTL DEF ComponentsSpec
=============================================================================
