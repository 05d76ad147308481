------------------------- MODULE ServerConnectionPool -------------------------
(***************************************************************************)
(* src/mcp/server/ConnectionPool.js: a pool of connections acquired and    *)
(* released by callers, with load balancing and periodic validation.       *)
(*                                                                         *)
(* createConnection does its work at once, but its callers await it: a     *)
(* connection it creates is in availableConnections while the caller that  *)
(* asked for it is suspended.  The priority of a connection only orders    *)
(* the search for an available one, and is left out.                       *)
(***************************************************************************)
EXTENDS Naturals, FiniteSets

CONSTANTS
  Conns,        \* connection ids; an id is used again when no one knows it any more
  Callers,      \* callers of acquireConnection; each holds at most one connection
  None,
  MinSize,      \* options.minSize
  MaxSize,      \* options.maxSize
  LoadPercent   \* 100 * options.loadBalanceThreshold

ASSUME PoolAssumption ==
  /\ None \notin Conns
  /\ IsFiniteSet(Conns)
  /\ MinSize \in Nat
  /\ MaxSize \in Nat \ {0}
  /\ LoadPercent \in Nat

VARIABLES
  pool,       \* the keys of this.pool
  available,  \* availableConnections
  inUse,      \* inUseConnections
  stale,      \* connections whose age exceeds idleTimeout
  phase,      \* where each caller is: see Phases
  conn,       \* the connection a caller creates or holds
  target,     \* the target size of a caller's load balancing
  filler,     \* what initialize or validateConnections is doing
  missing,    \* connections initialize still creates
  timer,      \* the validation interval is running
  shared      \* history: connections taken while their creator awaited them

vars == <<pool, available, inUse, stale, phase, conn, target, filler, missing, timer,
          shared>>
poolVars == <<pool, available, inUse, stale, shared>>
callerVars == <<phase, conn, target>>
fillVars == <<filler, missing, timer>>

Phases == {"idle", "balancing", "balanced", "creating", "holding"}

\* Suspended in the middle of acquireConnection.
Acquiring == {a \in Callers : phase[a] \in {"balancing", "balanced", "creating"}}

\* Only awaits of settled promises suspend the pool: they all end before the
\* next timer or the passing of time.
Quiescent == Acquiring = {} /\ filler = "idle"

-----------------------------------------------------------------------------
(* Operators named after a defect (RefillBelow, ...) are                    *)
(* wrong variants of the definition that follows them: Next does not use    *)
(* them; they serve to check that the properties notice the defect.         *)

Init ==
  /\ pool = {}
  /\ available = {}
  /\ inUse = {}
  /\ stale = {}
  /\ phase = [a \in Callers |-> "idle"]
  /\ conn = [a \in Callers |-> None]
  /\ target = [a \in Callers |-> 0]
  /\ filler = "idle"
  /\ missing = 0
  /\ timer = FALSE
  /\ shared = {}

Room == Cardinality(pool) < MaxSize

\* createConnection, when there is room: connection x is new.
CreateConnection(x) ==
  /\ x \in Conns \ (pool \cup {conn[a] : a \in Callers})
  /\ pool' = pool \cup {x}
  /\ available' = available \cup {x}
  /\ shared' = shared \ {x}
  /\ UNCHANGED <<inUse, stale>>

\* shouldLoadBalance (0 / 0 is NaN, which exceeds nothing).
ShouldLoadBalance == 100 * Cardinality(inUse) > LoadPercent * Cardinality(pool)

\* performLoadBalancing aims at 20% more, rounded up.
TargetSize ==
  LET more == (12 * Cardinality(pool) + 9) \div 10
  IN IF more < MaxSize THEN more ELSE MaxSize

\* The connections whose creators still await them.
Awaited == {conn[a] : a \in {b \in Callers : phase[b] = "creating"}}

\* getAvailableConnection
ValidAvailable == available \ stale

\* acquireConnection, once the load is balanced: take an available connection,
\* or create one and await it, or fail.
TakeConnection(a) ==
  \/ \E x \in ValidAvailable :
       /\ available' = available \ {x}
       /\ inUse' = inUse \cup {x}
       /\ phase' = [phase EXCEPT ![a] = "holding"]
       /\ conn' = [conn EXCEPT ![a] = x]
       /\ shared' = IF x \in Awaited THEN shared \cup {x} ELSE shared
       /\ UNCHANGED <<pool, stale>>
  \/ /\ ValidAvailable = {}
     /\ Room
     /\ \E x \in Conns :
          /\ CreateConnection(x)
          /\ conn' = [conn EXCEPT ![a] = x]
     /\ phase' = [phase EXCEPT ![a] = "creating"]
  \/ /\ ValidAvailable = {}
     /\ ~ Room
     /\ phase' = [phase EXCEPT ![a] = "idle"]
     /\ UNCHANGED <<poolVars, conn>>

\* acquireConnection up to its first await.
Acquire(a) ==
  /\ phase[a] = "idle"
  /\ \/ /\ ShouldLoadBalance
        /\ phase' = [phase EXCEPT ![a] = "balancing"]
        /\ target' = [target EXCEPT ![a] = TargetSize]
        /\ \/ Cardinality(pool) < TargetSize /\ \E x \in Conns : CreateConnection(x)
           \/ Cardinality(pool) >= TargetSize /\ UNCHANGED poolVars
        /\ UNCHANGED conn
     \/ /\ ~ ShouldLoadBalance
        /\ TakeConnection(a)
        /\ UNCHANGED target
  /\ UNCHANGED fillVars

\* performLoadBalancing resumes: one more connection, or the loop ends.
Balance(a) ==
  /\ phase[a] = "balancing"
  /\ \/ /\ Cardinality(pool) < target[a]
        /\ \E x \in Conns : CreateConnection(x)
        /\ UNCHANGED phase
     \/ /\ Cardinality(pool) >= target[a]
        /\ phase' = [phase EXCEPT ![a] = "balanced"]
        /\ UNCHANGED poolVars
  /\ UNCHANGED <<conn, target, fillVars>>

\* acquireConnection resumes after load balancing.
AcquireBalanced(a) ==
  /\ phase[a] = "balanced"
  /\ TakeConnection(a)
  /\ target' = [target EXCEPT ![a] = 0]
  /\ UNCHANGED fillVars

\* acquireConnection resumes with the connection it created, and does not look
\* whether someone took it meanwhile.
FinishCreateAvailable(a) ==
  /\ phase[a] = "creating"
  /\ inUse' = inUse \cup {conn[a]}
  /\ phase' = [phase EXCEPT ![a] = "holding"]
  /\ UNCHANGED <<pool, available, stale, conn, target, fillVars, shared>>
FinishCreate(a) ==
  /\ phase[a] = "creating"
  /\ available' = available \ {conn[a]}
  /\ inUse' = inUse \cup {conn[a]}
  /\ phase' = [phase EXCEPT ![a] = "holding"]
  /\ UNCHANGED <<pool, stale, conn, target, fillVars, shared>>

\* releaseConnection; it fails when the connection was removed.
Release(a) ==
  /\ phase[a] = "holding"
  /\ \/ /\ conn[a] \in pool
        /\ inUse' = inUse \ {conn[a]}
        /\ available' = available \cup {conn[a]}
     \/ /\ conn[a] \notin pool
        /\ UNCHANGED <<inUse, available>>
  /\ phase' = [phase EXCEPT ![a] = "idle"]
  /\ conn' = [conn EXCEPT ![a] = None]
  /\ shared' = IF \E b \in Callers \ {a} : conn[b] = conn[a] THEN shared ELSE shared \ {conn[a]}
  /\ UNCHANGED <<pool, stale, target, fillVars>>

\* A connection becomes older than idleTimeout.
Age(x) ==
  /\ Quiescent
  /\ x \in pool \ stale
  /\ stale' = stale \cup {x}
  /\ UNCHANGED <<pool, available, inUse, callerVars, fillVars, shared>>

\* initialize, called once: minSize connections one by one, then the interval.
Initialize ==
  /\ filler = "idle"
  /\ ~ timer
  /\ filler' = "initializing"
  /\ missing' = MinSize
  /\ UNCHANGED <<poolVars, callerVars, timer>>

InitializeOne ==
  /\ filler = "initializing"
  /\ missing > 0
  /\ \/ /\ Room
        /\ \E x \in Conns : CreateConnection(x)
        /\ missing' = missing - 1
        /\ UNCHANGED filler
     \/ /\ ~ Room
        /\ filler' = "idle"
        /\ missing' = 0
        /\ UNCHANGED poolVars
  /\ UNCHANGED <<callerVars, timer>>

StartValidationTimer ==
  /\ filler = "initializing"
  /\ missing = 0
  /\ filler' = "idle"
  /\ timer' = TRUE
  /\ UNCHANGED <<poolVars, callerVars, missing>>

\* validateConnections, called by the interval: remove what is too old, in use
\* or not ...
Remove(S) ==
  /\ pool' = pool \ S
  /\ available' = available \ S
  /\ inUse' = inUse \ S
  /\ stale' = stale \ S
RemoveInvalid(S) == Remove(S)

Validate ==
  /\ timer
  /\ Quiescent
  /\ RemoveInvalid(stale)
  /\ filler' = "validating"
  /\ UNCHANGED <<callerVars, missing, timer, shared>>

\* ... and refill the pool to minSize, one await at a time.
RefillBelow == Cardinality(pool) + 1 < MinSize
BelowMin == Cardinality(pool) < MinSize
Refill ==
  /\ filler = "validating"
  /\ \/ /\ BelowMin
        /\ Room
        /\ \E x \in Conns : CreateConnection(x)
        /\ UNCHANGED filler
     \/ /\ ~ BelowMin \/ ~ Room
        /\ filler' = "idle"
        /\ UNCHANGED poolVars
  /\ UNCHANGED <<callerVars, missing, timer>>

\* What a caller does, apart from starting an acquisition.
Resume(a) == Balance(a) \/ AcquireBalanced(a) \/ FinishCreate(a)

Next ==
  \/ \E a \in Callers : Acquire(a) \/ Resume(a) \/ Release(a)
  \/ \E x \in Conns : Age(x)
  \/ Initialize \/ InitializeOne \/ StartValidationTimer
  \/ Validate \/ Refill

Spec == Init /\ [][Next]_vars

\* Promises settle; the interval fires again and again, however busy the pool.
Fairness ==
  /\ \A a \in Callers : WF_vars(Resume(a))
  /\ WF_vars(InitializeOne) /\ WF_vars(StartValidationTimer) /\ WF_vars(Refill)
  /\ SF_vars(Validate)

FairSpec == Spec /\ Fairness

-----------------------------------------------------------------------------
\* The variables have their types; a caller knows a connection exactly when it
\* creates or holds one.
TypeOK ==
  /\ pool \in SUBSET Conns
  /\ available \in SUBSET Conns
  /\ inUse \in SUBSET Conns
  /\ stale \in SUBSET pool
  /\ phase \in [Callers -> Phases]
  /\ conn \in [Callers -> Conns \cup {None}]
  /\ target \in [Callers -> 0..MaxSize]
  /\ filler \in {"idle", "initializing", "validating"}
  /\ missing \in 0..MinSize
  /\ timer \in BOOLEAN
  /\ shared \in SUBSET Conns
  /\ \A a \in Callers : conn[a] # None <=> phase[a] \in {"creating", "holding"}

\* The pool never exceeds maxSize, whichever of acquisition, load balancing,
\* initialisation and validation creates connections, and however they
\* interleave.
PoolBounded == Cardinality(pool) <= MaxSize

\* Every connection of the pool is available or in use, never both, and nothing
\* else is: the three collections agree after every interleaving of creation,
\* acquisition, release and validation.
PoolPartition == available \cap inUse = {} /\ available \cup inUse = pool

\* No two callers hold the same connection: an acquisition hands out an
\* available connection or a new one.
ExclusiveHolders ==
  \A a, b \in Callers :
    phase[a] = "holding" /\ phase[b] = "holding" /\ conn[a] = conn[b] => a = b

\* A connection that is held, and that validation has not removed, is in use and
\* has one holder - unless it was taken while its creator awaited it: that one
\* window is the only way to a second holder or to a free connection someone holds.
HolderAccounted ==
  \A a \in Callers : phase[a] = "holding" /\ conn[a] \in pool \ shared =>
    /\ conn[a] \in inUse
    /\ \A b \in Callers : phase[b] = "holding" /\ conn[b] = conn[a] => b = a

\* The books of the pool: its bound, its three collections and its holders agree
\* whatever acquireConnection, releaseConnection, validateConnections and the
\* creations they await do in between.
PoolAccounted == TypeOK /\ PoolBounded /\ PoolPartition /\ HolderAccounted

\* The interval brings the pool back to minSize when old connections were
\* removed (or initialize was overtaken).
MinRestored == timer /\ Cardinality(pool) < MinSize ~> Cardinality(pool) >= MinSize

\* Old connections do not stay in the pool.
StaleRemoved == \A x \in Conns : timer /\ x \in stale ~> x \notin stale

\* The validation interval heals the pool: it removes what is too old, whoever
\* holds it, and creates what is missing, however the two await each other
\* (validateConnections).
PoolHeals == MinRestored /\ StaleRemoved
=============================================================================
