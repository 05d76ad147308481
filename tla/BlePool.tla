-------------------------------- MODULE BlePool --------------------------------
(***************************************************************************)
(* src/ble/ConnectionPool.js: connections are acquired and released by     *)
(* callers, cleaned up by a timer and by releases, and the limits change.  *)
(* A connection is created at once and awaited: meanwhile it is in         *)
(* _connections only.                                                      *)
(***************************************************************************)
EXTENDS Naturals, FiniteSets

CONSTANTS
  Conns,      \* connection ids; an id is used again when no one knows it any more
  Acquirers,  \* callers of acquireConnection; each holds at most one connection
  Cleaners,   \* runs of _cleanupIdleConnections and _initializeMinConnections
  None,
  Limits      \* bound: the pairs <<minConnections, maxConnections>> configured

ASSUME BlePoolAssumption ==
  /\ IsFiniteSet(Conns)
  /\ None \notin Conns
  /\ \A l \in Limits : l[1] \in Nat /\ l[2] \in Nat \ {0}

VARIABLES
  limits,      \* _config.minConnections and maxConnections
  connections, \* the keys of _connections
  available,   \* _availableConnections
  inUse,       \* _inUseConnections
  idle,        \* available connections whose idle time exceeds maxIdleTime
  awaited,     \* the connection whose creation an acquirer awaits, or None
  held,        \* the connection an acquirer holds, or None
  creating,    \* the connections whose creation a cleaner awaits
  trims,       \* cleaners that remove the excess once they resume
  stopped,     \* stop has been called
  ceiling      \* history: the size no operation may exceed since the last change of limits

bleConnVars == <<connections, available, inUse, idle>>
acquirerVars == <<awaited, held>>
cleanerVars == <<creating, trims>>
blePoolVars == <<limits, bleConnVars, acquirerVars, cleanerVars, stopped, ceiling>>

MinConns == limits[1]
MaxConns == limits[2]
Awaited == {awaited[a] : a \in Acquirers} \ {None}
Pending == Awaited \cup UNION {creating[n] : n \in Cleaners}
Known == connections \cup available \cup inUse \cup Pending \cup {held[a] : a \in Acquirers}
Greater(a, b) == IF a > b THEN a ELSE b

-----------------------------------------------------------------------------
(* Operators named after a defect are wrong variants of the definition that *)
(* follows them: Next does not use them; they serve to check that the       *)
(* properties notice the defect.                                            *)

\* What the constructor makes of a configuration: zero stands for the default, and
\* nothing keeps minConnections from exceeding maxConnections.
Constructed == {l \in Limits : l[1] > 0}

\* The constructor: minConnections are created at once and awaited.
Init ==
  /\ limits \in Constructed
  /\ \E n \in Cleaners, new \in SUBSET Conns :
       /\ Cardinality(new) = MinConns
       /\ connections = new
       /\ creating = [m \in Cleaners |-> IF m = n THEN new ELSE {}]
  /\ available = {}
  /\ inUse = {}
  /\ idle = {}
  /\ awaited = [a \in Acquirers |-> None]
  /\ held = [a \in Acquirers |-> None]
  /\ trims = {}
  /\ stopped = FALSE
  /\ ceiling = Greater(MaxConns, MinConns)

\* acquireConnection finds an available connection.
AcquireAvailable(a, x) ==
  /\ awaited[a] = None
  /\ held[a] = None
  /\ x \in available
  /\ available' = available \ {x}
  /\ idle' = idle \ {x}
  /\ inUse' = inUse \cup {x}
  /\ held' = [held EXCEPT ![a] = x]
  /\ UNCHANGED <<limits, connections, awaited, cleanerVars, stopped, ceiling>>

\* The connections that are awaited are not counted.
RoomBesidesAwaited == Cardinality(connections \ Pending) < MaxConns
Room == Cardinality(connections) < MaxConns

\* acquireConnection creates one and awaits it; at the limit it throws.
AcquireNew(a, x) ==
  /\ awaited[a] = None
  /\ held[a] = None
  /\ available = {}
  /\ Room
  /\ x \in Conns \ Known
  /\ connections' = connections \cup {x}
  /\ awaited' = [awaited EXCEPT ![a] = x]
  /\ UNCHANGED <<limits, available, inUse, idle, held, cleanerVars, stopped, ceiling>>

Acquired(a) ==
  /\ awaited[a] # None
  /\ inUse' = inUse \cup {awaited[a]}
  /\ held' = [held EXCEPT ![a] = awaited[a]]
  /\ awaited' = [awaited EXCEPT ![a] = None]
  /\ UNCHANGED <<limits, connections, available, idle, cleanerVars, stopped, ceiling>>

\* The last loop of _cleanupIdleConnections: available connections are removed
\* while there are more than minConnections.
Trim(cs, av, id) ==
  \E gone \in SUBSET av :
    /\ \/ Cardinality(cs \ gone) = MinConns
       \/ Cardinality(cs \ gone) > MinConns /\ gone = av
       \/ Cardinality(cs) <= MinConns /\ gone = {}
    /\ connections' = cs \ gone
    /\ available' = av \ gone
    /\ idle' = id \ gone

\* _cleanupIdleConnections, up to its await: the idle connections go; if fewer
\* than minConnections are left, new ones are created and awaited, and else the
\* excess goes as well.
CleanUp(n, av, id) ==
  /\ creating[n] = {}
  /\ n \notin trims
  /\ LET cs == connections \ id
         need == IF Cardinality(cs) < MinConns THEN MinConns - Cardinality(cs) ELSE 0
     IN IF need = 0
        THEN Trim(cs, av \ id, {}) /\ UNCHANGED cleanerVars
        ELSE \E new \in SUBSET (Conns \ Known) :
               /\ Cardinality(new) = need
               /\ connections' = cs \cup new
               /\ available' = av \ id
               /\ idle' = {}
               /\ creating' = [creating EXCEPT ![n] = new]
               /\ trims' = trims \cup {n}

\* releaseConnection: a connection of the pool and in use becomes available, and
\* above the minimum the idle ones are cleaned up.
Release(a) ==
  /\ held[a] # None
  /\ held[a] \in connections \cap inUse
  /\ held' = [held EXCEPT ![a] = None]
  /\ inUse' = inUse \ {held[a]}
  /\ IF Cardinality(connections) > MinConns
     THEN \E n \in Cleaners : CleanUp(n, available \cup {held[a]}, idle)
     ELSE /\ available' = available \cup {held[a]}
          /\ UNCHANGED <<connections, idle, cleanerVars>>
  /\ UNCHANGED <<limits, awaited, stopped, ceiling>>

\* The cleaner's interval fires.
CleanerFires(n) ==
  /\ ~ stopped
  /\ CleanUp(n, available, idle)
  /\ UNCHANGED <<limits, inUse, acquirerVars, stopped, ceiling>>

\* The connections a cleaner awaited are available; a cleanup removes the excess.
Created(n) ==
  /\ creating[n] # {}
  /\ IF n \in trims
     THEN Trim(connections, available \cup creating[n], idle)
     ELSE /\ available' = available \cup creating[n]
          /\ UNCHANGED <<connections, idle>>
  /\ creating' = [creating EXCEPT ![n] = {}]
  /\ trims' = trims \ {n}
  /\ UNCHANGED <<limits, inUse, acquirerVars, stopped, ceiling>>

\* updateConfiguration, which refuses a minimum above the maximum: below the new
\* minimum, connections are created; none is closed above the new maximum.
UpdateConfiguration(l, n) ==
  LET need == IF Cardinality(connections) < l[1] THEN l[1] - Cardinality(connections) ELSE 0
  IN /\ ~ stopped
     /\ l # limits
     /\ l[1] <= l[2]
     /\ limits' = l
     /\ ceiling' = Greater(l[2], Cardinality(connections))
     /\ IF need = 0
        THEN UNCHANGED <<connections, creating>>
        ELSE /\ creating[n] = {}
             /\ n \notin trims
             /\ \E new \in SUBSET (Conns \ Known) :
                  /\ Cardinality(new) = need
                  /\ connections' = connections \cup new
                  /\ creating' = [creating EXCEPT ![n] = new]
     /\ UNCHANGED <<available, inUse, idle, acquirerVars, trims, stopped>>

\* Time passes: available connections have been idle for too long.
GoIdle(x) ==
  /\ x \in available \ idle
  /\ idle' = idle \cup {x}
  /\ UNCHANGED <<limits, connections, available, inUse, acquirerVars, cleanerVars, stopped,
                 ceiling>>

\* stop forgets _connections, and only these.
Stop ==
  /\ ~ stopped
  /\ stopped' = TRUE
  /\ connections' = {}
  /\ UNCHANGED <<limits, available, inUse, idle, acquirerVars, cleanerVars, ceiling>>

Next ==
  \/ \E a \in Acquirers :
       \/ \E x \in Conns : AcquireAvailable(a, x) \/ AcquireNew(a, x)
       \/ Acquired(a)
       \/ Release(a)
  \/ \E n \in Cleaners :
       \/ CleanerFires(n)
       \/ Created(n)
       \/ \E l \in Limits : UpdateConfiguration(l, n)
  \/ \E x \in Conns : GoIdle(x)
  \/ Stop

Spec == Init /\ [][Next]_blePoolVars

-----------------------------------------------------------------------------
TypeOK ==
  /\ limits \in Limits
  /\ connections \subseteq Conns
  /\ available \subseteq Conns
  /\ inUse \subseteq Conns
  /\ idle \subseteq available
  /\ awaited \in [Acquirers -> Conns \cup {None}]
  /\ held \in [Acquirers -> Conns \cup {None}]
  /\ creating \in [Cleaners -> SUBSET Conns]
  /\ trims \subseteq Cleaners
  /\ stopped \in BOOLEAN
  /\ ceiling \in Nat

\* Until stop, the pool holds at least minConnections and, with those awaited, at
\* most maxConnections, or the minConnections the constructor was given above it, or
\* what it held when the maximum was lowered, however acquisitions, cleanups and
\* changes of the limits interleave.
PoolSized ==
  ~ stopped => /\ MinConns <= Cardinality(connections)
               /\ Cardinality(connections) <= ceiling

\* Until stop, a connection of the pool is available, in use or awaited, and only
\* one of these; what callers hold is in use.
PoolPartition ==
  ~ stopped => /\ connections = available \cup inUse \cup Pending
               /\ available \cap inUse = {}
               /\ Pending \cap (available \cup inUse) = {}
               /\ {held[a] : a \in Acquirers} \ {None} = inUse

\* Both: the pool keeps its size and the account of its connections.
BlePoolAccounted == PoolSized /\ PoolPartition
=============================================================================
