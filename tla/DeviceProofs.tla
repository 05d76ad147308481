---------------------------- MODULE DeviceProofs ----------------------------
(***************************************************************************)
(* Proofs about the components at the radio: BlePool, ScanHandler,         *)
(* ConnectionHandler, CharacteristicOperations, Subscriptions and          *)
(* RadioTuning, for every value of the constants.                          *)
(***************************************************************************)
EXTENDS Components, Sequences, FiniteSetTheorems, TLAPS

\* A step is one of one component, and leaves the others as they are.
LEMMA PartStep ==
  ASSUME [ComponentsNext]_componentVars
  PROVE  \E p \in Parts \cup {"none"} :
           /\ Only(p)
           /\ p = "pool" => Next
           /\ p = "scans" => Scan!Next
           /\ p = "connections" => Connect!Next
           /\ p = "operations" => Ops!Next
           /\ p = "subscriptions" => Subs!Next
           /\ p = "radio" => Radio!Next
<1>1. CASE UNCHANGED componentVars
  BY <1>1 DEF componentVars, Only
<1>2. CASE ComponentsNext
  BY <1>2
  DEF ComponentsNext, Parts, PoolStep, LockoutStep, SessionsStep, LimiterStep, KeysStep, TokensStep,
      ThreatsStep, AuditsStep, ScansStep, ConnectionsStep, OperationsStep, RadioStep, CacheStep,
      FailoverStep, SupervisionStep, TransactionsStep, RecoveryStep, ClosingStep, SubscriptionsStep,
      ResourcesStep, RetriesStep
<1> QED
  BY <1>1, <1>2

-----------------------------------------------------------------------------
(* BlePool.  Neither half of BlePoolAccounted is inductive.  The partition *)
(* needs that what is awaited is awaited once, and what is held is held    *)
(* once (Single): otherwise a call that resumes or releases would take the *)
(* connection of another.  The size needs that the ceiling never falls     *)
(* below maxConnections, and that cleanups which create connections count  *)
(* those that are awaited.                                                 *)
\* Available connections, those in use and those awaited are the whole pool, apart.
Split(cs, av, iu, p) == cs = av \cup iu \cup p /\ av \cap iu = {} /\ p \cap (av \cup iu) = {}

Single ==
  /\ \A a, b \in Acquirers : a # b => /\ awaited[a] # None => awaited[a] # awaited[b]
                                      /\ held[a] # None => held[a] # held[b]
  /\ \A a \in Acquirers : awaited[a] # None => held[a] = None
  /\ \A a \in Acquirers, n \in Cleaners : awaited[a] # None => awaited[a] \notin creating[n]
  /\ \A m, n \in Cleaners : m # n => creating[m] \cap creating[n] = {}

Held == {held[a] : a \in Acquirers} \ {None}

Books == Split(connections, available, inUse, Pending) /\ Held = inUse /\ Single
Sized == MinConns <= Cardinality(connections) /\ Cardinality(connections) <= ceiling

PoolInv ==
  /\ TypeOK
  /\ MaxConns <= ceiling
  /\ ~ stopped => Books /\ Sized

LEMMA LimitTypes ==
  ASSUME TypeOK
  PROVE  MinConns \in Nat /\ MaxConns \in Nat
BY BlePoolAssumption DEF TypeOK, MinConns, MaxConns

LEMMA Finite ==
  ASSUME NEW S \in SUBSET Conns
  PROVE  IsFiniteSet(S) /\ Cardinality(S) \in Nat
BY BlePoolAssumption, FS_Subset, FS_CardinalityType

\* Adding as many new connections as are missing.
LEMMA Added ==
  ASSUME NEW S \in SUBSET Conns, NEW new \in SUBSET (Conns \ S)
  PROVE  Cardinality(S \cup new) = Cardinality(S) + Cardinality(new)
<1>1. Cardinality(S \cap new) = 0
  <2>1. S \cap new = {}
    OBVIOUS
  <2> QED BY <2>1, FS_EmptySet
<1>2. IsFiniteSet(S) /\ IsFiniteSet(new) /\ Cardinality(S) \in Nat /\ Cardinality(new) \in Nat
  BY Finite
<1>3. Cardinality(S \cup new) = Cardinality(S) + Cardinality(new) - Cardinality(S \cap new)
  BY <1>2, FS_Union
<1> QED BY <1>1, <1>2, <1>3

LEMMA Fewer ==
  ASSUME NEW S \in SUBSET Conns, NEW T \in SUBSET S
  PROVE  Cardinality(T) <= Cardinality(S)
BY Finite, FS_Subset

\* The last loop of _cleanupIdleConnections removes available connections only, and
\* keeps minConnections.
LEMMA TrimEffect ==
  ASSUME TypeOK, NEW cs \in SUBSET Conns, NEW av \in SUBSET cs, NEW id \in SUBSET av,
         MinConns <= Cardinality(cs), Trim(cs, av, id)
  PROVE  \E dropped \in SUBSET av :
           /\ connections' = cs \ dropped
           /\ available' = av \ dropped
           /\ idle' \subseteq available'
           /\ MinConns <= Cardinality(connections')
           /\ Cardinality(connections') <= Cardinality(cs)
<1>1. PICK dropped \in SUBSET av :
        /\ \/ Cardinality(cs \ dropped) = MinConns
           \/ Cardinality(cs \ dropped) > MinConns /\ dropped = av
           \/ Cardinality(cs) <= MinConns /\ dropped = {}
        /\ connections' = cs \ dropped
        /\ available' = av \ dropped
        /\ idle' = id \ dropped
  BY DEF Trim
<1>2. cs \ dropped \in SUBSET cs /\ Cardinality(cs \ dropped) \in Nat /\ Cardinality(cs) \in Nat
  BY Finite
<1>3. Cardinality(cs \ dropped) <= Cardinality(cs)
  BY <1>2, Fewer
<1>4. dropped = {} => cs \ dropped = cs
  OBVIOUS
<1>5. MinConns <= Cardinality(cs \ dropped)
  BY <1>1, <1>2, <1>4, LimitTypes
<1> QED BY <1>1, <1>3, <1>5

\* Available connections of av went, and new ones came to make up for what
\* minConnections lacked.
CleanedUp(n, av, dropped, new) ==
  /\ connections' = (connections \ dropped) \cup new
  /\ available' = av \ dropped
  /\ idle' \subseteq available'
  /\ creating[n] = {}
  /\ creating' = [creating EXCEPT ![n] = new]
  /\ trims' \in SUBSET Cleaners
  /\ MinConns <= Cardinality(connections')
  /\ \/ Cardinality(connections') <= Cardinality(connections)
     \/ Cardinality(connections') = MinConns

\* What _cleanupIdleConnections may do up to its await: available connections go,
\* and new ones come only to make up for what minConnections lacks.
LEMMA CleanUpEffect ==
  ASSUME TypeOK, NEW n \in Cleaners, NEW av \in SUBSET connections, NEW id \in SUBSET av,
         MinConns <= Cardinality(connections), CleanUp(n, av, id)
  PROVE  \E dropped \in SUBSET av, new \in SUBSET (Conns \ Known) : CleanedUp(n, av, dropped, new)
<1> DEFINE cs == connections \ id
           need == IF Cardinality(cs) < MinConns THEN MinConns - Cardinality(cs) ELSE 0
<1>1. connections \in SUBSET Conns /\ cs \in SUBSET Conns /\ creating \in [Cleaners -> SUBSET Conns]
  BY DEF TypeOK
<1>2. /\ Cardinality(cs) \in Nat
      /\ Cardinality(connections) \in Nat
      /\ Cardinality(cs) <= Cardinality(connections)
  BY <1>1, Finite, Fewer
<1>3. creating[n] = {}
  BY DEF CleanUp
<1>4. CASE need = 0
  <2>1. Trim(cs, av \ id, {}) /\ UNCHANGED cleanerVars
    BY <1>4 DEF CleanUp
  <2>2. MinConns <= Cardinality(cs)
    BY <1>2, <1>4, LimitTypes
  <2>3. PICK more \in SUBSET (av \ id) :
          /\ connections' = cs \ more
          /\ available' = (av \ id) \ more
          /\ idle' \subseteq available'
          /\ MinConns <= Cardinality(connections')
          /\ Cardinality(connections') <= Cardinality(cs)
    <3>1. av \ id \in SUBSET cs /\ {} \in SUBSET (av \ id)
      OBVIOUS
    <3> HIDE DEF cs
    <3> QED BY <1>1, <2>1, <2>2, <3>1, TrimEffect
  <2>4. creating' = [creating EXCEPT ![n] = {}]
    BY <1>1, <1>3, <2>1 DEF cleanerVars
  <2>5. trims' \in SUBSET Cleaners
    BY <2>1 DEF cleanerVars, TypeOK
  <2>6. connections' = (connections \ (id \cup more)) \cup {} /\ available' = av \ (id \cup more)
    BY <2>3
  <2>7. Cardinality(connections') <= Cardinality(connections)
    <3>1. connections' \in SUBSET connections
      BY <2>6
    <3> QED BY <1>1, <3>1, Fewer
  <2> WITNESS id \cup more \in SUBSET av, {} \in SUBSET (Conns \ Known)
  <2> QED BY <1>3, <2>3, <2>4, <2>5, <2>6, <2>7 DEF CleanedUp
<1>5. CASE need # 0
  <2>1. PICK new \in SUBSET (Conns \ Known) :
          /\ Cardinality(new) = need
          /\ connections' = cs \cup new
          /\ available' = av \ id
          /\ idle' = {}
          /\ creating' = [creating EXCEPT ![n] = new]
          /\ trims' = trims \cup {n}
    BY <1>5 DEF CleanUp
  <2>2. new \in SUBSET (Conns \ cs)
    BY DEF Known
  <2>3. Cardinality(connections') = Cardinality(cs) + need
    BY <1>1, <2>1, <2>2, Added
  <2>4. Cardinality(connections') = MinConns
    BY <1>2, <1>5, <2>3, LimitTypes
  <2>5. trims' \in SUBSET Cleaners
    BY <2>1 DEF TypeOK
  <2> WITNESS id \in SUBSET av, new \in SUBSET (Conns \ Known)
  <2> QED BY <1>3, <2>1, <2>4, <2>5, LimitTypes DEF CleanedUp
<1> QED BY <1>4, <1>5

LEMMA CleanUpTypes ==
  ASSUME TypeOK, NEW n \in Cleaners, NEW av \in SUBSET Conns, NEW id \in SUBSET av, CleanUp(n, av, id)
  PROVE  /\ connections' \in SUBSET Conns
         /\ available' \in SUBSET Conns
         /\ idle' \subseteq available'
         /\ creating' \in [Cleaners -> SUBSET Conns]
         /\ trims' \in SUBSET Cleaners
BY DEF TypeOK, CleanUp, Trim, cleanerVars

LEMMA TypeStep == ASSUME TypeOK, [Next]_blePoolVars PROVE TypeOK'
<1> USE DEF TypeOK
<1>1. ASSUME NEW a \in Acquirers, NEW x \in Conns, AcquireAvailable(a, x) \/ AcquireNew(a, x)
      PROVE  TypeOK'
  BY <1>1 DEF AcquireAvailable, AcquireNew, cleanerVars
<1>2. ASSUME NEW a \in Acquirers, Acquired(a) PROVE TypeOK'
  BY <1>2 DEF Acquired, cleanerVars
<1>3. ASSUME NEW a \in Acquirers, Release(a) PROVE TypeOK'
  <2>1. held[a] \in Conns /\ available \cup {held[a]} \in SUBSET Conns
        /\ idle \in SUBSET (available \cup {held[a]})
    BY <1>3 DEF Release
  <2>2. CASE Cardinality(connections) > MinConns
    <3>1. PICK n \in Cleaners : CleanUp(n, available \cup {held[a]}, idle)
      BY <1>3, <2>2 DEF Release
    <3> QED BY <1>3, <2>1, <3>1, CleanUpTypes DEF Release
  <2>3. CASE ~ (Cardinality(connections) > MinConns)
    BY <1>3, <2>1, <2>3 DEF Release, cleanerVars
  <2> QED BY <2>2, <2>3
<1>4. ASSUME NEW n \in Cleaners, CleanerFires(n) PROVE TypeOK'
  BY <1>4, CleanUpTypes DEF CleanerFires, acquirerVars
<1>5. ASSUME NEW n \in Cleaners, Created(n) PROVE TypeOK'
  BY <1>5 DEF Created, Trim, acquirerVars
<1>6. ASSUME NEW n \in Cleaners, NEW l \in Limits, UpdateConfiguration(l, n) PROVE TypeOK'
  <2>1. ceiling' \in Nat
    <3>1. l[2] \in Nat /\ Cardinality(connections) \in Nat
      BY BlePoolAssumption, Finite
    <3> QED BY <1>6, <3>1 DEF UpdateConfiguration, Greater
  <2>2. connections' \in SUBSET Conns /\ creating' \in [Cleaners -> SUBSET Conns]
    BY <1>6 DEF UpdateConfiguration
  <2> QED BY <1>6, <2>1, <2>2 DEF UpdateConfiguration, acquirerVars
<1>7. CASE Stop \/ (\E x \in Conns : GoIdle(x)) \/ UNCHANGED blePoolVars
  BY <1>7 DEF Stop, GoIdle, acquirerVars, cleanerVars, bleConnVars, blePoolVars
<1> QED BY <1>1, <1>2, <1>3, <1>4, <1>5, <1>6, <1>7 DEF Next

\* What is awaited, one connection or many at a time.
LEMMA PendingMembers ==
  ASSUME NEW x
  PROVE  x \in Pending <=> \/ x # None /\ \E a \in Acquirers : x = awaited[a]
                           \/ \E n \in Cleaners : x \in creating[n]
BY DEF Pending, Awaited

\* A cleaner creates connections nobody knows, and awaits them.
LEMMA CreatingBooks ==
  ASSUME TypeOK, Single, NEW n \in Cleaners, NEW new \in SUBSET (Conns \ Known),
         creating[n] = {}, creating' = [creating EXCEPT ![n] = new], awaited' = awaited
  PROVE  /\ Pending' = Pending \cup new
         /\ \A a \in Acquirers, m \in Cleaners : awaited'[a] # None => awaited'[a] \notin creating'[m]
         /\ \A l, m \in Cleaners : l # m => creating'[l] \cap creating'[m] = {}
<1>1. \A m \in Cleaners : creating'[m] = IF m = n THEN new ELSE creating[m]
  BY DEF TypeOK
<1>2. Pending' = Pending \cup new
  <2>1. \A x : x \in Pending' <=> \/ x # None /\ \E a \in Acquirers : x = awaited[a]
                                  \/ \E m \in Cleaners : x \in creating'[m]
    BY DEF Pending, Awaited
  <2>2. \A x : (\E m \in Cleaners : x \in creating'[m]) <=> (\E m \in Cleaners : x \in creating[m]) \/ x \in new
    BY <1>1
  <2> QED BY <2>1, <2>2, PendingMembers
<1>3. \A x \in Pending : x \notin new
  BY DEF Known
<1>4. \A m \in Cleaners : creating[m] \subseteq Pending
  BY PendingMembers
<1>5. \A a \in Acquirers : awaited[a] # None => awaited[a] \in Pending
  BY PendingMembers
<1> QED BY <1>1, <1>2, <1>3, <1>4, <1>5 DEF Single

\* _cleanupIdleConnections keeps the account: iu is what will be in use.
LEMMA CleanUpBooks ==
  ASSUME TypeOK, Single, Sized, NEW n \in Cleaners, NEW av, NEW id \in SUBSET av, NEW iu,
         iu \subseteq Known, Split(connections, av, iu, Pending), CleanUp(n, av, id),
         awaited' = awaited, ceiling' = ceiling, limits' = limits, MaxConns <= ceiling
  PROVE  /\ Split(connections', available', iu, Pending')
         /\ \A a \in Acquirers, m \in Cleaners : awaited'[a] # None => awaited'[a] \notin creating'[m]
         /\ \A l, m \in Cleaners : l # m => creating'[l] \cap creating'[m] = {}
         /\ Sized'
<1>1. av \in SUBSET connections
  BY DEF Split
<1>2. PICK dropped \in SUBSET av, new \in SUBSET (Conns \ Known) : CleanedUp(n, av, dropped, new)
  <2>1. MinConns <= Cardinality(connections)
    BY DEF Sized
  <2> QED BY <1>1, <2>1, CleanUpEffect
<1>3. /\ Pending' = Pending \cup new
      /\ \A a \in Acquirers, m \in Cleaners : awaited'[a] # None => awaited'[a] \notin creating'[m]
      /\ \A l, m \in Cleaners : l # m => creating'[l] \cap creating'[m] = {}
  BY <1>2, CreatingBooks DEF CleanedUp
<1>4. Split(connections', available', iu, Pending')
  <2>1. new \cap connections = {} /\ new \cap iu = {}
    BY DEF Known
  <2> QED BY <1>2, <1>3, <2>1 DEF Split, CleanedUp
<1>5. Sized'
  <2>1. connections' \in SUBSET Conns /\ connections \in SUBSET Conns
    BY <1>2 DEF TypeOK, CleanedUp
  <2>2. Cardinality(connections') \in Nat /\ Cardinality(connections) \in Nat
    BY <2>1, Finite
  <2>3. MinConns' = MinConns /\ ceiling \in Nat
    BY DEF MinConns, TypeOK
  <2> QED BY <1>2, <2>2, <2>3, LimitTypes DEF Sized, CleanedUp
<1> QED BY <1>3, <1>4, <1>5

\* Each operation keeps the account and the size until stop.
LEMMA AcquireBooks ==
  ASSUME PoolInv, ~ stopped, NEW a \in Acquirers, NEW x \in Conns,
         AcquireAvailable(a, x) \/ AcquireNew(a, x)
  PROVE  Books' /\ Sized'
<1> USE DEF PoolInv, TypeOK, Books
<1>1. None \notin Conns
  BY BlePoolAssumption
<1>2. CASE AcquireAvailable(a, x)
  <2>1. Pending' = Pending
    BY <1>2 DEF AcquireAvailable, cleanerVars, Pending, Awaited
  <2>2. Split(connections', available', inUse', Pending')
    BY <1>2, <2>1 DEF AcquireAvailable, Split
  <2>3. x \notin inUse
    BY <1>2 DEF AcquireAvailable, Split
  <2>4. Held' = inUse'
    BY <1>1, <1>2 DEF AcquireAvailable, Held
  <2>5. Single'
    <3>1. \A b \in Acquirers : held[b] # x
      BY <1>1, <2>3 DEF Held
    <3> QED BY <1>2, <3>1 DEF AcquireAvailable, cleanerVars, Single
  <2>6. Sized'
    BY <1>2 DEF AcquireAvailable, Sized, MinConns
  <2> QED BY <2>2, <2>4, <2>5, <2>6
<1>3. CASE AcquireNew(a, x)
  <2>1. x \notin Known
    BY <1>3 DEF AcquireNew
  <2>2. Pending' = Pending \cup {x}
    BY <1>1, <1>3 DEF AcquireNew, cleanerVars, Pending, Awaited
  <2>3. Split(connections', available', inUse', Pending')
    BY <1>3, <2>1, <2>2 DEF AcquireNew, Split, Known
  <2>4. Held' = inUse'
    BY <1>3 DEF AcquireNew, Held
  <2>5. Single'
    <3>1. \A b \in Acquirers : awaited[b] # x
      BY <1>1, <2>1, PendingMembers DEF Known
    <3>2. \A n \in Cleaners : x \notin creating[n]
      BY <2>1, PendingMembers DEF Known
    <3> QED BY <1>3, <3>1, <3>2 DEF AcquireNew, cleanerVars, Single
  <2>6. Sized'
    <3>1. x \notin connections /\ {x} \in SUBSET (Conns \ connections)
      BY <2>1 DEF Known
    <3>2. IsFiniteSet(connections) /\ Cardinality(connections) \in Nat
      BY Finite
    <3>3. Cardinality(connections') = Cardinality(connections) + 1
      BY <1>3, <3>1, <3>2, FS_AddElement DEF AcquireNew
    <3>4. MinConns' = MinConns /\ ceiling' = ceiling /\ ceiling \in Nat
      BY <1>3 DEF AcquireNew, MinConns
    <3>5. Cardinality(connections) < MaxConns
      BY <1>3 DEF AcquireNew, Room
    <3> QED BY <3>2, <3>3, <3>4, <3>5, LimitTypes DEF Sized
  <2> QED BY <2>3, <2>4, <2>5, <2>6
<1> QED BY <1>2, <1>3

LEMMA AcquiredBooks ==
  ASSUME PoolInv, ~ stopped, NEW a \in Acquirers, Acquired(a)
  PROVE  Books' /\ Sized'
<1> USE DEF PoolInv, TypeOK, Books
<1> DEFINE x == awaited[a]
<1>1. x \in Conns /\ x # None /\ x \in Pending /\ x \notin inUse /\ x \notin available
  BY PendingMembers, BlePoolAssumption DEF Acquired, Split
<1>2. Pending' = Pending \ {x}
  <2>1. \A y : y \in Pending' <=> \/ y # None /\ \E b \in Acquirers : y = awaited'[b]
                                  \/ \E n \in Cleaners : y \in creating[n]
    BY DEF Acquired, cleanerVars, Pending, Awaited
  <2>2. \A b \in Acquirers : awaited'[b] = IF b = a THEN None ELSE awaited[b]
    BY DEF Acquired
  <2>3. /\ \A b \in Acquirers \ {a} : awaited[b] # x
        /\ \A n \in Cleaners : x \notin creating[n]
    BY <1>1 DEF Single
  <2> QED BY <1>1, <2>1, <2>2, <2>3, PendingMembers
<1>3. Split(connections', available', inUse', Pending')
  BY <1>1, <1>2 DEF Acquired, Split
<1>4. held[a] = None
  BY <1>1 DEF Single
<1>5. Held' = inUse'
  BY <1>1, <1>4 DEF Acquired, Held
<1>6. Single'
  <2>1. \A b \in Acquirers : held[b] # x
    BY <1>1 DEF Held
  <2>2. UNCHANGED creating
    BY DEF Acquired, cleanerVars
  <2>3. \A b \in Acquirers : /\ awaited'[b] = IF b = a THEN None ELSE awaited[b]
                             /\ held'[b] = IF b = a THEN x ELSE held[b]
    BY DEF Acquired
  <2> QED BY <2>1, <2>2, <2>3 DEF Single
<1>7. Sized'
  BY DEF Acquired, Sized, MinConns
<1> QED BY <1>3, <1>5, <1>6, <1>7

LEMMA ReleaseBooks ==
  ASSUME PoolInv, ~ stopped, NEW a \in Acquirers, Release(a)
  PROVE  Books' /\ Sized'
<1> DEFINE x == held[a]
           av == available \cup {x}
           iu == inUse \ {x}
<1>1. /\ x \in Conns /\ x # None /\ x \in inUse
      /\ inUse' = iu /\ held' = [held EXCEPT ![a] = None]
      /\ UNCHANGED <<limits, awaited, ceiling>>
  BY BlePoolAssumption DEF Release, PoolInv, TypeOK
<1>2. Split(connections, av, iu, Pending) /\ iu \subseteq Known /\ idle \in SUBSET av
  BY <1>1 DEF PoolInv, TypeOK, Books, Split, Known
<1>3. \A b \in Acquirers : held'[b] = IF b = a THEN None ELSE held[b]
  BY <1>1 DEF PoolInv, TypeOK
<1>4. Held' = inUse'
  <2>1. \A b \in Acquirers \ {a} : held[b] # x
    BY <1>1 DEF PoolInv, Books, Single
  <2> QED BY <1>1, <1>3, <2>1 DEF PoolInv, Books, Held
<1>5. /\ Split(connections', available', iu, Pending')
      /\ \A b \in Acquirers, m \in Cleaners : awaited'[b] # None => awaited'[b] \notin creating'[m]
      /\ \A l, m \in Cleaners : l # m => creating'[l] \cap creating'[m] = {}
      /\ Sized'
  <2>1. CASE Cardinality(connections) > MinConns
    <3>1. PICK n \in Cleaners : CleanUp(n, av, idle)
      BY <2>1 DEF Release
    <3>2. TypeOK /\ Single /\ Sized /\ MaxConns <= ceiling
      BY DEF PoolInv, Books
    <3> HIDE DEF av, iu
    <3> QED BY <1>1, <1>2, <3>1, <3>2, CleanUpBooks
  <2>2. CASE ~ (Cardinality(connections) > MinConns)
    <3>1. UNCHANGED <<connections, creating, awaited, limits, ceiling>> /\ available' = av
      BY <1>1, <2>2 DEF Release, cleanerVars
    <3>2. Pending' = Pending
      BY <3>1 DEF Pending, Awaited
    <3>3. Sized'
      BY <3>1 DEF PoolInv, Sized, MinConns
    <3>4. Single
      BY DEF PoolInv, Books
    <3> QED BY <1>2, <3>1, <3>2, <3>3, <3>4 DEF Single
  <2> QED BY <2>1, <2>2
<1>6. Single'
  BY <1>1, <1>3, <1>5 DEF PoolInv, Books, Single
<1> QED BY <1>1, <1>4, <1>5, <1>6 DEF Books

LEMMA CleanerBooks ==
  ASSUME PoolInv, ~ stopped, NEW n \in Cleaners, CleanerFires(n)
  PROVE  Books' /\ Sized'
<1>1. TypeOK /\ Single /\ Sized /\ MaxConns <= ceiling /\ Split(connections, available, inUse, Pending)
      /\ Held = inUse
  BY DEF PoolInv, Books
<1>2. UNCHANGED <<limits, inUse, awaited, held, ceiling>> /\ CleanUp(n, available, idle)
  BY DEF CleanerFires, acquirerVars
<1>3. idle \in SUBSET available /\ inUse \subseteq Known
  BY <1>1 DEF TypeOK, Known
<1>4. /\ Split(connections', available', inUse, Pending')
      /\ \A a \in Acquirers, m \in Cleaners : awaited'[a] # None => awaited'[a] \notin creating'[m]
      /\ \A l, m \in Cleaners : l # m => creating'[l] \cap creating'[m] = {}
      /\ Sized'
  BY <1>1, <1>2, <1>3, CleanUpBooks
<1>5. Single' /\ Held' = inUse'
  BY <1>1, <1>2, <1>4 DEF Single, Held
<1> QED BY <1>2, <1>4, <1>5 DEF Books


LEMMA CreatedBooks ==
  ASSUME PoolInv, ~ stopped, NEW n \in Cleaners, Created(n)
  PROVE  Books' /\ Sized'
<1> DEFINE av == available \cup creating[n]
<1>1. /\ creating' = [creating EXCEPT ![n] = {}]
      /\ UNCHANGED <<limits, inUse, awaited, held, ceiling>>
  BY DEF Created, acquirerVars
<1>2. \A m \in Cleaners : creating'[m] = IF m = n THEN {} ELSE creating[m]
  BY <1>1 DEF PoolInv, TypeOK
<1>3. Pending' = Pending \ creating[n]
  <2>1. \A y : y \in Pending' <=> \/ y # None /\ \E b \in Acquirers : y = awaited[b]
                                  \/ \E m \in Cleaners : y \in creating'[m]
    BY <1>1 DEF Pending, Awaited
  <2>2. /\ \A b \in Acquirers : awaited[b] # None => awaited[b] \notin creating[n]
        /\ \A m \in Cleaners \ {n} : creating[m] \cap creating[n] = {}
    BY DEF PoolInv, Books, Single
  <2> QED BY <1>2, <2>1, <2>2, PendingMembers
<1>4. creating[n] \subseteq Pending
  BY PendingMembers
<1>5. PICK dropped \in SUBSET av : connections' = connections \ dropped /\ available' = av \ dropped
  <2>1. CASE n \in trims
    BY <2>1 DEF Created, Trim
  <2>2. CASE n \notin trims
    <3>1. connections' = connections \ {} /\ available' = av \ {}
      BY <2>2 DEF Created
    <3> QED BY <3>1
  <2> QED BY <2>1, <2>2
<1>6. Split(connections', available', inUse', Pending')
  BY <1>1, <1>3, <1>4, <1>5 DEF PoolInv, Books, Split
<1>7. Sized'
  <2>1. MinConns' = MinConns
    BY <1>1 DEF MinConns
  <2>2. CASE n \notin trims
    BY <1>1, <2>1, <2>2 DEF Created, PoolInv, Sized
  <2>3. CASE n \in trims
    <3>1. Trim(connections, av, idle)
      BY <2>3 DEF Created
    <3>2. TypeOK /\ MinConns <= Cardinality(connections) /\ connections \in SUBSET Conns
      BY DEF PoolInv, Sized, TypeOK
    <3>3. av \in SUBSET connections /\ idle \in SUBSET av
      BY <1>4 DEF PoolInv, Books, Split, TypeOK
    <3> HIDE DEF av
    <3>4. MinConns <= Cardinality(connections') /\ Cardinality(connections') <= Cardinality(connections)
      BY <3>1, <3>2, <3>3, TrimEffect
    <3>5. connections' \in SUBSET Conns /\ ceiling \in Nat
      BY <1>5, <3>2 DEF TypeOK
    <3>6. Cardinality(connections') \in Nat /\ Cardinality(connections) \in Nat
      BY <3>2, <3>5, Finite
    <3> QED BY <1>1, <2>1, <3>4, <3>5, <3>6, LimitTypes DEF PoolInv, Sized
  <2> QED BY <2>2, <2>3
<1>8. Single' /\ Held' = inUse'
  BY <1>1, <1>2 DEF PoolInv, Books, Single, Held
<1> QED BY <1>6, <1>7, <1>8 DEF Books

LEMMA UpdateBooks ==
  ASSUME PoolInv, ~ stopped, NEW n \in Cleaners, NEW l \in Limits, UpdateConfiguration(l, n)
  PROVE  Books' /\ Sized'
<1> DEFINE need == IF Cardinality(connections) < l[1] THEN l[1] - Cardinality(connections) ELSE 0
<1>1. /\ limits' = l /\ ceiling' = Greater(l[2], Cardinality(connections))
      /\ UNCHANGED <<available, inUse, awaited, held>>
  BY DEF UpdateConfiguration, acquirerVars
<1>2. /\ l[1] \in Nat /\ l[2] \in Nat /\ l[1] <= l[2]
      /\ connections \in SUBSET Conns /\ Cardinality(connections) \in Nat
  BY BlePoolAssumption, Finite DEF PoolInv, TypeOK, UpdateConfiguration
<1>3. MinConns' = l[1]
  BY <1>1 DEF MinConns
<1>4. TypeOK /\ Single /\ Split(connections, available, inUse, Pending) /\ Held = inUse
  BY DEF PoolInv, Books
<1>5. CASE need = 0
  <2>1. UNCHANGED <<connections, creating>>
    BY <1>5 DEF UpdateConfiguration
  <2>2. Pending' = Pending
    BY <1>1, <2>1 DEF Pending, Awaited
  <2>3. Sized'
    BY <1>1, <1>2, <1>3, <1>5, <2>1 DEF Sized, Greater
  <2> QED BY <1>1, <1>4, <2>1, <2>2, <2>3 DEF Books, Single, Held
<1>6. CASE need # 0
  <2>1. PICK new \in SUBSET (Conns \ Known) :
          /\ Cardinality(new) = need
          /\ connections' = connections \cup new
          /\ creating' = [creating EXCEPT ![n] = new]
          /\ creating[n] = {}
    BY <1>6 DEF UpdateConfiguration
  <2>2. /\ Pending' = Pending \cup new
        /\ \A a \in Acquirers, m \in Cleaners : awaited'[a] # None => awaited'[a] \notin creating'[m]
        /\ \A k, m \in Cleaners : k # m => creating'[k] \cap creating'[m] = {}
    BY <1>1, <1>4, <2>1, CreatingBooks
  <2>3. Split(connections', available', inUse', Pending')
    BY <1>1, <1>4, <2>1, <2>2 DEF Split, Known
  <2>4. new \in SUBSET (Conns \ connections)
    BY <2>1 DEF Known
  <2>5. Cardinality(connections') = Cardinality(connections) + need
    BY <1>2, <2>1, <2>4, Added
  <2>6. Sized'
    BY <1>1, <1>2, <1>3, <1>6, <2>5 DEF Sized, Greater
  <2>7. Single' /\ Held' = inUse'
    BY <1>1, <1>4, <2>2 DEF Single, Held
  <2> QED BY <2>3, <2>6, <2>7 DEF Books
<1> QED BY <1>5, <1>6

LEMMA InvStep == ASSUME PoolInv, [Next]_blePoolVars PROVE PoolInv'
<1>1. TypeOK'
  BY TypeStep DEF PoolInv
<1>2. MaxConns' <= ceiling'
  <2>1. ASSUME NEW n \in Cleaners, NEW l \in Limits, UpdateConfiguration(l, n) PROVE MaxConns' <= ceiling'
    <3>1. l[2] \in Nat /\ Cardinality(connections) \in Nat
      BY BlePoolAssumption, Finite DEF PoolInv, TypeOK
    <3> QED BY <2>1, <3>1 DEF UpdateConfiguration, Greater, MaxConns
  <2>2. CASE UNCHANGED <<limits, ceiling>>
    BY <2>2 DEF PoolInv, MaxConns
  <2> QED
    BY <2>1, <2>2 DEF Next, AcquireAvailable, AcquireNew, Acquired, Release, CleanerFires, Created, GoIdle,
                      Stop, blePoolVars
<1>3. ASSUME ~ stopped' PROVE Books' /\ Sized'
  <2>1. ~ stopped
    BY <1>3 DEF Next, AcquireAvailable, AcquireNew, Acquired, Release, CleanerFires, Created,
                UpdateConfiguration, GoIdle, Stop, blePoolVars, PoolInv, TypeOK
  <2>2. CASE (\E x \in Conns : GoIdle(x)) \/ UNCHANGED blePoolVars
    <3>1. UNCHANGED <<limits, connections, available, inUse, awaited, held, creating, ceiling>>
      BY <2>2 DEF GoIdle, blePoolVars, bleConnVars, acquirerVars, cleanerVars
    <3>2. Pending' = Pending
      BY <3>1 DEF Pending, Awaited
    <3>3. Books /\ Sized
      BY <2>1 DEF PoolInv
    <3> QED BY <3>1, <3>2, <3>3 DEF Books, Single, Held, Sized, MinConns
  <2>3. CASE Stop
    BY <1>3, <2>3 DEF Stop
  <2> QED
    BY <2>1, <2>2, <2>3, AcquireBooks, AcquiredBooks, ReleaseBooks, CleanerBooks, CreatedBooks, UpdateBooks
    DEF Next
<1> QED BY <1>1, <1>2, <1>3 DEF PoolInv

LEMMA InvInit == ASSUME Init PROVE PoolInv
<1>1. PICK n \in Cleaners, new \in SUBSET Conns :
        /\ Cardinality(new) = MinConns
        /\ connections = new
        /\ creating = [m \in Cleaners |-> IF m = n THEN new ELSE {}]
  BY DEF Init
<1>2. TypeOK
  <2>1. limits \in Limits /\ MaxConns \in Nat /\ MinConns \in Nat
    BY BlePoolAssumption DEF Init, Constructed, MaxConns, MinConns
  <2>2. ceiling \in Nat
    BY <2>1 DEF Init, Greater
  <2> QED BY <1>1, <2>1, <2>2 DEF Init, TypeOK
<1>3. Sized /\ MaxConns <= ceiling
  BY <1>1, <1>2, LimitTypes DEF Init, Sized, Greater
<1>4. Pending = new
  <2>1. \A m \in Cleaners : creating[m] = IF m = n THEN new ELSE {}
    BY <1>1
  <2>2. \A a \in Acquirers : awaited[a] = None
    BY DEF Init
  <2> QED BY <2>1, <2>2, PendingMembers
<1>5. Split(connections, available, inUse, Pending)
  BY <1>1, <1>4 DEF Init, Split
<1>6. Single /\ Held = inUse
  BY <1>1 DEF Init, Single, Held
<1> QED BY <1>2, <1>3, <1>5, <1>6 DEF PoolInv, Books

LEMMA PoolPartStep == [ComponentsNext]_componentVars => [Next]_blePoolVars
BY PartStep DEF Only

\* Until stop the pool keeps its size and its connections are available, in use or
\* awaited, however acquireConnection, releaseConnection, _cleanupIdleConnections and
\* updateConfiguration overlap.
THEOREM BlePoolAccountedAlways == ComponentsSpec => []BlePoolAccounted
<1>1. ComponentsInit => PoolInv
  BY InvInit DEF ComponentsInit
<1>2. PoolInv /\ [ComponentsNext]_componentVars => PoolInv'
  BY PoolPartStep, InvStep
<1>3. PoolInv => BlePoolAccounted
  BY DEF PoolInv, Books, Sized, Split, Held, BlePoolAccounted, PoolSized, PoolPartition
<1> QED
  BY <1>1, <1>2, <1>3, PTL DEF ComponentsSpec

-----------------------------------------------------------------------------
(* ScanHandler: recorded scans.  A client whose starts never overlapped    *)
(* has at most one start under way, and is neither recorded nor gone while *)
(* it is; as long as starts and stops of the adapter never crossed, nobody *)
(* is recorded while a stop is under way, and a start either sets the      *)
(* adapter scanning or began while it did.                                 *)
ScanInv ==
  /\ Scan!TypeOK
  /\ \A c \in activeScans : listeners[c] > 0
  /\ Scan!ScansReleased
  /\ \A k \in Calls : scanHandling[k].op = "start" /\ scanHandling[k].client \notin scanOverlapped =>
       /\ scanHandling[k].client \notin activeScans \cup gone
       /\ \A j \in Calls :
            scanHandling[j].op = "start" /\ scanHandling[j].client = scanHandling[k].client => j = k
  /\ Scan!RecordedScansRun
  /\ ~ crossed => /\ Scan!Under("stop") # {} => activeScans = {} /\ Scan!Under("start") = {}
                  /\ \A k \in Scan!Under("start") : scanHandling[k].acts \/ scanning

LEMMA ScanInit == Scan!Init => ScanInv
<1> SUFFICES ASSUME Scan!Init PROVE ScanInv
  OBVIOUS
<1>1. \A k \in Calls : scanHandling[k] = Scan!NoCall /\ scanHandling[k].op = "none"
  BY DEF Scan!Init, Scan!NoCall
<1> QED
  BY <1>1 DEF Scan!Init, ScanInv, Scan!TypeOK, Scan!Under, Scan!ScansReleased, Scan!RecordedScansRun

LEMMA ScanNext == ASSUME ScanInv, [Scan!Next]_scanState PROVE ScanInv'
<1> USE DEF ScanInv, Scan!TypeOK, Scan!NoCall, Scan!Under, Scan!ScansReleased, Scan!RecordedScansRun
<1>1. ASSUME NEW k \in Calls, NEW c \in Clients, Scan!HandleStartScan(k, c) PROVE ScanInv'
  BY <1>1 DEF Scan!HandleStartScan, Scan!Await, Scan!Starting
<1>2. ASSUME NEW k \in Calls, NEW c \in Clients, Scan!HandleStopScan(k, c) PROVE ScanInv'
  BY <1>2 DEF Scan!HandleStopScan, Scan!StopScan, Scan!Drop, Scan!Await
<1>3. ASSUME NEW k \in Calls, NEW c \in Clients, Scan!HandleClientDisconnect(k, c) PROVE ScanInv'
  BY <1>3 DEF Scan!HandleClientDisconnect, Scan!StopScan, Scan!Drop, Scan!Await, Scan!Starting
<1>4. ASSUME NEW k \in Calls, Scan!ScanStarted(k) PROVE ScanInv'
  <2> DEFINE c == scanHandling[k].client
  <2>1. /\ scanHandling[k].op = "start" /\ c \in Clients
        /\ scanning' = (scanning \/ scanHandling[k].acts)
        /\ listeners' = [listeners EXCEPT ![c] = @ + 1]
        /\ activeScans' = activeScans \cup {c}
        /\ scanHandling' = [scanHandling EXCEPT ![k] = Scan!NoCall]
        /\ UNCHANGED <<gone, scanOverlapped, crossed>>
    BY <1>4 DEF Scan!ScanStarted, Scan!Return
  <2>2. Scan!TypeOK'
    BY <2>1
  <2>3. scanHandling'[k].op = "none" /\ \A j \in Calls \ {k} : scanHandling'[j] = scanHandling[j]
    BY <2>1
  <2>4. Scan!ScansReleased' /\ \A d \in activeScans' : listeners'[d] > 0
    BY <2>1
  <2>5. crossed \/ (scanning' /\ Scan!Under("stop") = {})
    BY <2>1
  <2> QED
    BY <2>1, <2>2, <2>3, <2>4, <2>5
<1>5. ASSUME NEW k \in Calls, Scan!ScanFailed(k) PROVE ScanInv'
  BY <1>5 DEF Scan!ScanFailed, Scan!Return
<1>6. ASSUME NEW k \in Calls, Scan!ScanStopped(k) PROVE ScanInv'
  BY <1>6 DEF Scan!ScanStopped, Scan!Return
<1>7. CASE UNCHANGED scanState
  BY <1>7 DEF scanState
<1> QED
  BY <1>1, <1>2, <1>3, <1>4, <1>5, <1>7, <1>6 DEF Scan!Next

LEMMA ScanStep == [ComponentsNext]_componentVars => [Scan!Next]_scanState
BY PartStep DEF Only

\* However starts, stops and departures overlap, what is recorded of a client is what its
\* listeners and the adapter do, but for the overlaps named in the property (handleStartScan,
\* handleStopScan, handleClientDisconnect).
THEOREM ScansAccountedAlways == ComponentsSpec => []ScansAccounted
<1>1. ComponentsInit => ScanInv
  BY ScanInit DEF ComponentsInit
<1>2. ScanInv /\ [ComponentsNext]_componentVars => ScanInv'
  BY ScanStep, ScanNext
<1>3. ScanInv => ScansAccounted
  BY DEF ScanInv, ScansAccounted, Scan!ScansAccounted
<1> QED
  BY <1>1, <1>2, <1>3, PTL DEF ComponentsSpec

-----------------------------------------------------------------------------
(* ConnectionHandler: what clients hold.  Of a client whose calls did not  *)
(* overlap and whose disconnects did not fail: a connect under way is its  *)
(* only call and finds nothing recorded, and a disconnect under way leaves *)
(* nothing that hears.                                                     *)
LEMMA ConnectConstants == None \notin SomeDevices
BY ComponentsAssumption

ConnectInv ==
  /\ Connect!TypeOK
  /\ Connect!ConnectionsReleased
  /\ \A k \in Calls : connectCall[k].client \in Clients \ (overlapped \cup failed) =>
       /\ connectCall[k].op = "connect" =>
            /\ \A j \in Calls : connectCall[j] # Connect!NoCall /\ connectCall[j].client = connectCall[k].client => j = k
            /\ connectCall[k].client \notin left \cup hears
            /\ device[connectCall[k].client] = None
       /\ connectCall[k].op = "disconnect" => connectCall[k].client \notin hears
  /\ \A c \in Clients \ (overlapped \cup failed) : lostListeners[c] = 0

LEMMA ConnectInit == Connect!Init => ConnectInv
<1> SUFFICES ASSUME Connect!Init PROVE ConnectInv
  OBVIOUS
<1>1. \A k \in Calls : connectCall[k] = Connect!NoCall /\ connectCall[k].op = "none"
  BY DEF Connect!Init, Connect!NoCall
<1> QED
  BY <1>1 DEF Connect!Init, ConnectInv, Connect!TypeOK, Connect!ConnectionsReleased, Connect!Disconnecting

LEMMA ConnectNext == ASSUME ConnectInv, [Connect!Next]_connectionState PROVE ConnectInv'
<1> USE ConnectConstants DEF ConnectInv, Connect!TypeOK, Connect!NoCall, Connect!ConnectionsReleased, Connect!Disconnecting
<1>1. ASSUME NEW k \in Calls, NEW c \in Clients, NEW d \in SomeDevices, Connect!HandleConnect(k, c, d) PROVE ConnectInv'
  BY <1>1 DEF Connect!HandleConnect, Connect!Await, Connect!Connecting
<1>2. ASSUME NEW k \in Calls, NEW c \in Clients, Connect!HandleDisconnect(k, c) PROVE ConnectInv'
  BY <1>2 DEF Connect!HandleDisconnect, Connect!BeginDisconnect, Connect!Await
<1>3. ASSUME NEW k \in Calls, NEW c \in Clients, Connect!HandleClientDisconnect(k, c) PROVE ConnectInv'
  BY <1>3 DEF Connect!HandleClientDisconnect, Connect!BeginDisconnect, Connect!Await, Connect!Connecting
<1>4. ASSUME NEW k \in Calls, Connect!Connected(k) PROVE ConnectInv'
  BY <1>4 DEF Connect!Connected, Connect!Return
<1>5. ASSUME NEW k \in Calls, Connect!Disconnected(k) PROVE ConnectInv'
  BY <1>5 DEF Connect!Disconnected, Connect!Return
<1>6. ASSUME NEW k \in Calls, Connect!ConnectFailed(k) PROVE ConnectInv'
  BY <1>6 DEF Connect!ConnectFailed, Connect!Return
<1>7. ASSUME NEW k \in Calls, Connect!DisconnectFailed(k) PROVE ConnectInv'
  BY <1>7 DEF Connect!DisconnectFailed, Connect!Return
<1>8. ASSUME NEW d \in SomeDevices, Connect!LinkDown(d) PROVE ConnectInv'
  BY <1>8 DEF Connect!LinkDown
<1>9. CASE UNCHANGED connectionState
  BY <1>9 DEF connectionState
<1> QED
  BY <1>1, <1>2, <1>3, <1>4, <1>5, <1>6, <1>7, <1>8, <1>9 DEF Connect!Next

LEMMA ConnectStep == [ComponentsNext]_componentVars => [Connect!Next]_connectionState
BY PartStep DEF Only

\* A client that leaves is recorded with no device and heard by no listener, and one that
\* stays has its listeners exactly while recorded, but for the overlaps and failures named in
\* the property (handleConnect, handleDisconnect, handleClientDisconnect).
THEOREM ConnectionsReleasedAlways == ComponentsSpec => []ConnectionsReleased
<1>1. ComponentsInit => ConnectInv
  BY ConnectInit DEF ComponentsInit
<1>2. ConnectInv /\ [ComponentsNext]_componentVars => ConnectInv'
  BY ConnectStep, ConnectNext
<1>3. ConnectInv => ConnectionsReleased
  BY DEF ConnectInv, ConnectionsReleased
<1> QED
  BY <1>1, <1>2, <1>3, PTL DEF ComponentsSpec

-----------------------------------------------------------------------------
(* CharacteristicOperations.  The sort permutes the queue: the places of   *)
(* its elements differ, since of two elements one goes before the other,   *)
(* and there are no more places than elements.                             *)
LEMMA OpsConstants == Ranks \subseteq Nat /\ MaxBatchSize \in Nat \ {0}
BY ComponentsAssumption

LEMMA OpsCardinality == \A S : Ops!Cardinality(S) = Cardinality(S)
BY DEF Ops!Cardinality, Cardinality, Ops!IsFiniteSet, IsFiniteSet

Queues == Seq([op : QueuedOperations, rank : Ranks])

LEMMA OpsQueues ==
  ASSUME NEW q \in Queues
  PROVE  /\ DOMAIN q = 1..Len(q) /\ Len(q) \in Nat
         /\ q \in [1..Len(q) -> [op : QueuedOperations, rank : Ranks]]
         /\ IsFiniteSet(DOMAIN q) /\ Cardinality(DOMAIN q) = Len(q)
         /\ \A k \in DOMAIN q : k \in Nat /\ q[k].rank \in Nat
<1> DEFINE E == [op : QueuedOperations, rank : Ranks]
<1>1. q \in Seq(E)
  BY DEF Queues
<1> HIDE DEF E
<1>2. DOMAIN q = 1..Len(q) /\ Len(q) \in Nat /\ q \in [1..Len(q) -> E]
  BY <1>1
<1>3. Len(q) \in Int /\ 1 \in Int
  BY <1>2
<1>4. IsFiniteSet(1..Len(q)) /\ Cardinality(1..Len(q)) = IF 1 > Len(q) THEN 0 ELSE Len(q) - 1 + 1
  BY <1>3, FS_Interval
<1>5. \A k \in DOMAIN q : k \in Nat /\ q[k].rank \in Nat
  <2>1. \A e \in E : e.rank \in Nat
    BY OpsConstants DEF E
  <2> QED
    BY <1>2, <2>1
<1> QED
  BY <1>2, <1>4, <1>5 DEF E

LEMMA OpsPlace ==
  ASSUME NEW q \in Queues, NEW i \in DOMAIN q
  PROVE  Ops!Place(q, i) \in DOMAIN q
<1> DEFINE S == {j \in DOMAIN q : j = i \/ Ops!Before(q, j, i)}
<1>1. DOMAIN q = 1..Len(q) /\ Len(q) \in Nat
  BY OpsQueues
<1>2. IsFiniteSet(DOMAIN q) /\ Cardinality(DOMAIN q) = Len(q)
  BY OpsQueues
<1>3. IsFiniteSet(S) /\ Cardinality(S) <= Cardinality(DOMAIN q)
  BY <1>2, FS_Subset
<1>4. Cardinality(S) \in Nat /\ Cardinality(S) # 0
  <2>1. i \in S
    OBVIOUS
  <2> QED
    BY <1>3, <2>1, FS_CardinalityType, FS_EmptySet
<1>5. Ops!Place(q, i) = Cardinality(S)
  BY OpsCardinality DEF Ops!Place
<1> QED
  BY <1>1, <1>2, <1>3, <1>4, <1>5

LEMMA OpsPlaceLess ==
  ASSUME NEW q \in Queues, NEW i \in DOMAIN q, NEW j \in DOMAIN q, Ops!Before(q, i, j)
  PROVE  Ops!Place(q, i) < Ops!Place(q, j)
<1> DEFINE S(k) == {l \in DOMAIN q : l = k \/ Ops!Before(q, l, k)}
<1>1. DOMAIN q = 1..Len(q) /\ Len(q) \in Nat /\ \A k \in DOMAIN q : q[k].rank \in Nat /\ k \in Nat
  BY OpsQueues
<1>2. S(i) \subseteq S(j) /\ j \in S(j) /\ j \notin S(i)
  BY <1>1 DEF Ops!Before
<1>3. IsFiniteSet(DOMAIN q)
  BY OpsQueues
<1>4. IsFiniteSet(S(j)) /\ S(i) \in SUBSET S(j)
  BY <1>2, <1>3, FS_Subset
<1> HIDE DEF S
<1>5. IsFiniteSet(S(i)) /\ Cardinality(S(i)) <= Cardinality(S(j)) /\ Cardinality(S(i)) # Cardinality(S(j))
  BY <1>2, <1>4, FS_Subset
<1>6. Cardinality(S(i)) \in Nat /\ Cardinality(S(j)) \in Nat
  BY <1>4, <1>5, FS_CardinalityType
<1>7. Ops!Place(q, i) = Cardinality(S(i)) /\ Ops!Place(q, j) = Cardinality(S(j))
  BY OpsCardinality DEF Ops!Place, S
<1> QED
  BY <1>5, <1>6, <1>7

LEMMA OpsSorted ==
  ASSUME NEW q \in Queues
  PROVE  /\ Ops!ByPriority(q) \in Queues /\ Len(Ops!ByPriority(q)) = Len(q)
         /\ Ops!Ids(Ops!ByPriority(q)) = Ops!Ids(q)
<1> DEFINE D == DOMAIN q
           f == [i \in D |-> Ops!Place(q, i)]
           At(p) == CHOOSE i \in D : Ops!Place(q, i) = p
<1>1. /\ D = 1..Len(q) /\ Len(q) \in Nat /\ q \in [D -> [op : QueuedOperations, rank : Ranks]]
      /\ \A k \in D : k \in Nat /\ q[k].rank \in Nat
  BY OpsQueues
<1>2. f \in Injection(D, D)
  <2>1. f \in [D -> D]
    BY OpsPlace
  <2>2. ASSUME NEW i \in D, NEW j \in D, i # j PROVE Ops!Place(q, i) # Ops!Place(q, j)
    <3>1. Ops!Before(q, i, j) \/ Ops!Before(q, j, i)
      BY <1>1, <2>2, OpsConstants DEF Ops!Before
    <3>2. Ops!Place(q, i) \in Nat /\ Ops!Place(q, j) \in Nat
      BY <1>1, OpsPlace
    <3> QED
      BY <3>1, <3>2, OpsPlaceLess
  <2> QED
    BY <2>1, <2>2 DEF Injection, IsInjective
<1>3. f \in Surjection(D, D)
  <2>1. IsFiniteSet(D)
    BY OpsQueues
  <2> HIDE DEF f, D
  <2> QED
    BY <1>2, <2>1, FS_Injection
<1>4. \A p \in D : At(p) \in D /\ Ops!Place(q, At(p)) = p
  <2> TAKE p \in D
  <2>1. \E i \in D : Ops!Place(q, i) = p
    BY <1>3 DEF Surjection
  <2> QED
    BY <2>1
<1>5. \A i \in D : At(Ops!Place(q, i)) = i
  <2> TAKE i \in D
  <2>1. Ops!Place(q, i) \in D
    BY OpsPlace
  <2>2. At(Ops!Place(q, i)) \in D /\ Ops!Place(q, At(Ops!Place(q, i))) = Ops!Place(q, i)
    BY <1>4, <2>1
  <2> HIDE DEF At
  <2> QED
    BY <1>2, <2>2 DEF Injection, IsInjective
<1> DEFINE s == Ops!ByPriority(q)
<1>6. DOMAIN s = D /\ \A p \in D : s[p] = q[At(p)]
  BY DEF Ops!ByPriority
<1> HIDE DEF At, s
<1>7. s \in [1..Len(q) -> [op : QueuedOperations, rank : Ranks]]
  <2>1. s = [p \in D |-> q[At(p)]]
    BY DEF s, At, Ops!ByPriority
  <2> QED
    BY <1>1, <1>4, <2>1
<1>8. s \in Queues /\ Len(s) = Len(q)
  BY <1>1, <1>7 DEF Queues
<1>9. Ops!Ids(s) = Ops!Ids(q)
  <2>1. Ops!Ids(s) \subseteq Ops!Ids(q)
    BY <1>4, <1>6 DEF Ops!Ids
  <2>2. ASSUME NEW i \in D PROVE q[i].op \in Ops!Ids(s)
    <3>1. Ops!Place(q, i) \in D /\ s[Ops!Place(q, i)] = q[i]
      BY <1>5, <1>6, OpsPlace
    <3> QED
      BY <1>6, <3>1 DEF Ops!Ids
  <2> QED
    BY <2>1, <2>2 DEF Ops!Ids
<1> QED
  BY <1>8, <1>9 DEF s

\* The queue holds no operation twice.
Distinct(q) == \A i, j \in DOMAIN q : q[i].op = q[j].op => i = j

OpsBooks ==
  /\ {o \in QueuedOperations : status[o] = "queued"} = Ops!Ids(queue)
  /\ {o \in QueuedOperations : status[o] = "running"} = UNION batches
  /\ \A a, b \in batches : a # b => a \cap b = {}

\* A queue never outgrows a batch, so that a batch takes all of it.
OpsInv == Ops!TypeOK /\ OpsBooks /\ Distinct(queue) /\ Len(queue) < MaxBatchSize

LEMMA OpsEmpty == <<>> \in Queues /\ Ops!Ids(<<>>) = {} /\ Len(<<>>) = 0 /\ Distinct(<<>>)
BY DEF Queues, Ops!Ids, Distinct

LEMMA OpsInit == Ops!Init => OpsInv
<1> SUFFICES ASSUME Ops!Init PROVE OpsInv
  OBVIOUS
<1>1. Ops!TypeOK
  BY DEF Ops!Init, Ops!TypeOK
<1>2. OpsBooks
  BY OpsEmpty DEF Ops!Init, OpsBooks
<1> QED
  BY <1>1, <1>2, OpsEmpty, OpsConstants DEF Ops!Init, OpsInv

\* A batch takes the whole queue.
LEMMA OpsBatch ==
  ASSUME NEW q \in Queues, Len(q) <= MaxBatchSize
  PROVE  Ops!Ids(Ops!BatchOf(q)) = Ops!Ids(q) /\ Ops!RestOf(q) = <<>>
<1> DEFINE s == Ops!ByPriority(q)
<1>1. s \in Queues /\ Len(s) = Len(q) /\ Len(q) \in Nat /\ Ops!Ids(s) = Ops!Ids(q)
  BY OpsSorted, OpsQueues
<1>2. Ops!Least(Len(q), MaxBatchSize) = Len(q)
  BY <1>1, OpsConstants DEF Ops!Least
<1> HIDE DEF s
<1>3. s \in Seq([op : QueuedOperations, rank : Ranks])
  BY <1>1 DEF Queues
<1>4. SubSeq(s, 1, Len(q)) = s
  BY <1>1, <1>3
<1>5. Ops!BatchOf(q) = s
  BY <1>2, <1>4 DEF Ops!BatchOf, s
<1>6. Ops!RestOf(q) = SubSeq(s, Len(q) + 1, Len(q))
  BY <1>1, <1>5 DEF Ops!RestOf, s
<1>7. SubSeq(s, Len(q) + 1, Len(q)) = <<>>
  BY <1>1, <1>3
<1> QED
  BY <1>1, <1>5, <1>6, <1>7

LEMMA OpsProcess ==
  ASSUME NEW q \in Queues, NEW now \in [QueuedOperations -> {"new", "queued", "running", "done", "refused"}],
         Ops!ProcessBatch(q, now), Len(q) <= MaxBatchSize, Ops!TypeOK,
         {o \in QueuedOperations : now[o] = "queued"} = Ops!Ids(q),
         {o \in QueuedOperations : now[o] = "running"} = UNION batches,
         \A a, b \in batches : a # b => a \cap b = {}
  PROVE  /\ queue' = <<>> /\ status' \in [QueuedOperations -> {"new", "queued", "running", "done", "refused"}]
         /\ batches' \subseteq SUBSET QueuedOperations /\ OpsBooks'
<1>1. CASE q = <<>>
  <2>1. queue' = <<>> /\ status' = now /\ batches' = batches
    BY <1>1 DEF Ops!ProcessBatch
  <2> QED
    BY <1>1, <2>1 DEF OpsBooks, Ops!TypeOK
<1>2. CASE q # <<>>
  <2>1. /\ queue' = <<>> /\ batches' = batches \cup {Ops!Ids(q)}
        /\ status' = [o \in QueuedOperations |-> IF o \in Ops!Ids(q) THEN "running" ELSE now[o]]
    BY <1>2, OpsBatch DEF Ops!ProcessBatch
  <2>2. Ops!Ids(q) \subseteq QueuedOperations /\ Ops!Ids(q) \cap UNION batches = {}
    OBVIOUS
  <2>3. \A a, b \in batches' : a # b => a \cap b = {}
    BY <2>1, <2>2
  <2>4. {o \in QueuedOperations : status'[o] = "running"} = UNION batches'
    BY <2>1, <2>2
  <2>5. {o \in QueuedOperations : status'[o] = "queued"} = Ops!Ids(queue')
    BY <2>1, OpsEmpty
  <2> QED
    BY <2>1, <2>2, <2>3, <2>4, <2>5 DEF OpsBooks, Ops!TypeOK
<1> QED
  BY <1>1, <1>2

LEMMA OpsAppend ==
  ASSUME NEW q \in Queues, NEW o \in QueuedOperations, NEW r \in Ranks, o \notin Ops!Ids(q), Distinct(q)
  PROVE  LET e == [op |-> o, rank |-> r] IN
         \A p \in {<<e>> \o q, Append(q, e)} :
            p \in Queues /\ Len(p) = Len(q) + 1 /\ Ops!Ids(p) = Ops!Ids(q) \cup {o} /\ Distinct(p)
<1> DEFINE E == [op : QueuedOperations, rank : Ranks]
           e == [op |-> o, rank |-> r]
<1>1. q \in Seq(E) /\ e \in E /\ e.op = o
  BY DEF Queues
<1> HIDE DEF E, e
<1>2. /\ Append(q, e) \in Seq(E) /\ Len(Append(q, e)) = Len(q) + 1 /\ Len(q) \in Nat
      /\ \A i \in 1..Len(q) : Append(q, e)[i] = q[i]
      /\ Append(q, e)[Len(q) + 1] = e
  BY <1>1
<1>3. /\ <<e>> \o q \in Seq(E) /\ Len(<<e>> \o q) = Len(q) + 1
      /\ \A i \in 1..Len(q) : (<<e>> \o q)[i + 1] = q[i]
      /\ (<<e>> \o q)[1] = e
  BY <1>1
<1>4. DOMAIN q = 1..Len(q) /\ \A i \in DOMAIN q : q[i].op # o
  BY <1>1 DEF Ops!Ids
<1>5. Ops!Ids(Append(q, e)) = Ops!Ids(q) \cup {o} /\ Distinct(Append(q, e))
  <2> DEFINE p == Append(q, e)
  <2>1. DOMAIN p = 1..(Len(q) + 1)
    BY <1>2
  <2> HIDE DEF p
  <2>2. \A i \in DOMAIN p : (i \in DOMAIN q /\ p[i] = q[i]) \/ (i = Len(q) + 1 /\ p[i].op = o)
    BY <1>1, <1>2, <1>4, <2>1 DEF p
  <2>3. \A i \in DOMAIN q : i \in DOMAIN p /\ p[i] = q[i]
    BY <1>2, <1>4, <2>1 DEF p
  <2>4. Len(q) + 1 \in DOMAIN p /\ p[Len(q) + 1].op = o
    BY <1>1, <1>2, <2>1 DEF p
  <2>5. Ops!Ids(p) = Ops!Ids(q) \cup {o}
    BY <2>2, <2>3, <2>4 DEF Ops!Ids
  <2>6. Distinct(p)
    BY <1>4, <2>2, <2>3 DEF Distinct
  <2> QED
    BY <2>5, <2>6 DEF p
<1>6. Ops!Ids(<<e>> \o q) = Ops!Ids(q) \cup {o} /\ Distinct(<<e>> \o q)
  <2> DEFINE p == <<e>> \o q
  <2>1. DOMAIN p = 1..(Len(q) + 1)
    BY <1>1, <1>3
  <2> HIDE DEF p
  <2>2. \A i \in DOMAIN p : (i - 1 \in DOMAIN q /\ p[i] = q[i - 1]) \/ (i = 1 /\ p[i].op = o)
    BY <1>1, <1>2, <1>3, <1>4, <2>1 DEF p
  <2>3. \A i \in DOMAIN q : i \in Nat /\ i + 1 \in DOMAIN p /\ p[i + 1] = q[i]
    BY <1>2, <1>3, <1>4, <2>1 DEF p
  <2>4. 1 \in DOMAIN p /\ p[1].op = o
    BY <1>1, <1>2, <1>3, <2>1 DEF p
  <2>5. Ops!Ids(p) = Ops!Ids(q) \cup {o}
    BY <2>2, <2>3, <2>4 DEF Ops!Ids
  <2>6. \A i \in DOMAIN p : i \in Nat
    BY <1>2, <2>1
  <2>7. Distinct(p)
    BY <1>4, <2>2, <2>6 DEF Distinct
  <2> QED
    BY <2>5, <2>7 DEF p
<1> QED
  BY <1>2, <1>3, <1>5, <1>6 DEF Queues, E, e

LEMMA OpsNext == ASSUME OpsInv, [Ops!Next]_operationState PROVE OpsInv'
<1>1. queue \in Queues /\ Len(queue) \in Nat
  BY OpsQueues DEF OpsInv, Ops!TypeOK, Queues
<1>2. ASSUME NEW q \in Queues, NEW now \in [QueuedOperations -> {"new", "queued", "running", "done", "refused"}],
             Ops!ProcessBatch(q, now), Len(q) <= MaxBatchSize,
             {o \in QueuedOperations : now[o] = "queued"} = Ops!Ids(q),
             {o \in QueuedOperations : now[o] = "running"} = UNION batches,
             batchTimer' \in {"unset", "set", "fired"}, early' \subseteq QueuedOperations
      PROVE  OpsInv'
  <2>1. /\ queue' = <<>> /\ status' \in [QueuedOperations -> {"new", "queued", "running", "done", "refused"}]
        /\ batches' \subseteq SUBSET QueuedOperations /\ OpsBooks'
    BY <1>2, OpsProcess DEF OpsInv, OpsBooks
  <2>2. queue' \in Queues /\ Len(queue') < MaxBatchSize /\ Distinct(queue')
    BY <2>1, OpsEmpty, OpsConstants
  <2> QED
    BY <1>2, <2>1, <2>2 DEF OpsInv, Ops!TypeOK, Queues
<1>3. ASSUME NEW o \in QueuedOperations, NEW r \in Ranks, status[o] = "new"
      PROVE  LET e == [op |-> o, rank |-> r]
                 now == [status EXCEPT ![o] = "queued"] IN
             /\ now \in [QueuedOperations -> {"new", "queued", "running", "done", "refused"}]
             /\ \A p \in {<<e>> \o queue, Append(queue, e)} :
                  /\ p \in Queues /\ Len(p) = Len(queue) + 1 /\ Distinct(p)
                  /\ {a \in QueuedOperations : now[a] = "queued"} = Ops!Ids(p)
             /\ {a \in QueuedOperations : now[a] = "running"} = UNION batches
  <2>1. o \notin Ops!Ids(queue)
    BY <1>3 DEF OpsInv, OpsBooks
  <2> DEFINE e == [op |-> o, rank |-> r]
             now == [status EXCEPT ![o] = "queued"]
  <2>2. \A p \in {<<e>> \o queue, Append(queue, e)} :
          p \in Queues /\ Len(p) = Len(queue) + 1 /\ Ops!Ids(p) = Ops!Ids(queue) \cup {o} /\ Distinct(p)
    BY <1>1, <2>1, OpsAppend DEF OpsInv
  <2>3. now \in [QueuedOperations -> {"new", "queued", "running", "done", "refused"}]
        /\ \A a \in QueuedOperations : now[a] = IF a = o THEN "queued" ELSE status[a]
    BY DEF OpsInv, Ops!TypeOK
  <2> HIDE DEF e, now
  <2>4. {a \in QueuedOperations : now[a] = "queued"} = Ops!Ids(queue) \cup {o}
    BY <2>3 DEF OpsInv, OpsBooks
  <2>5. {a \in QueuedOperations : now[a] = "running"} = UNION batches
    BY <1>3, <2>3 DEF OpsInv, OpsBooks
  <2> QED
    BY <2>2, <2>3, <2>4, <2>5 DEF e, now
<1>4. ASSUME NEW o \in QueuedOperations, NEW r \in Ranks, Ops!QueueOperation(o, r) PROVE OpsInv'
  <2> DEFINE q == Append(queue, [op |-> o, rank |-> r])
             now == [status EXCEPT ![o] = "queued"]
  <2>1. status[o] = "new" /\ early' \subseteq QueuedOperations
    BY <1>4 DEF Ops!QueueOperation, OpsInv, Ops!TypeOK
  <2>2. /\ now \in [QueuedOperations -> {"new", "queued", "running", "done", "refused"}]
        /\ q \in Queues /\ Len(q) = Len(queue) + 1 /\ Distinct(q)
        /\ {a \in QueuedOperations : now[a] = "queued"} = Ops!Ids(q)
        /\ {a \in QueuedOperations : now[a] = "running"} = UNION batches
    BY <1>3, <2>1
  <2>3. CASE Len(q) >= MaxBatchSize
    <3>1. Ops!ProcessBatch(q, now) /\ batchTimer' = batchTimer
      BY <1>4, <2>3 DEF Ops!QueueOperation
    <3>2. Len(q) <= MaxBatchSize
      BY <1>1, <2>2, OpsConstants DEF OpsInv
    <3> HIDE DEF q, now
    <3> QED
      BY <1>2, <2>1, <2>2, <3>1, <3>2 DEF OpsInv, Ops!TypeOK
  <2>4. CASE ~ Len(q) >= MaxBatchSize
    <3>1. /\ queue' = q /\ status' = now /\ batches' = batches /\ batchTimer' \in {"unset", "set", "fired"}
      BY <1>4, <2>4 DEF Ops!QueueOperation, OpsInv, Ops!TypeOK
    <3> HIDE DEF q, now
    <3>2. Len(q) < MaxBatchSize
      BY <1>1, <2>2, <2>4, OpsConstants
    <3> QED
      BY <2>1, <2>2, <3>1, <3>2 DEF OpsInv, OpsBooks, Ops!TypeOK, Queues
  <2> QED
    BY <2>3, <2>4
<1>5. ASSUME NEW o \in QueuedOperations, NEW r \in Ranks, Ops!RefuseWrite(o, r) PROVE OpsInv'
  <2>1. status[o] = "new" /\ batchTimer' = batchTimer /\ early' = early
    BY <1>5 DEF Ops!RefuseWrite
  <2>2. CASE r # 1
    <3>1. status' = [status EXCEPT ![o] = "refused"] /\ queue' = queue /\ batches' = batches
      BY <1>5, <2>2 DEF Ops!RefuseWrite
    <3> QED
      BY <2>1, <3>1 DEF OpsInv, OpsBooks, Ops!TypeOK
  <2>3. CASE r = 1
    <3> DEFINE e == [op |-> o, rank |-> r]
               now == [status EXCEPT ![o] = "queued"]
    <3>1. PICK q \in {<<e>> \o queue, Append(queue, e)} : Ops!ProcessBatch(q, now)
      BY <1>5, <2>3 DEF Ops!RefuseWrite
    <3>2. /\ now \in [QueuedOperations -> {"new", "queued", "running", "done", "refused"}]
          /\ \A p \in {<<e>> \o queue, Append(queue, e)} :
               /\ p \in Queues /\ Len(p) = Len(queue) + 1 /\ Distinct(p)
               /\ {a \in QueuedOperations : now[a] = "queued"} = Ops!Ids(p)
          /\ {a \in QueuedOperations : now[a] = "running"} = UNION batches
      BY <1>3, <2>1
    <3> HIDE DEF now, e
    <3>3. /\ q \in Queues /\ Len(q) = Len(queue) + 1
          /\ {a \in QueuedOperations : now[a] = "queued"} = Ops!Ids(q)
      BY <3>1, <3>2
    <3>4. Len(q) <= MaxBatchSize
      BY <1>1, <3>3, OpsConstants DEF OpsInv
    <3> QED
      BY <1>2, <2>1, <3>1, <3>3, <3>4, <3>2 DEF OpsInv, Ops!TypeOK
  <2> QED
    BY <2>2, <2>3
<1>6. CASE Ops!BatchTimerFires
  <2>1. Ops!ProcessBatch(queue, status) /\ batchTimer' = "fired" /\ early' = early
    BY <1>6 DEF Ops!BatchTimerFires
  <2>2. Len(queue) <= MaxBatchSize
    BY <1>1, OpsConstants DEF OpsInv
  <2> QED
    BY <1>1, <1>2, <2>1, <2>2 DEF OpsInv, OpsBooks, Ops!TypeOK
<1>7. ASSUME NEW b \in SUBSET QueuedOperations, Ops!BatchDone(b) PROVE OpsInv'
  <2>1. /\ b \in batches /\ batches' = batches \ {b} /\ UNCHANGED <<queue, batchTimer, early>>
        /\ status' = [o \in QueuedOperations |-> IF o \in b THEN "done" ELSE status[o]]
    BY <1>7 DEF Ops!BatchDone
  <2>2. \A x : x \in UNION batches' <=> x \in UNION batches /\ x \notin b
    <3>1. \A x : (\E a \in batches' : x \in a) <=> (\E a \in batches : x \in a) /\ x \notin b
      BY <2>1 DEF OpsInv, OpsBooks
    <3> QED
      BY <3>1
  <2>3. OpsBooks'
    BY <2>1, <2>2 DEF OpsInv, OpsBooks
  <2> QED
    BY <2>1, <2>3 DEF OpsInv, Ops!TypeOK
<1>8. CASE UNCHANGED operationState
  BY <1>8 DEF operationState, OpsInv, OpsBooks, Ops!TypeOK
<1> QED
  BY <1>4, <1>5, <1>6, <1>7, <1>8 DEF Ops!Next

LEMMA OpsAccounted == OpsInv => Ops!OperationsAccounted
<1> SUFFICES ASSUME OpsInv PROVE Ops!OperationsAccounted
  OBVIOUS
<1> DEFINE f == [i \in DOMAIN queue |-> queue[i].op]
<1>1. queue \in Queues /\ IsFiniteSet(DOMAIN queue) /\ Cardinality(DOMAIN queue) = Len(queue)
  BY OpsQueues DEF OpsInv, Ops!TypeOK, Queues
<1>2. f \in Bijection(DOMAIN queue, Ops!Ids(queue))
  BY DEF OpsInv, Distinct, Ops!Ids, Bijection, Injection, IsInjective, Surjection
<1> HIDE DEF f
<1>3. ExistsBijection(DOMAIN queue, Ops!Ids(queue))
  BY <1>2 DEF ExistsBijection
<1>4. Cardinality(Ops!Ids(queue)) = Len(queue)
  BY <1>1, <1>3, FS_Bijection
<1> QED
  BY <1>4, OpsCardinality DEF OpsInv, OpsBooks, Ops!OperationsAccounted

LEMMA OpsStep == [ComponentsNext]_componentVars => [Ops!Next]_operationState
BY PartStep DEF Only

\* However batches overlap and refused writes are queued again: no operation waits or runs
\* twice, none is lost between the queue and a batch, and the queue never holds a full batch
\* (_queueOperation, _processBatch).
THEOREM OperationsAccountedAlways == ComponentsSpec => []OperationsAccounted
<1>1. ComponentsInit => OpsInv
  BY OpsInit DEF ComponentsInit
<1>2. OpsInv /\ [ComponentsNext]_componentVars => OpsInv'
  BY OpsStep, OpsNext
<1>3. OpsInv => OperationsAccounted
  BY OpsAccounted DEF OpsInv, OperationsAccounted
<1> QED
  BY <1>1, <1>2, <1>3, PTL DEF ComponentsSpec

-----------------------------------------------------------------------------
(* Subscriptions: listeners and attempts.  An attempt registers at most    *)
(* one listener, between its discovery and its request; a subscription and *)
(* an unsubscription under way together are on record as such.             *)
LEMMA SubsConstants == MaxAttempts \in Nat \ {0}
BY ComponentsAssumption

SubsInv ==
  /\ Subs!TypeOK
  /\ \A k \in Requests :
       /\ request[k].op = "subscribe" /\ request[k].pc \in {"asking", "done"}
            /\ k \notin meanwhile \cup silenced => listening[k] > 0
       /\ listening[k] <= IF request[k].op = "subscribe" THEN request[k].attempts ELSE 0
       /\ request[k].op = "subscribe" /\ request[k].pc = "discovering"
            => listening[k] < request[k].attempts
       /\ request[k].pc = "delayed" => request[k].attempts < MaxAttempts
       /\ k \in silenced => request[k].op = "subscribe" /\ request[k].pc \in {"done", "failed"}
                            /\ listening[k] = 0
  /\ \A k \in Subs!UnderWay("subscribe") : Subs!UnderWay("unsubscribe") # {} => k \in meanwhile

LEMMA SubsInit == Subs!Init => SubsInv
<1> SUFFICES ASSUME Subs!Init PROVE SubsInv
  OBVIOUS
<1>1. \A k \in Requests : request[k] = Subs!NoRequest /\ request[k].op = "none" /\ request[k].pc = "new"
  BY DEF Subs!Init, Subs!NoRequest
<1> QED
  <2>1. Subs!TypeOK
    BY DEF Subs!Init, Subs!TypeOK
  <2>2. Subs!UnderWay("subscribe") = {}
    BY <1>1 DEF Subs!UnderWay
  <2> QED
    BY <1>1, <2>1, <2>2 DEF Subs!Init, SubsInv

LEMMA SubsNext == ASSUME SubsInv, [Subs!Next]_subscriptionState PROVE SubsInv'
<1> USE SubsConstants DEF SubsInv, Subs!TypeOK, Subs!NoRequest, Subs!UnderWay, Subs!Operations
<1>1. ASSUME NEW k \in Requests, NEW op \in Subs!Operations, Subs!Begin(k, op) PROVE SubsInv'
  BY <1>1 DEF Subs!Begin
<1>2. ASSUME NEW k \in Requests, Subs!Discovered(k) PROVE SubsInv'
  BY <1>2 DEF Subs!Discovered, Subs!Moves
<1>3. ASSUME NEW k \in Requests, Subs!Answered(k) PROVE SubsInv'
  BY <1>3 DEF Subs!Answered, Subs!Moves
<1>4. ASSUME NEW k \in Requests, Subs!Unsubscribed(k) PROVE SubsInv'
  <2>1. /\ request' = [request EXCEPT ![k].pc = "done"]
        /\ request[k].op = "unsubscribe" /\ request[k].pc = "asking"
        /\ listening' = [j \in Requests |-> 0]
        /\ silenced' = silenced \cup (Subs!Ended \ meanwhile)
        /\ UNCHANGED <<connected, meanwhile>> /\ notifying' = FALSE
    BY <1>4 DEF Subs!Unsubscribed, Subs!Moves, Subs!RemoveAllListeners
  <2>2. Subs!TypeOK'
    <3>1. request[k] \in [op : Subs!Operations, pc : {"discovering", "asking", "delayed", "done", "failed"},
                          attempts : 1..MaxAttempts]
      BY <2>1
    <3>2. [request[k] EXCEPT !.pc = "done"] \in
            [op : Subs!Operations, pc : {"discovering", "asking", "delayed", "done", "failed"},
             attempts : 1..MaxAttempts]
      BY <3>1
    <3> QED
      BY <2>1, <3>2 DEF Subs!Ended
  <2>3. \A j \in Requests : j # k => request'[j] = request[j]
    BY <2>1
  <2>4. request'[k].op = "unsubscribe" /\ request'[k].pc = "done"
    BY <2>1
  <2>5. \A j \in Subs!UnderWay("subscribe") : j \in meanwhile
    BY <2>1
  <2> QED
    BY <2>1, <2>2, <2>3, <2>4, <2>5 DEF Subs!Ended
<1>5. ASSUME NEW k \in Requests, Subs!AttemptFails(k) PROVE SubsInv'
  BY <1>5 DEF Subs!AttemptFails, Subs!Moves
<1>6. ASSUME NEW k \in Requests, Subs!Retry(k) PROVE SubsInv'
  BY <1>6 DEF Subs!Retry
<1>7. CASE Subs!LinkChanges \/ UNCHANGED subscriptionState
  BY <1>7 DEF Subs!LinkChanges, subscriptionState
<1> QED
  BY <1>1, <1>2, <1>3, <1>4, <1>5, <1>6, <1>7 DEF Subs!Next

LEMMA SubsStep == [ComponentsNext]_componentVars => [Subs!Next]_subscriptionState
BY PartStep DEF Only

\* However attempts fail, are retried and overlap: who has subscribed is heard, at most once
\* per attempt, and who was unsubscribed afterwards is not (subscribeToCharacteristic,
\* unsubscribeFromCharacteristic, withRetry).
THEOREM SubscriptionsAccountedAlways == ComponentsSpec => []SubscriptionsAccounted
<1>1. ComponentsInit => SubsInv
  BY SubsInit DEF ComponentsInit
<1>2. SubsInv /\ [ComponentsNext]_componentVars => SubsInv'
  BY SubsStep, SubsNext
<1>3. SubsInv => SubscriptionsAccounted
  BY DEF SubsInv, SubscriptionsAccounted, Subs!SubscriptionsAccounted
<1> QED
  BY <1>1, <1>2, <1>3, PTL DEF ComponentsSpec

-----------------------------------------------------------------------------
(* The tuning of the radio: the property holds of every state of the right *)
(* types; the proof follows the sequence of adjustments.                   *)
LEMMA RadioConstants == Bytes \subseteq Nat /\ Batteries \subseteq Nat
BY ComponentsAssumption

LEMMA RadioInit == Radio!Init => Radio!TypeOK
<1> SUFFICES ASSUME Radio!Init PROVE Radio!TypeOK
  OBVIOUS
<1>1. draining \in BOOLEAN
  BY DEF Radio!Init
<1> QED
  BY <1>1 DEF Radio!Init, Radio!TypeOK, Radio!Priorities, Radio!HighRate, Radio!Unstable

LEMMA RadioNext == ASSUME Radio!TypeOK, [Radio!Next]_radioState PROVE Radio!TypeOK'
<1> USE RadioConstants DEF Radio!TypeOK
<1>1. ASSUME NEW b \in Bytes, Radio!RecordDataTransfer(b) PROVE Radio!TypeOK'
  <2>1. Radio!Min({rate + b, Radio!HighRate}) \in 0..Radio!HighRate
    BY DEF Radio!Min, Radio!HighRate
  <2> QED
    BY <1>1, <2>1 DEF Radio!RecordDataTransfer
<1>2. CASE Radio!RecordConnectionDrop
  <2>1. Radio!Min({drops + 1, Radio!Unstable}) \in 0..Radio!Unstable
    BY DEF Radio!Min, Radio!Unstable
  <2> QED
    BY <1>2, <2>1 DEF Radio!RecordConnectionDrop
<1>3. CASE Radio!SecondPasses \/ Radio!DropsAge
  BY <1>3 DEF Radio!SecondPasses, Radio!DropsAge, Radio!HighRate, Radio!Unstable
<1> QED
  BY <1>1, <1>2, <1>3
  DEF Radio!Next, radioState, Radio!SetPriority, Radio!UpdateDeviceBattery, Radio!RecordPowerMetrics, Radio!RecordRSSI

\* The parameters before the adjustments for stability and power.
LEMMA RadioRate ==
  ASSUME Radio!TypeOK
  PROVE  LET p == Radio!AdjustForDataRate(Radio!GetBaseParameters) IN
         /\ p.interval \in {100, 200, 400} /\ p.latency \in 0..3 /\ p.timeout = 2000
         /\ p = Radio!Params(p.interval, p.latency, p.timeout)
         /\ rate >= Radio!HighRate => p.interval = 100 /\ p.latency = 0
         /\ priority # "low" => p.latency <= 1 /\ (p.latency > 0 \/ p.interval > 200 => rate <= Radio!LowRate)
<1> DEFINE b == Radio!GetBaseParameters
           p == Radio!AdjustForDataRate(b)
<1>1. /\ b \in {Radio!Params(100, 0, 2000), Radio!Params(200, 0, 2000), Radio!Params(400, 2, 2000)}
      /\ b = Radio!Params(400, 2, 2000) => priority = "low"
  BY DEF Radio!GetBaseParameters, Radio!Params
<1>2. CASE rate >= Radio!HighRate
  <2>1. Radio!Min({b.interval, 100}) = 100
    BY <1>1 DEF Radio!Params, Radio!Min
  <2> QED
    BY <1>1, <1>2, <2>1 DEF Radio!AdjustForDataRate, Radio!Params, Radio!HighRate
<1>3. CASE rate <= Radio!LowRate
  <2>1. Radio!Max({b.interval, 400}) = 400
    BY <1>1 DEF Radio!Params, Radio!Max
  <2>2. Radio!LatencyPlus(b, 1) = b.latency + 1
    BY <1>1 DEF Radio!Params, Radio!LatencyPlus, Radio!MaxLatency, Radio!Min
  <2>3. p = Radio!Params(400, b.latency + 1, b.timeout) /\ ~ rate >= Radio!HighRate
    BY <1>3, <2>1, <2>2 DEF Radio!AdjustForDataRate, Radio!HighRate, Radio!LowRate, Radio!TypeOK
  <2> QED
    BY <1>1, <1>3, <2>3 DEF Radio!Params
<1>4. CASE ~ rate >= Radio!HighRate /\ ~ rate <= Radio!LowRate
  BY <1>1, <1>4 DEF Radio!AdjustForDataRate, Radio!Params
<1> QED
  BY <1>2, <1>3, <1>4

LEMMA RadioPower ==
  ASSUME Radio!TypeOK
  PROVE  Radio!OptimizedPower \in -20..0 /\ (drops = Radio!Unstable /\ ~draining => Radio!OptimizedPower = 0)
<1> DEFINE a == Radio!PowerForRSSI(Radio!GetBasePowerLevel)
           b == Radio!PowerForBattery(a)
           c == Radio!PowerForStability(b)
<1>1. Radio!GetBasePowerLevel \in -10..0
  BY DEF Radio!GetBasePowerLevel
<1>2. a \in -15..0
  <2> DEFINE l == Radio!GetBasePowerLevel
  <2>1. Radio!Max({l, -5}) \in -15..0 /\ Radio!Max({l, -10}) \in -15..0 /\ Radio!Min({l, -15}) \in -15..0
    BY <1>1 DEF Radio!Min, Radio!Max
  <2> HIDE DEF l
  <2> QED
    BY <1>1, <2>1 DEF Radio!PowerForRSSI, Radio!TypeOK, Radio!Signals, l
<1>3. b \in -15..0
  <2> HIDE DEF a
  <2>1. Radio!Min({a, -15}) \in -15..0
    BY <1>2 DEF Radio!Min
  <2> QED
    BY <1>2, <2>1 DEF Radio!PowerForBattery
<1>4. c \in -15..0 /\ (drops = Radio!Unstable => c = 0)
  <2> HIDE DEF b
  <2> QED
    BY <1>3 DEF Radio!PowerForStability, Radio!TypeOK, Radio!Unstable
<1>5. Radio!OptimizedPower = Radio!PowerForDrain(c)
  BY DEF Radio!OptimizedPower
<1> HIDE DEF c
<1>6. Radio!Min({c, -10}) \in -15..0
  BY <1>4 DEF Radio!Min
<1>7. Radio!OptimizedPower = IF draining THEN Radio!Min({c, -10}) ELSE c
  BY <1>5 DEF Radio!PowerForDrain
<1> HIDE DEF c
<1> QED
  BY <1>4, <1>6, <1>7

LEMMA RadioServes == Radio!TypeOK => Radio!TuningServes
<1> SUFFICES ASSUME Radio!TypeOK PROVE Radio!TuningServes
  OBVIOUS
<1> DEFINE p == Radio!AdjustForDataRate(Radio!GetBaseParameters)
           q == Radio!AdjustForBattery(p)
           r == Radio!AdjustForStability(q)
<1>1. /\ p.interval \in {100, 200, 400} /\ p.latency \in 0..3 /\ p.timeout = 2000
      /\ p = Radio!Params(p.interval, p.latency, p.timeout)
      /\ rate >= Radio!HighRate => p.interval = 100 /\ p.latency = 0
      /\ priority # "low" => p.latency <= 1 /\ (p.latency > 0 \/ p.interval > 200 => rate <= Radio!LowRate)
  BY RadioRate
<1> DEFINE Low == battery # None /\ battery <= Radio!LowBattery
<1>2. /\ q.interval \in Nat
      /\ Low => q.interval = 2 * p.interval /\ q.latency = p.latency + 2 /\ q.timeout = 4000
      /\ ~ Low => /\ q.latency = p.latency
                  /\ \/ q.interval = p.interval /\ q.timeout = 2000
                     \/ 2 * q.interval = p.interval /\ q.timeout = 1000
  <2> HIDE DEF p
  <2>1. CASE battery = None
    BY <1>1, <2>1 DEF Radio!AdjustForBattery
  <2>2. CASE Low
    <3>1. Radio!Max({p.interval * 2, Radio!MinInterval}) = p.interval * 2
      BY <1>1 DEF Radio!Max, Radio!MinInterval
    <3>2. Radio!LatencyPlus(p, 2) = p.latency + 2
      BY <1>1 DEF Radio!LatencyPlus, Radio!Min, Radio!MaxLatency
    <3>3. Radio!Min({p.timeout * 2, Radio!MaxTimeout}) = 4000
      BY <1>1 DEF Radio!Min, Radio!MaxTimeout
    <3>4. q = Radio!Params(p.interval * 2, p.latency + 2, 4000)
      BY <2>2, <3>1, <3>2, <3>3 DEF Radio!AdjustForBattery
    <3> QED
      BY <1>1, <2>2, <3>4 DEF Radio!Params
  <2>3. CASE battery # None /\ ~ battery <= Radio!LowBattery
    <3>1. CASE battery >= Radio!HighBattery
      <4>1. /\ Radio!Max({p.interval \div 2, Radio!MinInterval}) \in Nat
            /\ 2 * Radio!Max({p.interval \div 2, Radio!MinInterval}) = p.interval
        <5>1. 100 \div 2 = 50 /\ 200 \div 2 = 100 /\ 400 \div 2 = 200
          OBVIOUS
        <5>2. Radio!Max({50, Radio!MinInterval}) = 50 /\ Radio!Max({100, Radio!MinInterval}) = 100 /\ Radio!Max({200, Radio!MinInterval}) = 200
          BY DEF Radio!Max, Radio!MinInterval
        <5>3. CASE p.interval = 100
          BY <5>1, <5>2, <5>3
        <5>4. CASE p.interval = 200
          BY <5>1, <5>2, <5>4
        <5>5. CASE p.interval = 400
          BY <5>1, <5>2, <5>5
        <5> QED
          BY <1>1, <5>3, <5>4, <5>5
      <4>2. Radio!Max({p.interval * 2, Radio!MinTimeout}) = 1000
        BY <1>1 DEF Radio!Max, Radio!MinTimeout
      <4>3. q = Radio!Params(Radio!Max({p.interval \div 2, Radio!MinInterval}), p.latency, 1000)
        BY <2>3, <3>1, <4>2 DEF Radio!AdjustForBattery
      <4> QED
        BY <1>1, <2>3, <4>1, <4>3 DEF Radio!Params
    <3>2. CASE ~ battery >= Radio!HighBattery
      BY <1>1, <2>3, <3>2 DEF Radio!AdjustForBattery
    <3> QED
      BY <3>1, <3>2
  <2> QED
    BY <2>1, <2>2, <2>3
<1> HIDE DEF p, q
<1>3. q.interval \in Nat /\ q.interval <= 800 /\ q.interval >= 50 /\ q.latency \in 0..5 /\ q.timeout \in {1000, 2000, 4000}
  BY <1>1, <1>2
<1>4. /\ drops = Radio!Unstable => r.interval = q.interval /\ r.latency = 0 /\ r.timeout \in {4000, 8000, 10000}
      /\ drops # Radio!Unstable => r = q
  <2>1. Radio!Min({q.timeout * 4, Radio!MaxTimeout}) \in {4000, 8000, 10000}
    <3>1. Radio!Min({4000, Radio!MaxTimeout}) = 4000 /\ Radio!Min({8000, Radio!MaxTimeout}) = 8000 /\ Radio!Min({16000, Radio!MaxTimeout}) = 10000
      BY DEF Radio!Min, Radio!MaxTimeout
    <3>2. q.timeout * 4 \in {4000, 8000, 16000}
      BY <1>3
    <3> QED
      BY <3>1, <3>2
  <2>2. drops = Radio!Unstable => r = Radio!Params(q.interval, 0, Radio!Min({q.timeout * 4, Radio!MaxTimeout}))
    BY DEF Radio!AdjustForStability, Radio!Unstable
  <2>3. drops # Radio!Unstable => r = q
    BY DEF Radio!AdjustForStability, Radio!Unstable, Radio!TypeOK
  <2> QED
    BY <2>1, <2>2, <2>3 DEF Radio!Params
<1> HIDE DEF r
<1>5. /\ r.interval \in Nat /\ r.latency \in Nat /\ r.timeout \in Nat
      /\ draining => /\ Radio!Optimized.interval \in Nat /\ 2 * Radio!Optimized.interval <= 3 * r.interval
                     /\ Radio!Optimized.interval >= r.interval
                     /\ Radio!Optimized.latency = r.latency + 1 /\ Radio!Optimized.timeout = r.timeout
      /\ ~ draining => Radio!Optimized = r
  <2>1. Radio!Optimized = Radio!AdjustForPower(r)
    BY DEF Radio!Optimized, p, q, r
  <2>2. r.interval \in Nat /\ r.interval <= 800 /\ r.interval >= 50 /\ r.latency \in 0..5 /\ r.timeout \in Nat
    BY <1>3, <1>4
  <2> DEFINE i == Radio!Min({(r.interval * 3) \div 2, Radio!MaxInterval})
  <2>3. i \in Nat /\ 2 * i <= 3 * r.interval /\ i >= r.interval
    BY <2>2 DEF Radio!Min, Radio!MaxInterval
  <2>4. Radio!LatencyPlus(r, 1) = r.latency + 1
    BY <2>2 DEF Radio!Min, Radio!LatencyPlus, Radio!MaxLatency
  <2>5. draining => Radio!Optimized = Radio!Params(i, r.latency + 1, r.timeout)
    BY <2>1, <2>4 DEF Radio!AdjustForPower
  <2>6. ~ draining => Radio!Optimized = r
    BY <2>1 DEF Radio!AdjustForPower
  <2> HIDE DEF i
  <2> QED
    BY <2>2, <2>3, <2>5, <2>6 DEF Radio!Params
<1>6. Radio!Refused => /\ drops < Radio!Unstable /\ rate < Radio!HighRate
                       /\ draining \/ Low
                       /\ priority = "low" \/ (rate <= Radio!LowRate /\ draining)
  <2> DEFINE o == Radio!Optimized
  <2>1. /\ o.interval \in Nat /\ o.interval >= r.interval /\ 2 * o.interval <= 3 * r.interval
        /\ o.latency = r.latency \/ (draining /\ o.latency = r.latency + 1)
        /\ ~ draining => o.interval = r.interval
        /\ o.timeout = r.timeout
    BY <1>5
  <2> HIDE DEF o
  <2>2. /\ o.interval \in Nat /\ o.interval >= 40 /\ o.interval <= 2000
        /\ o.latency \in 0..10
        /\ o.timeout \in Nat /\ o.timeout >= 1000 /\ o.timeout <= 10000
    BY <1>3, <1>4, <1>5, <2>1
  <2> DEFINE covered == o.interval * (o.latency + 1)
  <2>3. /\ o.latency = 0 => covered = o.interval
        /\ o.latency = 1 => covered = 2 * o.interval
        /\ o.latency = 2 => covered = 3 * o.interval
        /\ o.latency = 3 => covered = 4 * o.interval
    <3>1. ASSUME NEW i \in Nat PROVE i * (0 + 1) = i /\ i * (1 + 1) = 2 * i /\ i * (2 + 1) = 3 * i /\ i * (3 + 1) = 4 * i
      OBVIOUS
    <3> QED
      BY <2>1, <3>1
  <2>4. Radio!Refused <=> ~ o.timeout >= covered
    <3>1. /\ Radio!MinInterval \in Int /\ Radio!MaxInterval \in Int /\ Radio!MinInterval <= o.interval /\ o.interval <= Radio!MaxInterval
          /\ Radio!MinTimeout \in Int /\ Radio!MaxTimeout \in Int /\ Radio!MinTimeout <= o.timeout /\ o.timeout <= Radio!MaxTimeout
      BY <2>2 DEF Radio!MinInterval, Radio!MaxInterval, Radio!MinTimeout, Radio!MaxTimeout
    <3>2. o.interval \in Radio!MinInterval..Radio!MaxInterval /\ o.timeout \in Radio!MinTimeout..Radio!MaxTimeout
      BY <2>2, <3>1
    <3>3. o.latency \in 0..Radio!MaxLatency
      BY <2>2 DEF Radio!MaxLatency
    <3>4. Radio!Refused <=> ~ Radio!ValidParameters(o)
      BY DEF Radio!Refused, o
    <3> QED
      BY <3>2, <3>3, <3>4 DEF Radio!ValidParameters
  <2> HIDE DEF covered
  <2>5. CASE drops = Radio!Unstable
    <3>1. o.latency \in {0, 1} /\ o.interval <= 1200 /\ o.timeout >= 4000
      BY <1>3, <1>4, <1>5, <2>1, <2>5
    <3> QED
      BY <2>1, <2>2, <2>3, <2>4, <3>1
  <2>6. CASE rate >= Radio!HighRate /\ drops # Radio!Unstable
    <3>1. \/ o.latency \in {2, 3} /\ o.interval <= 300 /\ o.timeout = 4000
          \/ o.latency \in {0, 1} /\ o.interval <= 150 /\ o.timeout >= 1000
      BY <1>1, <1>2, <1>4, <1>5, <2>1, <2>6
    <3> QED
      BY <2>1, <2>2, <2>3, <2>4, <3>1
  <2>7. CASE ~ draining /\ ~ Low /\ drops # Radio!Unstable
    <3>1. \/ o.latency \in {0, 1, 2, 3} /\ o.interval <= 400 /\ o.timeout = 2000
          \/ o.latency \in {0, 1, 2, 3} /\ o.interval <= 200 /\ o.timeout = 1000
      BY <1>1, <1>2, <1>4, <1>5, <2>1, <2>7
    <3> QED
      BY <2>1, <2>2, <2>3, <2>4, <3>1
  <2>8. CASE priority # "low" /\ ~ rate <= Radio!LowRate /\ drops # Radio!Unstable
    <3>1. p.latency = 0 /\ p.interval <= 200
      BY <1>1, <2>8
    <3>2. \/ o.latency \in {2, 3} /\ o.interval <= 600 /\ o.timeout = 4000
          \/ o.latency \in {0, 1} /\ o.interval <= 300 /\ o.timeout >= 1000
      BY <1>1, <1>2, <1>4, <1>5, <2>1, <2>8, <3>1
    <3> QED
      BY <2>1, <2>2, <2>3, <2>4, <3>2
  <2>9. CASE priority # "low" /\ ~ draining /\ drops # Radio!Unstable
    <3>1. p.latency \in {0, 1}
      BY <1>1, <2>9
    <3>2. \/ o.latency \in {2, 3} /\ o.interval <= 800 /\ o.timeout = 4000
          \/ o.latency \in {0, 1} /\ o.interval <= 400 /\ o.timeout >= 1000
      BY <1>1, <1>2, <1>4, <1>5, <2>1, <2>9, <3>1
    <3> QED
      BY <2>1, <2>2, <2>3, <2>4, <3>2
  <2> QED
    BY <2>5, <2>6, <2>7, <2>8, <2>9 DEF Radio!TypeOK, Radio!Unstable, Radio!HighRate
<1> QED
  BY <1>6, RadioPower DEF Radio!TuningServes

LEMMA RadioPartStep == [ComponentsNext]_componentVars => [Radio!Next]_radioState
BY PartStep DEF Only

\* Whatever the devices and the caller record, in whatever order, the adjustments never
\* add up to parameters that ConnectionParameters itself refuses for a busy or an unstable
\* link, or where no energy is saved; the power level stays one the class accepts
\* (getOptimizedParameters, getOptimizedPowerLevel).
THEOREM TuningServesAlways == ComponentsSpec => []TuningServes
<1>1. ComponentsInit => Radio!TypeOK
  BY RadioInit DEF ComponentsInit
<1>2. Radio!TypeOK /\ [ComponentsNext]_componentVars => Radio!TypeOK'
  BY RadioPartStep, RadioNext
<1>3. Radio!TypeOK => TuningServes
  BY RadioServes DEF TuningServes
<1> QED
  BY <1>1, <1>2, <1>3, PTL DEF ComponentsSpec
=============================================================================
