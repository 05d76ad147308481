---------------------- MODULE ServerConnectionPoolProofs ----------------------
(***************************************************************************)
(* Proofs about ServerConnectionPool, for any callers, connection ids,     *)
(* sizes and load threshold.                                               *)
(*                                                                         *)
(* PoolPartition is not inductive: a caller that resumes puts the          *)
(* connection it created among those in use, whatever happened meanwhile.  *)
(* CreatedInPool says that the connection is still in the pool then.       *)
(***************************************************************************)
EXTENDS ServerConnectionPool, FiniteSetTheorems, TLAPS

\* A connection some caller awaits is in the pool: validation, which could
\* remove it, does not run before the await is over.
CreatedInPool == \A a \in Callers : phase[a] = "creating" => conn[a] \in pool

Partition == PoolPartition /\ CreatedInPool

-----------------------------------------------------------------------------
LEMMA PoolFinite ==
  ASSUME TypeOK
  PROVE  IsFiniteSet(pool) /\ Cardinality(pool) \in Nat
BY PoolAssumption, FS_Subset, FS_CardinalityType DEF TypeOK

\* Load balancing never aims above maxSize.
LEMMA TargetType == ASSUME TypeOK PROVE TargetSize \in 0..MaxSize
BY PoolFinite, PoolAssumption DEF TargetSize

\* What createConnection does to the collections.
LEMMA CreateTypes ==
  ASSUME TypeOK, NEW x \in Conns, CreateConnection(x)
  PROVE  /\ pool' \in SUBSET Conns /\ available' \in SUBSET Conns
         /\ inUse' \in SUBSET Conns /\ stale' \in SUBSET pool'
         /\ shared' \in SUBSET Conns
BY DEF TypeOK, CreateConnection

\* The part of the type invariant about callers.
CallersOK ==
  /\ phase \in [Callers -> Phases]
  /\ conn \in [Callers -> Conns \cup {None}]
  /\ \A a \in Callers : conn[a] # None <=> phase[a] \in {"creating", "holding"}

PoolOK ==
  /\ pool \in SUBSET Conns /\ available \in SUBSET Conns
  /\ inUse \in SUBSET Conns /\ stale \in SUBSET pool
  /\ shared \in SUBSET Conns

LEMMA TakeTypes ==
  ASSUME TypeOK, NEW a \in Callers, phase[a] \in {"idle", "balanced"}, TakeConnection(a)
  PROVE  PoolOK' /\ CallersOK'
<1> USE PoolAssumption DEF PoolOK, CallersOK, Phases
<1>1. ASSUME NEW x \in ValidAvailable,
             available' = available \ {x},
             inUse' = inUse \cup {x},
             phase' = [phase EXCEPT ![a] = "holding"],
             conn' = [conn EXCEPT ![a] = x],
             shared' = IF x \in Awaited THEN shared \cup {x} ELSE shared,
             UNCHANGED <<pool, stale>>
      PROVE  PoolOK' /\ CallersOK'
  BY <1>1 DEF TypeOK, ValidAvailable
<1>2. ASSUME NEW x \in Conns,
             CreateConnection(x),
             conn' = [conn EXCEPT ![a] = x],
             phase' = [phase EXCEPT ![a] = "creating"]
      PROVE  PoolOK' /\ CallersOK'
  BY <1>2, CreateTypes DEF TypeOK
<1>3. CASE /\ phase' = [phase EXCEPT ![a] = "idle"]
           /\ UNCHANGED <<poolVars, conn>>
  BY <1>3 DEF TypeOK, poolVars
<1> QED BY <1>1, <1>2, <1>3 DEF TakeConnection

LEMMA TypeInit == Init => TypeOK
<1> SUFFICES ASSUME Init PROVE TypeOK
  OBVIOUS
<1>1. PoolOK
  BY DEF Init, PoolOK
<1>2. phase \in [Callers -> Phases] /\ conn \in [Callers -> Conns \cup {None}]
  BY DEF Init, Phases
<1>3. \A a \in Callers : conn[a] # None <=> phase[a] \in {"creating", "holding"}
  BY DEF Init
<1>4. target \in [Callers -> 0..MaxSize] /\ missing \in 0..MinSize
  BY PoolAssumption DEF Init
<1> QED BY <1>1, <1>2, <1>3, <1>4 DEF Init, TypeOK, PoolOK

LEMMA TypeStep == TypeOK /\ [Next]_vars => TypeOK'
<1> SUFFICES ASSUME TypeOK, [Next]_vars PROVE TypeOK'
  OBVIOUS
<1> USE PoolAssumption
<1>1. ASSUME NEW a \in Callers, Acquire(a) PROVE TypeOK'
  <2>1. CASE /\ phase' = [phase EXCEPT ![a] = "balancing"]
             /\ target' = [target EXCEPT ![a] = TargetSize]
             /\ \/ \E x \in Conns : CreateConnection(x)
                \/ UNCHANGED poolVars
             /\ UNCHANGED conn
    <3>1. PoolOK'
      BY <2>1, CreateTypes DEF PoolOK, TypeOK, poolVars
    <3>2. phase[a] = "idle"
      BY <1>1 DEF Acquire
    <3> QED BY <1>1, <2>1, <3>1, <3>2, TargetType
            DEF TypeOK, PoolOK, Phases, Acquire, fillVars
  <2>2. CASE TakeConnection(a) /\ UNCHANGED target
    BY <1>1, <2>2, TakeTypes DEF TypeOK, PoolOK, CallersOK, Acquire, fillVars
  <2> QED BY <1>1, <2>1, <2>2 DEF Acquire
<1>2. ASSUME NEW a \in Callers, Balance(a) PROVE TypeOK'
  <2>1. PoolOK'
    BY <1>2, CreateTypes DEF Balance, PoolOK, TypeOK, poolVars
  <2> QED BY <1>2, <2>1 DEF TypeOK, PoolOK, Phases, Balance, fillVars
<1>3. ASSUME NEW a \in Callers, AcquireBalanced(a) PROVE TypeOK'
  BY <1>3, TakeTypes DEF TypeOK, PoolOK, CallersOK, AcquireBalanced, fillVars
<1>4. ASSUME NEW a \in Callers, FinishCreate(a) PROVE TypeOK'
  BY <1>4 DEF TypeOK, Phases, FinishCreate, fillVars
<1>5. ASSUME NEW a \in Callers, Release(a) PROVE TypeOK'
  BY <1>5 DEF TypeOK, Phases, Release, fillVars
<1>6. ASSUME NEW x \in Conns, Age(x) PROVE TypeOK'
  BY <1>6 DEF TypeOK, Age, callerVars, fillVars
<1>7. CASE Initialize
  BY <1>7 DEF TypeOK, Initialize, poolVars, callerVars
<1>8. CASE InitializeOne
  <2>1. PoolOK'
    BY <1>8, CreateTypes DEF InitializeOne, PoolOK, TypeOK, poolVars
  <2> QED BY <1>8, <2>1 DEF TypeOK, PoolOK, InitializeOne, callerVars
<1>9. CASE StartValidationTimer
  BY <1>9 DEF TypeOK, StartValidationTimer, poolVars, callerVars
<1>10. CASE Validate
  BY <1>10 DEF TypeOK, Validate, RemoveInvalid, Remove, callerVars
<1>11. CASE Refill
  <2>1. PoolOK'
    BY <1>11, CreateTypes DEF Refill, PoolOK, TypeOK, poolVars
  <2> QED BY <1>11, <2>1 DEF TypeOK, PoolOK, Refill, callerVars
<1>12. CASE UNCHANGED vars
  BY <1>12 DEF TypeOK, vars
<1> QED BY <1>1, <1>2, <1>3, <1>4, <1>5, <1>6, <1>7, <1>8, <1>9, <1>10, <1>11, <1>12
        DEF Next, Resume

\* The variables of the pool keep their types, and a caller knows a connection
\* exactly while it creates or holds one.
THEOREM TypeCorrect == Spec => []TypeOK
<1>1. Init => TypeOK
  BY TypeInit
<1>2. TypeOK /\ [Next]_vars => TypeOK'
  BY TypeStep
<1> QED BY <1>1, <1>2, PTL DEF Spec

-----------------------------------------------------------------------------
\* A connection is created only below a limit that is at most maxSize, so that
\* every path that creates one keeps the bound.
LEMMA CreateBounded ==
  ASSUME TypeOK, NEW x \in Conns, CreateConnection(x), Cardinality(pool) < MaxSize
  PROVE  Cardinality(pool') <= MaxSize
<1>1. Cardinality(pool') = Cardinality(pool) + 1
  BY PoolFinite, FS_AddElement DEF CreateConnection
<1> QED BY <1>1, PoolFinite, PoolAssumption

LEMMA TakeBounded ==
  ASSUME TypeOK, PoolBounded, NEW a \in Callers, TakeConnection(a)
  PROVE  PoolBounded'
BY CreateBounded DEF TakeConnection, Room, PoolBounded, poolVars

LEMMA BoundedStep == TypeOK /\ PoolBounded /\ [Next]_vars => PoolBounded'
<1> SUFFICES ASSUME TypeOK, PoolBounded, [Next]_vars PROVE PoolBounded'
  OBVIOUS
<1> USE PoolAssumption
<1>1. ASSUME NEW a \in Callers, Acquire(a) PROVE PoolBounded'
  <2>1. CASE /\ \/ Cardinality(pool) < TargetSize /\ \E x \in Conns : CreateConnection(x)
                \/ UNCHANGED poolVars
    BY <2>1, CreateBounded, TargetType, PoolFinite DEF PoolBounded, poolVars
  <2>2. CASE TakeConnection(a)
    BY <2>2, TakeBounded
  <2> QED BY <1>1, <2>1, <2>2 DEF Acquire
<1>2. ASSUME NEW a \in Callers, Balance(a) PROVE PoolBounded'
  <2>1. target[a] \in 0..MaxSize
    BY DEF TypeOK
  <2> QED BY <1>2, <2>1, CreateBounded, PoolFinite DEF Balance, PoolBounded, poolVars
<1>3. ASSUME NEW a \in Callers, AcquireBalanced(a) PROVE PoolBounded'
  BY <1>3, TakeBounded DEF AcquireBalanced
<1>4. ASSUME NEW a \in Callers, FinishCreate(a) \/ Release(a) PROVE PoolBounded'
  BY <1>4 DEF FinishCreate, Release, PoolBounded
<1>5. CASE \/ Initialize \/ StartValidationTimer \/ UNCHANGED vars
           \/ \E x \in Conns : Age(x)
  BY <1>5 DEF Initialize, StartValidationTimer, Age, vars, poolVars, PoolBounded
<1>6. CASE InitializeOne \/ Refill
  BY <1>6, CreateBounded DEF InitializeOne, Refill, Room, PoolBounded, poolVars
<1>7. CASE Validate
  <2>1. pool' \in SUBSET pool
    BY <1>7 DEF Validate, RemoveInvalid, Remove
  <2>2. Cardinality(pool') <= Cardinality(pool) /\ Cardinality(pool') \in Nat
    BY <2>1, PoolFinite, FS_Subset, FS_CardinalityType
  <2> QED BY <2>2, PoolFinite DEF PoolBounded
<1> QED BY <1>1, <1>2, <1>3, <1>4, <1>5, <1>6, <1>7 DEF Next, Resume

\* The pool never exceeds maxSize, whichever of acquisition, load balancing,
\* initialisation and validation creates connections, and however they interleave.
THEOREM PoolBoundedAlways == Spec => []PoolBounded
<1>1. Init => PoolBounded
  BY FS_EmptySet, PoolAssumption DEF Init, PoolBounded
<1>2. TypeOK /\ PoolBounded /\ [Next]_vars => PoolBounded'
  BY BoundedStep
<1> QED BY <1>1, <1>2, TypeCorrect, PTL DEF Spec

-----------------------------------------------------------------------------
LEMMA CreatePartition ==
  ASSUME TypeOK, Partition, NEW x \in Conns, CreateConnection(x)
  PROVE  PoolPartition' /\ pool \subseteq pool' /\ x \in pool'
BY DEF Partition, PoolPartition, CreateConnection

LEMMA TakePartition ==
  ASSUME TypeOK, Partition, NEW a \in Callers, TakeConnection(a)
  PROVE  Partition'
<1>1. ASSUME NEW x \in ValidAvailable,
             available' = available \ {x},
             inUse' = inUse \cup {x},
             phase' = [phase EXCEPT ![a] = "holding"],
             conn' = [conn EXCEPT ![a] = x],
             UNCHANGED <<pool, stale>>
      PROVE  Partition'
  BY <1>1 DEF TypeOK, ValidAvailable, Partition, PoolPartition, CreatedInPool
<1>2. ASSUME NEW x \in Conns,
             CreateConnection(x),
             conn' = [conn EXCEPT ![a] = x],
             phase' = [phase EXCEPT ![a] = "creating"]
      PROVE  Partition'
  BY <1>2, CreatePartition DEF TypeOK, Partition, CreatedInPool
<1>3. CASE /\ phase' = [phase EXCEPT ![a] = "idle"]
           /\ UNCHANGED <<poolVars, conn>>
  BY <1>3 DEF TypeOK, Partition, PoolPartition, CreatedInPool, poolVars
<1> QED BY <1>1, <1>2, <1>3 DEF TakeConnection

\* A step that creates a connection or leaves the pool alone.
LEMMA GrowPartition ==
  ASSUME TypeOK, Partition, UNCHANGED conn,
         \A b \in Callers : phase'[b] = "creating" => phase[b] = "creating",
         (\E x \in Conns : CreateConnection(x)) \/ UNCHANGED poolVars
  PROVE  Partition'
<1>1. PoolPartition' /\ pool \subseteq pool'
  BY CreatePartition DEF Partition, PoolPartition, poolVars
<1> QED BY <1>1 DEF Partition, CreatedInPool

LEMMA PartitionStep == TypeOK /\ Partition /\ [Next]_vars => Partition'
<1> SUFFICES ASSUME TypeOK, Partition, [Next]_vars PROVE Partition'
  OBVIOUS
<1>1. ASSUME NEW a \in Callers, Acquire(a) PROVE Partition'
  <2>1. CASE /\ phase' = [phase EXCEPT ![a] = "balancing"]
             /\ \/ \E x \in Conns : CreateConnection(x)
                \/ UNCHANGED poolVars
             /\ UNCHANGED conn
    <3>1. \A b \in Callers : phase'[b] = "creating" => phase[b] = "creating"
      BY <2>1 DEF TypeOK
    <3> QED BY <2>1, <3>1, GrowPartition
  <2>2. CASE TakeConnection(a)
    BY <2>2, TakePartition
  <2> QED BY <1>1, <2>1, <2>2 DEF Acquire
<1>2. ASSUME NEW a \in Callers, Balance(a) PROVE Partition'
  <2>1. \A b \in Callers : phase'[b] = "creating" => phase[b] = "creating"
    BY <1>2 DEF TypeOK, Balance
  <2> QED BY <1>2, <2>1, GrowPartition DEF Balance
<1>3. ASSUME NEW a \in Callers, AcquireBalanced(a) PROVE Partition'
  BY <1>3, TakePartition DEF AcquireBalanced
<1>4. ASSUME NEW a \in Callers, FinishCreate(a) PROVE Partition'
  <2>1. conn[a] \in pool
    BY <1>4 DEF FinishCreate, Partition, CreatedInPool
  <2> QED BY <1>4, <2>1 DEF FinishCreate, TypeOK, Partition, PoolPartition, CreatedInPool
<1>5. ASSUME NEW a \in Callers, Release(a) PROVE Partition'
  <2>1. \A b \in Callers : phase'[b] = "creating" =>
          phase[b] = "creating" /\ conn'[b] = conn[b]
    BY <1>5 DEF Release, TypeOK
  <2> QED BY <1>5, <2>1 DEF Release, Partition, PoolPartition, CreatedInPool
<1>6. CASE \/ Initialize \/ StartValidationTimer \/ UNCHANGED vars
           \/ \E x \in Conns : Age(x)
  BY <1>6 DEF Initialize, StartValidationTimer, Age, vars, poolVars, callerVars,
              Partition, PoolPartition, CreatedInPool
<1>7. CASE InitializeOne \/ Refill
  <2>1. UNCHANGED <<phase, conn>>
    BY <1>7 DEF InitializeOne, Refill, callerVars
  <2>2. (\E x \in Conns : CreateConnection(x)) \/ UNCHANGED poolVars
    BY <1>7 DEF InitializeOne, Refill
  <2> QED BY <2>1, <2>2, GrowPartition
<1>8. CASE Validate
  <2>1. \A b \in Callers : phase'[b] # "creating"
    BY <1>8 DEF Validate, Quiescent, Acquiring, callerVars
  <2> QED BY <1>8, <2>1 DEF Validate, RemoveInvalid, Remove, Partition, PoolPartition,
                            CreatedInPool
<1> QED BY <1>1, <1>2, <1>3, <1>4, <1>5, <1>6, <1>7, <1>8 DEF Next, Resume

\* The pool is the disjoint union of the available connections and those in use
\* after every interleaving of creation, acquisition, release and validation.
THEOREM PoolPartitionAlways == Spec => []PoolPartition
<1>1. Init => Partition
  BY DEF Init, Partition, PoolPartition, CreatedInPool
<1>2. TypeOK /\ Partition /\ [Next]_vars => Partition'
  BY PartitionStep
<1>3. Partition => PoolPartition
  BY DEF Partition
<1> QED BY <1>1, <1>2, <1>3, TypeCorrect, PTL DEF Spec

-----------------------------------------------------------------------------
(* Who knows a connection that was never taken during its creator's await:  *)
(* one caller, which finds it in use when it holds it and available when it *)
(* still creates it.                                                        *)
KnowsOne ==
  \A a, b \in Callers : conn[a] = conn[b] /\ conn[a] \in pool \ shared => a = b

KnownInPlace ==
  \A a \in Callers : conn[a] \in pool \ shared =>
    /\ phase[a] = "holding" => conn[a] \in inUse
    /\ phase[a] = "creating" => conn[a] \in available

HolderInv == Partition /\ KnowsOne /\ KnownInPlace

\* A new connection is one that no caller knows.
LEMMA CreateKnown ==
  ASSUME TypeOK, HolderInv, NEW x \in Conns, CreateConnection(x)
  PROVE  /\ \A a \in Callers : conn[a] # x
         /\ pool' = pool \cup {x} /\ shared' = shared \ {x}
         /\ available' = available \cup {x} /\ inUse' = inUse
BY DEF CreateConnection

\* A step that creates a connection or leaves the pool alone, and no caller gets
\* to know it.
LEMMA GrowHolders ==
  ASSUME TypeOK, HolderInv, UNCHANGED conn,
         \A b \in Callers : phase'[b] \in {"creating", "holding"} => phase'[b] = phase[b],
         (\E x \in Conns : CreateConnection(x)) \/ UNCHANGED poolVars
  PROVE  KnowsOne' /\ KnownInPlace'
<1>1. ASSUME NEW x \in Conns, CreateConnection(x) PROVE KnowsOne' /\ KnownInPlace'
  BY <1>1, CreateKnown DEF HolderInv, KnowsOne, KnownInPlace
<1>2. CASE UNCHANGED poolVars
  BY <1>2 DEF poolVars, HolderInv, KnowsOne, KnownInPlace
<1> QED BY <1>1, <1>2

LEMMA TakeHolders ==
  ASSUME TypeOK, HolderInv, NEW a \in Callers, phase[a] \in {"idle", "balanced"},
         TakeConnection(a)
  PROVE  KnowsOne' /\ KnownInPlace'
<1> USE PoolAssumption
<1>1. ASSUME NEW x \in ValidAvailable,
             available' = available \ {x},
             inUse' = inUse \cup {x},
             phase' = [phase EXCEPT ![a] = "holding"],
             conn' = [conn EXCEPT ![a] = x],
             shared' = IF x \in Awaited THEN shared \cup {x} ELSE shared,
             UNCHANGED <<pool, stale>>
      PROVE  KnowsOne' /\ KnownInPlace'
  <2>1. x \in pool /\ x \notin inUse /\ x # None
    BY DEF ValidAvailable, TypeOK, HolderInv, Partition, PoolPartition
  \* If a caller knows x already, x is shared from now on.
  <2>2. ASSUME NEW b \in Callers, conn[b] = x PROVE x \in shared'
    <3>1. phase[b] \in {"creating", "holding"}
      BY <2>1, <2>2 DEF TypeOK
    <3>2. CASE phase[b] = "creating"
      BY <1>1, <2>2, <3>2 DEF Awaited
    <3>3. CASE phase[b] = "holding"
      BY <1>1, <2>1, <2>2, <3>3 DEF HolderInv, KnownInPlace
    <3> QED BY <3>1, <3>2, <3>3
  <2>3. shared \subseteq shared'
    BY <1>1
  <2>4. KnowsOne'
    BY <1>1, <2>2, <2>3 DEF TypeOK, HolderInv, KnowsOne
  <2>5. KnownInPlace'
    BY <1>1, <2>2, <2>3 DEF TypeOK, HolderInv, KnownInPlace
  <2> QED BY <2>4, <2>5
<1>2. ASSUME NEW x \in Conns,
             CreateConnection(x),
             conn' = [conn EXCEPT ![a] = x],
             phase' = [phase EXCEPT ![a] = "creating"]
      PROVE  KnowsOne' /\ KnownInPlace'
  BY <1>2, CreateKnown DEF TypeOK, HolderInv, KnowsOne, KnownInPlace
<1>3. CASE /\ phase' = [phase EXCEPT ![a] = "idle"]
           /\ UNCHANGED <<poolVars, conn>>
  BY <1>3 DEF TypeOK, poolVars, HolderInv, KnowsOne, KnownInPlace
<1> QED BY <1>1, <1>2, <1>3 DEF TakeConnection

LEMMA HolderStep == TypeOK /\ HolderInv /\ [Next]_vars => HolderInv'
<1> SUFFICES ASSUME TypeOK, HolderInv, [Next]_vars PROVE KnowsOne' /\ KnownInPlace'
  BY PartitionStep DEF HolderInv
<1> USE PoolAssumption
<1>1. ASSUME NEW a \in Callers, Acquire(a) PROVE KnowsOne' /\ KnownInPlace'
  <2>1. CASE /\ phase' = [phase EXCEPT ![a] = "balancing"]
             /\ \/ \E x \in Conns : CreateConnection(x)
                \/ UNCHANGED poolVars
             /\ UNCHANGED conn
    <3>1. \A b \in Callers : phase'[b] \in {"creating", "holding"} => phase'[b] = phase[b]
      BY <2>1 DEF TypeOK
    <3> QED BY <2>1, <3>1, GrowHolders
  <2>2. CASE TakeConnection(a)
    BY <1>1, <2>2, TakeHolders DEF Acquire
  <2> QED BY <1>1, <2>1, <2>2 DEF Acquire
<1>2. ASSUME NEW a \in Callers, Balance(a) PROVE KnowsOne' /\ KnownInPlace'
  <2>1. \A b \in Callers : phase'[b] \in {"creating", "holding"} => phase'[b] = phase[b]
    BY <1>2 DEF TypeOK, Balance
  <2> QED BY <1>2, <2>1, GrowHolders DEF Balance
<1>3. ASSUME NEW a \in Callers, AcquireBalanced(a) PROVE KnowsOne' /\ KnownInPlace'
  BY <1>3, TakeHolders DEF AcquireBalanced
<1>4. ASSUME NEW a \in Callers, FinishCreate(a) PROVE KnowsOne' /\ KnownInPlace'
  BY <1>4 DEF FinishCreate, TypeOK, HolderInv, KnowsOne, KnownInPlace
<1>5. ASSUME NEW a \in Callers, Release(a) PROVE KnowsOne' /\ KnownInPlace'
  \* The released connection is shared as long as another caller knows it.
  <2>1. ASSUME NEW b \in Callers, conn'[b] \in pool' \ shared'
        PROVE  /\ b # a /\ conn'[b] = conn[b] /\ phase'[b] = phase[b]
               /\ conn[b] \in pool \ shared /\ conn[b] # conn[a]
    <3>1. b # a /\ conn'[b] = conn[b] /\ phase'[b] = phase[b]
      BY <1>5, <2>1 DEF Release, TypeOK
    <3>2. conn[b] \notin shared
      BY <1>5, <2>1, <3>1 DEF Release
    <3> QED BY <1>5, <2>1, <3>1, <3>2 DEF Release, HolderInv, KnowsOne
  <2>2. KnowsOne'
    BY <2>1 DEF HolderInv, KnowsOne
  <2>3. \A x \in Conns : x # conn[a] => /\ x \in inUse => x \in inUse'
                                        /\ x \in available => x \in available'
    BY <1>5 DEF Release
  <2>4. KnownInPlace'
    BY <2>1, <2>3 DEF HolderInv, KnownInPlace, TypeOK
  <2> QED BY <2>2, <2>4
<1>6. CASE \/ Initialize \/ StartValidationTimer \/ UNCHANGED vars
           \/ \E x \in Conns : Age(x)
  BY <1>6 DEF Initialize, StartValidationTimer, Age, vars, poolVars, callerVars,
              HolderInv, KnowsOne, KnownInPlace
<1>7. CASE InitializeOne \/ Refill
  <2>1. UNCHANGED <<phase, conn>>
    BY <1>7 DEF InitializeOne, Refill, callerVars
  <2>2. (\E x \in Conns : CreateConnection(x)) \/ UNCHANGED poolVars
    BY <1>7 DEF InitializeOne, Refill
  <2> QED BY <2>1, <2>2, GrowHolders
<1>8. CASE Validate
  BY <1>8 DEF Validate, RemoveInvalid, Remove, callerVars, HolderInv, KnowsOne, KnownInPlace
<1> QED BY <1>1, <1>2, <1>3, <1>4, <1>5, <1>6, <1>7, <1>8 DEF Next, Resume

\* A held connection of the pool is in use and has one holder, unless someone
\* took it while the caller it was created for was still suspended.
THEOREM HolderAccountedAlways == Spec => []HolderAccounted
<1>1. Init => HolderInv
  BY DEF Init, HolderInv, Partition, PoolPartition, CreatedInPool, KnowsOne, KnownInPlace
<1>2. TypeOK /\ HolderInv /\ [Next]_vars => HolderInv'
  BY HolderStep
<1>3. HolderInv => HolderAccounted
  BY DEF HolderInv, KnowsOne, KnownInPlace, HolderAccounted
<1> QED BY <1>1, <1>2, <1>3, TypeCorrect, PTL DEF Spec

\* The pool, its collections and its holders agree (acquireConnection,
\* releaseConnection, validateConnections).
THEOREM PoolAccountedAlways == Spec => []PoolAccounted
<1>1. TypeOK /\ PoolBounded /\ PoolPartition /\ HolderAccounted => PoolAccounted
  BY DEF PoolAccounted
<1> QED
  BY <1>1, TypeCorrect, PoolBoundedAlways, PoolPartitionAlways, HolderAccountedAlways, PTL

=============================================================================
