------------------------- MODULE CircuitBreakerProofs -------------------------
(***************************************************************************)
(* Proofs about CircuitBreaker, for any connections, requests, threshold,  *)
(* timeout and limit.                                                      *)
(*                                                                         *)
(* TypeOK and TrippedIsOpen are inductive.  ProbeLimit and SlotsAreRunning *)
(* rest on SlotInv, which counts the probes of a half-open circuit against *)
(* halfOpenRequests.                                                       *)
(***************************************************************************)
EXTENDS CircuitBreaker, FiniteSetTheorems, TLAPS

-----------------------------------------------------------------------------
\* getState keeps the types of what it sets.
LEMMA ObservedTypes ==
  ASSUME TypeOK, NEW c \in Connections
  PROVE  /\ Observed(c) \in States
         /\ RequestsObserved(c) \in 0..HalfOpenLimit
         /\ ProbesObserved(c) \subseteq probes
BY BreakerAssumption DEF TypeOK, States, Observed, RequestsObserved, ProbesObserved, TimedOut

LEMMA CountedType ==
  ASSUME NEW n \in 0..FailureThreshold
  PROVE  Counted(n) \in 0..FailureThreshold
BY BreakerAssumption DEF Counted

LEMMA TypeInit == Init => TypeOK
BY BreakerAssumption DEF Init, TypeOK, States

LEMMA TypeStep == TypeOK /\ [Next]_vars => TypeOK'
<1> SUFFICES ASSUME TypeOK, [Next]_vars PROVE TypeOK'
  OBVIOUS
<1> USE BreakerAssumption
<1>1. CASE Tick
  BY <1>1 DEF TypeOK, Tick
<1>2. ASSUME NEW c \in Connections, GetState(c) PROVE TypeOK'
  BY <1>2, ObservedTypes DEF TypeOK, GetState
<1>3. ASSUME NEW c \in Connections, ReportSuccess(c) PROVE TypeOK'
  BY <1>3, ObservedTypes DEF TypeOK, ReportSuccess, RecordSuccess, States
<1>4. ASSUME NEW c \in Connections, ReportFailure(c) PROVE TypeOK'
  <2>1. Counted(failureCounts[c]) \in 0..FailureThreshold
    BY CountedType DEF TypeOK
  <2> QED BY <1>4, <2>1 DEF TypeOK, ReportFailure, RecordFailure, States
<1>5. ASSUME NEW c \in Connections, Reset(c) PROVE TypeOK'
  BY <1>5 DEF TypeOK, Reset, States
<1>6. ASSUME NEW c \in Connections, NEW r \in Requests, Execute(r, c) PROVE TypeOK'
  <2>1. running' = [running EXCEPT ![r] = c] /\ c # Idle
    BY <1>6 DEF Execute
  <2>2. CASE UNCHANGED <<states, halfOpenRequests, probes>>
    BY <1>6, <2>1, <2>2 DEF TypeOK, Execute
  <2>3. CASE /\ Admits(RequestsObserved(c))
             /\ states' = [states EXCEPT ![c] = "HALF_OPEN"]
             /\ halfOpenRequests' = [halfOpenRequests EXCEPT ![c] = RequestsObserved(c) + 1]
             /\ probes' = ProbesObserved(c) \cup {r}
    <3>1. RequestsObserved(c) + 1 \in 0..HalfOpenLimit
      BY <2>3, ObservedTypes DEF Admits
    <3>2. probes' \in SUBSET {q \in Requests : running'[q] # Idle}
      BY <2>1, <2>3, ObservedTypes DEF TypeOK
    <3> QED BY <1>6, <2>1, <2>3, <3>1, <3>2 DEF TypeOK, Execute, States
  <2> QED BY <1>6, <2>2, <2>3 DEF Execute
<1>7. ASSUME NEW c \in Connections, NEW r \in Requests, Succeed(r, c) PROVE TypeOK'
  <2>1. probes' \in SUBSET {q \in Requests : running'[q] # Idle}
    BY <1>7, ObservedTypes DEF TypeOK, Succeed
  <2> QED BY <1>7, <2>1, ObservedTypes DEF TypeOK, Succeed, RecordSuccess, States
<1>8. ASSUME NEW c \in Connections, NEW r \in Requests, Fail(r, c) PROVE TypeOK'
  <2>1. Counted(failureCounts[c]) \in 0..FailureThreshold
    BY CountedType DEF TypeOK
  <2>2. probes' \in SUBSET {q \in Requests : running'[q] # Idle}
    BY <1>8 DEF TypeOK, Fail
  <2> QED BY <1>8, <2>1, <2>2 DEF TypeOK, Fail, RecordFailure, States
<1>9. CASE UNCHANGED vars
  BY <1>9 DEF TypeOK, vars
<1> QED BY <1>1, <1>2, <1>3, <1>4, <1>5, <1>6, <1>7, <1>8, <1>9 DEF Next

\* The variables of the breaker keep their types; the half-open count stays
\* within its limit and only requests that run are probes.
THEOREM TypeCorrect == Spec => []TypeOK
<1>1. Init => TypeOK
  BY TypeInit
<1>2. TypeOK /\ [Next]_vars => TypeOK'
  BY TypeStep
<1> QED BY <1>1, <1>2, PTL DEF Spec

-----------------------------------------------------------------------------
LEMMA TrippedStep == TypeOK /\ TrippedIsOpen /\ [Next]_vars => TrippedIsOpen'
<1> SUFFICES ASSUME TypeOK, TrippedIsOpen, [Next]_vars, NEW d \in Connections
             PROVE  (failureCounts[d] >= FailureThreshold =>
                       /\ states[d] # "CLOSED"
                       /\ age[d] < ResetTimeout => states[d] = "OPEN")'
  BY DEF TrippedIsOpen
<1> USE BreakerAssumption DEF TypeOK, TrippedIsOpen, States
<1>1. CASE Tick
  BY <1>1 DEF Tick
<1>2. ASSUME NEW c \in Connections, GetState(c) \/ ReportSuccess(c) PROVE TrippedIsOpen'
  BY <1>2 DEF GetState, ReportSuccess, RecordSuccess, Observed, TimedOut
<1>3. ASSUME NEW c \in Connections, ReportFailure(c) PROVE TrippedIsOpen'
  BY <1>3 DEF ReportFailure, RecordFailure, Counted, Trips
<1>4. ASSUME NEW c \in Connections, Reset(c) PROVE TrippedIsOpen'
  BY <1>4 DEF Reset
<1>5. ASSUME NEW c \in Connections, NEW r \in Requests, Execute(r, c) PROVE TrippedIsOpen'
  BY <1>5 DEF Execute, Observed, TimedOut
<1>6. ASSUME NEW c \in Connections, NEW r \in Requests, Succeed(r, c) PROVE TrippedIsOpen'
  BY <1>6 DEF Succeed, RecordSuccess, Observed, TimedOut
<1>7. ASSUME NEW c \in Connections, NEW r \in Requests, Fail(r, c) PROVE TrippedIsOpen'
  BY <1>7 DEF Fail, RecordFailure, Counted, Trips
<1>8. CASE UNCHANGED vars
  BY <1>8 DEF vars
<1> QED BY <1>1, <1>2, <1>3, <1>4, <1>5, <1>6, <1>7, <1>8 DEF Next

\* A circuit that has reached the threshold is not closed, and it is open until
\* the reset timeout has passed since the last failure, in whatever state the
\* operations that fail were admitted.
THEOREM TrippedIsOpenAlways == Spec => []TrippedIsOpen
<1>1. Init => TrippedIsOpen
  BY BreakerAssumption DEF Init, TrippedIsOpen
<1>2. TypeOK /\ TrippedIsOpen /\ [Next]_vars => TrippedIsOpen'
  BY TrippedStep
<1> QED BY <1>1, <1>2, TypeCorrect, PTL DEF Spec

-----------------------------------------------------------------------------
\* The operations in flight that were admitted by the current half-open period.
Probing(c) == probes \cap RunningOn(c)

\* What has to hold of circuit c while it is half open: it counts each of its
\* probes, and no other request unless a success has cleared the failure count.
SlotsCounted(c) ==
  states[c] = "HALF_OPEN" =>
    /\ Cardinality(Probing(c)) <= halfOpenRequests[c]
    /\ failureCounts[c] >= FailureThreshold =>
         halfOpenRequests[c] = Cardinality(Probing(c))

SlotInv == \A c \in Connections : SlotsCounted(c)

LEMMA ProbingFinite ==
  ASSUME TypeOK, NEW c
  PROVE  IsFiniteSet(Probing(c)) /\ Cardinality(Probing(c)) \in Nat
<1>1. Probing(c) \in SUBSET Requests
  BY DEF Probing, RunningOn
<1> QED BY <1>1, BreakerAssumption, FS_Subset, FS_CardinalityType

\* A step after which circuit d is half open only if it was before, with the same
\* probes, slots and failures.
LEMMA SlotsKept ==
  ASSUME TypeOK, NEW d \in Connections, SlotsCounted(d),
         Probing(d)' = Probing(d),
         states'[d] = "HALF_OPEN" => /\ states[d] = "HALF_OPEN"
                                     /\ halfOpenRequests'[d] = halfOpenRequests[d]
                                     /\ failureCounts'[d] = failureCounts[d]
  PROVE  SlotsCounted(d)'
BY DEF SlotsCounted

\* After the transition from OPEN to HALF_OPEN no probe is left.
LEMMA ProbesCleared ==
  ASSUME TypeOK, NEW c \in Connections, states[c] = "OPEN", TimedOut(c)
  PROVE  RequestsObserved(c) = 0 /\ ProbesObserved(c) \cap RunningOn(c) = {}
BY DEF RequestsObserved, ProbesObserved

\* getState clears the probes of no other circuit, and none without a transition.
LEMMA ProbesElsewhere ==
  ASSUME TypeOK, NEW c \in Connections, NEW d \in Connections,
         c # d \/ ~ (states[c] = "OPEN" /\ TimedOut(c))
  PROVE  ProbesObserved(c) \cap RunningOn(d) = Probing(d)
BY DEF ProbesObserved, Probing, RunningOn

LEMMA SlotsGetState ==
  ASSUME TypeOK, SlotInv, NEW c \in Connections, GetState(c), NEW d \in Connections
  PROVE  SlotsCounted(d)'
<1>1. Probing(d)' = ProbesObserved(c) \cap RunningOn(d)
  BY DEF GetState, Probing, RunningOn
<1>2. CASE c = d /\ states[c] = "OPEN" /\ TimedOut(c)
  <2>1. Probing(d)' = {} /\ halfOpenRequests'[d] = 0
    BY <1>1, <1>2, ProbesCleared DEF GetState, TypeOK
  <2> QED BY <2>1, FS_EmptySet DEF SlotsCounted
<1>3. CASE ~ (c = d /\ states[c] = "OPEN" /\ TimedOut(c))
  <2>1. Probing(d)' = Probing(d)
    BY <1>1, <1>3, ProbesElsewhere
  <2>2. /\ states'[d] = states[d]
        /\ halfOpenRequests'[d] = halfOpenRequests[d]
        /\ failureCounts'[d] = failureCounts[d]
    BY <1>3 DEF GetState, TypeOK, Observed, RequestsObserved
  <2> QED BY <2>1, <2>2, SlotsKept DEF SlotInv
<1> QED BY <1>2, <1>3

LEMMA SlotsExecute ==
  ASSUME TypeOK, SlotInv, NEW c \in Connections, NEW r \in Requests, Execute(r, c),
         NEW d \in Connections
  PROVE  SlotsCounted(d)'
<1> USE BreakerAssumption
<1>1. /\ r \notin probes
      /\ r \notin RunningOn(d)
      /\ RunningOn(d)' = IF c = d THEN RunningOn(d) \cup {r} ELSE RunningOn(d)
  BY DEF Execute, TypeOK, RunningOn
<1>2. CASE UNCHANGED <<states, halfOpenRequests, probes>>
  <2>1. Probing(d)' = Probing(d)
    BY <1>1, <1>2 DEF Probing
  <2> QED BY <1>2, <2>1, SlotsKept DEF SlotInv, Execute
<1>3. CASE /\ Observed(c) = "HALF_OPEN"
           /\ states' = [states EXCEPT ![c] = "HALF_OPEN"]
           /\ halfOpenRequests' = [halfOpenRequests EXCEPT ![c] = RequestsObserved(c) + 1]
           /\ probes' = ProbesObserved(c) \cup {r}
  <2>1. CASE c # d
    <3>1. Probing(d)' = Probing(d)
      BY <1>1, <1>3, <2>1, ProbesElsewhere DEF Probing
    <3> QED BY <1>3, <2>1, <3>1, SlotsKept DEF SlotInv, Execute, TypeOK
  <2>2. CASE c = d
    <3> DEFINE P == ProbesObserved(c) \cap RunningOn(c)
    <3>1. Probing(d)' = P \cup {r} /\ r \notin P
      BY <1>1, <1>3, <2>2 DEF Probing, ProbesObserved
    <3>2. P \in SUBSET Requests
      BY DEF RunningOn
    <3>3. IsFiniteSet(P) /\ Cardinality(P) \in Nat
      BY <3>2, FS_Subset, FS_CardinalityType
    <3>4. Cardinality(Probing(d)') = Cardinality(P) + 1
      BY <3>1, <3>3, FS_AddElement
    <3>5. halfOpenRequests'[d] = RequestsObserved(c) + 1 /\ failureCounts'[d] = failureCounts[d]
      BY <1>3, <2>2 DEF TypeOK, Execute
    <3>6. /\ Cardinality(P) <= RequestsObserved(c)
          /\ failureCounts[c] >= FailureThreshold => RequestsObserved(c) = Cardinality(P)
      <4>1. CASE states[c] = "OPEN" /\ TimedOut(c)
        BY <4>1, ProbesCleared, FS_EmptySet
      <4>2. CASE ~ (states[c] = "OPEN" /\ TimedOut(c))
        <5>1. P = Probing(c) /\ RequestsObserved(c) = halfOpenRequests[c]
          BY <4>2, ProbesElsewhere DEF RequestsObserved
        <5>2. states[c] = "HALF_OPEN"
          BY <1>3, <4>2 DEF Observed
        <5> QED BY <5>1, <5>2 DEF SlotInv, SlotsCounted
      <4> QED BY <4>1, <4>2
    <3>7. RequestsObserved(c) \in Nat
      BY ObservedTypes
    <3> HIDE DEF P
    <3> QED BY <2>2, <3>3, <3>4, <3>5, <3>6, <3>7 DEF SlotsCounted, TypeOK
  <2> QED BY <2>1, <2>2
<1> QED BY <1>2, <1>3 DEF Execute

\* An outcome recorded for circuit c: of a request that ends, or of none.
LEMMA SlotsSuccess ==
  ASSUME TypeOK, SlotInv, NEW c \in Connections, RecordSuccess(c),
         NEW d \in Connections, c # d => Probing(d)' = Probing(d)
  PROVE  SlotsCounted(d)'
<1>1. CASE c = d
  <2>1. states'[d] # "HALF_OPEN"
    BY <1>1 DEF RecordSuccess, TypeOK
  <2> QED BY <2>1 DEF SlotsCounted
<1>2. CASE c # d
  BY <1>2, SlotsKept DEF SlotInv, RecordSuccess, TypeOK
<1> QED BY <1>1, <1>2

LEMMA SlotsFailure ==
  ASSUME TypeOK, SlotInv, NEW c \in Connections, RecordFailure(c),
         NEW d \in Connections, c # d => Probing(d)' = Probing(d),
         Probing(d)' \in SUBSET Probing(d)
  PROVE  SlotsCounted(d)'
<1> USE BreakerAssumption
<1>1. CASE c = d
  <2>1. Cardinality(Probing(d)') <= Cardinality(Probing(d)) /\ Cardinality(Probing(d)') \in Nat
    BY ProbingFinite, FS_Subset, FS_CardinalityType
  <2>2. states'[d] = "HALF_OPEN" =>
          /\ states[d] = "HALF_OPEN"
          /\ halfOpenRequests'[d] = halfOpenRequests[d]
          /\ ~ (failureCounts'[d] >= FailureThreshold)
    BY <1>1 DEF RecordFailure, TypeOK, Trips, Counted
  <2>3. Cardinality(Probing(d)) \in Nat /\ halfOpenRequests[d] \in Nat
    BY ProbingFinite DEF TypeOK
  <2> QED BY <2>1, <2>2, <2>3 DEF SlotInv, SlotsCounted
<1>2. CASE c # d
  BY <1>2, SlotsKept DEF SlotInv, RecordFailure, TypeOK
<1> QED BY <1>1, <1>2

LEMMA SlotStep == TypeOK /\ SlotInv /\ [Next]_vars => SlotInv'
<1> SUFFICES ASSUME TypeOK, SlotInv, [Next]_vars, NEW d \in Connections
             PROVE  SlotsCounted(d)'
  BY DEF SlotInv
<1>1. CASE Tick \/ UNCHANGED vars
  <2>1. Probing(d)' = Probing(d)
    BY <1>1 DEF Tick, vars, Probing, RunningOn
  <2> QED BY <1>1, <2>1, SlotsKept DEF SlotInv, Tick, vars
<1>2. ASSUME NEW c \in Connections, GetState(c) PROVE SlotsCounted(d)'
  BY <1>2, SlotsGetState
<1>3. ASSUME NEW c \in Connections, NEW r \in Requests, Execute(r, c) PROVE SlotsCounted(d)'
  BY <1>3, SlotsExecute
<1>4. ASSUME NEW c \in Connections, ReportSuccess(c) PROVE SlotsCounted(d)'
  <2>1. c # d => Probing(d)' = Probing(d)
    BY <1>4, ProbesElsewhere DEF ReportSuccess, Probing, RunningOn
  <2> QED BY <1>4, <2>1, SlotsSuccess DEF ReportSuccess
<1>5. ASSUME NEW c \in Connections, NEW r \in Requests, Succeed(r, c) PROVE SlotsCounted(d)'
  <2>1. c # d => r \notin RunningOn(d) /\ RunningOn(d)' = RunningOn(d)
    BY <1>5, BreakerAssumption DEF Succeed, RunningOn, TypeOK
  <2>2. c # d => Probing(d)' = Probing(d)
    BY <1>5, <2>1, ProbesElsewhere DEF Succeed, Probing
  <2> QED BY <1>5, <2>2, SlotsSuccess DEF Succeed
<1>6. ASSUME NEW c \in Connections, ReportFailure(c) PROVE SlotsCounted(d)'
  <2>1. Probing(d)' = Probing(d)
    BY <1>6 DEF ReportFailure, Probing, RunningOn
  <2> QED BY <1>6, <2>1, SlotsFailure DEF ReportFailure
<1>7. ASSUME NEW c \in Connections, NEW r \in Requests, Fail(r, c) PROVE SlotsCounted(d)'
  <2>1. RunningOn(d)' = IF c = d THEN RunningOn(d) \ {r} ELSE RunningOn(d)
    BY <1>7, BreakerAssumption DEF Fail, RunningOn, TypeOK
  <2>2. c # d => r \notin RunningOn(d)
    BY <1>7 DEF Fail, RunningOn
  <2>3. Probing(d)' = Probing(d) \ {r} /\ (c # d => Probing(d)' = Probing(d))
    BY <1>7, <2>1, <2>2 DEF Fail, Probing
  <2> QED BY <1>7, <2>3, SlotsFailure DEF Fail
<1>8. ASSUME NEW c \in Connections, Reset(c) PROVE SlotsCounted(d)'
  <2>1. Probing(d)' = Probing(d)
    BY <1>8 DEF Reset, Probing, RunningOn
  <2> QED BY <1>8, <2>1, SlotsKept DEF SlotInv, Reset, TypeOK
<1> QED BY <1>1, <1>2, <1>3, <1>4, <1>5, <1>6, <1>7, <1>8 DEF Next

\* The counting of slots above holds in every state.
THEOREM SlotInvAlways == Spec => []SlotInv
<1>1. Init => SlotInv
  BY DEF Init, SlotInv, SlotsCounted
<1>2. TypeOK /\ SlotInv /\ [Next]_vars => SlotInv'
  BY SlotStep
<1> QED BY <1>1, <1>2, TypeCorrect, PTL DEF Spec

\* A half-open circuit lets at most HalfOpenLimit operations run at a time.
THEOREM ProbeLimitAlways == Spec => []ProbeLimit
<1>1. TypeOK /\ SlotInv => ProbeLimit
  <2> SUFFICES ASSUME TypeOK, SlotInv, NEW c \in Connections, states[c] = "HALF_OPEN"
               PROVE  Cardinality(Probing(c)) <= HalfOpenLimit
    BY DEF ProbeLimit, Probing
  <2> QED BY BreakerAssumption, ProbingFinite DEF SlotInv, SlotsCounted, TypeOK
<1> QED BY <1>1, TypeCorrect, SlotInvAlways, PTL

\* A half-open circuit that has kept its failure count holds no slot for an
\* operation that has settled: it cannot be stuck.
THEOREM SlotsAreRunningAlways == Spec => []SlotsAreRunning
<1>1. SlotInv => SlotsAreRunning
  BY DEF SlotInv, SlotsCounted, SlotsAreRunning, Probing
<1> QED BY <1>1, SlotInvAlways, PTL

\* The slots of a half-open circuit (allowRequest) are bounded, and held by
\* operations that run.
THEOREM SlotsAccountedAlways == Spec => []SlotsAccounted
<1>1. TypeOK /\ ProbeLimit /\ SlotsAreRunning => SlotsAccounted
  BY DEF SlotsAccounted
<1> QED BY <1>1, TypeCorrect, ProbeLimitAlways, SlotsAreRunningAlways, PTL

=============================================================================
