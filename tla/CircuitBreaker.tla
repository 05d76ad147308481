---------------------------- MODULE CircuitBreaker ----------------------------
(***************************************************************************)
(* src/mcp/server/CircuitBreaker.js: one circuit per connection, and the   *)
(* operations that execute() runs through it.                              *)
(*                                                                         *)
(* Two quantities are kept only as far as the code compares them:          *)
(* failureCounts up to FailureThreshold, and Date.now() - lastFailureTime  *)
(* as an age up to ResetTimeout.                                           *)
(***************************************************************************)
EXTENDS Naturals, FiniteSets

CONSTANTS
  Connections,       \* connection ids
  Requests,          \* slots for calls of execute
  FailureThreshold,  \* options.failureThreshold
  ResetTimeout,      \* options.resetTimeout, in ticks
  HalfOpenLimit,     \* options.halfOpenLimit
  Reporters          \* TRUE: others (ConnectionFailover) record outcomes and reset

Idle == "idle"

ASSUME BreakerAssumption ==
  /\ Idle \notin Connections
  /\ IsFiniteSet(Requests)
  /\ FailureThreshold \in Nat \ {0}
  /\ ResetTimeout \in Nat \ {0}
  /\ HalfOpenLimit \in Nat \ {0}
  /\ Reporters \in BOOLEAN

VARIABLES
  states,           \* states
  failureCounts,    \* failureCounts, saturated
  age,              \* time since lastFailureTime, saturated
  halfOpenRequests, \* halfOpenRequests
  running,          \* the connection a request executes on, or Idle
  probes            \* history: requests admitted since the circuit last became half open

vars == <<states, failureCounts, age, halfOpenRequests, running, probes>>

States == {"CLOSED", "OPEN", "HALF_OPEN"}

\* Requests whose operation has not settled.
RunningOn(c) == {r \in Requests : running[r] = c}

-----------------------------------------------------------------------------
(* Operators named after a defect (TripsLate, RequestsKept, ...) are wrong  *)
(* variants of the definition that follows them: Next does not use them;    *)
(* they serve to check that the properties notice the defect.               *)

\* One more failure.
Counted(n) == IF n < FailureThreshold THEN n + 1 ELSE n

TripsLate(n) == n > FailureThreshold
Trips(n) == n >= FailureThreshold

TimedOutLate(c) == age[c] > ResetTimeout
TimedOut(c) == age[c] >= ResetTimeout

\* getState: the state, after the transition from OPEN to HALF_OPEN when due.
Observed(c) == IF states[c] = "OPEN" /\ TimedOut(c) THEN "HALF_OPEN" ELSE states[c]

\* ... which restarts the count of half-open requests (and their history).
RequestsKept(c) == halfOpenRequests[c]
RequestsObserved(c) == IF states[c] = "OPEN" /\ TimedOut(c) THEN 0 ELSE halfOpenRequests[c]
ProbesObserved(c) ==
  IF states[c] = "OPEN" /\ TimedOut(c) THEN probes \ RunningOn(c) ELSE probes

Init ==
  /\ states = [c \in Connections |-> "CLOSED"]
  /\ failureCounts = [c \in Connections |-> 0]
  /\ age = [c \in Connections |-> ResetTimeout]
  /\ halfOpenRequests = [c \in Connections |-> 0]
  /\ running = [r \in Requests |-> Idle]
  /\ probes = {}

Tick ==
  /\ \E c \in Connections : age[c] < ResetTimeout
  /\ age' = [c \in Connections |-> IF age[c] < ResetTimeout THEN age[c] + 1 ELSE age[c]]
  /\ UNCHANGED <<states, failureCounts, halfOpenRequests, running, probes>>

\* getState, called by itself.
GetState(c) ==
  /\ states' = [states EXCEPT ![c] = Observed(c)]
  /\ halfOpenRequests' = [halfOpenRequests EXCEPT ![c] = RequestsObserved(c)]
  /\ probes' = ProbesObserved(c)
  /\ UNCHANGED <<failureCounts, age, running>>

\* execute: allowRequest admits the operation and it starts.  (A refused call
\* changes nothing: getState moves to HALF_OPEN only with requests to spare.)
Admits(n) == n < HalfOpenLimit
Execute(r, c) ==
  /\ running[r] = Idle
  /\ running' = [running EXCEPT ![r] = c]
  /\ \/ /\ Observed(c) = "CLOSED"
        /\ UNCHANGED <<states, halfOpenRequests, probes>>
     \/ /\ Observed(c) = "HALF_OPEN"
        /\ Admits(RequestsObserved(c))
        /\ states' = [states EXCEPT ![c] = "HALF_OPEN"]
        /\ halfOpenRequests' = [halfOpenRequests EXCEPT ![c] = RequestsObserved(c) + 1]
        /\ probes' = ProbesObserved(c) \cup {r}
  /\ UNCHANGED <<failureCounts, age>>

\* recordSuccess.
RecordSuccess(c) ==
  /\ states' = [states EXCEPT ![c] =
                  IF Observed(c) = "HALF_OPEN" THEN "CLOSED" ELSE Observed(c)]
  /\ halfOpenRequests' = [halfOpenRequests EXCEPT ![c] = RequestsObserved(c)]
  /\ failureCounts' = [failureCounts EXCEPT ![c] = 0]
  /\ UNCHANGED age

\* recordFailure: getState is not called.
RecordFailure(c) ==
  /\ failureCounts' = [failureCounts EXCEPT ![c] = Counted(@)]
  /\ age' = [age EXCEPT ![c] = 0]
  /\ states' = [states EXCEPT ![c] = IF Trips(Counted(failureCounts[c])) THEN "OPEN" ELSE @]
  /\ UNCHANGED halfOpenRequests

\* The operation of request r settles.
Succeed(r, c) ==
  /\ running[r] = c
  /\ RecordSuccess(c)
  /\ running' = [running EXCEPT ![r] = Idle]
  /\ probes' = ProbesObserved(c) \ {r}

Fail(r, c) ==
  /\ running[r] = c
  /\ RecordFailure(c)
  /\ running' = [running EXCEPT ![r] = Idle]
  /\ probes' = probes \ {r}

\* An outcome recorded by another component for a request of its own.
ReportSuccess(c) ==
  /\ Reporters
  /\ RecordSuccess(c)
  /\ probes' = ProbesObserved(c)
  /\ UNCHANGED running

ReportFailure(c) ==
  /\ Reporters
  /\ RecordFailure(c)
  /\ UNCHANGED <<running, probes>>

\* reset(connectionId)
Reset(c) ==
  /\ Reporters
  /\ states' = [states EXCEPT ![c] = "CLOSED"]
  /\ failureCounts' = [failureCounts EXCEPT ![c] = 0]
  /\ age' = [age EXCEPT ![c] = ResetTimeout]
  /\ halfOpenRequests' = [halfOpenRequests EXCEPT ![c] = 0]
  /\ UNCHANGED <<running, probes>>

Next ==
  \/ Tick
  \/ \E c \in Connections :
       \/ GetState(c) \/ ReportSuccess(c) \/ ReportFailure(c) \/ Reset(c)
       \/ \E r \in Requests : Execute(r, c) \/ Succeed(r, c) \/ Fail(r, c)

Spec == Init /\ [][Next]_vars

\* Time passes, every operation settles, and callers keep calling execute for
\* each connection (strongly fair: the slots are a bound of the model).
Fairness ==
  /\ WF_vars(Tick)
  /\ \A r \in Requests : WF_vars(\E c \in Connections : Succeed(r, c) \/ Fail(r, c))
  /\ \A c \in Connections : SF_vars(\E r \in Requests : Execute(r, c))

FairSpec == Spec /\ Fairness

-----------------------------------------------------------------------------
\* The variables have their types; only requests that run are probes.
TypeOK ==
  /\ states \in [Connections -> States]
  /\ failureCounts \in [Connections -> 0..FailureThreshold]
  /\ age \in [Connections -> 0..ResetTimeout]
  /\ halfOpenRequests \in [Connections -> 0..HalfOpenLimit]
  /\ running \in [Requests -> Connections \cup {Idle}]
  /\ probes \in SUBSET {r \in Requests : running[r] # Idle}

\* A circuit that has counted FailureThreshold failures with no success since is
\* never closed, and it is open until ResetTimeout after the last failure,
\* however late the operations admitted earlier settle.
TrippedIsOpen ==
  \A c \in Connections : failureCounts[c] >= FailureThreshold =>
    /\ states[c] # "CLOSED"
    /\ age[c] < ResetTimeout => states[c] = "OPEN"

\* At most HalfOpenLimit of the operations in flight were admitted by the
\* current half-open period of their circuit.
ProbeLimit ==
  \A c \in Connections : states[c] = "HALF_OPEN" =>
    Cardinality(probes \cap RunningOn(c)) <= HalfOpenLimit

\* The slots of a half-open circuit are held by operations that still run, so
\* one of them will decide the circuit - unless a late success has cleared the
\* failure count while the circuit was open.  Then a probe that fails does not
\* reopen the circuit, keeps its slot, and the circuit stays half open and
\* refuses every request.
SlotsAreRunning ==
  \A c \in Connections :
    states[c] = "HALF_OPEN" /\ failureCounts[c] >= FailureThreshold =>
      halfOpenRequests[c] = Cardinality(probes \cap RunningOn(c))

\* The slots that allowRequest hands out are as many as it may and those that it
\* believes are in use.
SlotsAccounted == TypeOK /\ ProbeLimit /\ SlotsAreRunning

\* A circuit stays open for ever only if failures keep arriving: as long as
\* callers keep calling, failures that arrive late postpone the half-open state
\* and do not prevent it.
OpenEnds == \A c \in Connections : <>[](states[c] = "OPEN") => []<>(age[c] = 0)
=============================================================================
