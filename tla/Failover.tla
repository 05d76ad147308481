---- MODULE Failover ----
(***************************************************************************)
(* mcp/server/ConnectionFailover.js, which acquires a connection at a      *)
(* priority and falls back to the next one.  The pool, the breaker and the *)
(* keep-alive are injected: their answers are arbitrary.                   *)
(***************************************************************************)
EXTENDS Naturals, Sequences, FiniteSets

CONSTANTS Calls,        \* calls of acquireConnection
          Asked,        \* the priorities callers ask for
          Conns,        \* the ids of connections
          MaxFailoverAttempts,  \* options.maxFailoverAttempts
          None

VARIABLES failoverAttempts, \* this.failoverAttempts of the priorities, 0 when absent
          known,            \* the connection ids that failoverAttempts holds, always with 0
          call,             \* acquireConnection's calls: where each one waits
          acquiredAt        \* history: the priority at which each connection was last acquired
connVars == <<known, acquiredAt>>
failoverVars == <<failoverAttempts, connVars, call>>

Order == <<"high", "medium", "low", "default">>
Priorities == {Order[i] : i \in DOMAIN Order}
Idle == [pc |-> "idle", priority |-> None, attempts |-> 0]
At(pc, p, n) == [pc |-> pc, priority |-> p, attempts |-> n]
Locked(p) == failoverAttempts[p] >= MaxFailoverAttempts

TypeOK ==
  /\ failoverAttempts \in [Priorities -> 0..MaxFailoverAttempts]
  /\ known \subseteq Conns
  /\ acquiredAt \in [Conns -> Priorities \cup {None}]
  /\ call \in [Calls -> {Idle} \cup
        [pc : {"acquiring", "checking", "delayed", "last"}, priority : Priorities,
         attempts : 0..MaxFailoverAttempts - 1]]

Init ==
  /\ failoverAttempts = [p \in Priorities |-> 0] /\ known = {}
  /\ acquiredAt = [d \in Conns |-> None]
  /\ call = [k \in Calls |-> Idle]

----
(* acquireConnection *)

\* getNextPriority: null after the last one.
NextPriority(p) ==
  LET i == CHOOSE j \in DOMAIN Order : Order[j] = p IN
  IF i = Len(Order) THEN None ELSE Order[i + 1]

(* Operators named after a defect are wrong variants of the definition that follows them: Next does not
   use them; they serve to check that the properties notice the defect. *)
\* A refusal starts the count of the priority afresh.
EnterResetting(k, p) ==
  \/ /\ ~Locked(p)
     /\ failoverAttempts' = [failoverAttempts EXCEPT ![p] = @ + 1]
     /\ call' = [call EXCEPT ![k] = At("acquiring", p, failoverAttempts[p])]
  \/ /\ call' = [call EXCEPT ![k] = Idle]
     /\ failoverAttempts' = IF Locked(p) THEN [failoverAttempts EXCEPT ![p] = 0] ELSE failoverAttempts
\* The head of the function, up to the pool's answer: it refuses a priority whose
\* attempts are used up and what the breaker does not let through, without a retry.
Enter(k, p) ==
  \/ /\ ~Locked(p)
     /\ failoverAttempts' = [failoverAttempts EXCEPT ![p] = @ + 1]
     /\ call' = [call EXCEPT ![k] = At("acquiring", p, failoverAttempts[p])]
  \/ call' = [call EXCEPT ![k] = Idle] /\ UNCHANGED failoverAttempts

\* The error is rethrown, or the next priority is tried.
GoOn(k) ==
  LET next == NextPriority(call[k].priority) IN
  \/ next # None /\ Enter(k, next)
  \/ next = None /\ call' = [call EXCEPT ![k] = Idle] /\ UNCHANGED failoverAttempts

\* The count read before the first await decides whether there is a retry.
UsedUp(k) == call[k].attempts + 1 >= MaxFailoverAttempts

AcquireConnection(k, p) ==
  /\ call[k] = Idle
  /\ Enter(k, p)
  /\ UNCHANGED connVars

PoolGives(k) ==
  /\ call[k].pc = "acquiring"
  /\ call' = [call EXCEPT ![k].pc = "checking"]
  /\ UNCHANGED <<failoverAttempts, connVars>>

PoolFails(k) ==
  /\ call[k].pc = "acquiring"
  /\ call' = [call EXCEPT ![k] = IF UsedUp(k) THEN Idle ELSE [@ EXCEPT !.pc = "delayed"]]
  /\ UNCHANGED <<failoverAttempts, connVars>>

\* failoverDelay is over; the error of the last priority waits for it twice.
DelayEnds(k) ==
  /\ \/ /\ call[k].pc = "delayed" /\ NextPriority(call[k].priority) # None
        /\ GoOn(k)
     \/ /\ call[k].pc = "delayed" /\ NextPriority(call[k].priority) = None
        /\ call' = [call EXCEPT ![k].pc = "last"] /\ UNCHANGED failoverAttempts
     \/ call[k].pc = "last" /\ GoOn(k)
  /\ UNCHANGED connVars

Healthy(k, d) ==
  /\ call[k].pc = "checking"
  /\ failoverAttempts' = [failoverAttempts EXCEPT ![call[k].priority] = 0]
  /\ known' = known \cup {d}
  /\ acquiredAt' = [acquiredAt EXCEPT ![d] = call[k].priority]
  /\ call' = [call EXCEPT ![k] = Idle]

\* The connection stays with the pool as acquired: nothing gives it back.
Unhealthy(k) ==
  /\ call[k].pc = "checking"
  /\ \/ UsedUp(k) /\ call' = [call EXCEPT ![k] = Idle] /\ UNCHANGED failoverAttempts
     \/ ~UsedUp(k) /\ GoOn(k)
  /\ UNCHANGED connVars

----
\* The health check's interval writes the entry of a healthy connection's id, and
\* deletes the entry of an unhealthy one's.
HealthCheck(d) ==
  /\ known' \in {known \cup {d}, known \ {d}}
  /\ UNCHANGED <<failoverAttempts, call, acquiredAt>>

Stop ==
  /\ failoverAttempts' = [p \in Priorities |-> 0] /\ known' = {}
  /\ UNCHANGED <<call, acquiredAt>>

Next ==
  \/ \E k \in Calls : \/ \E p \in Asked : AcquireConnection(k, p)
                      \/ PoolGives(k) \/ PoolFails(k) \/ DelayEnds(k)
                      \/ \E d \in Conns : Healthy(k, d)
                      \/ Unhealthy(k)
  \/ \E d \in Conns : HealthCheck(d)
  \/ Stop
Spec == Init /\ [][Next]_failoverVars

----
(* A priority whose attempts are used up stays refused, whatever calls of   *)
(* other priorities do, fall back, wait and fail: only stop, or a call of   *)
(* that priority that was let through before and succeeds, opens it again.  *)
(* Of the health check nothing is said here: its comment is the next        *)
(* property.                                                                *)
LockedUntilSuccess ==
  [][\A p \in Priorities :
       Locked(p) /\ (\A k \in Calls : call[k].priority # p) =>
          \/ failoverAttempts'[p] = MaxFailoverAttempts
          \/ failoverAttempts' = [q \in Priorities |-> 0]
          \/ \E d \in Conns : HealthCheck(d)]_failoverVars

\* startHealthCheck, of a connection found unhealthy: "Reset failover attempts for
\* this connection's priority".  The code deletes the entry of the connection's id.
HealthCheckResets ==
  [][\A d \in known :
       /\ HealthCheck(d) /\ d \notin known'
       /\ acquiredAt[d] # None /\ \A k \in Calls : call[k].priority # acquiredAt[d]
       => failoverAttempts'[acquiredAt[d]] = 0]_failoverVars
====
