---- MODULE ConnectionRetry ----
(***************************************************************************)
(* mcp/server/ConnectionRetry.js, which reconnects a connection after a    *)
(* delay, a limited number of times in a row.  Which errors are retryable  *)
(* and how long the delay is are the environment's choice.                 *)
(***************************************************************************)
EXTENDS Naturals, FiniteSets

CONSTANTS Conns,       \* the connections
          Retries,     \* calls of retry
          MaxRetries,  \* options.maxRetries
          None

VARIABLES counted,     \* the connections whose retryCount is defined
          retryCount,  \* connection.retryCount
          retrying     \* retry's calls: the connection each one reconnects
retryVars == <<counted, retryCount, retrying>>

TypeOK ==
  /\ counted \subseteq Conns
  /\ retryCount \in [Conns -> Nat] /\ retrying \in [Retries -> Conns \cup {None}]

Init ==
  /\ counted = {}
  /\ retryCount = [d \in Conns |-> 0] /\ retrying = [r \in Retries |-> None]

\* A count that is undefined is not greater than the limit, were it zero.
ShouldRetry(d) == d \in counted => retryCount[d] < MaxRetries

\* The count is read before the delay, and written when the reconnection has answered.
Retry(r, d) ==
  /\ retrying[r] = None
  /\ ShouldRetry(d)
  /\ counted' = counted \cup {d}
  /\ retrying' = [retrying EXCEPT ![r] = d]
  /\ UNCHANGED retryCount

Reconnected(r, success) ==
  /\ retrying[r] # None
  /\ retryCount' = [retryCount EXCEPT ![retrying[r]] = IF success THEN 0 ELSE @ + 1]
  /\ retrying' = [retrying EXCEPT ![r] = None]
  /\ UNCHANGED counted

Next ==
  \E r \in Retries : \/ \E d \in Conns : Retry(r, d)
                     \/ \E success \in BOOLEAN : Reconnected(r, success)
Spec == Init /\ [][Next]_retryVars

----
(* The limit on the retries of a connection counts finished ones only:     *)
(* calls that wait at the same time exceed it, but never by more than the  *)
(* number of the others; and a limit of zero lets one retry through.       *)
RetriesBounded ==
  \A d \in Conns :
    retryCount[d] + Cardinality({r \in Retries : retrying[r] = d})
      <= (IF MaxRetries = 0 THEN 1 ELSE MaxRetries) + Cardinality(Retries) - 1
====
