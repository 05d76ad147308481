----------------------------- MODULE RateLimiter -----------------------------
(***************************************************************************)
(* The two limiters the authentication uses: the sliding window of         *)
(* src/auth/RateLimiter.js, which authenticate asks, and the fixed window  *)
(* of AuthService.isRateLimited, which the handler of authentication asks. *)
(* Both are synchronous.  The time stamps of a client, a list that may     *)
(* repeat them, are a set of pairs: the n-th of the time t is <<t, n>>.    *)
(***************************************************************************)
EXTENDS Integers, FiniteSets

CONSTANTS
  Clients,
  WindowMs,     \* config.windowMs
  MaxRequests,  \* config.maxRequests
  MaxTime       \* bound: the clock stops here

VARIABLES
  now,           \* Date.now()
  requests,      \* this.requests of the sliding window
  cleaning,      \* its cleanup interval is set
  fixedCount,    \* rateLimiters of AuthService: the count
  fixedReset,    \* and lastReset
  admitted,      \* history: the requests let through since the last reset
  fixedAdmitted  \* history: the same of the fixed window

slidingVars == <<requests, cleaning, admitted>>
fixedVars == <<fixedCount, fixedReset, fixedAdmitted>>
limiterVars == <<now, slidingVars, fixedVars>>

Instants == 0 .. MaxTime
\* bound: the number of a request among those of its time, more than what the limits let through
Numbers == 1 .. 2 * MaxRequests + 1
Stamps == Instants \X Numbers
\* The next request of this time in a set of time stamps has the number n.
IsNext(n, S) == <<now, n>> \notin S /\ (n = 1 \/ <<now, n - 1>> \in S)

-----------------------------------------------------------------------------
(* Operators named after a defect are wrong variants of the definition that *)
(* follows them: Next does not use them; they serve to check that the       *)
(* properties notice the defect.                                            *)

Init ==
  /\ now = 0
  /\ requests = [c \in Clients |-> {}]
  /\ cleaning = TRUE
  /\ fixedCount = [c \in Clients |-> 0]
  /\ fixedReset = [c \in Clients |-> 0]
  /\ admitted = [c \in Clients |-> {}]
  /\ fixedAdmitted = [c \in Clients |-> {}]

\* The oldest instant of the window is dropped as well.
InShortWindow(t) == t > now - WindowMs + 1
\* The filter: the instant exactly one window ago is out.
InWindow(t) == t > now - WindowMs
Recent(c) == {r \in requests[c] : InWindow(r[1])}

\* RateLimiter.isRateLimited: it throws when the window is full.
Admit(c) ==
  /\ Cardinality(Recent(c)) < MaxRequests
  /\ \E n \in Numbers :
       /\ IsNext(n, admitted[c])
       /\ requests' = [requests EXCEPT ![c] = Recent(c) \cup {<<now, n>>}]
       /\ admitted' = [admitted EXCEPT ![c] = @ \cup {<<now, n>>}]
  /\ UNCHANGED <<now, cleaning, fixedVars>>

\* RateLimiter.cleanup, from the interval.
Cleanup ==
  /\ cleaning
  /\ requests' = [c \in Clients |-> Recent(c)]
  /\ UNCHANGED <<now, cleaning, admitted, fixedVars>>

\* RateLimiter.reset
Reset(c) ==
  /\ requests' = [requests EXCEPT ![c] = {}]
  /\ admitted' = [admitted EXCEPT ![c] = {}]
  /\ UNCHANGED <<now, cleaning, fixedVars>>

\* AuthService.cleanup stops the limiter and clears its own: both go on counting.
Stop ==
  /\ cleaning' = FALSE
  /\ requests' = [c \in Clients |-> {}]
  /\ admitted' = [c \in Clients |-> {}]
  /\ fixedCount' = [c \in Clients |-> 0]
  /\ fixedReset' = [c \in Clients |-> now]
  /\ fixedAdmitted' = [c \in Clients |-> {}]
  /\ now' = now

\* AuthService.isRateLimited: the window starts with the first request and again
\* when it is over; refused requests count as well (their number beyond the limit is not told apart).
FixedRequest(c) ==
  LET over == fixedCount[c] = 0 \/ now - fixedReset[c] > WindowMs
      before == IF over THEN 0 ELSE fixedCount[c]
      limited == before + 1 > MaxRequests
  IN /\ fixedReset' = [fixedReset EXCEPT ![c] = IF over THEN now ELSE @]
     /\ fixedCount' = [fixedCount EXCEPT ![c] = IF limited THEN MaxRequests + 1 ELSE before + 1]
     /\ \E n \in Numbers :
          /\ IsNext(n, fixedAdmitted[c])
          /\ fixedAdmitted' = [fixedAdmitted EXCEPT ![c] = IF limited THEN @ ELSE @ \cup {<<now, n>>}]
     /\ UNCHANGED <<now, slidingVars>>

Tick ==
  /\ now < MaxTime
  /\ now' = now + 1
  /\ UNCHANGED <<slidingVars, fixedVars>>

Next ==
  \/ \E c \in Clients : Admit(c) \/ Reset(c) \/ FixedRequest(c)
  \/ Cleanup
  \/ Stop
  \/ Tick

Spec == Init /\ [][Next]_limiterVars

-----------------------------------------------------------------------------
TypeOK ==
  /\ now \in Instants
  /\ requests \in [Clients -> SUBSET Stamps]
  /\ cleaning \in BOOLEAN
  /\ fixedCount \in [Clients -> 0 .. MaxRequests + 1]
  /\ fixedReset \in [Clients -> Instants]
  /\ admitted \in [Clients -> SUBSET Stamps]
  /\ fixedAdmitted \in [Clients -> SUBSET Stamps]

\* The requests of a window that starts at s.
Within(S, s) == {r \in S : s <= r[1] /\ r[1] < s + WindowMs}

\* isRateLimited: no window of windowMs, wherever it starts, lets more than
\* maxRequests of a client through, whatever the cleanups drop meanwhile; the
\* fixed windows let at most twice as many through, across the boundary of two.
RateBounded ==
  \A c \in Clients, s \in Instants :
    /\ Cardinality(Within(admitted[c], s)) <= MaxRequests
    /\ Cardinality(Within(fixedAdmitted[c], s)) <= 2 * MaxRequests
=============================================================================
