----------------------------- MODULE AuthProofs -----------------------------
(***************************************************************************)
(* Proofs about the components of the authentication: Lockout, Sessions,   *)
(* RateLimiter, ApiKeys, Tokens, Threats and Audits, for every value of    *)
(* the constants.  A lemma named after the step of a component brings a    *)
(* step of ComponentsSpec down to one of its module; what follows is about *)
(* that module alone.                                                      *)
(***************************************************************************)
EXTENDS Components, Sequences, FiniteSetTheorems, TLAPS

\* A step is one of one component, and leaves the others as they are.
LEMMA PartStep ==
  ASSUME [ComponentsNext]_componentVars
  PROVE  \E p \in Parts \cup {"none"} :
           /\ Only(p)
           /\ p = "lockout" => Lock!Next
           /\ p = "sessions" => Sess!Next
           /\ p = "limiter" => Limit!Next
           /\ p = "keys" => ApiKey!Next
           /\ p = "tokens" => Token!Next
           /\ p = "threats" => Threat!Next
           /\ p = "audits" => Audit!Next
<1>1. CASE UNCHANGED componentVars
  BY <1>1 DEF componentVars, Only
<1>2. CASE ComponentsNext
  BY <1>2
  DEF ComponentsNext, Parts, PoolStep, LockoutStep, SessionsStep, LimiterStep, KeysStep, TokensStep,
      ThreatsStep, AuditsStep, ScansStep, ConnectionsStep, OperationsStep, RadioStep, CacheStep,
      FailoverStep, SupervisionStep, TransactionsStep, RecoveryStep, ClosingStep, SubscriptionsStep,
      ResourcesStep, RetriesStep
<1> QED
  BY <1>1, <1>2

-----------------------------------------------------------------------------
(* AuthService: the lockout.  A call gets to the check of a key only past  *)
(* a test of the lockout, and the lockout itself notes which calls are     *)
(* already there: with the types the property is inductive.                *)
LEMMA LockConstants == LockoutTime \in Nat /\ LockoutDuration \in Nat /\ MaxFailed \in Nat
BY ComponentsAssumption

LockInv == Lock!TypeOK /\ Lock!LockoutHonoured

LEMMA LockInit == Lock!Init => LockInv
BY LockConstants DEF Lock!Init, LockInv, Lock!TypeOK, Lock!Keys, Lock!Idle, Lock!LockoutHonoured

LEMMA LockType == ASSUME Lock!TypeOK, [Lock!Next]_lockoutState PROVE Lock!TypeOK'
<1> USE LockConstants DEF Lock!TypeOK, Lock!Keys
<1>1. ASSUME NEW k \in Calls, NEW c \in SomeClients, Lock!Authenticate(k, c) PROVE Lock!TypeOK'
  BY <1>1 DEF Lock!Authenticate, Lock!Begin
<1>2. ASSUME NEW k \in Calls, NEW c \in SomeClients, NEW key \in Lock!Keys, Lock!ValidateApiKey(k, c, key)
      PROVE  Lock!TypeOK'
  BY <1>2 DEF Lock!ValidateApiKey, Lock!Begin
<1>3. ASSUME NEW k \in Calls, Lock!PassChecks(k) \/ Lock!SessionCreated(k) PROVE Lock!TypeOK'
  BY <1>3 DEF Lock!PassChecks, Lock!SessionCreated, Lock!Return, Lock!Idle, Lock!lockVars
<1>4. ASSUME NEW k \in Calls, Lock!KeyChecked(k) PROVE Lock!TypeOK'
  <2> DEFINE c == lockCall[k].client
  <2>1. /\ lockCall' = [lockCall EXCEPT ![k].phase = "create"] \/ lockCall' = [lockCall EXCEPT ![k] = Lock!Idle]
        /\ lockTime' = lockTime
    BY <1>4 DEF Lock!KeyChecked, Lock!CreateSession, Lock!Return
  <2>2. lockCall' \in [Calls -> [op : {"none", "authenticate", "validateApiKey"},
                             phase : {"idle", "checks", "key", "create"},
                             client : SomeClients \cup {None}, key : {"right", "wrong"}]]
    BY <2>1 DEF Lock!Idle
  <2>3. \/ authFailures' = [authFailures EXCEPT ![c] = 0]
           /\ UNCHANGED <<blockedUntil, begunBefore, testedBefore>>
        \/ Lock!CountFailure(c)
    BY <1>4 DEF Lock!KeyChecked
  <2>4. authFailures' \in [SomeClients -> 0..MaxFailed]
    BY <2>3 DEF Lock!CountFailure
  <2>5. blockedUntil' \in [SomeClients -> 0 .. (LockoutTime + LockoutDuration) \cup {None}]
    BY <2>3 DEF Lock!CountFailure
  <2>6. testedBefore' \subseteq begunBefore' /\ begunBefore' \subseteq Calls
    BY <2>3 DEF Lock!CountFailure, Lock!Of
  <2> QED
    BY <2>1, <2>2, <2>4, <2>5, <2>6
<1>5. CASE Lock!Stop \/ Lock!Tick \/ UNCHANGED lockoutState
  BY <1>5 DEF Lock!Stop, Lock!Tick, Lock!lockVars, lockoutState
<1> QED
  BY <1>1, <1>2, <1>3, <1>4, <1>5 DEF Lock!Next

\* A call that begins for client c leaves the calls of the other clients alone.
LEMMA LockBegin ==
  ASSUME LockInv, NEW k \in Calls, NEW c \in SomeClients, NEW op, NEW key,
         NEW phase \in {"checks", "key"}, Lock!Begin(k, c, op, phase, key),
         blockedUntil'[c] = None, \A d \in SomeClients \ {c} : blockedUntil'[d] = blockedUntil[d]
  PROVE  Lock!LockoutHonoured'
BY DEF LockInv, Lock!TypeOK, Lock!Keys, Lock!Begin, Lock!LockoutHonoured, Lock!Of, Lock!Idle

LEMMA LockNext == ASSUME LockInv, [Lock!Next]_lockoutState PROVE LockInv'
<1> USE DEF Lock!LockoutHonoured, Lock!Of, LockInv
<1>1. Lock!TypeOK'
  BY LockType
<1>2. ASSUME NEW k \in Calls, NEW c \in SomeClients, Lock!Authenticate(k, c) PROVE Lock!LockoutHonoured'
  <2>1. blockedUntil'[c] = None /\ \A d \in SomeClients \ {c} : blockedUntil'[d] = blockedUntil[d]
    BY <1>2 DEF Lock!Authenticate, Lock!TypeOK
  <2> QED
    BY <1>2, <2>1, LockBegin DEF Lock!Authenticate
<1>3. ASSUME NEW k \in Calls, NEW c \in SomeClients, NEW key \in Lock!Keys, Lock!ValidateApiKey(k, c, key)
      PROVE  Lock!LockoutHonoured'
  <2>1. blockedUntil'[c] = None /\ \A d \in SomeClients \ {c} : blockedUntil'[d] = blockedUntil[d]
    BY <1>3 DEF Lock!ValidateApiKey
  <2> QED
    BY <1>3, <2>1, LockBegin DEF Lock!ValidateApiKey
<1>4. ASSUME NEW k \in Calls, Lock!PassChecks(k) \/ Lock!SessionCreated(k) PROVE Lock!LockoutHonoured'
  BY <1>4 DEF Lock!PassChecks, Lock!SessionCreated, Lock!Return, Lock!Idle, Lock!lockVars, Lock!TypeOK
<1>5. ASSUME NEW k \in Calls, Lock!KeyChecked(k) PROVE Lock!LockoutHonoured'
  <2>1. CASE lockCall[k].key = "right" /\ lockCall[k].op = "authenticate"
    <3>1. UNCHANGED <<blockedUntil, begunBefore, testedBefore>> /\ Lock!CreateSession(k)
      BY <1>5, <2>1 DEF Lock!KeyChecked
    <3> QED
      BY <3>1, <1>5 DEF Lock!CreateSession, Lock!Return, Lock!Idle, Lock!KeyChecked, Lock!TypeOK
  <2>2. CASE lockCall[k].key = "right" /\ lockCall[k].op # "authenticate"
    BY <1>5, <2>2 DEF Lock!KeyChecked, Lock!Return, Lock!Idle, Lock!TypeOK
  <2>3. CASE lockCall[k].key # "right"
    BY <1>5, <2>3 DEF Lock!KeyChecked, Lock!CountFailure, Lock!Return, Lock!Idle, Lock!TypeOK
  <2> QED
    BY <2>1, <2>2, <2>3
<1>6. CASE Lock!Stop
  BY <1>1, <1>6 DEF Lock!Stop
<1>7. CASE Lock!Tick \/ UNCHANGED lockoutState
  BY <1>1, <1>7 DEF Lock!Tick, Lock!lockVars, lockoutState
<1> QED
  BY <1>1, <1>2, <1>3, <1>4, <1>5, <1>6, <1>7 DEF Lock!Next

LEMMA LockStep == [ComponentsNext]_componentVars => [Lock!Next]_lockoutState
BY PartStep DEF Only

\* While a client is locked out (authenticate, validateApiKey, createSession) its
\* keys are checked, and sessions created for it, only in calls that were past the
\* tests when the lockout began.
THEOREM LockoutHonouredAlways == ComponentsSpec => []LockoutHonoured
<1>1. ComponentsInit => LockInv
  BY LockInit DEF ComponentsInit
<1>2. LockInv /\ [ComponentsNext]_componentVars => LockInv'
  BY LockStep, LockNext
<1>3. LockInv => LockoutHonoured
  BY DEF LockInv, LockoutHonoured
<1> QED
  BY <1>1, <1>2, <1>3, PTL DEF ComponentsSpec

-----------------------------------------------------------------------------
(* AuthService: sessions.  Only tokens issued are validated or removed, so *)
(* that a token issued later cannot be one that was removed.               *)
LEMMA SessConstants == SessionTime \in Nat /\ SessionDuration \in Nat
BY ComponentsAssumption

SessionInv ==
  /\ Sess!TypeOK
  /\ Sess!RemovedStaysRemoved
  /\ removed \subseteq issued
  /\ \A k \in Calls : sessionCall[k].op \in {"validate", "remove"} => sessionCall[k].token \in issued

LEMMA SessionInit == Sess!Init => SessionInv
BY SessConstants DEF Sess!Init, SessionInv, Sess!TypeOK, Sess!RemovedStaysRemoved, Sess!Idle, Sess!NoPass, Sess!Times, Sess!Never

\* The calls, and what they know of the sessions.
LEMMA SessionCalls ==
  ASSUME SessionInv, [Sess!Next]_sessionState
  PROVE  /\ issued \subseteq issued' /\ issued' \subseteq Tokens
         /\ sessionCall' \in [Calls -> [op : {"none", "create", "validate", "remove"},
                                 phase : {"idle", "encrypt", "decrypt", "store"},
                                 token : issued' \cup {None}]]
         /\ \A k \in Calls : sessionCall'[k].op \in {"validate", "remove"} => sessionCall'[k].token \in issued'
<1> DEFINE CallsSound ==
             /\ sessionCall' \in [Calls -> [op : {"none", "create", "validate", "remove"},
                                     phase : {"idle", "encrypt", "decrypt", "store"},
                                     token : issued' \cup {None}]]
             /\ \A k \in Calls : sessionCall'[k].op \in {"validate", "remove"} => sessionCall'[k].token \in issued'
<1> USE DEF SessionInv, Sess!TypeOK
<1>1. issued \subseteq issued' /\ issued' \subseteq Tokens
  BY DEF Sess!Next, sessionState, Sess!CreateSession, Sess!ReadSession, Sess!Resume, Sess!SessionCreated, Sess!DecryptFailed, Sess!SessionRead,
         Sess!SessionStored, Sess!SessionRemoved, Sess!CreateConnection, Sess!CloseConnection, Sess!Cleanup, Sess!StartPass,
         Sess!CleanRead, Sess!CleanDecide, Sess!CleanAborts, Sess!StartCleanup, Sess!StopCleanup, Sess!Stop, Sess!Tick, Sess!sessionVars
<1>2. ASSUME sessionCall' = sessionCall PROVE CallsSound
  BY <1>1, <1>2
<1>3. ASSUME NEW k \in Calls, Sess!Return(k) PROVE CallsSound
  BY <1>1, <1>3 DEF Sess!Return, Sess!Idle
<1>4. ASSUME NEW k \in Calls, Sess!CreateSession(k) PROVE CallsSound
  BY <1>1, <1>4 DEF Sess!CreateSession, Sess!Idle, Sess!Begins
<1>5. ASSUME NEW k \in Calls, NEW t \in Tokens, NEW op \in {"validate", "remove"}, Sess!ReadSession(k, op, t)
      PROVE  CallsSound
  BY <1>1, <1>5 DEF Sess!ReadSession, Sess!Idle
<1>6. ASSUME NEW k \in Calls, Sess!SessionRead(k) PROVE CallsSound
  <2>1. Sess!Return(k) \/ sessionCall' = [sessionCall EXCEPT ![k].phase = "store"]
    BY <1>6 DEF Sess!SessionRead, Sess!Await
  <2>2. CASE sessionCall' = [sessionCall EXCEPT ![k].phase = "store"]
    BY <1>1, <2>2
  <2> QED
    BY <1>3, <2>1, <2>2
<1> HIDE DEF CallsSound
<1>7. CallsSound
  BY <1>2, <1>3, <1>4, <1>5, <1>6
  DEF Sess!Next, sessionState, Sess!Resume, Sess!SessionCreated, Sess!DecryptFailed, Sess!SessionStored, Sess!SessionRemoved,
      Sess!CreateConnection, Sess!CloseConnection, Sess!Cleanup, Sess!StartPass, Sess!CleanRead, Sess!CleanDecide, Sess!CleanAborts, Sess!StartCleanup,
      Sess!StopCleanup, Sess!Stop, Sess!Tick
<1> QED
  BY <1>1, <1>7 DEF CallsSound

\* The clock, the expiries and the pass of the cleanup.
LEMMA SessionCleaner ==
  ASSUME SessionInv, [Sess!Next]_sessionState
  PROVE  /\ sessionTime' \in 0 .. SessionTime
         /\ expiresAt' \in [Tokens -> Sess!Times]
         /\ cleaner' \in [at : 0 .. sessionTime', todo : SUBSET issued', token : issued' \cup {None}]
         /\ cleanupTimer' \in BOOLEAN /\ aborts' \in Nat
<1> USE DEF SessionInv, Sess!TypeOK
<1>1. sessionTime' \in 0 .. SessionTime /\ sessionTime <= sessionTime'
  <2>1. sessionTime' = sessionTime \/ Sess!Tick
    BY DEF Sess!Next, sessionState, Sess!CreateSession, Sess!ReadSession, Sess!Resume, Sess!SessionCreated, Sess!DecryptFailed, Sess!SessionRead,
           Sess!SessionStored, Sess!SessionRemoved, Sess!CreateConnection, Sess!CloseConnection, Sess!Cleanup, Sess!StartPass,
           Sess!CleanRead, Sess!CleanDecide, Sess!CleanAborts, Sess!StartCleanup, Sess!StopCleanup, Sess!Stop
  <2> QED
    BY <2>1, SessConstants DEF Sess!Tick
<1>2. sessionTime + SessionDuration \in Sess!Times /\ Sess!Never \in Sess!Times
  BY SessConstants DEF Sess!Times, Sess!Never
<1>3. expiresAt' \in [Tokens -> Sess!Times]
  <2>1. \/ expiresAt' = expiresAt
        \/ \E t \in Tokens, e \in {sessionTime + SessionDuration, Sess!Never} :
             expiresAt' = [expiresAt EXCEPT ![t] = e]
    BY DEF Sess!Next, sessionState, Sess!CreateSession, Sess!ReadSession, Sess!Resume, Sess!SessionCreated, Sess!DecryptFailed, Sess!SessionRead,
           Sess!SessionStored, Sess!SessionRemoved, Sess!CreateConnection, Sess!CloseConnection, Sess!Cleanup, Sess!StartPass,
           Sess!CleanRead, Sess!CleanDecide, Sess!CleanAborts, Sess!StartCleanup, Sess!StopCleanup, Sess!Stop, Sess!Tick, Sess!sessionVars
  <2> QED
    BY <1>2, <2>1
<1>4. issued \subseteq issued'
  BY SessionCalls
<1>5. Sess!NoPass \in [at : 0 .. sessionTime', todo : SUBSET issued', token : issued' \cup {None}]
  BY <1>1, SessConstants DEF Sess!NoPass
<1> DEFINE PassSound == /\ cleaner' \in [at : 0 .. sessionTime', todo : SUBSET issued', token : issued' \cup {None}]
                        /\ cleanupTimer' \in BOOLEAN /\ aborts' \in Nat
<1>6. ASSUME cleaner' = cleaner, cleanupTimer' \in BOOLEAN, aborts' = aborts PROVE PassSound
  BY <1>1, <1>4, <1>6, SessConstants
<1>7. ASSUME Sess!StartPass PROVE PassSound
  BY <1>1, <1>4, <1>7, SessConstants DEF Sess!StartPass, Sess!sessionVars
<1>8. ASSUME NEW t \in Tokens, Sess!CleanRead(t) PROVE PassSound
  BY <1>1, <1>4, <1>5, <1>8, SessConstants DEF Sess!CleanRead, Sess!Rest, Sess!sessionVars
<1>9. ASSUME Sess!CleanDecide \/ Sess!CleanAborts PROVE PassSound
  <2>1. CASE Sess!CleanDecide
    BY <1>1, <1>4, <1>5, <2>1, SessConstants DEF Sess!CleanDecide, Sess!Rest
  <2>2. CASE Sess!CleanAborts
    <3>1. cleaner' = Sess!NoPass /\ cleanupTimer' = cleanupTimer /\ aborts' = aborts + 1
      BY <2>2 DEF Sess!CleanAborts
    <3> QED
      BY <1>5, <3>1
  <2> QED
    BY <1>9, <2>1, <2>2
<1> HIDE DEF PassSound
<1>10. ASSUME Sess!StartCleanup \/ Sess!StopCleanup \/ Sess!Stop PROVE PassSound
  BY <1>6, <1>10 DEF Sess!StartCleanup, Sess!StopCleanup, Sess!Stop
<1>11. ASSUME UNCHANGED Sess!cleanVars PROVE PassSound
  BY <1>6, <1>11 DEF Sess!cleanVars
<1>12. PassSound
  BY <1>7, <1>8, <1>9, <1>10, <1>11
  DEF Sess!Next, sessionState, Sess!cleanVars, Sess!CreateSession, Sess!ReadSession, Sess!Resume, Sess!SessionCreated, Sess!DecryptFailed,
      Sess!SessionRead, Sess!SessionStored, Sess!SessionRemoved, Sess!CreateConnection, Sess!CloseConnection, Sess!Cleanup, Sess!Tick
<1> QED
  BY <1>1, <1>3, <1>12 DEF PassSound

\* What is stored and what was removed.
LEMMA SessionStore ==
  ASSUME SessionInv, [Sess!Next]_sessionState
  PROVE  /\ activeSessions' \subseteq issued' /\ removed' \subseteq issued'
         /\ revived' \subseteq removed' /\ Sess!RemovedStaysRemoved'
<1> USE DEF SessionInv, Sess!TypeOK, Sess!RemovedStaysRemoved
<1>1. ASSUME NEW k \in Calls, NEW t \in Tokens, Sess!SessionCreated(k, t)
      PROVE  /\ activeSessions' \subseteq issued' /\ removed' \subseteq issued'
             /\ revived' \subseteq removed' /\ Sess!RemovedStaysRemoved'
  BY <1>1 DEF Sess!SessionCreated, Sess!New
<1>2. ASSUME NEW k \in Calls, Sess!SessionStored(k) \/ Sess!SessionRead(k) \/ Sess!SessionRemoved(k)
      PROVE  /\ activeSessions' \subseteq issued' /\ removed' \subseteq issued'
             /\ revived' \subseteq removed' /\ Sess!RemovedStaysRemoved'
  BY <1>2 DEF Sess!SessionStored, Sess!SessionRead, Sess!SessionRemoved, Sess!Awaiting
<1>3. ASSUME NEW t \in Tokens, Sess!CreateConnection(t) \/ Sess!CloseConnection(t)
      PROVE  /\ activeSessions' \subseteq issued' /\ removed' \subseteq issued'
             /\ revived' \subseteq removed' /\ Sess!RemovedStaysRemoved'
  BY <1>3 DEF Sess!CreateConnection, Sess!CloseConnection, Sess!New
<1>4. CASE UNCHANGED <<issued, removed, revived>> /\ activeSessions' \subseteq activeSessions
  BY <1>4
<1> QED
  BY <1>1, <1>2, <1>3, <1>4
  DEF Sess!Next, sessionState, Sess!CreateSession, Sess!ReadSession, Sess!Resume, Sess!DecryptFailed, Sess!Cleanup, Sess!StartPass, Sess!CleanRead,
      Sess!CleanDecide, Sess!CleanAborts, Sess!StartCleanup, Sess!StopCleanup, Sess!Stop, Sess!Tick, Sess!sessionVars

LEMMA SessionNext == ASSUME SessionInv, [Sess!Next]_sessionState PROVE SessionInv'
BY SessionCalls, SessionCleaner, SessionStore DEF SessionInv, Sess!TypeOK

LEMMA SessionStep == [ComponentsNext]_componentVars => [Sess!Next]_sessionState
BY PartStep DEF Only

\* A session for which removeSession answered true is active again only because a
\* validation that had read it before stored it afterwards (removeSession,
\* validateSession, cleanupSessions).
THEOREM RemovedStaysRemovedAlways == ComponentsSpec => []RemovedStaysRemoved
<1>1. ComponentsInit => SessionInv
  BY SessionInit DEF ComponentsInit
<1>2. SessionInv /\ [ComponentsNext]_componentVars => SessionInv'
  BY SessionStep, SessionNext
<1>3. SessionInv => RemovedStaysRemoved
  BY DEF SessionInv, RemovedStaysRemoved
<1> QED
  BY <1>1, <1>2, <1>3, PTL DEF ComponentsSpec

-----------------------------------------------------------------------------
(* RateLimiter.  Of the sliding window: what was let through within the    *)
(* window that ends now is still on the list.  Of the fixed windows: each  *)
(* lets maxRequests through, and those of the last windowMs before the     *)
(* present one began are all from one of them, which was longer.           *)
LEMMA LimitConstants == {WindowMs, MaxRequests, LimiterTime} \subseteq Nat
BY ComponentsAssumption

LEMMA LimitCardinality == \A S : Limit!Cardinality(S) = Cardinality(S)
BY DEF Limit!Cardinality, Cardinality, Limit!IsFiniteSet, IsFiniteSet

\* What a fixed window let through so far, and what was let through just before it.
InFixed(c) == {r \in fixedAdmitted[c] : fixedReset[c] <= r[1]}
JustBefore(c) == {r \in fixedAdmitted[c] : fixedReset[c] - WindowMs <= r[1] /\ r[1] < fixedReset[c]}

\* A subset of S with at most n elements.
AtMost(S, n) == IsFiniteSet(S) /\ Cardinality(S) <= n

SlidingKept(c) ==
  /\ \A r \in admitted[c] : r[1] <= limitTime /\ (Limit!InWindow(r[1]) => r \in requests[c])
  /\ \A s \in Limit!Instants : AtMost(Limit!Within(admitted[c], s), MaxRequests)

FixedKept(c) ==
  /\ fixedReset[c] <= limitTime
  /\ \A r \in fixedAdmitted[c] : r[1] <= limitTime /\ r[1] <= fixedReset[c] + WindowMs
  /\ fixedCount[c] = 0 => fixedAdmitted[c] = {}
  /\ AtMost(InFixed(c), fixedCount[c]) /\ AtMost(InFixed(c), MaxRequests)
  /\ AtMost(JustBefore(c), MaxRequests)
  /\ \A s \in Limit!Instants : AtMost(Limit!Within(fixedAdmitted[c], s), 2 * MaxRequests)

LimitInv == Limit!TypeOK /\ \A c \in SomeClients : SlidingKept(c) /\ FixedKept(c)

LEMMA LimitNumbers ==
  /\ WindowMs \in Nat /\ MaxRequests \in Nat /\ LimiterTime \in Nat
  /\ Limit!Instants \subseteq Nat /\ \A r \in Limit!Stamps : r[1] \in Nat
  /\ IsFiniteSet(Limit!Stamps)
<1>1. WindowMs \in Nat /\ MaxRequests \in Nat /\ LimiterTime \in Nat
  BY LimitConstants
<1>2. Limit!Instants \subseteq Nat /\ \A r \in Limit!Stamps : r[1] \in Nat
  BY <1>1 DEF Limit!Instants, Limit!Stamps
<1>3. IsFiniteSet(Limit!Instants) /\ IsFiniteSet(Limit!Numbers)
  <2>1. 0 \in Int /\ 1 \in Int /\ LimiterTime \in Int /\ 2 * MaxRequests + 1 \in Int
    BY <1>1
  <2> QED
    BY <2>1, FS_Interval DEF Limit!Instants, Limit!Numbers
<1>4. IsFiniteSet(Limit!Stamps)
  BY <1>3, FS_Product DEF Limit!Stamps
<1> QED
  BY <1>1, <1>2, <1>4

LEMMA AtMostPart == ASSUME NEW S, NEW T, NEW n \in Nat, AtMost(T, n), S \subseteq T PROVE AtMost(S, n)
<1>1. IsFiniteSet(S) /\ Cardinality(S) <= Cardinality(T) /\ IsFiniteSet(T) /\ Cardinality(T) <= n
  BY FS_Subset DEF AtMost
<1>2. Cardinality(S) \in Nat /\ Cardinality(T) \in Nat
  BY <1>1, FS_CardinalityType
<1> QED
  BY <1>1, <1>2 DEF AtMost

LEMMA AtMostEmpty == ASSUME NEW n \in Nat PROVE AtMost({}, n)
BY FS_EmptySet DEF AtMost

LEMMA AtMostMore == ASSUME NEW S, NEW e, NEW n \in Nat, AtMost(S, n) PROVE AtMost(S \cup {e}, n + 1)
<1>1. IsFiniteSet(S \cup {e}) /\ Cardinality(S \cup {e}) = IF e \in S THEN Cardinality(S) ELSE Cardinality(S) + 1
  BY FS_AddElement DEF AtMost
<1>2. Cardinality(S) \in Nat /\ Cardinality(S) <= n
  BY FS_CardinalityType DEF AtMost
<1> QED
  BY <1>1, <1>2 DEF AtMost

LEMMA AtMostBoth ==
  ASSUME NEW S, NEW T, NEW n \in Nat, AtMost(S, n), AtMost(T, n) PROVE AtMost(S \cup T, 2 * n)
<1>1. /\ IsFiniteSet(S \cup T)
      /\ Cardinality(S \cup T) = Cardinality(S) + Cardinality(T) - Cardinality(S \cap T)
  BY FS_Union DEF AtMost
<1>2. Cardinality(S) \in Nat /\ Cardinality(T) \in Nat /\ Cardinality(S) <= n /\ Cardinality(T) <= n
  BY FS_CardinalityType DEF AtMost
<1>3. Cardinality(S \cap T) \in Nat
  BY FS_Intersection, FS_CardinalityType DEF AtMost
<1> QED
  BY <1>1, <1>2, <1>3 DEF AtMost

LEMMA LimitInit == Limit!Init => LimitInv
<1> SUFFICES ASSUME Limit!Init PROVE LimitInv
  OBVIOUS
<1>1. Limit!TypeOK
  BY LimitNumbers DEF Limit!Init, Limit!TypeOK, Limit!Instants
<1>2. ASSUME NEW c \in SomeClients PROVE SlidingKept(c) /\ FixedKept(c)
  <2>1. admitted[c] = {} /\ fixedAdmitted[c] = {} /\ fixedCount[c] = 0 /\ fixedReset[c] = 0 /\ limitTime = 0
    BY DEF Limit!Init
  <2>2. \A s : Limit!Within({}, s) = {}
    BY DEF Limit!Within
  <2>3. InFixed(c) = {} /\ JustBefore(c) = {}
    BY <2>1 DEF InFixed, JustBefore
  <2>4. AtMost({}, 0) /\ AtMost({}, MaxRequests) /\ AtMost({}, 2 * MaxRequests)
    BY LimitNumbers, AtMostEmpty
  <2> QED
    BY <2>1, <2>2, <2>3, <2>4 DEF SlidingKept, FixedKept
<1> QED
  BY <1>1, <1>2 DEF LimitInv

-----------------------------------------------------------------------------
LEMMA SlidingSame ==
  ASSUME NEW c \in SomeClients, SlidingKept(c), limitTime' = limitTime, admitted'[c] = admitted[c], requests'[c] = requests[c]
  PROVE  SlidingKept(c)'
BY DEF SlidingKept, Limit!InWindow, Limit!Within, AtMost

LEMMA FixedSame ==
  ASSUME NEW c \in SomeClients, FixedKept(c), limitTime' = limitTime, fixedAdmitted'[c] = fixedAdmitted[c],
         fixedCount'[c] = fixedCount[c], fixedReset'[c] = fixedReset[c]
  PROVE  FixedKept(c)'
BY DEF FixedKept, InFixed, JustBefore, Limit!Within, AtMost

\* A request that the sliding window lets through.
LEMMA SlidingAdmits == ASSUME LimitInv, NEW c \in SomeClients, Limit!Admit(c) PROVE SlidingKept(c)'
<1>1. PICK n \in Limit!Numbers :
        /\ Cardinality(Limit!Recent(c)) < MaxRequests
        /\ requests' = [requests EXCEPT ![c] = Limit!Recent(c) \cup {<<limitTime, n>>}]
        /\ admitted' = [admitted EXCEPT ![c] = @ \cup {<<limitTime, n>>}]
        /\ limitTime' = limitTime
  BY LimitCardinality DEF Limit!Admit
<1> DEFINE e == <<limitTime, n>>
           A == admitted[c]
<1>2. requests'[c] = Limit!Recent(c) \cup {e} /\ admitted'[c] = A \cup {e}
  BY <1>1 DEF LimitInv, Limit!TypeOK
<1>3. /\ limitTime \in Nat /\ A \subseteq Limit!Stamps /\ requests[c] \subseteq Limit!Stamps
      /\ \A r \in A : r[1] \in Nat /\ r[1] <= limitTime /\ (Limit!InWindow(r[1]) => r \in requests[c])
      /\ \A s \in Limit!Instants : s \in Nat /\ AtMost(Limit!Within(A, s), MaxRequests)
  BY LimitNumbers DEF LimitInv, Limit!TypeOK, SlidingKept
<1>4. e[1] = limitTime
  OBVIOUS
<1> HIDE DEF e, A
<1>5. \A r \in admitted'[c] : r[1] <= limitTime /\ (Limit!InWindow(r[1]) => r \in requests'[c])
  <2> TAKE r \in admitted'[c]
  <2>1. CASE r = e
    BY <1>2, <1>3, <1>4, <2>1
  <2>2. CASE r \in A
    BY <1>2, <1>3, <2>2 DEF Limit!Recent
  <2> QED
    BY <1>2, <2>1, <2>2
<1>6. AtMost(Limit!Recent(c), MaxRequests - 1) /\ MaxRequests - 1 \in Nat
  <2>1. IsFiniteSet(Limit!Recent(c))
    <3>1. Limit!Recent(c) \subseteq Limit!Stamps
      BY <1>3 DEF Limit!Recent
    <3> QED
      BY <3>1, LimitNumbers, FS_Subset
  <2>2. Cardinality(Limit!Recent(c)) \in Nat
    BY <2>1, FS_CardinalityType
  <2> QED
    BY <1>1, <2>1, <2>2, LimitNumbers DEF AtMost
<1>7. AtMost(Limit!Recent(c) \cup {e}, MaxRequests)
  <2>1. MaxRequests - 1 + 1 = MaxRequests
    BY LimitNumbers
  <2> QED
    BY <1>6, <2>1, AtMostMore
<1>8. ASSUME NEW s \in Limit!Instants PROVE AtMost(Limit!Within(admitted'[c], s), MaxRequests)
  <2>1. CASE s <= limitTime /\ limitTime < s + WindowMs
    <3>1. \A r \in A : s <= r[1] => Limit!InWindow(r[1])
      BY <1>3, <2>1, LimitNumbers DEF Limit!InWindow
    <3>2. Limit!Within(admitted'[c], s) \subseteq Limit!Recent(c) \cup {e}
      BY <1>2, <1>3, <3>1 DEF Limit!Within, Limit!Recent
    <3> QED
      BY <1>7, <3>2, AtMostPart, LimitNumbers
  <2>2. CASE ~ (s <= limitTime /\ limitTime < s + WindowMs)
    <3>1. Limit!Within(admitted'[c], s) = Limit!Within(A, s)
      BY <1>2, <1>4, <2>2 DEF Limit!Within
    <3> QED
      BY <1>3, <3>1
  <2> QED
    BY <2>1, <2>2
<1>9. limitTime' = limitTime /\ Limit!Instants' = Limit!Instants
  BY <1>1 DEF Limit!Instants
<1> QED
  BY <1>5, <1>8, <1>9 DEF SlidingKept, Limit!InWindow, Limit!Within, AtMost

\* A request of the fixed window, let through or not.
LEMMA FixedCounts == ASSUME LimitInv, NEW c \in SomeClients, Limit!FixedRequest(c) PROVE FixedKept(c)'
<1> DEFINE F == fixedAdmitted[c]
           over == fixedCount[c] = 0 \/ limitTime - fixedReset[c] > WindowMs
           before == IF over THEN 0 ELSE fixedCount[c]
           limited == before + 1 > MaxRequests
<1>1. PICK n \in Limit!Numbers :
        /\ fixedReset' = [fixedReset EXCEPT ![c] = IF over THEN limitTime ELSE @]
        /\ fixedCount' = [fixedCount EXCEPT ![c] = IF limited THEN MaxRequests + 1 ELSE before + 1]
        /\ fixedAdmitted' = [fixedAdmitted EXCEPT ![c] = IF limited THEN @ ELSE @ \cup {<<limitTime, n>>}]
        /\ limitTime' = limitTime
  BY DEF Limit!FixedRequest
<1> DEFINE e == <<limitTime, n>>
           G == fixedAdmitted'[c]
<1>2. /\ fixedReset'[c] = IF over THEN limitTime ELSE fixedReset[c]
      /\ fixedCount'[c] = IF limited THEN MaxRequests + 1 ELSE before + 1
      /\ G = IF limited THEN F ELSE F \cup {e}
      /\ limitTime' = limitTime
  BY <1>1 DEF LimitInv, Limit!TypeOK
<1>3. /\ limitTime \in Nat /\ fixedReset[c] \in Nat /\ fixedCount[c] \in Nat /\ fixedReset[c] <= limitTime
      /\ \A r \in F : r[1] \in Nat /\ r[1] <= limitTime /\ r[1] <= fixedReset[c] + WindowMs
      /\ fixedCount[c] = 0 => F = {}
      /\ AtMost(InFixed(c), fixedCount[c]) /\ AtMost(InFixed(c), MaxRequests) /\ AtMost(JustBefore(c), MaxRequests)
      /\ \A s \in Limit!Instants : s \in Nat /\ AtMost(Limit!Within(F, s), 2 * MaxRequests)
  <2>1. FixedKept(c)
    BY DEF LimitInv
  <2>2. limitTime \in Nat /\ fixedReset[c] \in Nat /\ F \subseteq Limit!Stamps
    BY LimitNumbers DEF LimitInv, Limit!TypeOK
  <2>3. fixedCount[c] \in Nat
    BY LimitNumbers DEF LimitInv, Limit!TypeOK
  <2>4. \A r \in F : r[1] \in Nat
    BY <2>2, LimitNumbers
  <2> QED
    BY <2>1, <2>2, <2>3, <2>4, LimitNumbers DEF FixedKept
<1>4. e[1] = limitTime /\ WindowMs \in Nat /\ MaxRequests \in Nat
  BY LimitNumbers
<1> DEFINE reset == fixedReset'[c]
           count == fixedCount'[c]
           J == {r \in G : reset - WindowMs <= r[1] /\ r[1] < reset}
           I == {r \in G : reset <= r[1]}
<1> HIDE DEF e, F, G
<1>5. /\ reset \in Nat /\ reset <= limitTime /\ count # 0
      /\ \A r \in G : r[1] \in Nat /\ r[1] <= limitTime /\ r[1] <= reset + WindowMs
      /\ AtMost(J, MaxRequests) /\ AtMost(I, count) /\ AtMost(I, MaxRequests)
  <2>1. CASE over
    <3>1. reset = limitTime /\ before = 0
      BY <1>2, <2>1
    <3>2. \A r \in F : r[1] < limitTime /\ (limitTime - WindowMs <= r[1] => fixedReset[c] <= r[1])
      BY <1>3, <1>4, <2>1
    <3>3. J \subseteq InFixed(c) /\ I \subseteq {e}
      BY <1>2, <1>3, <1>4, <3>1, <3>2 DEF InFixed, F
    <3>4. AtMost(J, MaxRequests)
      BY <1>3, <1>4, <3>3, AtMostPart
    <3>5. CASE limited
      <4>1. G = F /\ count = MaxRequests + 1
        BY <1>2, <3>5
      <4>2. I = {}
        BY <1>3, <3>1, <3>2, <4>1
      <4>3. count \in Nat /\ count # 0
        BY <1>4, <4>1
      <4> HIDE DEF I, J, reset, count
      <4> QED
        BY <1>3, <1>4, <3>1, <3>2, <3>4, <4>1, <4>2, <4>3, AtMostEmpty
    <3>6. CASE ~ limited
      <4>1. count = 1 /\ 1 <= MaxRequests /\ G = F \cup {e}
        BY <1>2, <1>4, <3>1, <3>6
      <4>2. AtMost({e}, 1)
        <5>1. AtMost({} \cup {e}, 0 + 1)
          BY AtMostEmpty, AtMostMore
        <5> QED
          BY <5>1
      <4>3. AtMost(I, 1)
        BY <3>3, <4>2, AtMostPart
      <4>4. AtMost(I, MaxRequests)
        BY <1>4, <4>1, <4>3, FS_CardinalityType DEF AtMost
      <4>5. \A r \in G : r[1] \in Nat /\ r[1] <= limitTime
        BY <1>3, <1>4, <4>1
      <4> HIDE DEF I, J, reset, count
      <4> QED
        BY <1>3, <1>4, <3>1, <3>4, <4>1, <4>3, <4>4, <4>5
    <3> QED
      BY <3>5, <3>6
  <2>2. CASE ~ over
    <3>1. reset = fixedReset[c] /\ before = fixedCount[c] /\ limitTime <= fixedReset[c] + WindowMs
      BY <1>2, <1>3, <1>4, <2>2
    <3>2. J = JustBefore(c)
      BY <1>2, <1>3, <1>4, <3>1 DEF JustBefore, F
    <3>3. AtMost(I, count) /\ AtMost(I, MaxRequests) /\ count # 0
      <4>1. CASE limited
        <5>1. I = InFixed(c) /\ count = MaxRequests + 1
          BY <1>2, <3>1, <4>1 DEF InFixed, F
        <5>2. AtMost(I, MaxRequests)
          BY <1>3, <5>1
        <5>3. IsFiniteSet(I) /\ Cardinality(I) <= MaxRequests /\ Cardinality(I) \in Nat
          BY <5>2, FS_CardinalityType DEF AtMost
        <5>4. Cardinality(I) <= count /\ count # 0
          BY <1>4, <5>1, <5>3
        <5> QED
          BY <5>2, <5>3, <5>4 DEF AtMost
      <4>2. CASE ~ limited
        <5>1. I \subseteq InFixed(c) \cup {e} /\ count = fixedCount[c] + 1 /\ count <= MaxRequests /\ count \in Nat
          BY <1>2, <1>3, <1>4, <3>1, <4>2 DEF InFixed, F
        <5>2. AtMost(I, count)
          <6>1. AtMost(InFixed(c) \cup {e}, fixedCount[c] + 1)
            BY <1>3, AtMostMore
          <6> QED
            BY <5>1, <6>1, AtMostPart
        <5>3. count # 0
          BY <1>3, <5>1
        <5> QED
          BY <1>4, <5>1, <5>2, <5>3, FS_CardinalityType DEF AtMost
      <4> QED
        BY <4>1, <4>2
    <3>4. \A r \in G : r[1] \in Nat /\ r[1] <= limitTime /\ r[1] <= reset + WindowMs
      BY <1>2, <1>3, <1>4, <3>1
    <3> HIDE DEF I, J, reset, count
    <3> QED
      BY <1>3, <3>1, <3>2, <3>3, <3>4
  <2> QED
    BY <2>1, <2>2
<1> HIDE DEF reset, count
<1>6. ASSUME NEW s \in Limit!Instants PROVE AtMost(Limit!Within(G, s), 2 * MaxRequests)
  <2>1. CASE s <= limitTime /\ limitTime < s + WindowMs
    <3>1. \A r \in G : s <= r[1] => reset - WindowMs <= r[1]
      BY <1>3, <1>4, <1>5, <2>1
    <3>2. Limit!Within(G, s) \subseteq J \cup I
      BY <1>5, <3>1 DEF Limit!Within
    <3>3. AtMost(J \cup I, 2 * MaxRequests) /\ 2 * MaxRequests \in Nat
      BY <1>4, <1>5, AtMostBoth
    <3> QED
      BY <3>2, <3>3, AtMostPart
  <2>2. CASE ~ (s <= limitTime /\ limitTime < s + WindowMs)
    <3>1. Limit!Within(G, s) = Limit!Within(F, s)
      BY <1>2, <1>4, <2>2 DEF Limit!Within
    <3> QED
      BY <1>3, <3>1
  <2> QED
    BY <2>1, <2>2
<1>7. Limit!Instants' = Limit!Instants /\ InFixed(c)' = I /\ JustBefore(c)' = J
  BY DEF Limit!Instants, InFixed, JustBefore, G, reset
<1> HIDE DEF I, J
<1> QED
  BY <1>2, <1>5, <1>6, <1>7 DEF FixedKept, Limit!Within, AtMost, G, reset, count

LEMMA LimitNext == ASSUME LimitInv, [Limit!Next]_limiterState PROVE LimitInv'
<1>1. Limit!Instants' = Limit!Instants /\ Limit!Stamps' = Limit!Stamps
  BY DEF Limit!Instants, Limit!Stamps, Limit!Numbers
<1>2. \A c \in SomeClients : SlidingKept(c) /\ FixedKept(c)
  BY DEF LimitInv
<1>3. ASSUME NEW c \in SomeClients, Limit!Admit(c) PROVE LimitInv'
  <2>1. PICK n \in Limit!Numbers :
          /\ requests' = [requests EXCEPT ![c] = Limit!Recent(c) \cup {<<limitTime, n>>}]
          /\ admitted' = [admitted EXCEPT ![c] = @ \cup {<<limitTime, n>>}]
          /\ UNCHANGED <<limitTime, limitCleaning, Limit!fixedVars>>
    BY <1>3 DEF Limit!Admit
  <2>2. Limit!Recent(c) \cup {<<limitTime, n>>} \in SUBSET Limit!Stamps /\ admitted[c] \cup {<<limitTime, n>>} \in SUBSET Limit!Stamps
    BY DEF LimitInv, Limit!TypeOK, Limit!Stamps, Limit!Recent
  <2>3. Limit!TypeOK'
    BY <1>1, <2>1, <2>2 DEF LimitInv, Limit!TypeOK, Limit!fixedVars
  <2>4. ASSUME NEW d \in SomeClients PROVE SlidingKept(d)' /\ FixedKept(d)'
    <3>1. d # c => admitted'[d] = admitted[d] /\ requests'[d] = requests[d]
      BY <2>1 DEF LimitInv, Limit!TypeOK
    <3>2. SlidingKept(d)'
      BY <1>2, <1>3, <2>1, <3>1, SlidingSame, SlidingAdmits
    <3>3. FixedKept(d)'
      BY <1>2, <2>1, FixedSame DEF Limit!fixedVars
    <3> QED
      BY <3>2, <3>3
  <2> QED
    BY <2>3, <2>4 DEF LimitInv
<1>4. ASSUME NEW c \in SomeClients, Limit!FixedRequest(c) PROVE LimitInv'
  <2> DEFINE over == fixedCount[c] = 0 \/ limitTime - fixedReset[c] > WindowMs
             before == IF over THEN 0 ELSE fixedCount[c]
             limited == before + 1 > MaxRequests
  <2>1. PICK n \in Limit!Numbers :
          /\ fixedReset' = [fixedReset EXCEPT ![c] = IF over THEN limitTime ELSE @]
          /\ fixedCount' = [fixedCount EXCEPT ![c] = IF limited THEN MaxRequests + 1 ELSE before + 1]
          /\ fixedAdmitted' = [fixedAdmitted EXCEPT ![c] = IF limited THEN @ ELSE @ \cup {<<limitTime, n>>}]
          /\ UNCHANGED <<limitTime, Limit!slidingVars>>
    BY <1>4 DEF Limit!FixedRequest
  <2>2. fixedAdmitted[c] \cup {<<limitTime, n>>} \in SUBSET Limit!Stamps /\ fixedCount[c] \in Nat /\ MaxRequests \in Nat
    BY LimitNumbers DEF LimitInv, Limit!TypeOK, Limit!Stamps
  <2>3. (IF limited THEN MaxRequests + 1 ELSE before + 1) \in 0..MaxRequests + 1
    <3>1. before \in Nat
      BY <2>2
    <3> HIDE DEF before
    <3> QED
      BY <2>2, <3>1
  <2> HIDE DEF over, limited, before
  <2>4. Limit!TypeOK'
    <3>1. fixedReset' \in [SomeClients -> Limit!Instants] /\ fixedCount' \in [SomeClients -> 0..MaxRequests + 1]
          /\ fixedAdmitted' \in [SomeClients -> SUBSET Limit!Stamps]
      BY <2>1, <2>2, <2>3 DEF LimitInv, Limit!TypeOK
    <3> QED
      BY <1>1, <2>1, <3>1 DEF LimitInv, Limit!TypeOK, Limit!slidingVars
  <2>5. ASSUME NEW d \in SomeClients PROVE SlidingKept(d)' /\ FixedKept(d)'
    <3>1. d # c => fixedAdmitted'[d] = fixedAdmitted[d] /\ fixedCount'[d] = fixedCount[d] /\ fixedReset'[d] = fixedReset[d]
      BY <2>1 DEF LimitInv, Limit!TypeOK
    <3>2. FixedKept(d)'
      BY <1>2, <1>4, <2>1, <3>1, FixedSame, FixedCounts
    <3>3. SlidingKept(d)'
      BY <1>2, <2>1, SlidingSame DEF Limit!slidingVars
    <3> QED
      BY <3>2, <3>3
  <2> QED
    BY <2>4, <2>5 DEF LimitInv
<1>5. ASSUME NEW c \in SomeClients, admitted'[c] = {}, limitTime' = limitTime PROVE SlidingKept(c)'
  <2>1. \A s : Limit!Within({}, s) = {}
    BY DEF Limit!Within
  <2> QED
    BY <1>1, <1>5, <2>1, AtMostEmpty, LimitNumbers DEF SlidingKept, Limit!Within, AtMost
<1>6. ASSUME NEW c \in SomeClients, Limit!Reset(c) PROVE LimitInv'
  <2>1. /\ requests' = [requests EXCEPT ![c] = {}] /\ admitted' = [admitted EXCEPT ![c] = {}]
        /\ UNCHANGED <<limitTime, limitCleaning, Limit!fixedVars>>
    BY <1>6 DEF Limit!Reset
  <2>2. Limit!TypeOK'
    BY <1>1, <2>1 DEF LimitInv, Limit!TypeOK, Limit!fixedVars
  <2>3. ASSUME NEW d \in SomeClients PROVE SlidingKept(d)' /\ FixedKept(d)'
    <3>1. IF d = c THEN admitted'[d] = {} ELSE admitted'[d] = admitted[d] /\ requests'[d] = requests[d]
      BY <2>1 DEF LimitInv, Limit!TypeOK
    <3>2. SlidingKept(d)'
      BY <1>2, <1>5, <2>1, <3>1, SlidingSame
    <3>3. FixedKept(d)'
      BY <1>2, <2>1, FixedSame DEF Limit!fixedVars
    <3> QED
      BY <3>2, <3>3
  <2> QED
    BY <2>2, <2>3 DEF LimitInv
<1>7. CASE Limit!Cleanup
  <2>1. requests' = [c \in SomeClients |-> Limit!Recent(c)] /\ UNCHANGED <<limitTime, limitCleaning, admitted, Limit!fixedVars>>
    BY <1>7 DEF Limit!Cleanup
  <2>2. Limit!TypeOK'
    <3>1. \A c \in SomeClients : Limit!Recent(c) \in SUBSET Limit!Stamps
      BY DEF LimitInv, Limit!TypeOK, Limit!Recent
    <3> QED
      BY <1>1, <2>1, <3>1 DEF LimitInv, Limit!TypeOK, Limit!fixedVars
  <2>3. ASSUME NEW d \in SomeClients PROVE SlidingKept(d)' /\ FixedKept(d)'
    <3>1. \A r \in admitted[d] : r[1] <= limitTime /\ (Limit!InWindow(r[1]) => r \in requests'[d])
      BY <1>2, <2>1 DEF SlidingKept, Limit!Recent
    <3>2. SlidingKept(d)'
      BY <1>1, <1>2, <2>1, <3>1 DEF SlidingKept, Limit!InWindow, Limit!Within, AtMost
    <3>3. FixedKept(d)'
      BY <1>2, <2>1, FixedSame DEF Limit!fixedVars
    <3> QED
      BY <3>2, <3>3
  <2> QED
    BY <2>2, <2>3 DEF LimitInv
<1>8. CASE Limit!Stop
  <2>1. /\ limitCleaning' = FALSE /\ limitTime' = limitTime
        /\ requests' = [c \in SomeClients |-> {}] /\ admitted' = [c \in SomeClients |-> {}]
        /\ fixedCount' = [c \in SomeClients |-> 0] /\ fixedReset' = [c \in SomeClients |-> limitTime]
        /\ fixedAdmitted' = [c \in SomeClients |-> {}]
    BY <1>8 DEF Limit!Stop
  <2>2. Limit!TypeOK'
    <3>1. 0 \in 0..MaxRequests + 1 /\ limitTime \in Limit!Instants /\ {} \in SUBSET Limit!Stamps
      BY LimitNumbers DEF LimitInv, Limit!TypeOK
    <3>2. /\ requests' \in [SomeClients -> SUBSET Limit!Stamps] /\ admitted' \in [SomeClients -> SUBSET Limit!Stamps]
          /\ fixedAdmitted' \in [SomeClients -> SUBSET Limit!Stamps] /\ fixedCount' \in [SomeClients -> 0..MaxRequests + 1]
          /\ fixedReset' \in [SomeClients -> Limit!Instants]
      BY <2>1, <3>1
    <3> QED
      BY <1>1, <2>1, <3>1, <3>2 DEF Limit!TypeOK
  <2>3. ASSUME NEW d \in SomeClients PROVE SlidingKept(d)' /\ FixedKept(d)'
    <3>1. SlidingKept(d)'
      BY <1>5, <2>1
    <3>2. /\ fixedAdmitted'[d] = {} /\ fixedCount'[d] = 0 /\ fixedReset'[d] = limitTime /\ limitTime' = limitTime /\ limitTime \in Nat
      BY <2>1, LimitNumbers DEF LimitInv, Limit!TypeOK
    <3>3. \A s : Limit!Within({}, s) = {}
      BY DEF Limit!Within
    <3>4. InFixed(d)' = {} /\ JustBefore(d)' = {}
      BY <3>2 DEF InFixed, JustBefore
    <3>5. AtMost({}, 0) /\ AtMost({}, MaxRequests) /\ AtMost({}, 2 * MaxRequests)
      BY LimitNumbers, AtMostEmpty
    <3>6. FixedKept(d)'
      BY <3>2, <3>3, <3>4, <3>5 DEF FixedKept, Limit!Within, AtMost
    <3> QED
      BY <3>1, <3>6
  <2> QED
    BY <2>2, <2>3 DEF LimitInv
<1>9. CASE Limit!Tick
  <2>1. limitTime < LimiterTime /\ limitTime' = limitTime + 1 /\ UNCHANGED <<Limit!slidingVars, Limit!fixedVars>>
    BY <1>9 DEF Limit!Tick
  <2>2. limitTime \in Nat /\ limitTime' \in Limit!Instants
    BY <2>1, LimitNumbers DEF LimitInv, Limit!TypeOK, Limit!Instants
  <2>3. Limit!TypeOK'
    BY <1>1, <2>1, <2>2 DEF LimitInv, Limit!TypeOK, Limit!slidingVars, Limit!fixedVars
  <2>4. ASSUME NEW d \in SomeClients PROVE SlidingKept(d)' /\ FixedKept(d)'
    <3>1. /\ admitted[d] \subseteq Limit!Stamps /\ fixedAdmitted[d] \subseteq Limit!Stamps /\ fixedReset[d] \in Nat
      BY LimitNumbers DEF LimitInv, Limit!TypeOK
    <3>2. \A r \in admitted[d] : r[1] <= limitTime' /\ (Limit!InWindow(r[1])' => r \in requests[d])
      BY <1>2, <2>1, <2>2, <3>1, LimitNumbers DEF SlidingKept, Limit!InWindow
    <3>3. SlidingKept(d)'
      BY <1>1, <1>2, <2>1, <3>2 DEF SlidingKept, Limit!InWindow, Limit!Within, AtMost, Limit!slidingVars
    <3>4. fixedReset[d] <= limitTime' /\ \A r \in fixedAdmitted[d] : r[1] <= limitTime'
      BY <1>2, <2>1, <2>2, <3>1, LimitNumbers DEF FixedKept
    <3>5. FixedKept(d)'
      BY <1>1, <1>2, <2>1, <3>4 DEF FixedKept, InFixed, JustBefore, Limit!Within, AtMost, Limit!fixedVars
    <3> QED
      BY <3>3, <3>5
  <2> QED
    BY <2>3, <2>4 DEF LimitInv
<1>10. CASE UNCHANGED limiterState
  <2>1. UNCHANGED <<limitTime, requests, limitCleaning, admitted, fixedCount, fixedReset, fixedAdmitted>>
    BY <1>10 DEF limiterState, Limit!slidingVars, Limit!fixedVars
  <2>2. Limit!TypeOK'
    BY <1>1, <2>1 DEF LimitInv, Limit!TypeOK
  <2>3. \A c \in SomeClients : SlidingKept(c)' /\ FixedKept(c)'
    BY <1>2, <2>1, SlidingSame, FixedSame
  <2> QED
    BY <2>2, <2>3 DEF LimitInv
<1> QED
  BY <1>3, <1>4, <1>6, <1>7, <1>8, <1>9, <1>10 DEF Limit!Next

LEMMA LimitHolds == LimitInv => Limit!RateBounded
BY LimitCardinality DEF LimitInv, SlidingKept, FixedKept, AtMost, Limit!RateBounded

LEMMA LimiterPartStep == [ComponentsNext]_componentVars => [Limit!Next]_limiterState
BY PartStep DEF Only

\* However requests, cleanups, resets and a stop follow each other: no window of windowMs,
\* wherever it starts, lets more than maxRequests of a client through the sliding window, nor
\* more than twice as many through the fixed ones (isRateLimited of both limiters).
THEOREM RateBoundedAlways == ComponentsSpec => []RateBounded
<1>1. ComponentsInit => LimitInv
  BY LimitInit DEF ComponentsInit
<1>2. LimitInv /\ [ComponentsNext]_componentVars => LimitInv'
  BY LimiterPartStep, LimitNext
<1>3. LimitInv => RateBounded
  BY LimitHolds DEF LimitInv, RateBounded
<1> QED
  BY <1>1, <1>2, <1>3, PTL DEF ComponentsSpec

-----------------------------------------------------------------------------
(* The two stores of API keys.  Of the manager, what holds at the last     *)
(* firing of the interval: no key was due then, unless the interval has    *)
(* not fired since it was set.  Of the store, that the last key of a       *)
(* client's is the last one made, until it expires: neither the filter nor *)
(* the slice of the latest keys drops it.                                  *)
LEMMA ApiKeyConstants == {RotationInterval, MaxKeyAge, MaxKeys} \subseteq Nat \ {0} /\ {MaxMade, KeyTime} \subseteq Nat
BY ComponentsAssumption

LEMMA KeyCardinality == \A S : ApiKey!Cardinality(S) = Cardinality(S)
BY DEF ApiKey!Cardinality, Cardinality, ApiKey!IsFiniteSet, IsFiniteSet

Key == [id : 1 .. MaxMade, expiresAt : 0 .. KeyTime + RotationInterval]

LastFire == nextFire - ApiKey!Period
Managed ==
  /\ \A c \in keyHeld : rotatedAt[c] <= keyTime
  /\ startedAt <= keyTime
  /\ nextFire # 0 =>
       /\ keyTime <= nextFire /\ LastFire <= keyTime /\ startedAt <= LastFire
       /\ \A c \in keyHeld : LastFire < rotatedAt[c] + RotationInterval \/ LastFire = startedAt

\* The sequence ends with the last key made for the client, unless that has expired.
Current(c, s) ==
  made[c] > 0 /\ keyTime <= newest[c] =>
    Len(s) > 0 /\ s[Len(s)] = [id |-> made[c], expiresAt |-> newest[c]]

Stored == \A c \in SomeClients : Len(keyStore[c]) <= MaxKeys /\ Current(c, keyStore[c])

KeyInv == ApiKey!TypeOK /\ Managed /\ Stored

LEMMA KeyPeriod == ApiKey!Period \in Nat \ {0} /\ ApiKey!Period <= RotationInterval
BY ApiKeyConstants DEF ApiKey!Period, ApiKey!Least

LEMMA KeyInit == ApiKey!Init => KeyInv
<1> SUFFICES ASSUME ApiKey!Init PROVE KeyInv
  OBVIOUS
<1>1. ApiKey!TypeOK
  <2>1. \A c \in SomeClients : keyStore[c] \in Seq(Key)
    BY DEF ApiKey!Init
  <2> QED
    BY <2>1, ApiKeyConstants, KeyPeriod DEF ApiKey!Init, ApiKey!TypeOK, ApiKey!ManagerTypeOK, ApiKey!StoreTypeOK, Key
<1>2. Managed
  BY DEF ApiKey!Init, Managed
<1>3. Stored
  BY ApiKeyConstants DEF ApiKey!Init, Stored, Current
<1> QED
  BY <1>1, <1>2, <1>3 DEF KeyInv

-----------------------------------------------------------------------------
\* Every place up to the number of elements is that of one of them, and the last that of the greatest.
LEMMA KeyPlaces ==
  ASSUME NEW K \in SUBSET Nat, IsFiniteSet(K)
  PROVE  /\ \A p \in 1..Cardinality(K) : \E i \in K : Cardinality({j \in K : j <= i}) = p
         /\ \A m \in K : (\A j \in K : j <= m) =>
              /\ Cardinality({j \in K : j <= m}) = Cardinality(K)
              /\ \A i \in K : Cardinality({j \in K : j <= i}) = Cardinality(K) => i = m
<1> DEFINE S(i) == {j \in K : j <= i}
           f == [i \in K |-> Cardinality(S(i))]
           P == 1..Cardinality(K)
<1>1. Cardinality(K) \in Nat
  BY FS_CardinalityType
<1>2. \A i \in K : IsFiniteSet(S(i)) /\ Cardinality(S(i)) \in Nat /\ Cardinality(S(i)) <= Cardinality(K) /\ S(i) # {}
  <2> TAKE i \in K
  <2>1. S(i) \in SUBSET K /\ i \in S(i)
    OBVIOUS
  <2> HIDE DEF S
  <2>2. IsFiniteSet(S(i)) /\ Cardinality(S(i)) <= Cardinality(K)
    BY <2>1, FS_Subset
  <2> QED
    BY <2>1, <2>2, FS_CardinalityType
<1>3. f \in [K -> P]
  <2>1. \A i \in K : Cardinality(S(i)) # 0
    BY <1>2, FS_EmptySet
  <2> HIDE DEF S
  <2> QED
    BY <1>1, <1>2, <2>1
<1>4. ASSUME NEW i \in K, NEW k \in K, i < k PROVE Cardinality(S(i)) # Cardinality(S(k))
  <2>1. i \in Nat /\ k \in Nat /\ \A j \in K : j \in Nat
    OBVIOUS
  <2>2. S(i) \in SUBSET S(k)
    <3>1. \A j \in K : j <= i => j <= k
      BY <1>4, <2>1
    <3> QED
      BY <3>1
  <2>3. k \in S(k) /\ k \notin S(i)
    BY <1>4, <2>1
  <2> HIDE DEF S
  <2> QED
    BY <1>2, <2>2, <2>3, FS_Subset
<1>5. f \in Injection(K, P)
  <2>1. \A i, k \in K : i # k => f[i] # f[k]
    BY <1>4
  <2> HIDE DEF f
  <2> QED
    BY <1>3, <2>1 DEF Injection, IsInjective
<1>6. IsFiniteSet(P) /\ Cardinality(P) = Cardinality(K)
  <2>1. IsFiniteSet(P) /\ Cardinality(P) = IF 1 > Cardinality(K) THEN 0 ELSE Cardinality(K) - 1 + 1
    BY <1>1, FS_Interval
  <2> QED
    BY <1>1, <2>1
<1>7. f \in Surjection(K, P)
  <2> HIDE DEF f, P
  <2> QED
    BY <1>5, <1>6, FS_Injection
<1>8. \A p \in P : \E i \in K : Cardinality(S(i)) = p
  BY <1>7 DEF Surjection
<1>9. ASSUME NEW m \in K, \A j \in K : j <= m
      PROVE  /\ Cardinality(S(m)) = Cardinality(K)
             /\ \A i \in K : Cardinality(S(i)) = Cardinality(K) => i = m
  <2>1. S(m) = K
    BY <1>9
  <2>2. ASSUME NEW i \in K, Cardinality(S(i)) = Cardinality(K) PROVE i = m
    <3>1. S(i) \in SUBSET K
      OBVIOUS
    <3>2. S(i) = K
      <4> HIDE DEF S
      <4> QED
        BY <2>2, <3>1, FS_Subset
    <3>3. m <= i /\ i <= m
      BY <1>9, <3>2
    <3> QED
      BY <3>3
  <2> QED
    BY <2>1, <2>2
<1> QED
  BY <1>8, <1>9

LEMMA KeyUnexpired ==
  ASSUME NEW s \in Seq(Key), keyTime \in Nat
  PROVE  /\ ApiKey!Unexpired(s) \in Seq(Key)
         /\ Len(s) > 0 /\ keyTime <= s[Len(s)].expiresAt =>
              Len(ApiKey!Unexpired(s)) > 0 /\ ApiKey!Unexpired(s)[Len(ApiKey!Unexpired(s))] = s[Len(s)]
<1> DEFINE K == ApiKey!Kept(s)
           n == Cardinality(K)
           At(p) == CHOOSE i \in K : Cardinality({j \in K : j <= i}) = p
           u == ApiKey!Unexpired(s)
<1>1. DOMAIN s = 1..Len(s) /\ Len(s) \in Nat /\ K \in SUBSET (1..Len(s)) /\ K \in SUBSET Nat
  BY DEF ApiKey!Kept
<1>2. IsFiniteSet(K) /\ n \in Nat
  <2>1. 1 \in Int /\ Len(s) \in Int
    BY <1>1
  <2>2. IsFiniteSet(1..Len(s))
    BY <2>1, FS_Interval
  <2> QED
    BY <1>1, <2>2, FS_Subset, FS_CardinalityType
<1>3. u = [p \in 1..n |-> s[At(p)]]
  BY DEF ApiKey!Unexpired, ApiKey!Cardinality, Cardinality, ApiKey!IsFiniteSet, IsFiniteSet
<1> HIDE DEF u, K
<1>4. \A p \in 1..n : At(p) \in K /\ Cardinality({j \in K : j <= At(p)}) = p
  <2> TAKE p \in 1..n
  <2>1. \A q \in 1..Cardinality(K) : \E i \in K : Cardinality({j \in K : j <= i}) = q
    BY <1>1, <1>2, KeyPlaces
  <2>2. \E i \in K : Cardinality({j \in K : j <= i}) = p
    BY <2>1
  <2> QED
    BY <2>2
<1> HIDE DEF At
<1>5. \A i \in K : s[i] \in Key
  BY <1>1
<1>6. u \in Seq(Key) /\ Len(u) = n
  <2>1. \A p \in 1..n : s[At(p)] \in Key
    BY <1>4, <1>5
  <2> DEFINE E == Key
  <2> HIDE DEF E, n
  <2>2. u \in [1..n -> E]
    BY <1>3, <2>1 DEF E
  <2>3. u \in Seq(E) /\ Len(u) = n
    BY <1>2, <2>2 DEF n
  <2> QED
    BY <2>3 DEF E
<1>7. ASSUME Len(s) > 0, keyTime <= s[Len(s)].expiresAt PROVE Len(u) > 0 /\ u[Len(u)] = s[Len(s)]
  <2>1. Len(s) \in K /\ \A j \in K : j <= Len(s)
    BY <1>1, <1>7 DEF ApiKey!Kept, K
  <2>2. n # 0
    BY <1>2, <2>1, FS_EmptySet
  <2>3. \A i \in K : Cardinality({j \in K : j <= i}) = n => i = Len(s)
    BY <1>1, <1>2, <2>1, KeyPlaces
  <2>4. At(n) = Len(s)
    <3>1. n \in 1..n
      BY <1>2, <2>2
    <3>2. At(n) \in K /\ Cardinality({j \in K : j <= At(n)}) = n
      BY <1>4, <3>1
    <3> QED
      BY <2>3, <3>2
  <2> QED
    BY <1>2, <1>3, <1>6, <2>2, <2>4
<1> QED
  BY <1>6, <1>7 DEF u

LEMMA KeyLast ==
  ASSUME NEW s \in Seq(Key)
  PROVE  /\ ApiKey!LastKeys(s) \in Seq(Key) /\ Len(ApiKey!LastKeys(s)) <= MaxKeys
         /\ Len(s) > 0 => Len(ApiKey!LastKeys(s)) > 0 /\ ApiKey!LastKeys(s)[Len(ApiKey!LastKeys(s))] = s[Len(s)]
<1>1. Len(s) \in Nat /\ MaxKeys \in Nat \ {0}
  BY ApiKeyConstants
<1> HIDE DEF Key
<1>2. CASE Len(s) > MaxKeys
  <2> DEFINE m == Len(s) - MaxKeys + 1
  <2>1. ApiKey!LastKeys(s) = SubSeq(s, m, Len(s))
    BY <1>2 DEF ApiKey!LastKeys
  <2>2. m \in 1..Len(s)
    BY <1>1, <1>2
  <2>3. SubSeq(s, m, Len(s)) \in Seq(Key) /\ Len(SubSeq(s, m, Len(s))) = Len(s) - m + 1
    BY <1>1, <2>2
  <2>4. SubSeq(s, m, Len(s))[Len(s) - m + 1] = s[Len(s)]
    BY <1>1, <2>2
  <2> QED
    BY <1>1, <1>2, <2>1, <2>3, <2>4
<1>3. CASE ~ Len(s) > MaxKeys
  <2>1. ApiKey!LastKeys(s) = SubSeq(s, 1, Len(s))
    BY <1>3 DEF ApiKey!LastKeys
  <2>2. SubSeq(s, 1, Len(s)) = s
    BY <1>1
  <2> QED
    BY <1>1, <1>3, <2>1, <2>2
<1> QED
  BY <1>2, <1>3

LEMMA KeyClean ==
  ASSUME NEW s \in Seq(Key), NEW c \in SomeClients, Current(c, s), ApiKey!TypeOK
  PROVE  ApiKey!CleanKeys(s) \in Seq(Key) /\ Len(ApiKey!CleanKeys(s)) <= MaxKeys /\ Current(c, ApiKey!CleanKeys(s))
<1>1. keyTime \in Nat /\ newest[c] \in Nat /\ made[c] \in Nat
  BY ApiKeyConstants DEF ApiKey!TypeOK, ApiKey!ManagerTypeOK, ApiKey!StoreTypeOK
<1> DEFINE u == ApiKey!Unexpired(s)
<1>2. /\ u \in Seq(Key)
      /\ Len(s) > 0 /\ keyTime <= s[Len(s)].expiresAt => Len(u) > 0 /\ u[Len(u)] = s[Len(s)]
  BY <1>1, KeyUnexpired
<1> HIDE DEF u
<1>3. /\ ApiKey!LastKeys(u) \in Seq(Key) /\ Len(ApiKey!LastKeys(u)) <= MaxKeys
      /\ Len(u) > 0 => Len(ApiKey!LastKeys(u)) > 0 /\ ApiKey!LastKeys(u)[Len(ApiKey!LastKeys(u))] = u[Len(u)]
  BY <1>2, KeyLast
<1>4. ApiKey!CleanKeys(s) = ApiKey!LastKeys(u)
  BY DEF ApiKey!CleanKeys, u
<1>5. made[c] > 0 /\ keyTime <= newest[c] => Len(s) > 0 /\ keyTime <= s[Len(s)].expiresAt
  BY <1>1 DEF Current
<1> QED
  BY <1>2, <1>3, <1>4, <1>5 DEF Current

-----------------------------------------------------------------------------
LEMMA KeyNext == ASSUME KeyInv, [ApiKey!Next]_keyState PROVE KeyInv'
<1>1. /\ keyTime \in Nat /\ keyTime <= KeyTime /\ KeyTime \in Nat /\ nextFire \in Nat /\ startedAt \in Nat
      /\ \A c \in SomeClients : rotatedAt[c] \in Nat /\ createdAt[c] \in Nat
      /\ RotationInterval \in Nat \ {0} /\ MaxKeyAge \in Nat \ {0} /\ ApiKey!Period \in Nat \ {0}
      /\ ApiKey!Period <= RotationInterval
  BY ApiKeyConstants, KeyPeriod DEF KeyInv, ApiKey!TypeOK, ApiKey!ManagerTypeOK
<1>2. UNCHANGED <<keyTime, ApiKey!storeVars>> => Stored'
  BY DEF KeyInv, Stored, Current, ApiKey!storeVars
<1>3. UNCHANGED <<keyTime, ApiKey!managerVars>> => ApiKey!ManagerTypeOK' /\ Managed'
  BY DEF KeyInv, ApiKey!TypeOK, ApiKey!ManagerTypeOK, Managed, LastFire, ApiKey!managerVars
<1>4. UNCHANGED ApiKey!storeVars => ApiKey!StoreTypeOK'
  BY DEF KeyInv, ApiKey!TypeOK, ApiKey!StoreTypeOK, ApiKey!storeVars
<1>5. ApiKey!Period' = ApiKey!Period
  BY DEF ApiKey!Period, ApiKey!Least
<1>6. ASSUME NEW c \in SomeClients, ApiKey!CreateKey(c) \/ ApiKey!RotateKey(c) \/ ApiKey!RemoveKey(c) PROVE KeyInv'
  <2>1. /\ UNCHANGED <<keyTime, nextFire, startedAt, ApiKey!storeVars>>
        /\ keyHeld' \subseteq SomeClients
        /\ createdAt' \in [SomeClients -> 0..KeyTime] /\ rotatedAt' \in [SomeClients -> 0..KeyTime]
        /\ \A d \in SomeClients : createdAt'[d] <= rotatedAt'[d]
        /\ \A d \in keyHeld' : (d \in keyHeld /\ rotatedAt'[d] = rotatedAt[d]) \/ rotatedAt'[d] = keyTime
    <3> USE DEF KeyInv, ApiKey!TypeOK, ApiKey!ManagerTypeOK
    <3>1. CASE ApiKey!CreateKey(c)
      BY <1>1, <3>1 DEF ApiKey!CreateKey
    <3>2. CASE ApiKey!RotateKey(c)
      <4>1. /\ UNCHANGED <<keyTime, keyHeld, createdAt, nextFire, startedAt, ApiKey!storeVars>>
            /\ c \in keyHeld /\ rotatedAt' = [rotatedAt EXCEPT ![c] = keyTime]
        BY <3>2 DEF ApiKey!RotateKey
      <4>2. rotatedAt' \in [SomeClients -> 0..KeyTime] /\ createdAt' \in [SomeClients -> 0..KeyTime] /\ keyHeld' \subseteq SomeClients
        BY <4>1
      <4>3. \A d \in SomeClients : rotatedAt'[d] = IF d = c THEN keyTime ELSE rotatedAt[d]
        BY <4>1
      <4>4. createdAt[c] <= keyTime
        BY <1>1, <4>1 DEF Managed
      <4> QED
        BY <4>1, <4>2, <4>3, <4>4
    <3>3. CASE ApiKey!RemoveKey(c)
      BY <1>1, <3>3 DEF ApiKey!RemoveKey
    <3> QED
      BY <1>6, <3>1, <3>2, <3>3
  <2>2. ApiKey!ManagerTypeOK'
    BY <1>5, <2>1 DEF KeyInv, ApiKey!TypeOK, ApiKey!ManagerTypeOK
  <2>3. \A d \in keyHeld' : rotatedAt'[d] <= keyTime
    BY <1>1, <2>1 DEF KeyInv, Managed
  <2>4. nextFire # 0 => \A d \in keyHeld' : LastFire < rotatedAt'[d] + RotationInterval \/ LastFire = startedAt
    <3> SUFFICES ASSUME nextFire # 0, NEW d \in keyHeld'
                 PROVE  LastFire < rotatedAt'[d] + RotationInterval \/ LastFire = startedAt
      OBVIOUS
    <3>1. CASE d \in keyHeld /\ rotatedAt'[d] = rotatedAt[d]
      BY <3>1 DEF KeyInv, Managed
    <3>2. CASE rotatedAt'[d] = keyTime
      <4>1. LastFire <= keyTime
        BY DEF KeyInv, Managed
      <4> QED
        BY <1>1, <3>2, <4>1 DEF LastFire
    <3> QED
      BY <2>1, <3>1, <3>2
  <2>5. Managed'
    <3>1. keyTime' = keyTime /\ nextFire' = nextFire /\ startedAt' = startedAt /\ LastFire' = LastFire
      BY <1>5, <2>1 DEF LastFire
    <3> QED
      BY <2>3, <2>4, <3>1 DEF KeyInv, Managed
  <2> QED
    BY <1>2, <1>4, <2>1, <2>2, <2>5 DEF KeyInv, ApiKey!TypeOK
<1>7. CASE ApiKey!StartRotation
  <2>1. nextFire' = keyTime + ApiKey!Period /\ startedAt' = keyTime /\ UNCHANGED <<keyTime, keyHeld, createdAt, rotatedAt, ApiKey!storeVars>>
    BY <1>7 DEF ApiKey!StartRotation
  <2>2. ApiKey!ManagerTypeOK'
    BY <1>1, <1>5, <2>1 DEF KeyInv, ApiKey!TypeOK, ApiKey!ManagerTypeOK
  <2>3. LastFire' = keyTime /\ startedAt' = keyTime /\ keyTime' = keyTime /\ keyTime <= nextFire'
    BY <1>1, <1>5, <2>1 DEF LastFire
  <2>4. Managed'
    BY <1>1, <2>1, <2>3 DEF KeyInv, Managed
  <2> QED
    BY <1>2, <1>4, <2>1, <2>2, <2>4 DEF KeyInv, ApiKey!TypeOK
<1>8. CASE ApiKey!RotateDue
  <2>1. /\ nextFire = keyTime /\ nextFire' = keyTime + ApiKey!Period
        /\ rotatedAt' = [c \in SomeClients |-> IF c \in keyHeld /\ ApiKey!NeedsRotation(c) THEN keyTime ELSE rotatedAt[c]]
        /\ UNCHANGED <<keyTime, keyHeld, createdAt, startedAt, ApiKey!storeVars>>
    BY <1>8 DEF ApiKey!RotateDue
  <2>2. \A c \in keyHeld : c \in SomeClients /\ rotatedAt[c] <= keyTime
    BY DEF KeyInv, ApiKey!TypeOK, ApiKey!ManagerTypeOK, Managed
  <2>3. \A c \in keyHeld : rotatedAt'[c] <= keyTime /\ keyTime < rotatedAt'[c] + RotationInterval
    <3> TAKE c \in keyHeld
    <3>1. rotatedAt'[c] = IF ApiKey!NeedsRotation(c) THEN keyTime ELSE rotatedAt[c]
      BY <2>1, <2>2
    <3>2. ~ ApiKey!NeedsRotation(c) => keyTime - rotatedAt[c] < RotationInterval
      BY <1>1, <2>2 DEF ApiKey!NeedsRotation
    <3> QED
      BY <1>1, <2>2, <3>1, <3>2
  <2>4. \A c \in SomeClients : rotatedAt'[c] \in 0..KeyTime /\ createdAt[c] <= rotatedAt'[c]
    <3> TAKE c \in SomeClients
    <3>1. createdAt[c] <= rotatedAt[c] /\ rotatedAt[c] \in 0..KeyTime /\ (c \in keyHeld => rotatedAt[c] <= keyTime)
      BY <2>2 DEF KeyInv, ApiKey!TypeOK, ApiKey!ManagerTypeOK
    <3>2. (rotatedAt'[c] = rotatedAt[c]) \/ (c \in keyHeld /\ rotatedAt'[c] = keyTime)
      BY <2>1
    <3>3. createdAt[c] \in Nat
      BY <1>1
    <3> QED
      BY <1>1, <3>1, <3>2, <3>3
  <2>5. rotatedAt' \in [SomeClients -> 0..KeyTime]
    BY <2>1, <2>4
  <2>6. ApiKey!ManagerTypeOK'
    BY <1>1, <1>5, <2>1, <2>4, <2>5 DEF KeyInv, ApiKey!TypeOK, ApiKey!ManagerTypeOK
  <2>7. LastFire' = keyTime /\ keyTime' = keyTime /\ keyTime <= nextFire' /\ startedAt' = startedAt /\ startedAt <= keyTime
    BY <1>1, <1>5, <2>1 DEF LastFire, KeyInv, Managed
  <2>8. Managed'
    BY <2>1, <2>3, <2>7, <1>1 DEF Managed
  <2> QED
    BY <1>2, <1>4, <2>1, <2>6, <2>8 DEF KeyInv, ApiKey!TypeOK
<1>9. ASSUME NEW keep \in BOOLEAN, ApiKey!StopManager(keep) PROVE KeyInv'
  <2>1. nextFire' = 0 /\ keyHeld' \subseteq keyHeld /\ UNCHANGED <<keyTime, createdAt, rotatedAt, startedAt, ApiKey!storeVars>>
    BY <1>9 DEF ApiKey!StopManager
  <2>2. ApiKey!ManagerTypeOK'
    BY <1>1, <1>5, <2>1 DEF KeyInv, ApiKey!TypeOK, ApiKey!ManagerTypeOK
  <2>3. Managed'
    BY <2>1 DEF KeyInv, Managed
  <2> QED
    BY <1>2, <1>4, <2>1, <2>2, <2>3 DEF KeyInv, ApiKey!TypeOK
<1>10. ASSUME NEW c \in SomeClients, NEW clean \in BOOLEAN, ApiKey!GenerateApiKey(c, clean) PROVE KeyInv'
  <2> DEFINE before == IF clean THEN ApiKey!CleanKeys(keyStore[c]) ELSE keyStore[c]
             key == [id |-> made[c] + 1, expiresAt |-> keyTime + RotationInterval]
             s == Append(before, key)
  <2>1. /\ made[c] < MaxMade /\ made' = [made EXCEPT ![c] = @ + 1]
        /\ keyStore' = [keyStore EXCEPT ![c] = ApiKey!LastKeys(s)]
        /\ newest' = [newest EXCEPT ![c] = keyTime + RotationInterval]
        /\ UNCHANGED <<keyTime, ApiKey!managerVars>>
    BY <1>10 DEF ApiKey!GenerateApiKey
  <2>2. before \in Seq(Key)
    BY KeyClean DEF KeyInv, ApiKey!TypeOK, ApiKey!StoreTypeOK, Stored, Key
  <2>3. key \in Key
    BY <1>1, <2>1, ApiKeyConstants DEF KeyInv, ApiKey!TypeOK, ApiKey!StoreTypeOK, Key
  <2> HIDE DEF before, key
  <2>4. s \in Seq(Key) /\ Len(s) > 0 /\ s[Len(s)] = key
    <3> HIDE DEF Key
    <3> QED
      BY <2>2, <2>3
  <2> HIDE DEF s
  <2>5. ApiKey!LastKeys(s) \in Seq(Key) /\ Len(ApiKey!LastKeys(s)) <= MaxKeys
        /\ Len(ApiKey!LastKeys(s)) > 0 /\ ApiKey!LastKeys(s)[Len(ApiKey!LastKeys(s))] = key
    BY <2>4, KeyLast
  <2>6. made[c] + 1 \in 1..MaxMade /\ keyTime + RotationInterval \in 0..KeyTime + RotationInterval
    BY <1>1, <2>1, ApiKeyConstants DEF KeyInv, ApiKey!TypeOK, ApiKey!StoreTypeOK
  <2>7. ApiKey!StoreTypeOK'
    <3>1. \A d \in SomeClients : keyStore'[d] \in Seq(Key)
      BY <2>1, <2>5 DEF KeyInv, ApiKey!TypeOK, ApiKey!StoreTypeOK, Key
    <3>2. keyStore' \in [SomeClients -> Seq(Key)]
      BY <2>1, <3>1 DEF KeyInv, ApiKey!TypeOK, ApiKey!StoreTypeOK
    <3>3. made' \in [SomeClients -> 0..MaxMade] /\ newest' \in [SomeClients -> 0..KeyTime + RotationInterval]
      BY <2>1, <2>6 DEF KeyInv, ApiKey!TypeOK, ApiKey!StoreTypeOK
    <3> QED
      BY <3>2, <3>3 DEF ApiKey!StoreTypeOK, Key
  <2>8. Stored'
    <3> SUFFICES ASSUME NEW d \in SomeClients
                 PROVE  Len(keyStore'[d]) <= MaxKeys /\ Current(d, keyStore[d])'
      BY DEF Stored
    <3>1. CASE d = c
      <4>1. keyStore'[c] = ApiKey!LastKeys(s) /\ made'[c] = made[c] + 1 /\ newest'[c] = keyTime + RotationInterval
        BY <2>1 DEF KeyInv, ApiKey!TypeOK, ApiKey!StoreTypeOK
      <4> QED
        BY <2>5, <3>1, <4>1 DEF Current, key
    <3>2. CASE d # c
      <4>1. keyStore'[d] = keyStore[d] /\ made'[d] = made[d] /\ newest'[d] = newest[d] /\ keyTime' = keyTime
        BY <2>1, <3>2 DEF KeyInv, ApiKey!TypeOK, ApiKey!StoreTypeOK
      <4> QED
        BY <4>1 DEF KeyInv, Stored, Current
    <3> QED
      BY <3>1, <3>2
  <2> QED
    BY <1>3, <2>1, <2>7, <2>8 DEF KeyInv, ApiKey!TypeOK
<1>11. ASSUME NEW K \in SUBSET SomeClients, UNCHANGED <<keyTime, ApiKey!managerVars, made, newest>>,
             keyStore' = [c \in SomeClients |-> IF c \in K THEN ApiKey!CleanKeys(keyStore[c]) ELSE keyStore[c]]
      PROVE  KeyInv'
  <2>1. \A c \in SomeClients : /\ keyStore'[c] \in Seq(Key)
                               /\ Len(keyStore'[c]) <= MaxKeys /\ Current(c, keyStore'[c])
    BY <1>11, KeyClean DEF KeyInv, ApiKey!TypeOK, ApiKey!StoreTypeOK, Stored, Key
  <2>2. keyStore' \in [SomeClients -> Seq(Key)]
    BY <1>11, <2>1
  <2>3. ApiKey!StoreTypeOK'
    BY <1>11, <2>2 DEF KeyInv, ApiKey!TypeOK, ApiKey!StoreTypeOK, Key
  <2>4. Stored'
    BY <1>11, <2>1 DEF Stored, Current
  <2> QED
    BY <1>3, <1>11, <2>3, <2>4 DEF KeyInv, ApiKey!TypeOK
<1>12. ASSUME NEW c \in SomeClients, NEW id \in 1..MaxMade, ApiKey!RefuseExpired(c, id) PROVE KeyInv'
  <2>1. /\ UNCHANGED <<keyTime, ApiKey!managerVars, made, newest>>
        /\ keyStore' = [d \in SomeClients |-> IF d \in {c} THEN ApiKey!CleanKeys(keyStore[d]) ELSE keyStore[d]]
    BY <1>12 DEF ApiKey!RefuseExpired, KeyInv, ApiKey!TypeOK, ApiKey!StoreTypeOK
  <2> QED
    BY <1>11, <2>1
<1>13. CASE ApiKey!CleanAll
  <2>1. /\ UNCHANGED <<keyTime, ApiKey!managerVars, made, newest>>
        /\ keyStore' = [d \in SomeClients |-> IF d \in SomeClients THEN ApiKey!CleanKeys(keyStore[d]) ELSE keyStore[d]]
    BY <1>13 DEF ApiKey!CleanAll
  <2> QED
    BY <1>11, <2>1
<1>14. CASE ApiKey!Tick
  <2>1. keyTime < KeyTime /\ (nextFire # 0 => keyTime < nextFire) /\ keyTime' = keyTime + 1 /\ UNCHANGED <<ApiKey!managerVars, ApiKey!storeVars>>
    BY <1>14 DEF ApiKey!Tick
  <2>2. ApiKey!ManagerTypeOK'
    BY <1>1, <1>5, <2>1 DEF KeyInv, ApiKey!TypeOK, ApiKey!ManagerTypeOK, ApiKey!managerVars
  <2>3. Managed'
    <3>1. LastFire' = LastFire /\ startedAt' = startedAt /\ keyHeld' = keyHeld /\ rotatedAt' = rotatedAt
          /\ nextFire' = nextFire
      BY <1>5, <2>1 DEF LastFire, ApiKey!managerVars
    <3>2. LastFire \in Int /\ (nextFire # 0 => keyTime' <= nextFire)
      BY <1>1, <2>1 DEF LastFire
    <3>3. \A c \in keyHeld : c \in SomeClients
      BY DEF KeyInv, ApiKey!TypeOK, ApiKey!ManagerTypeOK
    <3> QED
      BY <1>1, <2>1, <3>1, <3>2, <3>3 DEF KeyInv, Managed
  <2>4. Stored'
    <3>1. \A c \in SomeClients : newest[c] \in Nat /\ (keyTime' <= newest[c] => keyTime <= newest[c])
      BY <1>1, <2>1, ApiKeyConstants DEF KeyInv, ApiKey!TypeOK, ApiKey!StoreTypeOK
    <3> QED
      BY <2>1, <3>1 DEF KeyInv, Stored, Current, ApiKey!storeVars
  <2> QED
    BY <1>4, <2>1, <2>2, <2>3, <2>4 DEF KeyInv, ApiKey!TypeOK
<1>15. CASE UNCHANGED keyState
  BY <1>2, <1>3, <1>4, <1>15 DEF keyState, KeyInv, ApiKey!TypeOK, ApiKey!managerVars, ApiKey!storeVars
<1> QED
  BY <1>6, <1>7, <1>8, <1>9, <1>10, <1>12, <1>13, <1>14, <1>15 DEF ApiKey!Next

LEMMA KeyHolds == KeyInv => ApiKey!KeysSound
<1> SUFFICES ASSUME KeyInv PROVE ApiKey!KeysSound
  OBVIOUS
<1>1. /\ keyTime \in Nat /\ nextFire \in Nat /\ startedAt \in Nat /\ \A c \in SomeClients : rotatedAt[c] \in Nat
      /\ RotationInterval \in Nat \ {0} /\ ApiKey!Period \in Nat \ {0} /\ MaxKeys \in Nat /\ keyHeld \subseteq SomeClients
  BY ApiKeyConstants, KeyPeriod DEF KeyInv, ApiKey!TypeOK, ApiKey!ManagerTypeOK
<1>2. ApiKey!KeysRotatedInTime
  BY <1>1 DEF KeyInv, Managed, LastFire, ApiKey!KeysRotatedInTime
<1>3. ASSUME NEW c \in SomeClients
      PROVE  /\ made[c] > 0 /\ keyTime <= newest[c] => ApiKey!Accepts(c, made[c])
             /\ Cardinality({id \in 1..made[c] : ApiKey!Accepts(c, id)}) <= MaxKeys
  <2> DEFINE s == keyStore[c]
             T == {id \in 1..made[c] : ApiKey!Accepts(c, id)}
             I == {i \in DOMAIN s : s[i].id \in T}
             f == [i \in I |-> s[i].id]
  <2>1. s \in Seq(Key) /\ Len(s) \in Nat /\ DOMAIN s = 1..Len(s) /\ Len(s) <= MaxKeys
    <3>1. s \in Seq(Key) /\ Len(s) <= MaxKeys
      BY DEF KeyInv, ApiKey!TypeOK, ApiKey!StoreTypeOK, Stored, Key
    <3> DEFINE E == Key
    <3> HIDE DEF E, s
    <3>2. s \in Seq(E) => Len(s) \in Nat /\ DOMAIN s = 1..Len(s)
      OBVIOUS
    <3> QED
      BY <3>1, <3>2 DEF E
  <2>2. made[c] > 0 /\ keyTime <= newest[c] => ApiKey!Accepts(c, made[c])
    <3>1. made[c] > 0 /\ keyTime <= newest[c] =>
            Len(s) \in DOMAIN s /\ s[Len(s)] = [id |-> made[c], expiresAt |-> newest[c]]
      BY <2>1 DEF KeyInv, Stored, Current
    <3> QED
      BY <3>1 DEF ApiKey!Accepts
  <2>3. f \in Surjection(I, T)
    <3>1. \A id \in T : \E i \in I : s[i].id = id
      BY DEF ApiKey!Accepts
    <3> HIDE DEF T, s
    <3> QED
      BY <3>1 DEF Surjection
  <2>4. IsFiniteSet(DOMAIN s) /\ Cardinality(DOMAIN s) = Len(s)
    <3>1. IsFiniteSet(1..Len(s)) /\ Cardinality(1..Len(s)) = IF 1 > Len(s) THEN 0 ELSE Len(s) - 1 + 1
      BY <2>1, FS_Interval
    <3> QED
      BY <2>1, <3>1
  <2>5. I \in SUBSET DOMAIN s
    OBVIOUS
  <2> HIDE DEF f, I, T
  <2>6. IsFiniteSet(I) /\ Cardinality(I) <= Cardinality(DOMAIN s)
    BY <2>4, <2>5, FS_Subset
  <2>7. IsFiniteSet(T) /\ Cardinality(T) <= Cardinality(I)
    BY <2>3, <2>6, FS_Surjection
  <2>8. Cardinality(T) \in Nat /\ Cardinality(I) \in Nat
    BY <2>6, <2>7, FS_CardinalityType
  <2>9. Cardinality(T) <= MaxKeys
    BY <1>1, <2>1, <2>4, <2>6, <2>7, <2>8
  <2> QED
    BY <2>2, <2>9 DEF T
<1> QED
  BY <1>2, <1>3, KeyCardinality DEF ApiKey!KeysSound, ApiKey!CurrentKeyAccepted

LEMMA ApiKeyStep == [ComponentsNext]_componentVars => [ApiKey!Next]_keyState
BY PartStep DEF Only

\* Whatever is rotated by hand, created, cleaned up and refused: managed keys are rotated in
\* time, the last key made for a client is accepted until it expires, and at most maxKeys of
\* a client are (needsRotation, startRotationInterval, generateApiKey, isValidKey).
THEOREM KeysSoundAlways == ComponentsSpec => []KeysSound
<1>1. ComponentsInit => KeyInv
  BY KeyInit DEF ComponentsInit
<1>2. KeyInv /\ [ComponentsNext]_componentVars => KeyInv'
  BY ApiKeyStep, KeyNext
<1>3. KeyInv => KeysSound
  BY KeyHolds DEF KeyInv, KeysSound
<1> QED
  BY <1>1, <1>2, <1>3, PTL DEF ComponentsSpec

-----------------------------------------------------------------------------
(* OAuth2Service: authorization codes (Tokens).  A code that was never     *)
(* made is unknown and was never exchanged: making it starts afresh.       *)
LEMMA TokenConstants == TokenTime \in Nat /\ CodeExpiry \in Nat /\ SessionExpiry \in Nat
BY ComponentsAssumption

TokenInv ==
  /\ Token!TypeOK
  /\ Token!CodeExchangedOnce
  /\ \A c \in Codes \ codesMade : authorizationCodes[c] = None /\ exchanged[c] = 0

LEMMA TokenInit == Token!Init => TokenInv
BY TokenConstants DEF Token!Init, TokenInv, Token!TypeOK, Token!CodeExchangedOnce

LEMMA TokenType == ASSUME Token!TypeOK, [Token!Next]_tokenState PROVE Token!TypeOK'
<1> USE TokenConstants DEF Token!TypeOK
<1>1. ASSUME NEW c \in Codes, Token!GenerateAuthorizationCode(c) \/ Token!ExchangeCodeForToken(c)
      PROVE  Token!TypeOK'
  BY <1>1 DEF Token!GenerateAuthorizationCode, Token!ExchangeCodeForToken
<1>2. ASSUME NEW s \in OAuthSessions, NEW u \in Users, Token!CreateSession(s, u)
      PROVE  Token!TypeOK'
  BY <1>2 DEF Token!CreateSession
<1>3. CASE Token!CleanupExpiredSessions \/ Token!CleanupExpiredTokens \/ Token!Stop \/ Token!Tick \/ UNCHANGED tokenState
  BY <1>3 DEF Token!CleanupExpiredSessions, Token!CleanupExpiredTokens, Token!Stop, Token!Tick, tokenState
<1>4. ASSUME NEW s \in OAuthSessions, Token!DeleteSession(s) PROVE Token!TypeOK'
  BY <1>4 DEF Token!DeleteSession
<1> QED
  BY <1>1, <1>2, <1>3, <1>4 DEF Token!Next

LEMMA TokenNext == ASSUME TokenInv, [Token!Next]_tokenState PROVE TokenInv'
<1> USE DEF TokenInv, Token!CodeExchangedOnce, Token!TypeOK
<1>1. Token!TypeOK'
  BY TokenType
<1>2. ASSUME NEW c \in Codes, Token!GenerateAuthorizationCode(c) \/ Token!ExchangeCodeForToken(c)
      PROVE  TokenInv'
  BY <1>1, <1>2 DEF Token!GenerateAuthorizationCode, Token!ExchangeCodeForToken, Token!Exchangeable
<1>3. CASE Token!CleanupExpiredTokens \/ Token!Stop
  BY <1>1, <1>3 DEF Token!CleanupExpiredTokens, Token!Stop
<1>4. CASE UNCHANGED <<authorizationCodes, codesMade, exchanged>>
  BY <1>1, <1>4
<1> QED
  BY <1>2, <1>3, <1>4
  DEF Token!Next, tokenState, Token!DeleteSession, Token!CreateSession, Token!CleanupExpiredSessions, Token!Tick

LEMMA TokenStep == [ComponentsNext]_componentVars => [Token!Next]_tokenState
BY PartStep DEF Only

\* Whatever expires, is cleaned up or stopped meanwhile: an authorization code is
\* exchanged for tokens at most once, and a code on offer never was (OAuth2Service).
THEOREM CodeExchangedOnceAlways == ComponentsSpec => []CodeExchangedOnce
<1>1. ComponentsInit => TokenInv
  BY TokenInit DEF ComponentsInit
<1>2. TokenInv /\ [ComponentsNext]_componentVars => TokenInv'
  BY TokenStep, TokenNext
<1>3. TokenInv => CodeExchangedOnce
  BY DEF TokenInv, CodeExchangedOnce
<1> QED
  BY <1>1, <1>2, <1>3, PTL DEF ComponentsSpec

-----------------------------------------------------------------------------
(* ThreatDetectionService: a threat on record is answered in the step that *)
(* records it.  That only overtaken analyses undo an unblocking needs that *)
(* any other analysis about to block again began after the unblocking.     *)
LEMMA ThreatConstants == MaxAuthFailures \in Nat \ {0}
BY ComponentsAssumption

ThreatInv ==
  /\ Threat!TypeOK
  /\ \A k \in Calls : threatCall[k].phase # "idle" => threatCall[k].client \in Clients
  /\ \A k \in Calls \ overtaken : threatCall[k].phase = "severe" => threatCall[k].client \notin pardoned
  /\ Threat!ThreatsAnswered

LEMMA ThreatInit == Threat!Init => ThreatInv
BY ThreatConstants DEF Threat!Init, ThreatInv, Threat!TypeOK, Threat!ThreatsAnswered, Threat!TooMany, Threat!Idle

LEMMA ThreatNext == ASSUME ThreatInv, [Threat!Next]_threatState PROVE ThreatInv'
<1> USE ThreatConstants DEF ThreatInv, Threat!TypeOK, Threat!ThreatsAnswered, Threat!TooMany
<1>1. ASSUME NEW k \in Calls, NEW c \in Clients, NEW failure \in BOOLEAN, NEW high \in BOOLEAN,
             Threat!AnalyzeThreat(k, c, failure, high)
      PROVE  ThreatInv'
  <2>1. failures' \in [Clients -> 0..MaxAuthFailures] /\ highSeverity' \subseteq Clients
    BY <1>1 DEF Threat!AnalyzeThreat
  <2>2. /\ blockedClients' \subseteq Clients /\ blockedIps' \subseteq Ips /\ pardoned' \subseteq Clients
        /\ overtaken' \subseteq Calls /\ undone' \subseteq Clients
        /\ threatCall' \in [Calls -> [phase : {"idle", "severe", "mild"}, client : Clients \cup {None}]]
    BY <1>1 DEF Threat!AnalyzeThreat
  <2>3. Threat!ThreatsAnswered'
    BY <1>1 DEF Threat!AnalyzeThreat
  <2>4. \A j \in Calls : threatCall'[j].phase # "idle" => threatCall'[j].client \in Clients
    BY <1>1 DEF Threat!AnalyzeThreat
  <2>5. \A j \in Calls \ overtaken' : threatCall'[j].phase = "severe" => threatCall'[j].client \notin pardoned'
    BY <1>1 DEF Threat!AnalyzeThreat
  <2> QED
    BY <2>1, <2>2, <2>3, <2>4, <2>5
<1>2. ASSUME NEW k \in Calls, Threat!BlockAgain(k) PROVE ThreatInv'
  BY <1>2 DEF Threat!BlockAgain
<1>3. ASSUME NEW k \in Calls, Threat!Analyzed(k) PROVE ThreatInv'
  BY <1>3 DEF Threat!Analyzed, Threat!Idle, Threat!pardonVars
<1>4. ASSUME NEW c \in Clients, Threat!UnblockClient(c) PROVE ThreatInv'
  BY <1>4 DEF Threat!UnblockClient
<1>5. ASSUME NEW ip \in Ips, Threat!BlockIp(ip) \/ Threat!UnblockIp(ip) PROVE ThreatInv'
  BY <1>5 DEF Threat!BlockIp, Threat!UnblockIp, Threat!pardonVars
<1>6. CASE Threat!Cleanup \/ UNCHANGED threatState
  BY <1>6 DEF Threat!Cleanup, threatState, Threat!pardonVars
<1> QED
  BY <1>1, <1>2, <1>3, <1>4, <1>5, <1>6 DEF Threat!Next

LEMMA ThreatStep == [ComponentsNext]_componentVars => [Threat!Next]_threatState
BY PartStep DEF Only

\* However analyses, unblockings and cleanups overlap, a client with too many failures
\* or a severe threat on record is blocked or was unblocked since, and only an analysis
\* that was about to block it at that moment blocks it again without a new threat
\* (analyzeThreat, unblockClient, cleanup).
THEOREM ThreatsAnsweredAlways == ComponentsSpec => []ThreatsAnswered
<1>1. ComponentsInit => ThreatInv
  BY ThreatInit DEF ComponentsInit
<1>2. ThreatInv /\ [ComponentsNext]_componentVars => ThreatInv'
  BY ThreatStep, ThreatNext
<1>3. ThreatInv => ThreatsAnswered
  BY DEF ThreatInv, ThreatsAnswered
<1> QED
  BY <1>1, <1>2, <1>3, PTL DEF ComponentsSpec

-----------------------------------------------------------------------------
(* SecurityAuditor and VulnerabilityScanner.  An audit that runs has an    *)
(* entry in activeAudits, from which nothing is ever removed, so that the  *)
(* limit on the entries is one on the audits that run.                     *)
LEMMA AuditConstants == IsFiniteSet(Devices) /\ IsFiniteSet(Calls) /\ MaxConcurrentAudits \in Nat
BY ComponentsAssumption

AuditCalls ==
  /\ \A k \in Calls : auditCall[k].phase # "idle" => auditCall[k].device \in Devices
  /\ \A k \in Calls : auditCall[k].phase \in {"checks", "throws"} => auditCall[k].audits
  /\ \A k \in Calls : auditCall[k].audits => /\ auditCall[k].device \in Devices
                                             /\ activeAudits[auditCall[k].device] # "none"
  /\ \A j, k \in Calls : auditCall[j].audits /\ auditCall[k].audits /\ auditCall[j].device = auditCall[k].device => j = k

UnderWay ==
  \A d \in Devices :
    /\ activeAudits[d] = "in_progress" => \E k \in Calls : auditCall[k].audits /\ auditCall[k].device = d
    /\ deviceScans[d] = "in_progress" => \E k \in Calls : auditCall[k].phase = "scan" /\ auditCall[k].device = d

Started(entries) == {d \in Devices : entries[d] # "none"}

AuditInv == Audit!TypeOK /\ AuditCalls /\ UnderWay /\ Cardinality(Started(activeAudits)) <= MaxConcurrentAudits

LEMMA AuditCardinality == \A S : Audit!Cardinality(S) = Cardinality(S)
BY DEF Audit!Cardinality, Cardinality, Audit!IsFiniteSet, IsFiniteSet

LEMMA AuditInit == Audit!Init => AuditInv
<1> SUFFICES ASSUME Audit!Init PROVE AuditInv
  OBVIOUS
<1>1. Audit!TypeOK
  BY DEF Audit!Init, Audit!TypeOK, Audit!Statuses, Audit!Idle
<1>2. AuditCalls /\ UnderWay
  BY DEF Audit!Init, AuditCalls, UnderWay, Audit!Idle
<1>3. Started(activeAudits) = {}
  BY DEF Audit!Init, Started
<1> QED
  BY <1>1, <1>2, <1>3, FS_EmptySet, AuditConstants DEF AuditInv

LEMMA AuditType == ASSUME Audit!TypeOK, AuditCalls, [Audit!Next]_auditState PROVE Audit!TypeOK'
<1> USE DEF Audit!TypeOK, Audit!Statuses
<1>1. \A a \in [Devices -> Audit!Statuses], d \in Devices :
        Audit!WithError(a, d) \in [Devices -> Audit!Statuses] /\ Audit!Stopped(a) \in [Devices -> Audit!Statuses]
  BY DEF Audit!WithError, Audit!Stopped
<1>2. ASSUME NEW k \in Calls, NEW d \in Devices, Audit!StartScan(k, d) \/ Audit!StartAudit(k, d) PROVE Audit!TypeOK'
  <2>1. /\ activeAudits' \in [Devices -> Audit!Statuses] /\ deviceScans' \in [Devices -> Audit!Statuses]
        /\ auditResults' = auditResults /\ scanResults' = scanResults
    <3>1. /\ activeAudits' \in {activeAudits, Audit!WithError(activeAudits, d), [activeAudits EXCEPT ![d] = "in_progress"]}
          /\ deviceScans' \in {deviceScans, Audit!WithError(deviceScans, d), [deviceScans EXCEPT ![d] = "in_progress"]}
          /\ auditResults' = auditResults /\ scanResults' = scanResults
      BY <1>2 DEF Audit!StartScan, Audit!StartAudit, Audit!ScanDevice
    <3>2. /\ Audit!WithError(activeAudits, d) \in [Devices -> Audit!Statuses]
          /\ Audit!WithError(deviceScans, d) \in [Devices -> Audit!Statuses]
      BY <1>1
    <3> QED
      BY <3>1, <3>2
  <2>2. \/ auditCall' = auditCall
        \/ \E p \in {"scan", "throws"}, a \in BOOLEAN :
             auditCall' = [auditCall EXCEPT ![k] = [phase |-> p, audits |-> a, device |-> d]]
    BY <1>2 DEF Audit!StartScan, Audit!StartAudit, Audit!ScanDevice
  <2> QED
    BY <2>1, <2>2
<1>3. ASSUME NEW k \in Calls, Audit!ScanDone(k) \/ Audit!ScanFails(k) \/ Audit!ChecksFail(k) \/ Audit!AuditDone(k) \/ Audit!AuditFails(k)
      PROVE Audit!TypeOK'
  <2>1. auditCall[k].device \in Devices
    BY <1>3 DEF AuditCalls, Audit!ScanDone, Audit!ScanFails, Audit!ChecksFail, Audit!AuditDone, Audit!AuditFails
  <2>2. Audit!Idle \in [phase : {"idle", "scan", "checks", "throws"}, audits : BOOLEAN, device : Devices \cup {None}]
    BY DEF Audit!Idle
  <2>3. /\ activeAudits' \in [Devices -> Audit!Statuses] /\ deviceScans' \in [Devices -> Audit!Statuses]
        /\ auditResults' \subseteq Devices /\ scanResults' \subseteq Devices
    <3> DEFINE d == auditCall[k].device
    <3>1. /\ activeAudits' \in {activeAudits, Audit!WithError(activeAudits, d), [activeAudits EXCEPT ![d] = "completed"]}
          /\ deviceScans' \in {deviceScans, Audit!WithError(deviceScans, d), [deviceScans EXCEPT ![d] = "completed"]}
          /\ auditResults' \in {auditResults, auditResults \cup {d}}
          /\ scanResults' \in {scanResults, scanResults \cup {d}}
      BY <1>3 DEF Audit!ScanDone, Audit!ScanFails, Audit!ChecksFail, Audit!AuditDone, Audit!AuditFails
    <3>2. /\ Audit!WithError(activeAudits, d) \in [Devices -> Audit!Statuses]
          /\ Audit!WithError(deviceScans, d) \in [Devices -> Audit!Statuses]
      BY <1>1, <2>1
    <3> QED
      BY <2>1, <3>1, <3>2
  <2>4. \/ auditCall' = [auditCall EXCEPT ![k] = Audit!Idle]
        \/ \E p \in {"checks", "throws"} : auditCall' = [auditCall EXCEPT ![k].phase = p]
    BY <1>3 DEF Audit!ScanDone, Audit!ScanFails, Audit!ChecksFail, Audit!AuditDone, Audit!AuditFails, Audit!Return, Audit!GoTo
  <2> QED
    BY <2>1, <2>2, <2>3, <2>4
<1>4. ASSUME NEW d \in Devices, Audit!ClearScanResults(d) \/ Audit!ClearAuditResults(d) PROVE Audit!TypeOK'
  BY <1>4 DEF Audit!ClearScanResults, Audit!ClearAuditResults
<1>5. CASE Audit!StopAllScans \/ Audit!StopAllAudits
  BY <1>5 DEF Audit!StopAllScans, Audit!StopAllAudits, Audit!Stopped
<1>6. CASE UNCHANGED auditState
  BY <1>6 DEF auditState
<1> QED
  BY <1>2, <1>3, <1>4, <1>5, <1>6 DEF Audit!Next

\* A new audit is one of a device that has none; every other step lets calls end or go on.
LEMMA AuditNextCalls == ASSUME AuditInv, [Audit!Next]_auditState PROVE AuditCalls' /\ UnderWay'
<1> USE DEF AuditInv, Audit!TypeOK, AuditCalls, UnderWay, Audit!Statuses
<1>1. ASSUME NEW k \in Calls, NEW d \in Devices, Audit!StartScan(k, d) PROVE AuditCalls' /\ UnderWay'
  <2>1. auditCall[k] = Audit!Idle /\ activeAudits' = activeAudits
    BY <1>1 DEF Audit!StartScan
  <2>2. CASE Audit!ValidateScanStart(d)
    <3>1. /\ deviceScans' = [deviceScans EXCEPT ![d] = "in_progress"]
          /\ auditCall' = [auditCall EXCEPT ![k] = [phase |-> "scan", audits |-> FALSE, device |-> d]]
      BY <1>1, <2>2 DEF Audit!StartScan, Audit!ScanDevice
    <3> QED
      BY <2>1, <3>1 DEF Audit!Idle
  <2>3. CASE ~ Audit!ValidateScanStart(d)
    <3>1. /\ auditCall' = auditCall
          /\ \A e \in Devices : deviceScans'[e] = "in_progress" => deviceScans[e] = "in_progress"
      BY <1>1, <2>3 DEF Audit!StartScan, Audit!ScanDevice, Audit!WithError
    <3> QED
      BY <2>1, <3>1
  <2> QED
    BY <2>2, <2>3
<1>2. ASSUME NEW k \in Calls, NEW d \in Devices, Audit!StartAudit(k, d) PROVE AuditCalls' /\ UnderWay'
  <2>1. CASE Audit!StartsAudit(d)
    <3>1. activeAudits[d] = "none" /\ activeAudits' = [activeAudits EXCEPT ![d] = "in_progress"]
      BY <1>2, <2>1 DEF Audit!StartAudit, Audit!StartsAudit
    <3>2. PICK p \in {"scan", "throws"} : auditCall' = [auditCall EXCEPT ![k] = [phase |-> p, audits |-> TRUE, device |-> d]]
      BY <1>2, <2>1 DEF Audit!StartAudit, Audit!ScanDevice
    <3>3. \A e \in Devices : deviceScans'[e] = "in_progress" => deviceScans[e] = "in_progress" \/ (e = d /\ auditCall'[k].phase = "scan")
      BY <1>2, <2>1 DEF Audit!StartAudit, Audit!ScanDevice, Audit!WithError
    <3>4. auditCall[k] = Audit!Idle
      BY <1>2 DEF Audit!StartAudit
    <3> QED
      BY <3>1, <3>2, <3>3, <3>4 DEF Audit!Idle
  <2>2. CASE ~ Audit!StartsAudit(d)
    BY <1>2, <2>2 DEF Audit!StartAudit, Audit!WithError
  <2> QED
    BY <2>1, <2>2
<1>3. ASSUME NEW k \in Calls, Audit!ScanDone(k) \/ Audit!ScanFails(k) PROVE AuditCalls' /\ UnderWay'
  <2>1. auditCall[k].device \in Devices /\ auditCall[k].phase = "scan"
    BY <1>3 DEF Audit!ScanDone, Audit!ScanFails
  <2>2. /\ activeAudits' = activeAudits
        /\ \A e \in Devices : deviceScans'[e] = "in_progress" => deviceScans[e] = "in_progress" /\ e # auditCall[k].device
    BY <1>3, <2>1 DEF Audit!ScanDone, Audit!ScanFails, Audit!WithError
  <2>3. CASE auditCall[k].audits
    <3>1. PICK p \in {"checks", "throws"} : auditCall' = [auditCall EXCEPT ![k].phase = p]
      BY <1>3, <2>3 DEF Audit!ScanDone, Audit!ScanFails, Audit!GoTo
    <3> QED
      BY <2>1, <2>2, <2>3, <3>1
  <2>4. CASE ~ auditCall[k].audits
    <3>1. auditCall' = [auditCall EXCEPT ![k] = Audit!Idle]
      BY <1>3, <2>4 DEF Audit!ScanDone, Audit!ScanFails, Audit!Return
    <3> QED
      BY <2>1, <2>2, <2>4, <3>1 DEF Audit!Idle
  <2> QED
    BY <2>3, <2>4
<1>4. ASSUME NEW k \in Calls, Audit!ChecksFail(k) PROVE AuditCalls' /\ UnderWay'
  BY <1>4 DEF Audit!ChecksFail, Audit!GoTo
<1>5. ASSUME NEW k \in Calls, Audit!AuditDone(k) \/ Audit!AuditFails(k) PROVE AuditCalls' /\ UnderWay'
  <2>1. auditCall[k].phase \in {"checks", "throws"} /\ auditCall[k].audits /\ auditCall[k].device \in Devices
    BY <1>5 DEF Audit!AuditDone, Audit!AuditFails
  <2>2. auditCall' = [auditCall EXCEPT ![k] = Audit!Idle] /\ deviceScans' = deviceScans
    BY <1>5 DEF Audit!AuditDone, Audit!AuditFails, Audit!Return
  <2>3. \A e \in Devices : /\ activeAudits[e] # "none" => activeAudits'[e] # "none"
                           /\ activeAudits'[e] = "in_progress" => activeAudits[e] = "in_progress" /\ e # auditCall[k].device
    BY <1>5, <2>1 DEF Audit!AuditDone, Audit!AuditFails, Audit!WithError
  <2> QED
    BY <2>1, <2>2, <2>3 DEF Audit!Idle
<1>6. ASSUME NEW d \in Devices, Audit!ClearScanResults(d) \/ Audit!ClearAuditResults(d) PROVE AuditCalls' /\ UnderWay'
  BY <1>6 DEF Audit!ClearScanResults, Audit!ClearAuditResults
<1>7. CASE Audit!StopAllScans \/ Audit!StopAllAudits
  BY <1>7 DEF Audit!StopAllScans, Audit!StopAllAudits, Audit!Stopped
<1>8. CASE UNCHANGED auditState
  BY <1>8 DEF auditState
<1> QED
  BY <1>1, <1>2, <1>3, <1>4, <1>5, <1>6, <1>7, <1>8 DEF Audit!Next

LEMMA AuditStarted ==
  ASSUME AuditInv, [Audit!Next]_auditState PROVE Cardinality(Started(activeAudits')) <= MaxConcurrentAudits
<1> USE DEF AuditInv, Audit!TypeOK, Audit!Statuses
<1>1. ASSUME NEW k \in Calls, NEW d \in Devices, Audit!StartAudit(k, d), Audit!StartsAudit(d)
      PROVE  Cardinality(Started(activeAudits')) <= MaxConcurrentAudits
  <2>1. Started(activeAudits') = Started(activeAudits) \cup {d} /\ d \notin Started(activeAudits)
    BY <1>1 DEF Audit!StartAudit, Audit!StartsAudit, Started
  <2>2. Cardinality(Started(activeAudits)) < MaxConcurrentAudits
    BY <1>1, AuditCardinality DEF Audit!StartsAudit, Started
  <2>3. IsFiniteSet(Started(activeAudits)) /\ Cardinality(Started(activeAudits)) \in Nat
    BY AuditConstants, FS_Subset, FS_CardinalityType DEF Started
  <2>4. Cardinality(Started(activeAudits')) = Cardinality(Started(activeAudits)) + 1
    BY <2>1, <2>3, FS_AddElement
  <2> HIDE DEF AuditInv
  <2> QED
    BY <2>2, <2>3, <2>4, AuditConstants
<1>2. ASSUME \A k \in Calls, d \in Devices : ~ (Audit!StartAudit(k, d) /\ Audit!StartsAudit(d))
      PROVE  Started(activeAudits') = Started(activeAudits)
  <2>1. ASSUME NEW k \in Calls, NEW d \in Devices, Audit!StartScan(k, d) \/ Audit!StartAudit(k, d)
        PROVE  Started(activeAudits') = Started(activeAudits)
    BY <1>2, <2>1 DEF Audit!StartScan, Audit!StartAudit, Audit!WithError, Started
  <2>2. ASSUME NEW k \in Calls, Audit!ScanDone(k) \/ Audit!ScanFails(k) \/ Audit!ChecksFail(k)
        PROVE  Started(activeAudits') = Started(activeAudits)
    BY <2>2 DEF Audit!ScanDone, Audit!ScanFails, Audit!ChecksFail
  <2>3. ASSUME NEW k \in Calls, Audit!AuditDone(k) \/ Audit!AuditFails(k) PROVE Started(activeAudits') = Started(activeAudits)
    <3>1. auditCall[k].audits /\ auditCall[k].device \in Started(activeAudits)
      BY <2>3 DEF Audit!AuditDone, Audit!AuditFails, AuditCalls, Started
    <3> QED
      BY <2>3, <3>1 DEF Audit!AuditDone, Audit!AuditFails, Audit!WithError, Started
  <2>4. ASSUME NEW d \in Devices, Audit!ClearScanResults(d) \/ Audit!ClearAuditResults(d)
        PROVE  Started(activeAudits') = Started(activeAudits)
    BY <2>4 DEF Audit!ClearScanResults, Audit!ClearAuditResults
  <2>5. CASE Audit!StopAllScans \/ Audit!StopAllAudits
    BY <2>5 DEF Audit!StopAllScans, Audit!StopAllAudits, Audit!Stopped, Started
  <2>6. CASE UNCHANGED auditState
    BY <2>6 DEF auditState
  <2> QED
    BY <2>1, <2>2, <2>3, <2>4, <2>5, <2>6 DEF Audit!Next
<1> QED
  BY <1>1, <1>2

LEMMA AuditNext == AuditInv /\ [Audit!Next]_auditState => AuditInv'
<1> SUFFICES ASSUME AuditInv, [Audit!Next]_auditState PROVE AuditInv'
  OBVIOUS
<1>1. Audit!TypeOK'
  BY AuditType DEF AuditInv
<1>2. AuditCalls' /\ UnderWay'
  BY AuditNextCalls
<1>3. Cardinality(Started(activeAudits')) <= MaxConcurrentAudits
  BY AuditStarted
<1> QED
  BY <1>1, <1>2, <1>3 DEF AuditInv

LEMMA AuditCounts == AuditInv => Audit!AuditsAccounted
<1> SUFFICES ASSUME AuditInv PROVE Audit!AuditsAccounted
  OBVIOUS
<1> USE DEF AuditInv, AuditCalls
<1>1. \A d \in Devices : Cardinality(Audit!Auditing(d)) <= 1
  <2> TAKE d \in Devices
  <2>1. CASE Audit!Auditing(d) = {}
    BY <2>1, FS_EmptySet
  <2>2. ASSUME NEW k \in Audit!Auditing(d) PROVE Cardinality(Audit!Auditing(d)) <= 1
    <3>1. Audit!Auditing(d) = {k}
      BY <2>2 DEF Audit!Auditing
    <3>2. Cardinality({k}) = 1
      BY FS_Singleton
    <3> QED
      BY <3>1, <3>2
  <2> QED
    BY <2>1, <2>2
<1>2. \A d \in Devices : /\ activeAudits[d] = "in_progress" => Audit!Auditing(d) # {}
                         /\ deviceScans[d] = "in_progress" => Audit!Scanning(d) # {}
  BY DEF UnderWay, Audit!Auditing, Audit!Scanning
<1>3. Cardinality({k \in Calls : auditCall[k].audits}) <= MaxConcurrentAudits
  <2> DEFINE S == {k \in Calls : auditCall[k].audits}
             T == Started(activeAudits)
             f == [k \in S |-> auditCall[k].device]
  <2>1. f \in Injection(S, T)
    BY DEF Injection, IsInjective, Started
  <2>2. IsFiniteSet(T) /\ Cardinality(T) \in Nat
    BY AuditConstants, FS_Subset, FS_CardinalityType DEF Started
  <2> HIDE DEF f, S, T
  <2>3. IsFiniteSet(S) /\ Cardinality(S) <= Cardinality(T)
    BY <2>1, <2>2, FS_Injection
  <2>4. Cardinality(S) \in Nat
    BY <2>3, FS_CardinalityType
  <2>5. Cardinality(S) <= MaxConcurrentAudits
    BY <2>2, <2>3, <2>4, AuditConstants DEF T
  <2> QED
    BY <2>5 DEF S
<1> QED
  BY <1>1, <1>2, <1>3, AuditCardinality DEF Audit!AuditsAccounted

LEMMA AuditStep == [ComponentsNext]_componentVars => [Audit!Next]_auditState
BY PartStep DEF Only

\* However calls are refused, stopped or fail: what is reported as running runs, a device is
\* audited by one call at a time, and no more audits run than the limit allows
\* (startAudit, stopAllAudits, scanDevice and their catch blocks).
THEOREM AuditsAccountedAlways == ComponentsSpec => []AuditsAccounted
<1>1. ComponentsInit => AuditInv
  BY AuditInit DEF ComponentsInit
<1>2. AuditInv /\ [ComponentsNext]_componentVars => AuditInv'
  BY AuditStep, AuditNext
<1>3. AuditInv => AuditsAccounted
  BY AuditCounts DEF AuditInv, AuditsAccounted
<1> QED
  BY <1>1, <1>2, <1>3, PTL DEF ComponentsSpec
=============================================================================
