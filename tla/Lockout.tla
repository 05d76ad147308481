-------------------------------- MODULE Lockout --------------------------------
(***************************************************************************)
(* src/auth/AuthService.js, authenticate and validateApiKey: keys are      *)
(* checked, failures are counted and lock a client out.  Every method is   *)
(* split at its awaits; calls overlap.  Sessions.tla has the sessions.     *)
(*                                                                         *)
(* The rate limiter and the threat detection answer yes or no at any time  *)
(* (RateLimiter.tla models the first one), and so does the comparison of   *)
(* the key (ApiKeys.tla models the keys).                              *)
(***************************************************************************)
EXTENDS Naturals

CONSTANTS
  Calls,      \* calls in progress
  Clients,
  None,
  MaxFailed,  \* config.auth.maxFailedAttempts
  Lockout,    \* config.auth.lockoutDuration
  MaxTime     \* bound: the clock stops here

VARIABLES
  now,           \* Date.now()
  authFailures,  \* authFailureCount
  blockedUntil,  \* blockedClients: the expiry of a lockout, or None
  call,          \* what each call is doing
  begunBefore,   \* history: calls under way when the client's lockout began
  testedBefore   \* history: of those, the ones past the test in createSession

lockoutVars == <<now, authFailures, blockedUntil, call, begunBefore, testedBefore>>
lockVars == <<authFailures, blockedUntil, begunBefore, testedBefore>>

Keys == {"right", "wrong"}
Idle == [op |-> "none", phase |-> "idle", client |-> None, key |-> "wrong"]

-----------------------------------------------------------------------------
(* Operators named after a defect are wrong variants of the definition that *)
(* follows them: Next does not use them; they serve to check that the       *)
(* properties notice the defect.                                            *)

Init ==
  /\ now = 0
  /\ authFailures = [c \in Clients |-> 0]
  /\ blockedUntil = [c \in Clients |-> None]
  /\ call = [k \in Calls |-> Idle]
  /\ begunBefore = {}
  /\ testedBefore = {}

Return(k) == call' = [call EXCEPT ![k] = Idle]
Of(c, phases) == {k \in Calls : call[k].client = c /\ call[k].phase \in phases}

Begin(k, c, op, phase, key) ==
  /\ call[k] = Idle
  /\ call' = [call EXCEPT ![k] = [op |-> op, phase |-> phase, client |-> c, key |-> key]]
  /\ begunBefore' = begunBefore \ {k}
  /\ testedBefore' = testedBefore \ {k}
  /\ UNCHANGED <<now, authFailures>>

\* authenticate, up to its first await.  A lockout that has expired ends here.
Authenticate(k, c) ==
  /\ IF blockedUntil[c] = None THEN TRUE ELSE now >= blockedUntil[c]
  /\ blockedUntil' = [blockedUntil EXCEPT ![c] = None]
  /\ Begin(k, c, "authenticate", "checks", "wrong")

\* The blocked address, the threats or the rate limit refuse, or none does and
\* the key is compared with the client's.
PassChecks(k) ==
  /\ call[k].phase = "checks"
  /\ \/ Return(k)
     \/ \E key \in Keys : call' = [call EXCEPT ![k].phase = "key", ![k].key = key]
  /\ UNCHANGED <<now, lockVars>>

\* validateApiKey, up to its await: it refuses while there is an entry for the
\* client, expired or not.
ValidateApiKey(k, c, key) ==
  /\ blockedUntil[c] = None
  /\ blockedUntil' = blockedUntil
  /\ Begin(k, c, "validateApiKey", "key", key)

\* A count above the limit acts as the limit does, and is not distinguished.
CountFailure(c) ==
  LET count == IF authFailures[c] < MaxFailed THEN authFailures[c] + 1 ELSE MaxFailed
      locks == count = MaxFailed
  IN /\ authFailures' = [authFailures EXCEPT ![c] = count]
     /\ IF locks
        THEN /\ blockedUntil' = [blockedUntil EXCEPT ![c] = now + Lockout]
             /\ begunBefore' = begunBefore \cup Of(c, {"checks", "key", "create"})
             /\ testedBefore' = testedBefore \cup Of(c, {"create"})
        ELSE UNCHANGED <<blockedUntil, begunBefore, testedBefore>>

\* createSession without its test of the lockout.
CreateSessionUntested(k) == call' = [call EXCEPT ![k].phase = "create"]
\* createSession, up to its first await.
CreateSession(k) ==
  IF blockedUntil[call[k].client] = None
  THEN call' = [call EXCEPT ![k].phase = "create"]
  ELSE Return(k)

\* authenticate and validateApiKey, once the key is checked.
KeyChecked(k) ==
  LET c == call[k].client
  IN /\ call[k].phase = "key"
     /\ IF call[k].key = "right"
        THEN /\ authFailures' = [authFailures EXCEPT ![c] = 0]
             /\ UNCHANGED <<blockedUntil, begunBefore, testedBefore>>
             /\ IF call[k].op = "authenticate" THEN CreateSession(k) ELSE Return(k)
        ELSE CountFailure(c) /\ Return(k)
     /\ now' = now

\* The session is stored (Sessions.tla).
SessionCreated(k) ==
  /\ call[k].phase = "create"
  /\ Return(k)
  /\ UNCHANGED <<now, lockVars>>

\* cleanup and stop: the maps are cleared; calls in progress go on.
Stop ==
  /\ authFailures' = [c \in Clients |-> 0]
  /\ blockedUntil' = [c \in Clients |-> None]
  /\ begunBefore' = {}
  /\ testedBefore' = {}
  /\ UNCHANGED <<now, call>>

\* Time passes while no promise is settled: in the encryption of a session.
Tick ==
  /\ now < MaxTime
  /\ \A k \in Calls : call[k].phase \in {"idle", "create"}
  /\ now' = now + 1
  /\ UNCHANGED <<lockVars, call>>

Next ==
  \/ \E k \in Calls, c \in Clients :
       \/ Authenticate(k, c)
       \/ \E key \in Keys : ValidateApiKey(k, c, key)
  \/ \E k \in Calls : PassChecks(k) \/ KeyChecked(k) \/ SessionCreated(k)
  \/ Stop
  \/ Tick

Spec == Init /\ [][Next]_lockoutVars

-----------------------------------------------------------------------------
TypeOK ==
  /\ now \in 0 .. MaxTime
  /\ authFailures \in [Clients -> 0 .. MaxFailed]
  /\ blockedUntil \in [Clients -> 0 .. (MaxTime + Lockout) \cup {None}]
  /\ call \in [Calls -> [op : {"none", "authenticate", "validateApiKey"},
                        phase : {"idle", "checks", "key", "create"},
                        client : Clients \cup {None}, key : Keys]]
  /\ testedBefore \subseteq begunBefore
  /\ begunBefore \subseteq Calls

\* However many attempts overlap: while a client is locked out (blockedClients),
\* its keys are checked only in calls under way when the lockout began, and a
\* session is created for it only in those past the test of createSession.
LockoutHonoured ==
  \A c \in Clients :
    blockedUntil[c] # None => /\ Of(c, {"checks", "key"}) \subseteq begunBefore
                              /\ Of(c, {"create"}) \subseteq testedBefore
=============================================================================
