------------------------------- MODULE Sessions -------------------------------
(***************************************************************************)
(* src/auth/AuthService.js: sessions are created, validated, removed and   *)
(* cleaned up.  Every method is split at its awaits of the encryption and  *)
(* decryption, which may fail; calls overlap, and so does the cleanup.     *)
(* Lockout.tla has the checks that come before a session is created.       *)
(***************************************************************************)
EXTENDS Naturals, FiniteSets

CONSTANTS
  Calls,            \* calls in progress
  Tokens,           \* session tokens and connection ids; random, never reused
  None,
  SessionDuration,  \* config.auth.sessionDuration
  MaxConnections,   \* config.auth.maxConnections
  MaxAborts,        \* bound: passes of cleanupSessions that an error aborts
  MaxInvolved,      \* bound: calls in progress and tokens issued, together
  MaxTime           \* bound: the clock stops here

VARIABLES
  now,            \* Date.now()
  call,           \* what each call is doing
  activeSessions, \* the keys of activeSessions
  expiresAt,      \* the expiry of every token issued
  issued,         \* tokens issued
  cleaner,        \* the pass of cleanupSessions in progress
  cleanupTimer,   \* cleanupInterval is set
  aborts,         \* bound: passes aborted so far
  removed,        \* history: tokens whose removal was answered true
  revived         \* history: of those, stored again by a validation under way

vars == <<now, call, activeSessions, expiresAt, issued, cleaner, cleanupTimer, aborts,
          removed, revived>>
sessionVars == <<activeSessions, expiresAt, issued, removed, revived>>
cleanVars == <<cleaner, cleanupTimer, aborts>>

Idle == [op |-> "none", phase |-> "idle", token |-> None]
NoPass == [at |-> 0, todo |-> {}, token |-> None]
\* An entry made by createConnection has no expiry.
Never == MaxTime + SessionDuration + 1
Times == 0 .. Never

-----------------------------------------------------------------------------
(* Operators named after a defect are wrong variants of the definition that *)
(* follows them: Next does not use them; they serve to check that the       *)
(* properties notice the defect.                                            *)

Init ==
  /\ now = 0
  /\ call = [k \in Calls |-> Idle]
  /\ activeSessions = {}
  /\ expiresAt = [t \in Tokens |-> 0]
  /\ issued = {}
  /\ cleaner = NoPass
  /\ cleanupTimer = TRUE
  /\ aborts = 0
  /\ removed = {}
  /\ revived = {}

Awaiting(k, op, phase) == call[k].op = op /\ call[k].phase = phase
Return(k) == call' = [call EXCEPT ![k] = Idle]
Await(k, phase) == call' = [call EXCEPT ![k].phase = phase]

\* bound: what may still begin.  Calls are alike, and so are tokens: a new one is the
\* first of those that are left.
Room == Cardinality(issued) + Cardinality({k \in Calls : call[k] # Idle}) < MaxInvolved
Begins(k) == call[k] = Idle /\ Room /\ k = CHOOSE j \in Calls : call[j] = Idle
New(t) == t \notin issued /\ t = CHOOSE u \in Tokens : u \notin issued

\* createSession awaits the token and the encryption.
CreateSession(k) ==
  /\ Begins(k)
  /\ call' = [call EXCEPT ![k].op = "create", ![k].phase = "encrypt"]
  /\ UNCHANGED <<now, sessionVars, cleanVars>>

\* The session is stored, or its encryption fails.
SessionCreated(k, t) ==
  /\ Awaiting(k, "create", "encrypt")
  /\ New(t)
  /\ issued' = issued \cup {t}
  /\ \/ /\ activeSessions' = activeSessions \cup {t}
        /\ expiresAt' = [expiresAt EXCEPT ![t] = now + SessionDuration]
     \/ UNCHANGED <<activeSessions, expiresAt>>
  /\ Return(k)
  /\ UNCHANGED <<now, cleanVars, removed, revived>>

\* validateSession and removeSession read the session and await its decryption.
ReadSession(k, op, t) ==
  /\ Begins(k)
  /\ op \in {"validate", "remove"}
  /\ t \in activeSessions
  /\ call' = [call EXCEPT ![k] = [Idle EXCEPT !.op = op, !.phase = "decrypt", !.token = t]]
  /\ UNCHANGED <<now, sessionVars, cleanVars>>

DecryptFailed(k) ==
  /\ call[k].phase = "decrypt"
  /\ Return(k)
  /\ UNCHANGED <<now, sessionVars, cleanVars>>

\* validateSession, once decrypted: an expired session is deleted.
SessionRead(k) ==
  LET t == call[k].token
  IN /\ Awaiting(k, "validate", "decrypt")
     /\ IF now > expiresAt[t]
        THEN activeSessions' = activeSessions \ {t} /\ Return(k)
        ELSE activeSessions' = activeSessions /\ Await(k, "store")
     /\ UNCHANGED <<now, cleanVars, expiresAt, issued, removed, revived>>

\* validateSession stores the session, whether or not it is still there; or
\* its encryption fails.
SessionStored(k) ==
  LET t == call[k].token
  IN /\ Awaiting(k, "validate", "store")
     /\ \/ /\ activeSessions' = activeSessions \cup {t}
           /\ revived' = IF t \in removed THEN revived \cup {t} ELSE revived
        \/ UNCHANGED <<activeSessions, revived>>
     /\ Return(k)
     /\ UNCHANGED <<now, cleanVars, expiresAt, issued, removed>>

\* removeSession answers true and keeps a session that is being validated.
SessionRemovedUnlessUsed(k) ==
  LET t == call[k].token
      used == \E j \in Calls : call[j].op = "validate" /\ call[j].token = t
  IN /\ Awaiting(k, "remove", "decrypt")
     /\ activeSessions' = IF used THEN activeSessions ELSE activeSessions \ {t}
     /\ removed' = removed \cup {t}
     /\ Return(k)
     /\ UNCHANGED <<now, cleanVars, expiresAt, issued, revived>>

\* removeSession, once decrypted.  (Sessions of authenticate hold no API key.)
SessionRemoved(k) ==
  /\ Awaiting(k, "remove", "decrypt")
  /\ activeSessions' = activeSessions \ {call[k].token}
  /\ removed' = removed \cup {call[k].token}
  /\ Return(k)
  /\ UNCHANGED <<now, cleanVars, expiresAt, issued, revived>>

\* createConnection: an entry of activeSessions without expiry.
CreateConnection(t) ==
  /\ New(t) /\ Room
  /\ Cardinality(activeSessions) < MaxConnections
  /\ issued' = issued \cup {t}
  /\ activeSessions' = activeSessions \cup {t}
  /\ expiresAt' = [expiresAt EXCEPT ![t] = Never]
  /\ UNCHANGED <<now, call, cleanVars, removed, revived>>

\* closeConnection deletes any entry.
CloseConnection(t) ==
  /\ t \in activeSessions
  /\ activeSessions' = activeSessions \ {t}
  /\ UNCHANGED <<now, call, cleanVars, expiresAt, issued, removed, revived>>

-----------------------------------------------------------------------------
(* cleanupSessions                                                          *)

\* The interval fires: the ids and the time are read once.
StartPass ==
  /\ cleanupTimer
  /\ cleaner = NoPass
  /\ activeSessions # {}
  /\ cleaner' = [at |-> now, todo |-> activeSessions, token |-> None]
  /\ UNCHANGED <<now, call, sessionVars, cleanupTimer, aborts>>

\* The last session of a pass leaves the pass open.
RestOpen(todo) == [cleaner EXCEPT !.todo = todo, !.token = None]
Rest(todo) == IF todo = {} THEN NoPass ELSE [cleaner EXCEPT !.todo = todo, !.token = None]

CleanRead(t) ==
  /\ cleaner.token = None
  /\ t \in cleaner.todo
  /\ cleaner' = IF t \in activeSessions
                THEN [cleaner EXCEPT !.todo = @ \ {t}, !.token = t]
                ELSE Rest(cleaner.todo \ {t})
  /\ UNCHANGED <<now, call, sessionVars, cleanupTimer, aborts>>

Expired(t) == cleaner.at > expiresAt[t]

\* The session is decrypted, or cannot be: it is deleted in the second case,
\* and in the first one when it had expired before the pass began.
CleanDecide ==
  /\ cleaner.token # None
  /\ \/ activeSessions' = activeSessions \ {cleaner.token}
     \/ /\ activeSessions' = activeSessions
        /\ ~ Expired(cleaner.token)
  /\ cleaner' = Rest(cleaner.todo)
  /\ UNCHANGED <<now, call, cleanupTimer, aborts, expiresAt, issued, removed, revived>>

\* The error "Cleanup failed" is thrown on: the pass ends, with this session and the
\* rest as they are.
CleanAborts ==
  /\ cleaner.token # None
  /\ aborts < MaxAborts
  /\ aborts' = aborts + 1
  /\ cleaner' = NoPass
  /\ UNCHANGED <<now, call, cleanupTimer, sessionVars>>

StartCleanup ==
  /\ ~ cleanupTimer
  /\ cleanupTimer' = TRUE
  /\ UNCHANGED <<now, call, sessionVars, cleaner, aborts>>

StopCleanup ==
  /\ cleanupTimer
  /\ cleanupTimer' = FALSE
  /\ UNCHANGED <<now, call, sessionVars, cleaner, aborts>>

\* cleanup and stop: every map is cleared; calls in progress go on.
Stop ==
  /\ activeSessions' = {}
  /\ cleanupTimer' = FALSE
  /\ UNCHANGED <<now, call, cleaner, aborts, expiresAt, issued, removed, revived>>

Tick ==
  /\ now < MaxTime
  /\ now' = now + 1
  /\ UNCHANGED <<call, sessionVars, cleanVars>>

-----------------------------------------------------------------------------
Resume(k) ==
  \/ \E t \in Tokens : SessionCreated(k, t)
  \/ DecryptFailed(k)
  \/ SessionRead(k)
  \/ SessionStored(k)
  \/ SessionRemoved(k)

Cleanup == StartPass \/ (\E t \in Tokens : CleanRead(t)) \/ CleanDecide

Next ==
  \/ \E k \in Calls :
       \/ CreateSession(k)
       \/ \E t \in Tokens, op \in {"validate", "remove"} : ReadSession(k, op, t)
       \/ Resume(k)
  \/ \E t \in Tokens : CreateConnection(t) \/ CloseConnection(t)
  \/ Cleanup
  \/ CleanAborts
  \/ StartCleanup
  \/ StopCleanup
  \/ Stop
  \/ Tick

Spec == Init /\ [][Next]_vars

-----------------------------------------------------------------------------
TypeOK ==
  /\ now \in 0 .. MaxTime
  /\ call \in [Calls -> [op : {"none", "create", "validate", "remove"},
                        phase : {"idle", "encrypt", "decrypt", "store"},
                        token : issued \cup {None}]]
  /\ issued \subseteq Tokens
  /\ activeSessions \subseteq issued
  /\ expiresAt \in [Tokens -> Times]
  /\ cleaner \in [at : 0 .. now, todo : SUBSET issued, token : issued \cup {None}]
  /\ cleanupTimer \in BOOLEAN
  /\ aborts \in Nat
  /\ revived \subseteq removed

\* A session for which removeSession answered true is active again only
\* because a validateSession that had read it before stored it afterwards.
RemovedStaysRemoved == removed \cap activeSessions \subseteq revived

\* cleanupSessions: a session that has expired leaves activeSessions in the end,
\* whatever is created, validated and removed during its passes, and although an error
\* may abort some of them before they come to it.
ExpiredRemoved ==
  \A t \in Tokens :
    (t \in activeSessions /\ now > expiresAt[t]) ~> (t \notin activeSessions \/ ~ cleanupTimer)
=============================================================================
