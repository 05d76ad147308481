---- MODULE Tokens ----
(***************************************************************************)
(* auth/OAuth2Service.js: authorization codes, exchanged once for tokens,  *)
(* and sessions, of which a user has a limited number.  No method awaits   *)
(* before it has done its work: each is one step.  The signed tokens are   *)
(* not state of the service and are not modelled.                          *)
(***************************************************************************)
EXTENDS Naturals, FiniteSets

CONSTANTS Codes,          \* bound: authorization codes ever made
          Sessions,       \* bound: session ids ever made
          Users, None,
          CodeExpiry,     \* config.authorizationCodeExpiry
          SessionExpiry,  \* this.sessionExpiry
          MaxSessions,    \* this.maxConcurrentSessions
          MaxTime         \* bound: the clock stops here

VARIABLES now,
          authorizationCodes,      \* the expiry of each code the map has, or None
          usedAuthorizationCodes,
          activeSessions,          \* the user and expiry of each session the map has, or None
          codesMade, sessionsMade, \* random ids are never made twice
          exchanged                \* history: for each code, the exchanges that succeeded
tokenVars == <<now, authorizationCodes, usedAuthorizationCodes, activeSessions,
               codesMade, sessionsMade, exchanged>>

TypeOK ==
  /\ now \in 0..MaxTime
  /\ authorizationCodes \in [Codes -> 0..(MaxTime + CodeExpiry) \cup {None}]
  /\ usedAuthorizationCodes \subseteq Codes /\ codesMade \subseteq Codes
  /\ activeSessions \in [Sessions -> [user : Users, expiresAt : 0..(MaxTime + SessionExpiry)] \cup {None}]
  /\ sessionsMade \subseteq Sessions
  /\ exchanged \in [Codes -> Nat]

Init ==
  /\ now = 0
  /\ authorizationCodes = [c \in Codes |-> None] /\ usedAuthorizationCodes = {}
  /\ activeSessions = [s \in Sessions |-> None]
  /\ codesMade = {} /\ sessionsMade = {}
  /\ exchanged = [c \in Codes |-> 0]

GenerateAuthorizationCode(c) ==
  /\ c \notin codesMade
  /\ codesMade' = codesMade \cup {c}
  /\ authorizationCodes' = [authorizationCodes EXCEPT ![c] = now + CodeExpiry]
  /\ UNCHANGED <<now, usedAuthorizationCodes, activeSessions, sessionsMade, exchanged>>

Exchangeable(c) ==
  /\ authorizationCodes[c] # None
  /\ authorizationCodes[c] >= now
  /\ c \notin usedAuthorizationCodes

(* Operators named after a defect are wrong variants of the definition that follows them: Next does not
   use them; they serve to check that the properties notice the defect. *)
\* The code is left in the map, and is thought of as used when it expires.
ExchangeCodeForTokenKept(c) ==
  /\ Exchangeable(c)
  /\ exchanged' = [exchanged EXCEPT ![c] = @ + 1]
  /\ UNCHANGED <<now, authorizationCodes, usedAuthorizationCodes, activeSessions, codesMade, sessionsMade>>
\* exchangeCodeForToken by the client the code was made for; every other call throws.
ExchangeCodeForToken(c) ==
  /\ Exchangeable(c)
  /\ usedAuthorizationCodes' = usedAuthorizationCodes \cup {c}
  /\ authorizationCodes' = [authorizationCodes EXCEPT ![c] = None]
  /\ exchanged' = [exchanged EXCEPT ![c] = @ + 1]
  /\ UNCHANGED <<now, activeSessions, codesMade, sessionsMade>>

SessionsOf(u) == {s \in Sessions : activeSessions[s] # None /\ activeSessions[s].user = u}

\* Sessions that have expired count until they are cleaned up.
CreateSession(s, u) ==
  /\ s \notin sessionsMade
  /\ Cardinality(SessionsOf(u)) < MaxSessions
  /\ sessionsMade' = sessionsMade \cup {s}
  /\ activeSessions' = [activeSessions EXCEPT ![s] = [user |-> u, expiresAt |-> now + SessionExpiry]]
  /\ UNCHANGED <<now, authorizationCodes, usedAuthorizationCodes, codesMade, exchanged>>

DeleteSession(s) ==
  /\ activeSessions' = [activeSessions EXCEPT ![s] = None]
  /\ UNCHANGED <<now, authorizationCodes, usedAuthorizationCodes, codesMade, sessionsMade, exchanged>>

CleanupExpiredSessions ==
  /\ activeSessions' = [s \in Sessions |->
       IF activeSessions[s] # None /\ activeSessions[s].expiresAt < now THEN None ELSE activeSessions[s]]
  /\ UNCHANGED <<now, authorizationCodes, usedAuthorizationCodes, codesMade, sessionsMade, exchanged>>

CleanupExpiredTokens ==
  /\ authorizationCodes' = [c \in Codes |->
       IF authorizationCodes[c] # None /\ authorizationCodes[c] < now THEN None ELSE authorizationCodes[c]]
  /\ UNCHANGED <<now, usedAuthorizationCodes, activeSessions, codesMade, sessionsMade, exchanged>>

\* stop forgets which codes were used, and keeps the sessions: it clears
\* this.sessions, where none ever was.
Stop ==
  /\ authorizationCodes' = [c \in Codes |-> None]
  /\ usedAuthorizationCodes' = {}
  /\ UNCHANGED <<now, activeSessions, codesMade, sessionsMade, exchanged>>

Tick == now < MaxTime /\ now' = now + 1
        /\ UNCHANGED <<authorizationCodes, usedAuthorizationCodes, activeSessions, codesMade, sessionsMade, exchanged>>

Next ==
  \/ \E c \in Codes : GenerateAuthorizationCode(c) \/ ExchangeCodeForToken(c)
  \/ \E s \in Sessions : DeleteSession(s) \/ \E u \in Users : CreateSession(s, u)
  \/ CleanupExpiredSessions \/ CleanupExpiredTokens \/ Stop \/ Tick
Spec == Init /\ [][Next]_tokenVars

----
(* An authorization code yields tokens at most once, also when the service  *)
(* is stopped, which forgets the codes used, and used again; a code still   *)
(* on offer has never been exchanged.                                       *)
CodeExchangedOnce ==
  \A c \in Codes : exchanged[c] <= IF authorizationCodes[c] = None THEN 1 ELSE 0
====
