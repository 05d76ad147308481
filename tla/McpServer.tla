------------------------------- MODULE McpServer -------------------------------
(***************************************************************************)
(* src/mcp/server/WebSocketServer.js: clients of the MCP server from the   *)
(* connection to authentication, logout, disconnection and shutdown.       *)
(*                                                                         *)
(* The authentication service is known by its interface: a call is         *)
(* answered later, with yes, no or an error.  The batcher refuses what has *)
(* no id (MessageBatcher), and no message of this server has one: nothing  *)
(* gets into a batch and handleBatch is never called.  What is in a        *)
(* message matters only for LOGGED_OUT, the last one a client gets.        *)
(* Client ids are random: a slot is used once.                             *)
(***************************************************************************)
EXTENDS Integers, FiniteSets

CONSTANTS
  Clients,        \* bound: the connections made in a behaviour
  Calls,          \* bound: slots for the handlers that are suspended
  None,
  MaxConnections  \* config.maxConnections

ASSUME ServerAssumption ==
  /\ IsFiniteSet(Clients)
  /\ None \notin Clients
  /\ MaxConnections \in Nat

VARIABLES
  config,         \* config.batching.enabled and config.auth.enabled
  clients,        \* the keys of this.clients
  socket,         \* external: the WebSocket of each client
  authenticated,  \* client.authenticated
  sent,           \* the last message written to each socket
  call,           \* the handlers that wait: for the service, or for a timer
  gauge,          \* metrics.mcpConnections
  shuttingDown,   \* isShuttingDown
  stopped,        \* the promise of stop() is settled
  loggedOut,      \* history: clients that logged out on an open socket
  overtaken       \* history: logouts that ended after the client had gone

clientVars == <<clients, socket, gauge, overtaken>>
stopVars == <<config, shuttingDown, stopped>>
vars == <<clientVars, stopVars, sent, authenticated, call, loggedOut>>

Kinds == {"none", "reply", "loggedOut"}
NoCall == [op |-> "none", of |-> None]
Waiting == {"auth", "session", "logout", "limited"}

\* The map entry is there and the socket can be written to.
Reachable(c) == c \in clients /\ socket[c] = "open"

-----------------------------------------------------------------------------
(* Operators named after a defect (DisconnectCounted, ...) are wrong        *)
(* variants of the definition that follows them: Next does not use them;    *)
(* they serve to check that the properties notice the defect.               *)

Init ==
  /\ config \in [batching : BOOLEAN, auth : BOOLEAN]
  /\ clients = {}
  /\ socket = [c \in Clients |-> "none"]
  /\ authenticated = [c \in Clients |-> FALSE]
  /\ sent = [c \in Clients |-> "none"]
  /\ call = [k \in Calls |-> NoCall]
  /\ gauge = 0
  /\ shuttingDown = FALSE
  /\ stopped = FALSE
  /\ loggedOut = {}
  /\ overtaken = 0

\* sendMessage: out at once, or to the batcher, which refuses it.
SendToSocket(c, kind) ==
  sent' = IF socket[c] = "open" /\ ~ shuttingDown /\ ~ config.batching
          THEN [sent EXCEPT ![c] = kind] ELSE sent
SendMessage(c, kind) ==
  sent' = IF Reachable(c) /\ ~ shuttingDown /\ ~ config.batching
          THEN [sent EXCEPT ![c] = kind] ELSE sent

\* A connection that verifyClient admits, and handleConnection.  Once stop has
\* closed the server there are no more.
ConnectionAllowed == Cardinality(clients) < MaxConnections
HandleConnection(c) ==
  /\ socket[c] = "none"
  /\ ~ shuttingDown
  /\ ConnectionAllowed
  /\ clients' = clients \cup {c}
  /\ socket' = [socket EXCEPT ![c] = "open"]
  /\ gauge' = gauge + 1
  /\ sent' = IF config.batching THEN sent ELSE [sent EXCEPT ![c] = "reply"]
  /\ UNCHANGED <<stopVars, authenticated, call, loggedOut, overtaken>>

\* handleDisconnect: the entry and the gauge.
DisconnectCounted(c) ==
  /\ clients' = clients \ {c}
  /\ gauge' = gauge - 1
DisconnectClient(c) ==
  /\ clients' = clients \ {c}
  /\ gauge' = IF c \in clients THEN gauge - 1 ELSE gauge

\* The socket is closed, by the peer or after the server has closed it.
SocketCloses(c) ==
  /\ socket[c] \in {"open", "closing"}
  /\ socket' = [socket EXCEPT ![c] = "closed"]
  /\ DisconnectClient(c)
  /\ UNCHANGED <<sent, stopVars, authenticated, call, loggedOut, overtaken>>

\* The socket fails, and will be closed.
SocketFails(c) ==
  /\ socket[c] = "open"
  /\ socket' = [socket EXCEPT ![c] = "closing"]
  /\ DisconnectClient(c)
  /\ UNCHANGED <<sent, stopVars, authenticated, call, loggedOut, overtaken>>

-----------------------------------------------------------------------------
\* handleMessage reaches the handlers only for a client that is there.
Heard(c) == Reachable(c) /\ ~ shuttingDown

\* A message that is too large or malformed, lacks its key or token, or is not
\* allowed (yet): an error is sent.
Refuse(c) ==
  /\ Heard(c)
  /\ SendMessage(c, "reply")
  /\ UNCHANGED <<clientVars, stopVars, authenticated, call, loggedOut>>

\* A handler starts to wait.
Suspend(k, op, c) ==
  /\ call[k] = NoCall
  /\ call' = [call EXCEPT ![k] = [op |-> op, of |-> c]]

\* A handler ends.
Done(k) == call' = [call EXCEPT ![k] = NoCall]

\* AUTHENTICATE with a key, up to the await of handleAuth.
HandleAuth(k, c) ==
  /\ Heard(c)
  /\ Suspend(k, "auth", c)
  /\ UNCHANGED <<clientVars, sent, stopVars, authenticated, loggedOut>>

\* The service answers handleAuth: a session, none, or an error; the client
\* object is the one handleAuth started with, in the map or not.
AuthResumes(k) ==
  LET c == call[k].of IN
  /\ call[k].op = "auth"
  /\ \/ authenticated' = [authenticated EXCEPT ![c] = TRUE]
     \/ UNCHANGED authenticated
  /\ SendMessage(c, "reply")
  /\ Done(k)
  /\ UNCHANGED <<clientVars, stopVars, loggedOut>>

\* The error is RATE_LIMIT_EXCEEDED: the client is told, and left after a while.
RateLimited(k) ==
  /\ call[k].op = "auth"
  /\ SendMessage(call[k].of, "reply")
  /\ call' = [call EXCEPT ![k].op = "limited"]
  /\ UNCHANGED <<clientVars, stopVars, authenticated, loggedOut>>

\* handleDisconnect called by the server, which also closes an open socket.
RemoveAndClose(k) ==
  LET c == call[k].of IN
  /\ DisconnectClient(c)
  /\ socket' = IF Reachable(c) THEN [socket EXCEPT ![c] = "closing"] ELSE socket
LeaveRateLimited(k) ==
  /\ call[k].op = "limited"
  /\ RemoveAndClose(k)
  /\ Done(k)
  /\ UNCHANGED <<sent, stopVars, authenticated, loggedOut, overtaken>>

\* processMessage serves a client that is authenticated, or any client.
Served(c) == Heard(c) /\ (config.auth => authenticated[c])

\* SESSION_VALID with a token, up to the await of validateSession.
ValidateSession(k, c) ==
  /\ Served(c)
  /\ Suspend(k, "session", c)
  /\ UNCHANGED <<clientVars, sent, stopVars, authenticated, loggedOut>>

SessionResumes(k) ==
  LET c == call[k].of IN
  /\ call[k].op = "session"
  /\ \/ UNCHANGED authenticated
     \/ authenticated' = [authenticated EXCEPT ![c] = FALSE]
  /\ SendMessage(c, "reply")
  /\ Done(k)
  /\ UNCHANGED <<clientVars, stopVars, loggedOut>>

\* The end of handleLogout: confirm, remove the client, count it - there or not.
FinishLogout(c) ==
  /\ SendMessage(c, "loggedOut")
  /\ clients' = clients \ {c}
  /\ gauge' = gauge - 1
  /\ overtaken' = IF c \in clients THEN overtaken ELSE overtaken + 1
  /\ loggedOut' = IF Reachable(c) /\ ~ shuttingDown THEN loggedOut \cup {c} ELSE loggedOut
  /\ UNCHANGED socket

\* LOGOUT of a client that is not authenticated: there is nothing to await.
LogoutAtOnce(c) ==
  /\ Served(c)
  /\ ~ authenticated[c]
  /\ FinishLogout(c)
  /\ UNCHANGED <<stopVars, authenticated, call>>

\* LOGOUT up to the await of removeSession.
HandleLogout(k, c) ==
  /\ Served(c)
  /\ authenticated[c]
  /\ Suspend(k, "logout", c)
  /\ UNCHANGED <<clientVars, sent, stopVars, authenticated, loggedOut>>

LogoutResumes(k) ==
  /\ call[k].op = "logout"
  /\ FinishLogout(call[k].of)
  /\ Done(k)
  /\ UNCHANGED <<stopVars, authenticated>>

\* removeSession fails: the client stays.
LogoutFails(k) ==
  /\ call[k].op = "logout"
  /\ SendMessage(call[k].of, "reply")
  /\ Done(k)
  /\ UNCHANGED <<clientVars, stopVars, authenticated, loggedOut>>

-----------------------------------------------------------------------------
\* stop: the sockets of the clients are closed ...
CloseNone == UNCHANGED socket
CloseClients == socket' = [c \in Clients |-> IF Reachable(c) THEN "closing" ELSE socket[c]]
Stop ==
  /\ ~ shuttingDown
  /\ shuttingDown' = TRUE
  /\ CloseClients
  /\ UNCHANGED <<config, stopped, clients, gauge, overtaken, sent, authenticated, call, loggedOut>>

\* ... and the server is closed when no socket is left.
ServerCloses ==
  /\ shuttingDown
  /\ ~ stopped
  /\ \A c \in Clients : socket[c] \in {"none", "closed"}
  /\ stopped' = TRUE
  /\ UNCHANGED <<clientVars, sent, config, shuttingDown, authenticated, call, loggedOut>>

-----------------------------------------------------------------------------
Answer(k) ==
  AuthResumes(k) \/ RateLimited(k) \/ SessionResumes(k) \/ LogoutResumes(k) \/ LogoutFails(k)

ClientStep(c) ==
  \/ HandleConnection(c) \/ SocketCloses(c) \/ SocketFails(c)
  \/ Refuse(c) \/ LogoutAtOnce(c)
  \/ \E k \in Calls : HandleAuth(k, c) \/ ValidateSession(k, c) \/ HandleLogout(k, c)

Next ==
  \/ \E c \in Clients : ClientStep(c)
  \/ \E k \in Calls : Answer(k) \/ LeaveRateLimited(k)
  \/ Stop \/ ServerCloses

Spec == Init /\ [][Next]_vars

\* Timers fire, and a socket that one side has closed is closed: ws ends it after
\* 30 seconds at the latest.  Peers need not close, nor the service answer.
ClosingEnds(c) == socket[c] = "closing" /\ SocketCloses(c)
Fairness ==
  /\ \A k \in Calls : WF_vars(LeaveRateLimited(k))
  /\ \A c \in Clients : WF_vars(ClosingEnds(c))
  /\ WF_vars(ServerCloses)

FairSpec == Spec /\ Fairness

-----------------------------------------------------------------------------
\* The variables have their types; only a suspended handler names a client.
TypeOK ==
  /\ config \in [batching : BOOLEAN, auth : BOOLEAN]
  /\ clients \in SUBSET Clients
  /\ socket \in [Clients -> {"none", "open", "closing", "closed"}]
  /\ authenticated \in [Clients -> BOOLEAN]
  /\ sent \in [Clients -> Kinds]
  /\ call \in [Calls -> [op : Waiting, of : Clients] \cup {NoCall}]
  /\ gauge \in Int
  /\ shuttingDown \in BOOLEAN
  /\ stopped \in BOOLEAN
  /\ loggedOut \in SUBSET Clients
  /\ overtaken \in Nat

\* The gauge of connections counts the clients, less the logouts that ended when
\* the client had gone: it never counts too many, and overlapping logouts and
\* disconnections are the only way to count too few.
GaugeCounts == gauge + overtaken = Cardinality(clients)

\* At most MaxConnections sockets are open, those of clients that logged out apart.
ConnectionsBounded ==
  Cardinality({c \in Clients : socket[c] = "open"} \ loggedOut) <= MaxConnections

\* A client in the map has a socket that is not closed, and an open socket without
\* a client is that of a client that logged out: only those escape
\* maxConnections and the closing of sockets by stop.
SocketsAccounted ==
  \A c \in Clients :
    /\ c \in clients => socket[c] \in {"open", "closing"}
    /\ socket[c] = "open" => c \in clients \cup loggedOut

\* The books of the server: the gauge, the map of clients and the sockets agree
\* (handleConnection, handleDisconnect, handleLogout).
ClientsAccounted == TypeOK /\ GaugeCounts /\ ConnectionsBounded /\ SocketsAccounted

\* LOGGED_OUT is the last message a client gets, whichever handlers of the client
\* are still suspended when it logs out.
LogoutLast ==
  [][\A c \in Clients : sent[c] = "loggedOut" => sent'[c] = sent[c]]_vars

\* A client that stays connected to a running server is sent something.
Answered ==
  \A c \in Clients : c \in clients ~> sent[c] # "none" \/ ~ Reachable(c) \/ shuttingDown

\* stop settles, unless a client that logged out keeps its socket open: the server
\* waits for a socket it has forgotten.
StopSettles ==
  shuttingDown ~> stopped \/ \E c \in loggedOut : socket[c] = "open"

\* A client that exceeded the rate limit is removed and its socket closed, unless
\* it logged out meanwhile.
LimitedLeave ==
  \A c \in Clients :
    (\E k \in Calls : call[k] = [op |-> "limited", of |-> c]) ~>
      c \notin clients /\ (socket[c] = "closed" \/ c \in loggedOut)

\* Both: what is under way when the server or a client is to leave comes to its end.
LeavingEnds == StopSettles /\ LimitedLeave
=============================================================================
