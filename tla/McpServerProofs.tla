---------------------------- MODULE McpServerProofs ----------------------------
(***************************************************************************)
(* The safety properties of McpServer hold for every number of connections *)
(* and of suspended handlers, and every MaxConnections.                    *)
(*                                                                         *)
(* Three facts of the invariant carry the others: only a logout drops an   *)
(* entry and leaves its socket open, a client that was told LOGGED_OUT has *)
(* no entry, and a server that stops has closed the sockets it knows.      *)
(***************************************************************************)
EXTENDS McpServer, FiniteSetTheorems, TLAPS

USE ServerAssumption

\* The entries of the map are at most MaxConnections.
EntriesBounded == Cardinality(clients) <= MaxConnections

\* A client that was told LOGGED_OUT has been connected and is out of the map.
ToldAreGone ==
  \A c \in Clients : sent[c] = "loggedOut" => c \notin clients /\ socket[c] # "none"

\* No entry of a server that stops has an open socket.
StoppingCloses == shuttingDown => \A c \in clients : socket[c] # "open"

IInv ==
  TypeOK /\ GaugeCounts /\ SocketsAccounted /\ EntriesBounded /\ ToldAreGone /\ StoppingCloses

-----------------------------------------------------------------------------
\* Cardinalities of the map when an entry comes or goes.
LEMMA ClientsCounted ==
  ASSUME TypeOK
  PROVE  /\ Cardinality(clients) \in Nat
         /\ \A c \in Clients \ clients : Cardinality(clients \cup {c}) = Cardinality(clients) + 1
         /\ \A c \in clients : Cardinality(clients \ {c}) = Cardinality(clients) - 1
         /\ \A c \in Clients \ clients : clients \ {c} = clients
<1>1. IsFiniteSet(clients)
  BY FS_Subset DEF TypeOK
<1> QED
  BY <1>1, FS_CardinalityType, FS_AddElement, FS_RemoveElement DEF TypeOK

\* The open sockets, those of clients that logged out apart, belong to entries.
LEMMA OpenAreEntries ==
  ASSUME TypeOK, SocketsAccounted, EntriesBounded
  PROVE  ConnectionsBounded
<1> DEFINE Open == {c \in Clients : socket[c] = "open"} \ loggedOut
<1>1. IsFiniteSet(clients)
  BY FS_Subset DEF TypeOK
<1>2. Open \subseteq clients
  BY DEF SocketsAccounted
<1>3. Cardinality(Open) <= Cardinality(clients) /\ Cardinality(Open) \in Nat
  BY <1>1, <1>2, FS_Subset, FS_CardinalityType
<1>4. Cardinality(clients) \in Nat
  BY <1>1, FS_CardinalityType
<1> QED
  BY <1>3, <1>4 DEF EntriesBounded, ConnectionsBounded

LEMMA InitInv == Init => IInv
<1> SUFFICES ASSUME Init PROVE IInv
  OBVIOUS
<1>1. TypeOK
  <2>1. call \in [Calls -> [op : Waiting, of : Clients] \cup {NoCall}]
    BY DEF Init
  <2>2. sent \in [Clients -> Kinds]
    BY DEF Init, Kinds
  <2>3. /\ config \in [batching : BOOLEAN, auth : BOOLEAN]
        /\ shuttingDown \in BOOLEAN /\ stopped \in BOOLEAN
    BY DEF Init
  <2>4. /\ socket \in [Clients -> {"none", "open", "closing", "closed"}]
        /\ authenticated \in [Clients -> BOOLEAN]
    BY DEF Init
  <2>5. /\ clients \in SUBSET Clients /\ gauge \in Int
        /\ loggedOut \in SUBSET Clients /\ overtaken \in Nat
    BY DEF Init
  <2> QED
    BY <2>1, <2>2, <2>3, <2>4, <2>5 DEF TypeOK
<1>2. GaugeCounts /\ EntriesBounded
  BY FS_EmptySet DEF Init, GaugeCounts, EntriesBounded
<1>3. SocketsAccounted /\ ToldAreGone /\ StoppingCloses
  BY DEF Init, SocketsAccounted, ToldAreGone, StoppingCloses
<1> QED
  BY <1>1, <1>2, <1>3 DEF IInv

-----------------------------------------------------------------------------
\* A suspended handler names a client.
LEMMA CallOfClient ==
  ASSUME TypeOK, NEW k \in Calls, call[k].op # "none"
  PROVE  call[k].of \in Clients /\ call[k] \in [op : Waiting, of : Clients]
BY DEF TypeOK, NoCall

\* A handler that ends, starts to wait or changes what it waits for.
LEMMA CallsTyped ==
  ASSUME TypeOK, NEW k \in Calls, NEW op \in Waiting, NEW c \in Clients
  PROVE  /\ Done(k) => call' \in [Calls -> [op : Waiting, of : Clients] \cup {NoCall}]
         /\ Suspend(k, op, c) => call' \in [Calls -> [op : Waiting, of : Clients] \cup {NoCall}]
<1>1. CASE Done(k)
  BY <1>1 DEF TypeOK, Done, Suspend
<1>2. CASE Suspend(k, op, c)
  BY <1>2 DEF TypeOK, Suspend
<1> QED
  BY <1>1, <1>2

\* sendMessage writes only to an entry of the map.
LEMMA Sending ==
  ASSUME TypeOK, NEW c \in Clients, NEW kind \in Kinds, SendMessage(c, kind)
  PROVE  /\ sent' \in [Clients -> Kinds]
         /\ \A d \in Clients : sent'[d] # sent[d] =>
              d = c /\ c \in clients /\ sent'[d] = kind
BY DEF TypeOK, SendMessage, Reachable

\* handleDisconnect keeps the gauge and the bound.
LEMMA Disconnecting ==
  ASSUME IInv, NEW c \in Clients, DisconnectClient(c), UNCHANGED overtaken
  PROVE  GaugeCounts' /\ EntriesBounded' /\ clients' \in SUBSET Clients /\ gauge' \in Int
<1>1. CASE c \in clients
  BY <1>1, ClientsCounted DEF IInv, TypeOK, DisconnectClient, GaugeCounts, EntriesBounded
<1>2. CASE c \notin clients
  BY <1>2, ClientsCounted DEF IInv, TypeOK, DisconnectClient, GaugeCounts, EntriesBounded
<1> QED
  BY <1>1, <1>2

\* The end of handleLogout, for a client that may have gone.
LEMMA LoggingOut ==
  ASSUME IInv, NEW c \in Clients, FinishLogout(c)
  PROVE  /\ GaugeCounts' /\ EntriesBounded' /\ SocketsAccounted' /\ ToldAreGone'
         /\ clients' \in SUBSET Clients /\ gauge' \in Int /\ overtaken' \in Nat
         /\ loggedOut' \in SUBSET Clients /\ socket' = socket
         /\ sent' \in [Clients -> Kinds]
<1> USE DEF IInv
<1>1. sent' \in [Clients -> Kinds]
      /\ \A d \in Clients : sent'[d] # sent[d] => d = c /\ c \in clients
  BY Sending DEF FinishLogout, Kinds
<1>2. GaugeCounts' /\ EntriesBounded' /\ gauge' \in Int /\ overtaken' \in Nat
  <2>1. CASE c \in clients
    BY <2>1, ClientsCounted DEF TypeOK, FinishLogout, GaugeCounts, EntriesBounded
  <2>2. CASE c \notin clients
    <3>1. clients' = clients /\ gauge' = gauge - 1 /\ overtaken' = overtaken + 1
      BY <2>2 DEF FinishLogout
    <3> QED
      BY <3>1, ClientsCounted DEF TypeOK, GaugeCounts, EntriesBounded
  <2> QED
    BY <2>1, <2>2
<1>3. c \in clients /\ socket[c] = "open" => c \in loggedOut'
  <2> SUFFICES ASSUME c \in clients, socket[c] = "open" PROVE c \in loggedOut'
    OBVIOUS
  <2> QED
    BY DEF FinishLogout, Reachable, TypeOK, StoppingCloses
<1> QED
  BY <1>1, <1>2, <1>3 DEF FinishLogout, TypeOK, SocketsAccounted, ToldAreGone

-----------------------------------------------------------------------------
\* A step that only changes what is awaited, or what the server knows of a client,
\* and answers at most.
LEMMA Answering ==
  ASSUME IInv, NEW c \in Clients, SendMessage(c, "reply") \/ UNCHANGED sent,
         UNCHANGED <<clientVars, stopVars, loggedOut>>,
         authenticated' \in [Clients -> BOOLEAN],
         call' \in [Calls -> [op : Waiting, of : Clients] \cup {NoCall}]
  PROVE  IInv'
<1>1. /\ sent' \in [Clients -> Kinds]
      /\ \A d \in Clients : sent'[d] = "loggedOut" => sent[d] = "loggedOut"
  BY Sending DEF IInv, TypeOK, Kinds
<1>2. TypeOK'
  BY <1>1 DEF IInv, TypeOK, clientVars, stopVars
<1>3. GaugeCounts' /\ EntriesBounded' /\ StoppingCloses'
  BY DEF IInv, GaugeCounts, EntriesBounded, StoppingCloses, clientVars, stopVars
<1>4. SocketsAccounted'
  BY DEF IInv, SocketsAccounted, clientVars
<1>5. ToldAreGone'
  BY <1>1 DEF IInv, ToldAreGone, clientVars
<1> QED
  BY <1>2, <1>3, <1>4, <1>5 DEF IInv

\* A step in which the server loses an entry whose socket is not open afterwards.
LEMMA Leaving ==
  ASSUME IInv, NEW c \in Clients, DisconnectClient(c),
         socket' \in [Clients -> {"none", "open", "closing", "closed"}],
         socket'[c] # "open" \/ (socket'[c] = socket[c] /\ c \notin clients),
         socket[c] # "none" => socket'[c] # "none",
         \A d \in Clients \ {c} : socket'[d] = socket[d],
         UNCHANGED <<sent, stopVars, authenticated, loggedOut, overtaken>>,
         call' \in [Calls -> [op : Waiting, of : Clients] \cup {NoCall}]
  PROVE  IInv'
<1>1. GaugeCounts' /\ EntriesBounded' /\ clients' \in SUBSET Clients /\ gauge' \in Int
  BY Disconnecting
<1>2. clients' = clients \ {c}
  BY DEF DisconnectClient
<1>3. TypeOK'
  BY <1>1 DEF IInv, TypeOK, stopVars
<1>4. SocketsAccounted' /\ ToldAreGone'
  BY <1>2 DEF IInv, TypeOK, SocketsAccounted, ToldAreGone
<1>5. StoppingCloses'
  BY <1>2 DEF IInv, TypeOK, StoppingCloses, stopVars
<1> QED
  BY <1>1, <1>3, <1>4, <1>5 DEF IInv

\* A step in which handleLogout ends.
LEMMA LogoutStep ==
  ASSUME IInv, NEW c \in Clients, FinishLogout(c), UNCHANGED <<stopVars, authenticated>>,
         call' \in [Calls -> [op : Waiting, of : Clients] \cup {NoCall}]
  PROVE  IInv'
<1>1. TypeOK'
  BY LoggingOut DEF IInv, TypeOK, stopVars
<1>2. StoppingCloses'
  BY LoggingOut DEF IInv, StoppingCloses, FinishLogout, stopVars
<1> QED
  BY <1>1, <1>2, LoggingOut DEF IInv

LEMMA ConnectionStep ==
  ASSUME IInv, NEW c \in Clients, HandleConnection(c)
  PROVE  IInv'
<1>1. c \notin clients
  BY DEF IInv, SocketsAccounted, HandleConnection
<1>2. clients' = clients \cup {c} /\ gauge' = gauge + 1 /\ overtaken' = overtaken
  BY DEF HandleConnection
<1>3. Cardinality(clients) < MaxConnections
  BY DEF HandleConnection, ConnectionAllowed
<1>4. Cardinality(clients') = Cardinality(clients) + 1 /\ Cardinality(clients) \in Nat
  BY <1>1, <1>2, ClientsCounted DEF IInv
<1>5. GaugeCounts' /\ EntriesBounded'
  BY <1>2, <1>3, <1>4 DEF IInv, TypeOK, GaugeCounts, EntriesBounded
<1>6. /\ sent' \in [Clients -> Kinds]
      /\ \A d \in Clients : sent'[d] = "loggedOut" => sent[d] = "loggedOut"
  BY DEF IInv, TypeOK, HandleConnection, Kinds
<1>7. /\ socket' \in [Clients -> {"none", "open", "closing", "closed"}]
      /\ socket[c] = "none" /\ socket'[c] = "open"
      /\ \A d \in Clients \ {c} : socket'[d] = socket[d]
  BY DEF IInv, TypeOK, HandleConnection
<1>8. UNCHANGED <<stopVars, authenticated, call, loggedOut>> /\ ~ shuttingDown
  BY DEF HandleConnection
<1>9. TypeOK'
  BY <1>2, <1>6, <1>7, <1>8 DEF IInv, TypeOK, stopVars
<1>10. SocketsAccounted' /\ ToldAreGone'
  BY <1>2, <1>6, <1>7, <1>8 DEF IInv, SocketsAccounted, ToldAreGone
<1>11. StoppingCloses'
  BY <1>8 DEF StoppingCloses, stopVars
<1> QED
  BY <1>5, <1>9, <1>10, <1>11 DEF IInv

LEMMA StopStep ==
  ASSUME IInv, Stop
  PROVE  IInv'
<1>1. /\ socket' \in [Clients -> {"none", "open", "closing", "closed"}]
      /\ \A d \in Clients : IF d \in clients /\ socket[d] = "open"
                           THEN socket'[d] = "closing" ELSE socket'[d] = socket[d]
  BY DEF IInv, TypeOK, Stop, CloseClients, Reachable
<1>2. /\ UNCHANGED <<config, stopped, clients, gauge, overtaken, sent, authenticated, call, loggedOut>>
      /\ shuttingDown' = TRUE
  BY DEF Stop
<1>3. TypeOK'
  BY <1>1, <1>2 DEF IInv, TypeOK
<1>4. GaugeCounts' /\ EntriesBounded'
  BY <1>2 DEF IInv, GaugeCounts, EntriesBounded
<1>5. SocketsAccounted' /\ ToldAreGone'
  BY <1>1, <1>2 DEF IInv, SocketsAccounted, ToldAreGone
<1>6. StoppingCloses'
  BY <1>1, <1>2 DEF IInv, TypeOK, StoppingCloses
<1> QED
  BY <1>3, <1>4, <1>5, <1>6 DEF IInv

LEMMA ClientSteps ==
  ASSUME IInv, NEW c \in Clients, ClientStep(c)
  PROVE  IInv'
<1> USE DEF IInv
<1>0. /\ call \in [Calls -> [op : Waiting, of : Clients] \cup {NoCall}]
      /\ authenticated \in [Clients -> BOOLEAN]
  BY DEF TypeOK
<1>1. CASE HandleConnection(c)
  BY <1>1, ConnectionStep
<1>2. CASE SocketCloses(c)
  <2>1. /\ socket' \in [Clients -> {"none", "open", "closing", "closed"}]
        /\ socket'[c] = "closed"
        /\ \A d \in Clients \ {c} : socket'[d] = socket[d]
    BY <1>2 DEF SocketCloses, TypeOK
  <2> QED
    BY <1>2, <1>0, <2>1, Leaving DEF SocketCloses
<1>3. CASE SocketFails(c)
  <2>1. /\ socket' \in [Clients -> {"none", "open", "closing", "closed"}]
        /\ socket'[c] = "closing"
        /\ \A d \in Clients \ {c} : socket'[d] = socket[d]
    BY <1>3 DEF SocketFails, TypeOK
  <2> QED
    BY <1>3, <1>0, <2>1, Leaving DEF SocketFails
<1>4. CASE Refuse(c)
  BY <1>4, <1>0, Answering DEF Refuse
<1>5. CASE LogoutAtOnce(c)
  BY <1>5, <1>0, LogoutStep DEF LogoutAtOnce
<1>6. ASSUME NEW k \in Calls, HandleAuth(k, c) PROVE IInv'
  BY <1>6, <1>0, CallsTyped, Answering DEF HandleAuth, Waiting
<1>7. ASSUME NEW k \in Calls, ValidateSession(k, c) PROVE IInv'
  BY <1>7, <1>0, CallsTyped, Answering DEF ValidateSession, Waiting
<1>8. ASSUME NEW k \in Calls, HandleLogout(k, c) PROVE IInv'
  BY <1>8, <1>0, CallsTyped, Answering DEF HandleLogout, Waiting
<1> QED
  BY <1>1, <1>2, <1>3, <1>4, <1>5, <1>6, <1>7, <1>8 DEF ClientStep

LEMMA CallSteps ==
  ASSUME IInv, NEW k \in Calls, Answer(k) \/ LeaveRateLimited(k)
  PROVE  IInv'
<1> USE DEF IInv
<1> DEFINE c == call[k].of
<1>0. c \in Clients
  BY CallOfClient DEF Answer, LeaveRateLimited, AuthResumes, RateLimited, SessionResumes,
     LogoutResumes, LogoutFails
<1>1. Done(k) => call' \in [Calls -> [op : Waiting, of : Clients] \cup {NoCall}]
  BY DEF Done, TypeOK
<1>2. CASE AuthResumes(k)
  <2>1. authenticated' \in [Clients -> BOOLEAN]
    BY <1>2, <1>0 DEF AuthResumes, TypeOK
  <2> QED
    BY <1>0, <1>1, <1>2, <2>1, Answering DEF AuthResumes
<1>3. CASE RateLimited(k)
  <2>1. call' \in [Calls -> [op : Waiting, of : Clients] \cup {NoCall}]
    BY <1>3, CallOfClient DEF RateLimited, TypeOK, Waiting
  <2>2. authenticated' \in [Clients -> BOOLEAN]
    BY <1>3 DEF RateLimited, TypeOK
  <2> QED
    BY <1>0, <1>3, <2>1, <2>2, Answering DEF RateLimited
<1>4. CASE SessionResumes(k)
  <2>1. authenticated' \in [Clients -> BOOLEAN]
    BY <1>4, <1>0 DEF SessionResumes, TypeOK
  <2> QED
    BY <1>0, <1>1, <1>4, <2>1, Answering DEF SessionResumes
<1>5. CASE LogoutResumes(k)
  BY <1>0, <1>1, <1>5, LogoutStep DEF LogoutResumes
<1>6. CASE LogoutFails(k)
  <2>1. authenticated' \in [Clients -> BOOLEAN]
    BY <1>6 DEF LogoutFails, TypeOK
  <2> QED
    BY <1>0, <1>1, <1>6, <2>1, Answering DEF LogoutFails
<1>7. CASE LeaveRateLimited(k)
  <2>1. /\ DisconnectClient(c) /\ Done(k)
        /\ socket' = IF Reachable(c) THEN [socket EXCEPT ![c] = "closing"] ELSE socket
        /\ UNCHANGED <<sent, stopVars, authenticated, loggedOut, overtaken>>
    BY <1>7 DEF LeaveRateLimited, RemoveAndClose
  <2>2. /\ socket' \in [Clients -> {"none", "open", "closing", "closed"}]
        /\ socket'[c] # "open" \/ (socket'[c] = socket[c] /\ c \notin clients)
        /\ socket[c] # "none" => socket'[c] # "none"
        /\ \A d \in Clients \ {c} : socket'[d] = socket[d]
    BY <1>0, <2>1 DEF TypeOK, Reachable
  <2> QED
    BY <1>0, <1>1, <2>1, <2>2, Leaving
<1> QED
  BY <1>2, <1>3, <1>4, <1>5, <1>6, <1>7 DEF Answer

LEMMA StepInv == IInv /\ [Next]_vars => IInv'
<1> SUFFICES ASSUME IInv, [Next]_vars PROVE IInv'
  OBVIOUS
<1>1. ASSUME NEW c \in Clients, ClientStep(c) PROVE IInv'
  BY <1>1, ClientSteps
<1>2. ASSUME NEW k \in Calls, Answer(k) \/ LeaveRateLimited(k) PROVE IInv'
  BY <1>2, CallSteps
<1>3. CASE Stop
  BY <1>3, StopStep
<1>4. CASE ServerCloses
  BY <1>4 DEF ServerCloses, IInv, TypeOK, GaugeCounts, SocketsAccounted, EntriesBounded,
     ToldAreGone, StoppingCloses, clientVars
<1>5. CASE UNCHANGED vars
  BY <1>5 DEF vars, clientVars, stopVars, IInv, TypeOK, GaugeCounts, SocketsAccounted,
     EntriesBounded, ToldAreGone, StoppingCloses
<1> QED
  BY <1>1, <1>2, <1>3, <1>4, <1>5 DEF Next

LEMMA Invariance == Spec => []IInv
BY InitInv, StepInv, PTL DEF Spec

-----------------------------------------------------------------------------
\* The variables keep their types, whatever handlers of a client overlap.
THEOREM TypeCorrect == Spec => []TypeOK
<1>1. IInv => TypeOK
  BY DEF IInv
<1> QED
  BY <1>1, Invariance, PTL

\* The gauge errs only by the logouts that were overtaken by a disconnection
\* (handleLogout, handleDisconnect).
THEOREM GaugeCountsAlways == Spec => []GaugeCounts
<1>1. IInv => GaugeCounts
  BY DEF IInv
<1> QED
  BY <1>1, Invariance, PTL

\* Only clients that logged out hold an open socket without an entry (handleLogout,
\* handleDisconnect).
THEOREM SocketsAccountedAlways == Spec => []SocketsAccounted
<1>1. IInv => SocketsAccounted
  BY DEF IInv
<1> QED
  BY <1>1, Invariance, PTL

\* At most MaxConnections sockets of clients that did not log out are open
\* (verifyClient, handleConnection).
THEOREM ConnectionsBoundedAlways == Spec => []ConnectionsBounded
<1>1. IInv => ConnectionsBounded
  BY OpenAreEntries DEF IInv
<1> QED
  BY <1>1, Invariance, PTL

\* Nothing is sent after LOGGED_OUT (sendMessage, handleLogout).
THEOREM LogoutLastAlways == Spec => LogoutLast
<1> DEFINE Last == \A c \in Clients : sent[c] = "loggedOut" => sent'[c] = sent[c]
<1>1. IInv /\ [Next]_vars => [Last]_vars
  <2> SUFFICES ASSUME IInv, Next PROVE Last
    OBVIOUS
  <2>1. ASSUME NEW c \in Clients, NEW kind \in Kinds, SendMessage(c, kind) PROVE Last
    BY <2>1, Sending DEF IInv, ToldAreGone
  <2>2. ASSUME NEW c \in Clients, ClientStep(c) PROVE Last
    <3>1. CASE HandleConnection(c)
      BY <3>1 DEF HandleConnection, IInv, TypeOK, ToldAreGone
    <3>2. CASE SocketCloses(c) \/ SocketFails(c)
      BY <3>2 DEF SocketCloses, SocketFails
    <3>3. CASE Refuse(c)
      BY <3>3, <2>1 DEF Refuse, Kinds
    <3>4. CASE LogoutAtOnce(c)
      BY <3>4, <2>1 DEF LogoutAtOnce, FinishLogout, Kinds
    <3>5. CASE \E k \in Calls : HandleAuth(k, c) \/ ValidateSession(k, c) \/ HandleLogout(k, c)
      BY <3>5 DEF HandleAuth, ValidateSession, HandleLogout
    <3> QED
      BY <2>2, <3>1, <3>2, <3>3, <3>4, <3>5 DEF ClientStep
  <2>3. ASSUME NEW k \in Calls, Answer(k) PROVE Last
    <3>1. call[k].of \in Clients
      BY <2>3, CallOfClient DEF IInv, Answer, AuthResumes, RateLimited, SessionResumes,
         LogoutResumes, LogoutFails
    <3>2. \E kind \in Kinds : SendMessage(call[k].of, kind)
      BY <2>3 DEF Answer, AuthResumes, RateLimited, SessionResumes, LogoutResumes, LogoutFails,
         FinishLogout, Kinds
    <3> QED
      BY <2>1, <3>1, <3>2
  <2>4. ASSUME NEW k \in Calls, LeaveRateLimited(k) PROVE Last
    BY <2>4 DEF LeaveRateLimited
  <2>5. CASE Stop \/ ServerCloses
    BY <2>5 DEF Stop, ServerCloses
  <2> QED
    BY <2>2, <2>3, <2>4, <2>5 DEF Next
<1> QED
  BY <1>1, Invariance, PTL DEF Spec, LogoutLast

\* The gauge, the clients and the sockets agree (handleConnection,
\* handleDisconnect, handleLogout).
THEOREM ClientsAccountedAlways == Spec => []ClientsAccounted
<1>1. TypeOK /\ GaugeCounts /\ ConnectionsBounded /\ SocketsAccounted => ClientsAccounted
  BY DEF ClientsAccounted
<1> QED
  BY <1>1, TypeCorrect, GaugeCountsAlways, ConnectionsBoundedAlways, SocketsAccountedAlways, PTL

=============================================================================
