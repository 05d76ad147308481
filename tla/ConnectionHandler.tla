--------------------------- MODULE ConnectionHandler ---------------------------
(***************************************************************************)
(* src/mcp/handlers/ConnectionHandler.js, with the part of                 *)
(* HandlerFactory.js that tells it of clients who leave: the device of     *)
(* each client, its listeners on the BLE service and the links.  The BLE   *)
(* service's connect and disconnect are awaited and may fail; other        *)
(* messages are handled meanwhile.  The service is the one the handler     *)
(* calls and its tests provide: ble/bleService.js names these otherwise.   *)
(***************************************************************************)
EXTENDS Naturals

CONSTANTS
  Clients,
  Devices,
  None,
  Calls,      \* messages being handled, each suspended on the BLE service
  MaxLost     \* bound: listeners of a client that are registered and not recorded

VARIABLES
  device,     \* activeConnections: the device of a client, or None
  hears,      \* clients whose recorded listeners are registered
  lost,       \* listeners registered for a client and recorded no more
  links,      \* devices the BLE service is connected to
  call,       \* what each call awaits
  left,       \* clients handleClientDisconnect was called for
  overlapped, \* history: clients with a call under way when a connect began, or a connect
              \* under way when they left
  failed      \* history: clients one of whose disconnects has failed

connectionVars == <<device, hears, lost, links, call, left, overlapped, failed>>

NoCall == [op |-> "none", client |-> None, device |-> None]
Connecting(c) == \E k \in Calls : call[k].op = "connect" /\ call[k].client = c
Disconnecting(c) == \E k \in Calls : call[k].op = "disconnect" /\ call[k].client = c

-----------------------------------------------------------------------------
(* Operators named after a defect are wrong variants of the definition that *)
(* follows them: Next does not use them; they serve to check that the       *)
(* properties notice the defect.                                            *)

Init ==
  /\ device = [c \in Clients |-> None]
  /\ hears = {}
  /\ lost = [c \in Clients |-> 0]
  /\ links = {}
  /\ call = [k \in Calls |-> NoCall]
  /\ left = {}
  /\ overlapped = {}
  /\ failed = {}

Await(k, op, c, d) ==
  /\ call[k] = NoCall
  /\ call' = [call EXCEPT ![k] = [op |-> op, client |-> c, device |-> d]]
Return(k) == call' = [call EXCEPT ![k] = NoCall]

\* handleConnect, up to its await.
HandleConnect(k, c, d) ==
  /\ lost[c] < MaxLost
  /\ c \notin left
  /\ device[c] = None
  /\ Await(k, "connect", c, d)
  /\ overlapped' = IF Connecting(c) \/ Disconnecting(c) THEN overlapped \cup {c} ELSE overlapped
  /\ UNCHANGED <<device, hears, lost, links, left, failed>>

\* The device is linked: listeners are registered and recorded, in place of
\* those recorded by another call.
Connected(k) ==
  LET c == call[k].client
  IN /\ call[k].op = "connect"
     /\ lost' = [lost EXCEPT ![c] = IF c \in hears THEN @ + 1 ELSE @]
     /\ hears' = hears \cup {c}
     /\ device' = [device EXCEPT ![c] = call[k].device]
     /\ links' = links \cup {call[k].device}
     /\ Return(k)
     /\ UNCHANGED <<left, overlapped, failed>>

ConnectFailed(k) ==
  /\ call[k].op = "connect"
  /\ Return(k)
  /\ UNCHANGED <<device, hears, lost, links, left, overlapped, failed>>

\* The listeners are removed once the device has been disconnected.
BeginDisconnectHearing(k, c) ==
  /\ device[c] # None
  /\ Await(k, "disconnect", c, device[c])
  /\ UNCHANGED hears
\* handleDisconnect, up to its await: the recorded listeners are removed.
BeginDisconnect(k, c) ==
  /\ device[c] # None
  /\ Await(k, "disconnect", c, device[c])
  /\ hears' = hears \ {c}

HandleDisconnect(k, c) ==
  /\ c \notin left
  /\ BeginDisconnect(k, c)
  /\ UNCHANGED <<device, lost, links, left, overlapped, failed>>

\* The device is disconnected, whoever else uses it, and the record deleted,
\* whichever device it now names.
Disconnected(k) ==
  LET c == call[k].client
  IN /\ call[k].op = "disconnect"
     /\ links' = links \ {call[k].device}
     /\ device' = [device EXCEPT ![c] = None]
     /\ lost' = [lost EXCEPT ![c] = IF c \in hears THEN @ + 1 ELSE @]
     /\ hears' = hears \ {c}
     /\ Return(k)
     /\ UNCHANGED <<left, overlapped, failed>>

\* The record stays, the listeners are gone.
DisconnectFailed(k) ==
  /\ call[k].op = "disconnect"
  /\ failed' = failed \cup {call[k].client}
  /\ Return(k)
  /\ UNCHANGED <<device, hears, lost, links, left, overlapped>>

\* HandlerFactory.handleClientDisconnect, and the handler's.
HandleClientDisconnect(k, c) ==
  /\ c \notin left
  /\ left' = left \cup {c}
  /\ overlapped' = IF Connecting(c) THEN overlapped \cup {c} ELSE overlapped
  /\ IF device[c] # None
     THEN BeginDisconnect(k, c)
     ELSE UNCHANGED <<call, hears>>
  /\ UNCHANGED <<device, lost, links, failed>>

\* The link goes down by itself: no record changes.
LinkDown(d) ==
  /\ d \in links
  /\ links' = links \ {d}
  /\ UNCHANGED <<device, hears, lost, call, left, overlapped, failed>>

Next ==
  \/ \E k \in Calls :
       \/ \E c \in Clients :
            \/ \E d \in Devices : HandleConnect(k, c, d)
            \/ HandleDisconnect(k, c)
            \/ HandleClientDisconnect(k, c)
       \/ Connected(k)
       \/ ConnectFailed(k)
       \/ Disconnected(k)
       \/ DisconnectFailed(k)
  \/ \E d \in Devices : LinkDown(d)

Spec == Init /\ [][Next]_connectionVars

-----------------------------------------------------------------------------
TypeOK ==
  /\ device \in [Clients -> Devices \cup {None}]
  /\ hears \subseteq Clients
  /\ lost \in [Clients -> Nat]
  /\ links \subseteq Devices
  /\ call \in [Calls -> {NoCall} \cup [op : {"connect", "disconnect"}, client : Clients, device : Devices]]
  /\ left \subseteq Clients
  /\ overlapped \subseteq Clients
  /\ failed \subseteq Clients

\* handleClientDisconnect: the client is recorded with no device and heard by no
\* listener in the end, and a client that stays has its listeners exactly while
\* it is recorded, unless a connect of it overlapped with another call or with
\* its leaving, a disconnect failed or one is under way.
ConnectionsReleased ==
  \A c \in Clients \ (overlapped \cup failed) :
    ~ Disconnecting(c) =>
      /\ c \in left => device[c] = None
      /\ c \in hears <=> device[c] # None
      /\ lost[c] = 0
=============================================================================
