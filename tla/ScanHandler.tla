----------------------------- MODULE ScanHandler -----------------------------
(***************************************************************************)
(* src/mcp/handlers/ScanHandler.js, with the part of HandlerFactory.js     *)
(* that tells it of clients who leave: which clients scan, whose discovery *)
(* listeners the BLE service has, and whether the adapter scans.  Starting *)
(* and stopping the adapter are awaited, and other messages are handled    *)
(* meanwhile.  The BLE service is the one the handler calls and its tests  *)
(* provide (startScan, stopScan): ble/bleService.js names them otherwise.  *)
(***************************************************************************)
EXTENDS Naturals, FiniteSets

CONSTANTS
  ScanClients,
  ScanCalls,    \* messages being handled, each suspended on the BLE service
  MaxListeners  \* bound: listeners of a client

VARIABLES
  activeScans,  \* the keys of this.activeScans
  listeners,    \* discovery listeners registered for each client
  scanning,     \* the adapter scans
  handling,     \* what each call awaits
  gone,         \* clients handleClientDisconnect was called for
  overlapped,   \* history: clients with a start under way while another began or they left
  crossed       \* history: a start and a stop of the adapter were under way together

scanVars == <<activeScans, listeners, scanning, handling, gone, overlapped, crossed>>

NoCall == [op |-> "none", client |-> "none", acts |-> FALSE]
Under(op) == {k \in ScanCalls : handling[k].op = op}
Starting(c) == \E k \in Under("start") : handling[k].client = c

-----------------------------------------------------------------------------
(* Operators named after a defect are wrong variants of the definition that *)
(* follows them: Next does not use them; they serve to check that the       *)
(* properties notice the defect.                                            *)

Init ==
  /\ activeScans = {}
  /\ listeners = [c \in ScanClients |-> 0]
  /\ scanning = FALSE
  /\ handling = [k \in ScanCalls |-> NoCall]
  /\ gone = {}
  /\ overlapped = {}
  /\ crossed = FALSE

Await(k, op, c, acts) ==
  /\ handling[k] = NoCall
  /\ handling' = [handling EXCEPT ![k] = [op |-> op, client |-> c, acts |-> acts]]
Return(k) == handling' = [handling EXCEPT ![k] = NoCall]

\* handleStartScan, up to its await: starting an adapter that scans does nothing.
HandleStartScan(k, c) ==
  /\ listeners[c] < MaxListeners
  /\ c \notin gone
  /\ c \notin activeScans
  /\ Await(k, "start", c, ~ scanning)
  /\ overlapped' = IF Starting(c) THEN overlapped \cup {c} ELSE overlapped
  /\ crossed' = (crossed \/ Under("stop") # {})
  /\ UNCHANGED <<activeScans, listeners, scanning, gone>>

\* The adapter scans: the listener is registered, then the client recorded,
\* whether or not it is recorded already or gone.
ScanStarted(k) ==
  LET c == handling[k].client
  IN /\ handling[k].op = "start"
     /\ scanning' = (scanning \/ handling[k].acts)
     /\ listeners' = [listeners EXCEPT ![c] = @ + 1]
     /\ activeScans' = activeScans \cup {c}
     /\ Return(k)
     /\ UNCHANGED <<gone, overlapped, crossed>>

\* startScan or stopScan rejects: an error goes to the client.
ScanFailed(k) ==
  /\ handling[k] # NoCall
  /\ Return(k)
  /\ UNCHANGED <<activeScans, listeners, scanning, gone, overlapped, crossed>>

\* A client stops scanning: one of its listeners and its record go.
Drop(c) ==
  /\ listeners' = [listeners EXCEPT ![c] = @ - 1]
  /\ activeScans' = activeScans \ {c}

\* The scan stops whoever else is scanning.
StopScanForAll(k, c) ==
  /\ c \in activeScans
  /\ Drop(c)
  /\ Await(k, "stop", c, scanning)
  /\ crossed' = (crossed \/ Under("start") # {})
\* handleStopScan: the last client stops the adapter and awaits it.
StopScan(k, c) ==
  /\ c \in activeScans
  /\ Drop(c)
  /\ IF activeScans = {c}
     THEN Await(k, "stop", c, scanning) /\ crossed' = (crossed \/ Under("start") # {})
     ELSE handling[k] = NoCall /\ UNCHANGED <<handling, crossed>>

HandleStopScan(k, c) ==
  /\ c \notin gone
  /\ StopScan(k, c)
  /\ UNCHANGED <<scanning, gone, overlapped>>

ScanStopped(k) ==
  /\ handling[k].op = "stop"
  /\ scanning' = (scanning /\ ~ handling[k].acts)
  /\ Return(k)
  /\ UNCHANGED <<activeScans, listeners, gone, overlapped, crossed>>

\* HandlerFactory.handleClientDisconnect, and the handler's.
HandleClientDisconnect(k, c) ==
  /\ c \notin gone
  /\ gone' = gone \cup {c}
  /\ overlapped' = IF Starting(c) THEN overlapped \cup {c} ELSE overlapped
  /\ IF c \in activeScans
     THEN StopScan(k, c)
     ELSE UNCHANGED <<activeScans, listeners, handling, crossed>>
  /\ scanning' = scanning

Next ==
  \E k \in ScanCalls :
    \/ \E c \in ScanClients :
         \/ HandleStartScan(k, c)
         \/ HandleStopScan(k, c)
         \/ HandleClientDisconnect(k, c)
    \/ ScanStarted(k)
    \/ ScanFailed(k)
    \/ ScanStopped(k)

Spec == Init /\ [][Next]_scanVars

-----------------------------------------------------------------------------
TypeOK ==
  /\ activeScans \subseteq ScanClients
  /\ listeners \in [ScanClients -> Nat]
  /\ scanning \in BOOLEAN
  /\ handling \in [ScanCalls -> {NoCall} \cup [op : {"start", "stop"}, client : ScanClients, acts : BOOLEAN]]
  /\ gone \subseteq ScanClients
  /\ overlapped \subseteq ScanClients
  /\ crossed \in BOOLEAN

\* handleClientDisconnect: a client that has left is not recorded as scanning and
\* has no listener, unless one of its starts was awaited while another began or
\* while it left; and a client that stays has one listener exactly while recorded.
ScansReleased ==
  \A c \in ScanClients \ overlapped :
    /\ c \in gone => c \notin activeScans
    /\ listeners[c] = IF c \in activeScans THEN 1 ELSE 0

\* handleStopScan: while a client is recorded as scanning the adapter scans,
\* unless a start and a stop of it were awaited at the same time.
RecordedScansRun == activeScans # {} => scanning \/ crossed

\* Both: what is recorded of a client is what its listeners and the adapter do.
ScansAccounted == ScansReleased /\ RecordedScansRun
=============================================================================
