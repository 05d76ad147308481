---- MODULE Closing ----
(***************************************************************************)
(* mcp/server/ConnectionShutdown.js, which closes all connections once     *)
(* they are quiet, and mcp/server/ConnectionCleaner.js, which closes those *)
(* that are stale.  Both await disconnect and cleanup of a connection, and *)
(* neither knows of the other.  The connections are external.              *)
(***************************************************************************)
EXTENDS Naturals, FiniteSets

CONSTANTS Connections, None,
          MaxRetries   \* quiescenceTimeout / 100

VARIABLES active,     \* external: connections that are active
          fresh,      \* external: lastActivity is not older than staleTimeout
          linked,     \* external: connections not disconnected
          uncleaned,  \* external: connections whose resources are not cleaned up
          closed,     \* connections with status "closed"
          shutdown,   \* shutdownAll: where it is, and its retryCount
          closing,    \* what the initiateShutdown of each connection waits for
          cleaning    \* cleanStaleConnections: where it is, with which connection, and those to come
closingVars == <<active, fresh, linked, uncleaned, closed, shutdown, closing, cleaning>>
connectionVars == <<active, fresh, linked, uncleaned>>

Stages == {"disconnect", "cleanup", "failed", "ended"}
NotCleaning == [pc |-> "idle", of |-> None, left |-> {}]

TypeOK ==
  /\ active \subseteq Connections /\ fresh \subseteq Connections
  /\ linked \subseteq Connections /\ uncleaned \subseteq Connections /\ closed \subseteq Connections
  /\ shutdown \in [pc : {"none", "waiting", "quiet", "closing", "ended", "failed"}, retries : 0..MaxRetries]
  /\ closing \in [Connections -> {"none"} \cup Stages]
  /\ cleaning \in [pc : {"idle"} \cup Stages, of : Connections \cup {None}, left : SUBSET Connections]

Init ==
  /\ active = {} /\ fresh = Connections /\ linked = Connections /\ uncleaned = Connections
  /\ closed = {} /\ shutdown = [pc |-> "none", retries |-> 0]
  /\ closing = [c \in Connections |-> "none"]
  /\ cleaning = NotCleaning

----
(* External: the connections *)

Activity(c) ==
  /\ c \in linked
  /\ active' = active \cup {c} /\ fresh' = fresh \cup {c}
  /\ UNCHANGED <<linked, uncleaned, closed, shutdown, closing, cleaning>>
Rest(c) == active' = active \ {c} /\ UNCHANGED <<fresh, linked, uncleaned, closed, shutdown, closing, cleaning>>
Age(c) == /\ c \notin active /\ fresh' = fresh \ {c}
          /\ UNCHANGED <<active, linked, uncleaned, closed, shutdown, closing, cleaning>>

Disconnects(c) == linked' = linked \ {c} /\ active' = active \ {c} /\ UNCHANGED <<fresh, uncleaned>>
CleansUp(c) == uncleaned' = uncleaned \ {c} /\ UNCHANGED <<active, fresh, linked>>

----
(* ConnectionShutdown *)

ShutdownAll ==
  /\ shutdown.pc = "none"
  /\ shutdown' = [pc |-> "waiting", retries |-> 0]
  /\ UNCHANGED <<connectionVars, closed, closing, cleaning>>

\* waitForQuiescence gives up after its retries, or when its time is over.
CheckQuiescence ==
  /\ shutdown.pc = "waiting"
  /\ IF active = {}
     THEN shutdown' = [shutdown EXCEPT !.pc = "quiet"]
     ELSE \/ shutdown' = [shutdown EXCEPT !.pc = "failed"]
          \/ /\ shutdown.retries + 1 < MaxRetries
             /\ shutdown' = [shutdown EXCEPT !.retries = @ + 1]
  /\ UNCHANGED <<connectionVars, closed, closing, cleaning>>

\* All are closed at once, those too that have become active since.
BeginClosing ==
  /\ shutdown.pc = "quiet"
  /\ shutdown' = [shutdown EXCEPT !.pc = "closing"]
  /\ closing' = [c \in Connections |-> "disconnect"]
  /\ UNCHANGED <<connectionVars, closed, cleaning>>

\* initiateShutdown: an error ends it where it is.
Disconnected(c) ==
  /\ closing[c] = "disconnect"
  /\ \/ Disconnects(c) /\ closing' = [closing EXCEPT ![c] = "cleanup"]
     \/ closing' = [closing EXCEPT ![c] = "failed"] /\ UNCHANGED connectionVars
  /\ UNCHANGED <<closed, shutdown, cleaning>>

(* Operators named after a defect are wrong variants of the definition that follows them: Next does not
   use them; they serve to check that the properties notice the defect. *)
CleanedUpAnyway(c) ==
  /\ closing[c] = "cleanup"
  /\ CleansUp(c) \/ UNCHANGED connectionVars
  /\ closing' = [closing EXCEPT ![c] = "ended"]
  /\ closed' = closed \cup {c}
  /\ UNCHANGED <<shutdown, cleaning>>
CleanedUp(c) ==
  /\ closing[c] = "cleanup"
  /\ \/ /\ CleansUp(c)
        /\ closing' = [closing EXCEPT ![c] = "ended"]
        /\ closed' = closed \cup {c}
     \/ closing' = [closing EXCEPT ![c] = "failed"] /\ UNCHANGED <<connectionVars, closed>>
  /\ UNCHANGED <<shutdown, cleaning>>

\* shutdownAll settles when all have, and does not say that some failed.
ShutdownEnds ==
  /\ shutdown.pc = "closing"
  /\ \A c \in Connections : closing[c] \in {"failed", "ended"}
  /\ shutdown' = [shutdown EXCEPT !.pc = "ended"]
  /\ UNCHANGED <<connectionVars, closed, closing, cleaning>>

----
(* ConnectionCleaner *)

\* The next of the connections found stale, or the end.
NextStale(left) ==
  IF left = {} THEN {[pc |-> "ended", of |-> None, left |-> {}]}
  ELSE {[pc |-> "disconnect", of |-> c, left |-> left \ {c}] : c \in left}

\* cleanStaleConnections of all connections: what is stale is decided once.  (The
\* interval of startCleaner calls it without connections: it then returns at once.)
CleanStaleConnections ==
  /\ cleaning.pc \in {"idle", "failed", "ended"}
  /\ cleaning' \in NextStale(Connections \ fresh)
  /\ UNCHANGED <<connectionVars, closed, shutdown, closing>>

\* An error leaves the connections to come as they are.
StaleDisconnected ==
  /\ cleaning.pc = "disconnect"
  /\ \/ Disconnects(cleaning.of) /\ cleaning' = [cleaning EXCEPT !.pc = "cleanup"]
     \/ cleaning' = [cleaning EXCEPT !.pc = "failed"] /\ UNCHANGED connectionVars
  /\ UNCHANGED <<closed, shutdown, closing>>
StaleCleanedUp ==
  /\ cleaning.pc = "cleanup"
  /\ \/ CleansUp(cleaning.of) /\ cleaning' \in NextStale(cleaning.left)
     \/ cleaning' = [cleaning EXCEPT !.pc = "failed"] /\ UNCHANGED connectionVars
  /\ UNCHANGED <<closed, shutdown, closing>>

Next ==
  \/ \E c \in Connections : Activity(c) \/ Rest(c) \/ Age(c) \/ Disconnected(c) \/ CleanedUp(c)
  \/ ShutdownAll \/ CheckQuiescence \/ BeginClosing \/ ShutdownEnds
  \/ CleanStaleConnections \/ StaleDisconnected \/ StaleCleanedUp
Spec == Init /\ [][Next]_closingVars

----
(* Whatever the cleaner does meanwhile and whichever connection fails: the  *)
(* connections marked closed are disconnected and cleaned up, and when      *)
(* shutdownAll ends well a connection is not closed only because its        *)
(* disconnect or its cleanup failed.  (One that became active after the     *)
(* others were quiet is closed all the same.)                               *)
ClosedIsClean ==
  /\ closed \cap (linked \cup uncleaned \cup active) = {}
  /\ shutdown.pc = "ended" => \A c \in Connections \ closed : closing[c] = "failed"
====
