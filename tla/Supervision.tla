---- MODULE Supervision ----
(***************************************************************************)
(* The timers that watch a connection: mcp/server/ConnectionTimeout.js     *)
(* (timeout and recovery), ConnectionKeepAlive.js and ConnectionHealth.js  *)
(* (intervals).  A timer that runs and a field or map that names it are    *)
(* two things: the timers are counted, and the properties compare them.    *)
(***************************************************************************)
EXTENDS Naturals, FiniteSets

CONSTANTS Connections,
          MaxPingFailures,  \* options.maxPingFailures
          MaxErrors,        \* options.maxErrors
          MaxRuns           \* bound: handlers or pings of one connection in progress

VARIABLES timeouts,      \* per connection, the timeout timers that run
          timeoutId,     \* connection.timeoutId: "none", "live" or "fired"
          handling,      \* handleTimeout calls that wait for disconnect and cleanup
          recoveries,    \* per connection, the recovery timers that run
          recoveryId,    \* connection.recoveryId
          kept,          \* KeepAlive's this.connections
          keepMonitors,  \* KeepAlive's this.monitors
          keepIntervals, \* per connection, the keep-alive intervals that run
          pings,         \* pings without an answer
          pingFailures,  \* connection.pingFailures, never reset
          watched,       \* Health's this.connections
          monitors,      \* Health's this.monitors
          intervals,     \* per connection, the health intervals that run
          errors         \* connection.health.errors
timeoutVars == <<timeouts, timeoutId, handling, recoveries, recoveryId>>
keepVars == <<kept, keepMonitors, keepIntervals, pings, pingFailures>>
healthVars == <<watched, monitors, intervals, errors>>
supervisionVars == <<timeoutVars, keepVars, healthVars>>

Ids == {"none", "live", "fired"}
TypeOK ==
  /\ timeouts \in [Connections -> Nat] /\ timeoutId \in [Connections -> Ids]
  /\ recoveries \in [Connections -> Nat] /\ recoveryId \in [Connections -> Ids]
  /\ handling \in [Connections -> 0..MaxRuns]
  /\ kept \subseteq Connections /\ keepMonitors \subseteq Connections
  /\ keepIntervals \in [Connections -> Nat] /\ pings \in [Connections -> 0..MaxRuns]
  /\ pingFailures \in [Connections -> 0..MaxPingFailures]
  /\ watched \subseteq Connections /\ monitors \subseteq Connections
  /\ intervals \in [Connections -> Nat] /\ errors \in [Connections -> 0..MaxErrors]

Zero == [c \in Connections |-> 0]
NoId == [c \in Connections |-> "none"]
Init ==
  /\ timeouts = Zero /\ timeoutId = NoId /\ handling = Zero
  /\ recoveries = Zero /\ recoveryId = NoId
  /\ kept = {} /\ keepMonitors = {} /\ keepIntervals = Zero /\ pings = Zero /\ pingFailures = Zero
  /\ watched = {} /\ monitors = {} /\ intervals = Zero /\ errors = Zero

----
(* ConnectionTimeout *)

\* clearTimeout and clearRecovery stop the timer that the field names.
Cleared(timers, id, c) == IF id[c] = "live" THEN timers[c] - 1 ELSE timers[c]
\* The timer that fires is the named one, unless others run besides it.
Fired(timers, id, c) == IF timers[c] = 1 THEN [id EXCEPT ![c] = "fired"] ELSE id

StartTimeout(c) ==
  /\ timeouts' = [timeouts EXCEPT ![c] = Cleared(timeouts, timeoutId, c) + 1]
  /\ timeoutId' = [timeoutId EXCEPT ![c] = "live"]
  /\ UNCHANGED <<handling, recoveries, recoveryId, keepVars, healthVars>>

ClearTimeout(c) ==
  /\ timeouts' = [timeouts EXCEPT ![c] = Cleared(timeouts, timeoutId, c)]
  /\ timeoutId' = [timeoutId EXCEPT ![c] = "none"]
  /\ UNCHANGED <<handling, recoveries, recoveryId, keepVars, healthVars>>

TimeoutFires(c) ==
  /\ timeouts[c] > 0 /\ handling[c] < MaxRuns
  /\ timeouts' = [timeouts EXCEPT ![c] = @ - 1]
  /\ timeoutId' = Fired(timeouts, timeoutId, c)
  /\ handling' = [handling EXCEPT ![c] = @ + 1]
  /\ UNCHANGED <<recoveries, recoveryId, keepVars, healthVars>>

(* Operators named after a defect are wrong variants of the definition that follows them: Next does not
   use them; they serve to check that the properties notice the defect. *)
StartRecoveryBesides(c) ==
  /\ recoveries' = [recoveries EXCEPT ![c] = @ + 1]
  /\ recoveryId' = [recoveryId EXCEPT ![c] = "live"]
StartRecovery(c) ==
  /\ recoveries' = [recoveries EXCEPT ![c] = Cleared(recoveries, recoveryId, c) + 1]
  /\ recoveryId' = [recoveryId EXCEPT ![c] = "live"]

\* disconnect and cleanup have answered: recovery starts when both succeeded.
TimeoutHandled(c) ==
  /\ handling[c] > 0
  /\ handling' = [handling EXCEPT ![c] = @ - 1]
  /\ StartRecovery(c) \/ UNCHANGED <<recoveries, recoveryId>>
  /\ UNCHANGED <<timeouts, timeoutId, keepVars, healthVars>>

ClearRecovery(c) ==
  /\ recoveries' = [recoveries EXCEPT ![c] = Cleared(recoveries, recoveryId, c)]
  /\ recoveryId' = [recoveryId EXCEPT ![c] = "none"]
  /\ UNCHANGED <<timeouts, timeoutId, handling, keepVars, healthVars>>

\* handleRecovery disconnects the connection again, whatever became of it.
RecoveryFires(c) ==
  /\ recoveries[c] > 0
  /\ recoveries' = [recoveries EXCEPT ![c] = @ - 1]
  /\ recoveryId' = Fired(recoveries, recoveryId, c)
  /\ UNCHANGED <<timeouts, timeoutId, handling, keepVars, healthVars>>

----
(* ConnectionKeepAlive *)

StartKeepAlive(c) ==
  /\ c \notin kept
  /\ kept' = kept \cup {c} /\ keepMonitors' = keepMonitors \cup {c}
  /\ keepIntervals' = [keepIntervals EXCEPT ![c] = @ + 1]
  /\ UNCHANGED <<pings, pingFailures, timeoutVars, healthVars>>

StopsKeepAlive(c) ==
  IF c \in keepMonitors
  THEN /\ keepIntervals' = [keepIntervals EXCEPT ![c] = @ - 1]
       /\ keepMonitors' = keepMonitors \ {c} /\ kept' = kept \ {c}
  ELSE UNCHANGED <<kept, keepMonitors, keepIntervals>>

StopKeepAlive(c) == StopsKeepAlive(c) /\ UNCHANGED <<pings, pingFailures, timeoutVars, healthVars>>

\* The interval does not wait for the answer of the ping before.
SendKeepAlive(c) ==
  /\ keepIntervals[c] > 0 /\ pings[c] < MaxRuns
  /\ pings' = [pings EXCEPT ![c] = @ + 1]
  /\ UNCHANGED <<kept, keepMonitors, keepIntervals, pingFailures, timeoutVars, healthVars>>

PingAnswered(c) ==
  /\ pings[c] > 0
  /\ pings' = [pings EXCEPT ![c] = @ - 1]
  /\ UNCHANGED <<kept, keepMonitors, keepIntervals, pingFailures, timeoutVars, healthVars>>

\* bound: failures beyond the limit count as the limit.
PingFailed(c) ==
  /\ pings[c] > 0
  /\ pings' = [pings EXCEPT ![c] = @ - 1]
  /\ pingFailures' = [pingFailures EXCEPT ![c] = IF @ < MaxPingFailures THEN @ + 1 ELSE @]
  /\ IF pingFailures'[c] >= MaxPingFailures
     THEN StopsKeepAlive(c)
     ELSE UNCHANGED <<kept, keepMonitors, keepIntervals>>
  /\ UNCHANGED <<timeoutVars, healthVars>>

CleanupKeepAlive ==
  /\ keepIntervals' = [c \in Connections |-> keepIntervals[c] - (IF c \in keepMonitors THEN 1 ELSE 0)]
  /\ keepMonitors' = {} /\ kept' = {}
  /\ UNCHANGED <<pings, pingFailures, timeoutVars, healthVars>>

----
(* ConnectionHealth *)

MonitorConnection(c) ==
  /\ c \notin watched
  /\ watched' = watched \cup {c} /\ monitors' = monitors \cup {c}
  /\ intervals' = [intervals EXCEPT ![c] = @ + 1]
  /\ UNCHANGED <<errors, timeoutVars, keepVars>>

StopsMonitoring(c) ==
  /\ intervals' = [intervals EXCEPT ![c] = IF c \in monitors THEN @ - 1 ELSE @]
  /\ monitors' = monitors \ {c} /\ watched' = watched \ {c}

StopMonitoring(c) == StopsMonitoring(c) /\ UNCHANGED <<errors, timeoutVars, keepVars>>

CountErrors(c, healthy) ==
  errors' = [errors EXCEPT ![c] = IF healthy THEN 0 ELSE IF @ < MaxErrors THEN @ + 1 ELSE @]

\* checkHealth by the interval: whether the connection is active is arbitrary.
CheckHealth(c, healthy) ==
  /\ intervals[c] > 0
  /\ CountErrors(c, healthy)
  /\ IF errors'[c] >= MaxErrors THEN StopsMonitoring(c) ELSE UNCHANGED <<watched, monitors, intervals>>
  /\ UNCHANGED <<timeoutVars, keepVars>>

CleanupHealth ==
  /\ intervals' = [c \in Connections |-> intervals[c] - (IF c \in monitors THEN 1 ELSE 0)]
  /\ monitors' = {} /\ watched' = {}
  /\ UNCHANGED <<errors, timeoutVars, keepVars>>

Next ==
  \/ \E c \in Connections :
       \/ StartTimeout(c) \/ ClearTimeout(c) \/ TimeoutFires(c) \/ TimeoutHandled(c)
       \/ ClearRecovery(c) \/ RecoveryFires(c)
       \/ StartKeepAlive(c) \/ StopKeepAlive(c) \/ SendKeepAlive(c) \/ PingAnswered(c) \/ PingFailed(c)
       \/ MonitorConnection(c) \/ StopMonitoring(c)
       \/ \E healthy \in BOOLEAN : CheckHealth(c, healthy)
  \/ CleanupKeepAlive \/ CleanupHealth
Spec == Init /\ [][Next]_supervisionVars

----
(* Every timer that runs can be stopped: a connection has at most one      *)
(* timeout, one recovery, one keep-alive and one health interval, and the  *)
(* field or map that clearing reads names it.  An orphan would disconnect  *)
(* or ping a connection that nothing watches any more.                     *)
NoOrphanTimer ==
  \A c \in Connections :
    /\ timeouts[c] = IF timeoutId[c] = "live" THEN 1 ELSE 0
    /\ recoveries[c] = IF recoveryId[c] = "live" THEN 1 ELSE 0
    /\ keepIntervals[c] = IF c \in kept THEN 1 ELSE 0
    /\ intervals[c] = IF c \in watched THEN 1 ELSE 0
====
