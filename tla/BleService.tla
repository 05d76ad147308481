------------------------------ MODULE BleService ------------------------------
(***************************************************************************)
(* src/ble/bleService.js: scanning, connections with timeout, retry and    *)
(* automatic reconnection, disconnection, and cleanup.  The radio and the  *)
(* devices (noble) are external: they answer a call late, never, or with   *)
(* an error, a link may drop at any time, and the adapter may go off,      *)
(* which the service only logs.                                            *)
(*                                                                         *)
(* A call of connectToDevice is a task: withRetry makes up to MaxRetries   *)
(* attempts, each a race between device.connect() and a timer.  A timeout  *)
(* does not withdraw the device.connect() it lost to.                      *)
(***************************************************************************)
EXTENDS Naturals, FiniteSets

CONSTANTS
  Devices,        \* device ids
  Tasks,          \* bound: slots for calls of connectToDevice
  ScanCallers,    \* bound: slots for calls of startScanning and stopScanning
  None,
  MaxRetries      \* config.max_retries

Cleaner == "cleaner"
Scanners == ScanCallers \cup {Cleaner}

\* bound: discover listeners are counted up to this number
ListenerBound == 3

ASSUME BleAssumption ==
  /\ None \notin Devices
  /\ Cleaner \notin ScanCallers
  /\ MaxRetries \in Nat \ {0}

VARIABLES
  radio,      \* external: the adapter scans
  silenced,   \* history: the adapter went off scanning, and has answered no call since
  isScanning, \* isScanning
  hearing,    \* number of 'discover' listeners on noble, saturated
  scan,       \* where each call of startScanning or stopScanning is
  discovered, \* discoveredDevices
  connected,  \* connectedDevices
  link,       \* external: the device is connected
  unheard,    \* external: links that went with the adapter, their 'disconnect' not emitted
  dialled,    \* external: a device.connect() the device has not answered
  listeners,  \* a 'disconnect' listener is registered on the device
  task,       \* where each call of connectToDevice is
  leaving,    \* where disconnectDevice(d) is
  cleanup,    \* where cleanup is
  closing,    \* devices whose disconnection cleanup still awaits
  late,       \* history: devices connected by a call whose timers had all fired
  released    \* history: devices disconnected on request and not connected to since

scanVars == <<radio, silenced, isScanning, hearing, scan>>
linkVars == <<link, unheard, dialled, listeners>>
historyVars == <<late, released>>
vars == <<scanVars, discovered, connected, linkVars, task, leaving, cleanup, closing,
          historyVars>>

Attempts == 1..MaxRetries
ScanSteps == {"idle", "starting", "started", "startDelay", "stopping", "stopped", "stopDelay"}
TaskSteps == {"idle", "racing", "resolved", "delay"}

IdleScan == [step |-> "idle", attempt |-> 1]
IdleTask == [step |-> "idle", attempt |-> 1, dev |-> None]

\* The tasks that wait for an answer of device d.
Racing(d) == {t \in Tasks : task[t].step = "racing" /\ task[t].dev = d}

\* No microtask is left: the radio, devices and timers act only then.
Quiescent ==
  /\ \A t \in Tasks : task[t].step # "resolved"
  /\ \A s \in Scanners : scan[s].step \notin {"started", "stopped"}
  /\ \A d \in Devices : leaving[d] # "resolved"
  /\ ~ (cleanup = "stopping" /\ scan[Cleaner].step = "idle")
  /\ ~ (cleanup = "disconnecting" /\ closing = {})

-----------------------------------------------------------------------------
(* Operators named after a defect (WatchFirstAttempt, ...) are              *)
(* wrong variants of the definition that follows them: Next does not use    *)
(* them; they serve to check that the properties notice the defect.         *)

Init ==
  /\ radio = FALSE
  /\ silenced = FALSE
  /\ isScanning = FALSE
  /\ hearing = 0
  /\ scan = [s \in Scanners |-> IdleScan]
  /\ discovered = {}
  /\ connected = {}
  /\ link = [d \in Devices |-> "down"]
  /\ unheard = {}
  /\ dialled = [d \in Devices |-> FALSE]
  /\ listeners = [d \in Devices |-> FALSE]
  /\ task = [t \in Tasks |-> IdleTask]
  /\ leaving = [d \in Devices |-> "no"]
  /\ cleanup = "no"
  /\ closing = {}
  /\ late = {}
  /\ released = {}

-----------------------------------------------------------------------------
\* The operation startScanning retries: nothing to do when isScanning.
Heard(n) == IF n < ListenerBound THEN n + 1 ELSE n
TryStart(s, n) ==
  \/ /\ isScanning
     /\ scan' = [scan EXCEPT ![s] = IdleScan]
     /\ UNCHANGED <<radio, silenced, isScanning, hearing>>
  \/ /\ ~ isScanning
     /\ hearing' = Heard(hearing)
     /\ scan' = [scan EXCEPT ![s] = [step |-> "starting", attempt |-> n]]
     /\ UNCHANGED <<radio, silenced, isScanning>>

\* The operation stopScanning retries.
TryStop(s, n) ==
  /\ scan' = [scan EXCEPT ![s] =
                IF isScanning THEN [step |-> "stopping", attempt |-> n] ELSE IdleScan]
  /\ UNCHANGED <<radio, silenced, isScanning, hearing>>

notOfScan == <<discovered, connected, linkVars, task, leaving, cleanup, closing, historyVars>>

\* startScanning (also called by initialize) and stopScanning.
StartScanning(s) ==
  /\ scan[s].step = "idle"
  /\ TryStart(s, 1)
  /\ UNCHANGED notOfScan

StopScanning(s) ==
  /\ scan[s].step = "idle"
  /\ TryStop(s, 1)
  /\ UNCHANGED notOfScan

\* The radio answers startScanningAsync or stopScanningAsync.
RadioAnswers(s) ==
  /\ Quiescent
  /\ \/ /\ scan[s].step = "starting"
        /\ radio' = TRUE
        /\ scan' = [scan EXCEPT ![s].step = "started"]
     \/ /\ scan[s].step = "stopping"
        /\ radio' = FALSE
        /\ scan' = [scan EXCEPT ![s].step = "stopped"]
  /\ silenced' = FALSE
  /\ UNCHANGED <<isScanning, hearing, notOfScan>>

\* startScanning or stopScanning resumes.
ScanResumes(s) ==
  /\ \/ scan[s].step = "started" /\ isScanning' = TRUE
     \/ scan[s].step = "stopped" /\ isScanning' = FALSE
  /\ scan' = [scan EXCEPT ![s] = IdleScan]
  /\ UNCHANGED <<radio, silenced, hearing, notOfScan>>

\* The radio refuses: the attempt fails, and withRetry waits, or gives up.
\* cleanup does not go on when its stopScanning fails.
RadioRefuses(s) ==
  /\ Quiescent
  /\ scan[s].step \in {"starting", "stopping"}
  /\ \/ /\ scan[s].attempt < MaxRetries
        /\ scan' = [scan EXCEPT ![s].step =
                      IF scan[s].step = "starting" THEN "startDelay" ELSE "stopDelay"]
        /\ UNCHANGED cleanup
     \/ /\ scan[s].attempt = MaxRetries
        /\ scan' = [scan EXCEPT ![s] = IdleScan]
        /\ cleanup' = IF s = Cleaner THEN "failed" ELSE cleanup
  /\ UNCHANGED <<radio, silenced, isScanning, hearing, discovered, connected, linkVars, task,
                 leaving, closing, historyVars>>

\* The retry delay is over.
ScanRetries(s) ==
  /\ Quiescent
  /\ \/ scan[s].step = "startDelay" /\ TryStart(s, scan[s].attempt + 1)
     \/ scan[s].step = "stopDelay" /\ TryStop(s, scan[s].attempt + 1)
  /\ UNCHANGED notOfScan

\* The adapter goes off (handleStateChange only logs it): the scan ends and so does
\* every link, whose 'disconnect' comes later or never.
AdapterOff ==
  /\ Quiescent
  /\ radio' = FALSE
  /\ silenced' = (silenced \/ radio)
  /\ link' = [d \in Devices |-> "down"]
  /\ unheard' = unheard \cup {d \in Devices : link[d] = "up" /\ d \notin late}
  /\ late' = {}
  /\ UNCHANGED <<isScanning, hearing, scan, discovered, connected, dialled, listeners, task,
                 leaving, cleanup, closing, released>>

\* handleDeviceDiscover
Discover(d) ==
  /\ Quiescent
  /\ radio
  /\ hearing > 0
  /\ discovered' = discovered \cup {d}
  /\ UNCHANGED <<scanVars, connected, linkVars, task, leaving, cleanup, closing, historyVars>>

-----------------------------------------------------------------------------
\* A task starts an attempt: device.connect() is called and a timer set.
Dial(t, d, n) ==
  /\ task' = [task EXCEPT ![t] = [step |-> "racing", attempt |-> n, dev |-> d]]
  /\ dialled' = [dialled EXCEPT ![d] = TRUE]

\* connectToDevice; it fails at once for a device that was not discovered.
ConnectToDevice(t, d) ==
  /\ task[t].step = "idle"
  /\ d \in discovered
  /\ Dial(t, d, 1)
  /\ released' = released \ {d}
  /\ UNCHANGED <<scanVars, discovered, connected, link, unheard, listeners, leaving, cleanup,
                 closing, late>>

\* A task after an attempt that failed: withRetry waits, or gives up.
FailedRestart(t) == [task[t] EXCEPT !.step = "delay", !.attempt = 0]
Failed(t) ==
  IF task[t].attempt < MaxRetries THEN [task[t] EXCEPT !.step = "delay"] ELSE IdleTask

\* The device answers the calls of device.connect(): it is connected, ...
DeviceConnects(d) ==
  /\ Quiescent
  /\ dialled[d]
  /\ link' = [link EXCEPT ![d] = "up"]
  /\ unheard' = unheard \ {d}
  /\ dialled' = [dialled EXCEPT ![d] = FALSE]
  /\ task' = [t \in Tasks |-> IF t \in Racing(d) THEN [task[t] EXCEPT !.step = "resolved"]
                                                 ELSE task[t]]
  /\ late' = IF Racing(d) # {} THEN late \ {d}
             ELSE IF link[d] = "down" /\ d \notin unheard THEN late \cup {d} ELSE late
  /\ UNCHANGED <<scanVars, discovered, connected, listeners, leaving, cleanup, closing, released>>

\* ... or the calls fail.
DeviceRefuses(d) ==
  /\ Quiescent
  /\ dialled[d]
  /\ dialled' = [dialled EXCEPT ![d] = FALSE]
  /\ task' = [t \in Tasks |-> IF t \in Racing(d) THEN Failed(t) ELSE task[t]]
  /\ UNCHANGED <<scanVars, discovered, connected, link, unheard, listeners, leaving, cleanup,
                 closing, historyVars>>

\* The timer wins the race; the device may still answer.
ConnectionTimeout(t) ==
  /\ Quiescent
  /\ task[t].step = "racing"
  /\ task' = [task EXCEPT ![t] = Failed(t)]
  /\ UNCHANGED <<scanVars, discovered, connected, linkVars, leaving, cleanup, closing, historyVars>>

\* The retry delay is over.
ConnectRetries(t) ==
  /\ Quiescent
  /\ task[t].step = "delay"
  /\ Dial(t, task[t].dev, task[t].attempt + 1)
  /\ UNCHANGED <<scanVars, discovered, connected, link, unheard, listeners, leaving, cleanup,
                 closing, historyVars>>

\* The attempt resumes: the device is connected, and its disconnection is heard.
WatchFirstAttempt(t) ==
  [listeners EXCEPT ![task[t].dev] = @ \/ task[t].attempt = 1]
Watch(t) == [listeners EXCEPT ![task[t].dev] = TRUE]
ConnectResumes(t) ==
  /\ task[t].step = "resolved"
  /\ connected' = connected \cup {task[t].dev}
  /\ listeners' = Watch(t)
  /\ task' = [task EXCEPT ![t] = IdleTask]
  /\ UNCHANGED <<scanVars, discovered, link, unheard, dialled, leaving, cleanup, closing,
                 historyVars>>

\* The device emits 'disconnect': its listeners run once, which is
\* handleDeviceDisconnect; a disconnectDevice that waits for it is resolved.
\* autoReconnect is always true (config.auto_reconnect || true).
\* (bound: the link of a device to reconnect drops only when a task is free)
LinkDrops(d) ==
  /\ Quiescent
  /\ link[d] = "up" \/ d \in unheard
  /\ link' = [link EXCEPT ![d] = "down"]
  /\ unheard' = unheard \ {d}
  /\ listeners' = [listeners EXCEPT ![d] = FALSE]
  /\ leaving' = [leaving EXCEPT ![d] = IF @ = "waiting" THEN "resolved" ELSE @]
  /\ connected' = IF listeners[d] THEN connected \ {d} ELSE connected
  /\ \/ /\ listeners[d] /\ d \in connected
        /\ d \in discovered
        /\ \E t \in Tasks : task[t].step = "idle" /\ Dial(t, d, 1)
     \/ /\ ~ (listeners[d] /\ d \in connected /\ d \in discovered)
        /\ UNCHANGED <<task, dialled>>
  /\ late' = late \ {d}
  /\ UNCHANGED <<scanVars, discovered, cleanup, closing, released>>

-----------------------------------------------------------------------------
\* disconnectDevice up to its await; without an entry it returns at once
\* (bound: calls for one device that overlap settle together).
DisconnectEarly(d) ==
  /\ leaving[d] = "no"
  /\ d \in connected
  /\ leaving' = [leaving EXCEPT ![d] = "waiting"]
  /\ connected' = connected \ {d}
  /\ UNCHANGED <<scanVars, discovered, linkVars, task, cleanup, closing, historyVars>>
DisconnectDevice(d) ==
  /\ leaving[d] = "no"
  /\ d \in connected
  /\ leaving' = [leaving EXCEPT ![d] = "waiting"]
  /\ UNCHANGED <<scanVars, discovered, connected, linkVars, task, cleanup, closing, historyVars>>

\* device.disconnect() fails, and so does a cleanup that awaits it.
DisconnectFails(d) ==
  /\ Quiescent
  /\ leaving[d] = "waiting"
  /\ leaving' = [leaving EXCEPT ![d] = "no"]
  /\ closing' = IF d \in closing THEN {} ELSE closing
  /\ cleanup' = IF d \in closing THEN "failed" ELSE cleanup
  /\ UNCHANGED <<scanVars, discovered, connected, linkVars, task, historyVars>>

\* disconnectDevice resumes.
FinishDisconnect(d) ==
  /\ leaving[d] = "resolved"
  /\ leaving' = [leaving EXCEPT ![d] = "no"]
  /\ connected' = connected \ {d}
  /\ closing' = closing \ {d}
  /\ released' = released \cup {d}
  /\ UNCHANGED <<scanVars, discovered, linkVars, task, cleanup, late>>

\* cleanup disconnects every connected device.
DisconnectAll ==
  /\ cleanup' = "disconnecting"
  /\ closing' = connected
  /\ leaving' = [d \in Devices |-> IF d \in connected THEN "waiting" ELSE leaving[d]]

\* cleanup, called once, up to its first await.
StartCleanup ==
  /\ cleanup = "no"
  /\ \/ /\ isScanning
        /\ cleanup' = "stopping"
        /\ TryStop(Cleaner, 1)
        /\ UNCHANGED <<leaving, closing>>
     \/ /\ ~ isScanning
        /\ DisconnectAll
        /\ UNCHANGED scanVars
  /\ UNCHANGED <<discovered, connected, linkVars, task, historyVars>>

\* cleanup resumes after stopScanning.
CleanupDisconnects ==
  /\ cleanup = "stopping"
  /\ scan[Cleaner].step = "idle"
  /\ DisconnectAll
  /\ UNCHANGED <<scanVars, discovered, connected, linkVars, task, historyVars>>

\* cleanup resumes after the disconnections: removeListener takes one
\* registration of the discover listener away.
FinishCleanup ==
  /\ cleanup = "disconnecting"
  /\ closing = {}
  /\ cleanup' = "done"
  /\ discovered' = {}
  /\ connected' = {}
  /\ hearing' = IF hearing > 0 THEN hearing - 1 ELSE 0
  /\ UNCHANGED <<radio, silenced, isScanning, scan, linkVars, task, leaving, closing, historyVars>>

-----------------------------------------------------------------------------
TaskStep(t) ==
  \/ \E d \in Devices : ConnectToDevice(t, d)
  \/ ConnectionTimeout(t) \/ ConnectRetries(t) \/ ConnectResumes(t)

DeviceStep(d) ==
  \/ Discover(d) \/ DeviceConnects(d) \/ DeviceRefuses(d) \/ LinkDrops(d)
  \/ DisconnectDevice(d) \/ DisconnectFails(d) \/ FinishDisconnect(d)

Next ==
  \/ \E s \in ScanCallers : StartScanning(s) \/ StopScanning(s)
  \/ \E s \in Scanners : RadioAnswers(s) \/ ScanResumes(s) \/ RadioRefuses(s) \/ ScanRetries(s)
  \/ AdapterOff
  \/ \E t \in Tasks : TaskStep(t)
  \/ \E d \in Devices : DeviceStep(d)
  \/ StartCleanup \/ CleanupDisconnects \/ FinishCleanup

Spec == Init /\ [][Next]_vars

\* Promises that are settled resume, and timers fire however often microtasks
\* run in between; the radio and the devices promise nothing.
Fairness ==
  /\ \A t \in Tasks : /\ SF_vars(ConnectionTimeout(t) \/ ConnectRetries(t))
                      /\ WF_vars(ConnectResumes(t))
  /\ \A s \in Scanners : SF_vars(ScanRetries(s)) /\ WF_vars(ScanResumes(s))
  /\ \A d \in Devices : WF_vars(FinishDisconnect(d))
  /\ WF_vars(CleanupDisconnects) /\ WF_vars(FinishCleanup)

FairSpec == Spec /\ Fairness

-----------------------------------------------------------------------------
\* The variables have their types; an active task knows its device.
TypeOK ==
  /\ radio \in BOOLEAN
  /\ silenced \in BOOLEAN
  /\ isScanning \in BOOLEAN
  /\ hearing \in 0..ListenerBound
  /\ scan \in [Scanners -> [step : ScanSteps, attempt : Attempts]]
  /\ discovered \in SUBSET Devices
  /\ connected \in SUBSET Devices
  /\ link \in [Devices -> {"down", "up"}]
  /\ unheard \in SUBSET Devices
  /\ dialled \in [Devices -> BOOLEAN]
  /\ listeners \in [Devices -> BOOLEAN]
  /\ task \in [Tasks -> [step : TaskSteps, attempt : Attempts, dev : Devices \cup {None}]]
  /\ leaving \in [Devices -> {"no", "waiting", "resolved"}]
  /\ cleanup \in {"no", "stopping", "disconnecting", "done", "failed"}
  /\ closing \in SUBSET Devices
  /\ late \in SUBSET Devices
  /\ released \in SUBSET Devices
  /\ \A t \in Tasks : task[t].step # "idle" => task[t].dev # None

\* A device in connectedDevices is connected, or its link went with the adapter and
\* noble has yet to say so, and its disconnection will be heard: no entry outlives
\* its 'disconnect' event, although attempts overlap, time out and resolve late, and
\* reconnection, disconnection, cleanup and the adapter's going off interleave.
ConnectedIsWatched ==
  \A d \in connected : (link[d] = "up" \/ d \in unheard) /\ listeners[d]

\* Between calls that are in flight isScanning tells what the adapter does, except
\* that a scan the adapter ended by going off still counts (handleStateChange only
\* logs) until the adapter answers the next call.
ScanFlagAgrees == Quiescent => isScanning = (radio \/ silenced)

\* Until cleanup is called, connectedDevices (getActiveConnections counts it) has
\* every device whose link is up, or went with the adapter unheard, except those
\* that answered so late that nobody waited for them any more: a timeout is the
\* only way to lose track of a link.
LinksKnown ==
  Quiescent /\ cleanup = "no" =>
    {d \in Devices : link[d] = "up"} \cup unheard = connected \cup late

\* What the service believes of the radio, its scan and its links, is so
\* (startScanning, stopScanning, connectToDevice, handleDeviceDisconnect).
AgreesWithRadio == TypeOK /\ ScanFlagAgrees /\ LinksKnown

\* A device that was disconnected on request stays out of connectedDevices
\* until someone connects to it again.
DisconnectedStays == released \cap connected = {}

\* Every call of connectToDevice settles, even if the device never answers.
ConnectSettles == \A t \in Tasks : task[t].step # "idle" ~> task[t].step = "idle"
=============================================================================
