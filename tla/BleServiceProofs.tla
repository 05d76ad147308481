--------------------------- MODULE BleServiceProofs ---------------------------
(***************************************************************************)
(* Proofs about BleService, for any devices, any number of concurrent      *)
(* calls and any number of retries.                                        *)
(*                                                                         *)
(* What the invariants are silent about are the moments between the answer *)
(* of a device or of the radio and the microtask that records it.  The     *)
(* strengthenings ScanInv and LinkInv describe those moments.              *)
(***************************************************************************)
EXTENDS BleService, TLAPS

-----------------------------------------------------------------------------
(* The type invariant in three parts.  A call waits for a retry only when   *)
(* an attempt is left, which keeps the attempts within MaxRetries.          *)

ScanTypes ==
  /\ radio \in BOOLEAN /\ silenced \in BOOLEAN /\ isScanning \in BOOLEAN
  /\ hearing \in 0..ListenerBound
  /\ scan \in [Scanners -> [step : ScanSteps, attempt : Attempts]]
  /\ \A s \in Scanners : scan[s].step \in {"startDelay", "stopDelay"} =>
                           scan[s].attempt < MaxRetries

TaskTypes ==
  /\ task \in [Tasks -> [step : TaskSteps, attempt : Attempts, dev : Devices \cup {None}]]
  /\ \A t \in Tasks : task[t].step # "idle" => task[t].dev \in Devices
  /\ \A t \in Tasks : task[t].step = "delay" => task[t].attempt < MaxRetries

LinkTypes ==
  /\ discovered \in SUBSET Devices
  /\ connected \in SUBSET Devices
  /\ link \in [Devices -> {"down", "up"}]
  /\ unheard \in SUBSET Devices
  /\ dialled \in [Devices -> BOOLEAN]
  /\ listeners \in [Devices -> BOOLEAN]
  /\ leaving \in [Devices -> {"no", "waiting", "resolved"}]
  /\ cleanup \in {"no", "stopping", "disconnecting", "done", "failed"}
  /\ closing \in SUBSET Devices
  /\ late \in SUBSET Devices
  /\ released \in SUBSET Devices

Types == ScanTypes /\ TaskTypes /\ LinkTypes

LEMMA TypesImply == Types => TypeOK
BY BleAssumption DEF Types, TypeOK, ScanTypes, TaskTypes, LinkTypes

LEMMA TypesInit == Init => Types
<1> SUFFICES ASSUME Init PROVE Types
  OBVIOUS
<1> USE BleAssumption
<1>1. ScanTypes
  <2>1. IdleScan \in [step : ScanSteps, attempt : Attempts] /\ IdleScan.step = "idle"
    BY DEF IdleScan, ScanSteps, Attempts
  <2>2. /\ scan \in [Scanners -> [step : ScanSteps, attempt : Attempts]]
        /\ \A s \in Scanners : scan[s].step = "idle"
    BY <2>1 DEF Init
  <2>3. radio \in BOOLEAN /\ silenced \in BOOLEAN /\ isScanning \in BOOLEAN
    BY DEF Init
  <2>4. hearing \in 0..ListenerBound
    BY DEF Init, ListenerBound
  <2> QED BY <2>2, <2>3, <2>4 DEF ScanTypes
<1>2. TaskTypes
  BY DEF Init, TaskTypes, IdleTask, TaskSteps, Attempts
<1>3. LinkTypes
  BY DEF Init, LinkTypes
<1> QED BY <1>1, <1>2, <1>3 DEF Types

-----------------------------------------------------------------------------
\* The steps of startScanning and stopScanning, and what everything else does.
LEMMA ScanTypeStep == ScanTypes /\ [Next]_vars => ScanTypes'
<1> SUFFICES ASSUME ScanTypes, [Next]_vars PROVE ScanTypes'
  OBVIOUS
<1> USE BleAssumption DEF Attempts, ScanSteps, ListenerBound
<1>idle. IdleScan \in [step : ScanSteps, attempt : Attempts] /\ IdleScan.step = "idle"
  BY DEF IdleScan
<1>start. ASSUME NEW s \in Scanners, NEW n \in Attempts, TryStart(s, n) PROVE ScanTypes'
  BY <1>start, <1>idle DEF TryStart, Heard, ScanTypes
<1>stop. ASSUME NEW s \in Scanners, NEW n \in Attempts, TryStop(s, n) PROVE ScanTypes'
  BY <1>stop, <1>idle DEF TryStop, ScanTypes
<1>cleaner. Cleaner \in Scanners /\ ScanCallers \subseteq Scanners /\ 1 \in Attempts
  BY DEF Scanners
<1>1. ASSUME NEW s \in ScanCallers, StartScanning(s) \/ StopScanning(s) PROVE ScanTypes'
  BY <1>1, <1>start, <1>stop, <1>cleaner DEF StartScanning, StopScanning
<1>2. ASSUME NEW s \in Scanners, RadioAnswers(s) PROVE ScanTypes'
  BY <1>2 DEF RadioAnswers, ScanTypes
<1>3. ASSUME NEW s \in Scanners, ScanResumes(s) PROVE ScanTypes'
  BY <1>3, <1>idle DEF ScanResumes, ScanTypes
<1>4. ASSUME NEW s \in Scanners, RadioRefuses(s) PROVE ScanTypes'
  BY <1>4, <1>idle DEF RadioRefuses, ScanTypes
<1>5. ASSUME NEW s \in Scanners, ScanRetries(s) PROVE ScanTypes'
  <2>1. scan[s].attempt + 1 \in Attempts
    BY <1>5 DEF ScanRetries, ScanTypes
  <2> QED BY <1>5, <2>1, <1>start, <1>stop DEF ScanRetries
<1>6. CASE UNCHANGED scanVars
  BY <1>6 DEF scanVars, ScanTypes
<1>7. ASSUME NEW t \in Tasks, TaskStep(t) PROVE UNCHANGED scanVars
  BY <1>7 DEF TaskStep, ConnectToDevice, ConnectionTimeout, ConnectRetries, ConnectResumes
<1>8. ASSUME NEW d \in Devices, DeviceStep(d) PROVE UNCHANGED scanVars
  BY <1>8 DEF DeviceStep, Discover, DeviceConnects, DeviceRefuses, LinkDrops,
              DisconnectDevice, DisconnectFails, FinishDisconnect
<1>9. CASE StartCleanup
  BY <1>9, <1>stop, <1>cleaner, <1>6 DEF StartCleanup
<1>10. CASE CleanupDisconnects
  BY <1>10, <1>6 DEF CleanupDisconnects
<1>11. CASE FinishCleanup
  BY <1>11 DEF FinishCleanup, ScanTypes
<1>12. CASE AdapterOff
  BY <1>12 DEF AdapterOff, ScanTypes
<1>13. CASE UNCHANGED vars
  BY <1>13, <1>6 DEF vars, scanVars
<1> QED BY <1>1, <1>2, <1>3, <1>4, <1>5, <1>6, <1>7, <1>8, <1>9, <1>10, <1>11, <1>12, <1>13
        DEF Next

\* The steps of connectToDevice, of the devices that answer it, and the rest.
LEMMA TaskTypeStep == Types /\ [Next]_vars => TaskTypes'
<1> SUFFICES ASSUME Types, [Next]_vars PROVE TaskTypes'
  OBVIOUS
<1> USE BleAssumption DEF Attempts, TaskSteps, Types
<1>dial. ASSUME NEW t \in Tasks, NEW d \in Devices, NEW n \in Attempts, Dial(t, d, n)
         PROVE  TaskTypes'
  BY <1>dial DEF Dial, TaskTypes
<1>idle. IdleTask \in [step : TaskSteps, attempt : Attempts, dev : Devices \cup {None}]
  BY DEF IdleTask
<1>failed. ASSUME NEW t \in Tasks, task[t].step = "racing"
           PROVE  /\ Failed(t) \in [step : TaskSteps, attempt : Attempts,
                                    dev : Devices \cup {None}]
                  /\ Failed(t).step # "idle" => Failed(t).dev \in Devices
                  /\ Failed(t).step = "delay" => Failed(t).attempt < MaxRetries
  BY <1>failed, <1>idle DEF Failed, IdleTask, TaskTypes
<1>same. CASE UNCHANGED task
  BY <1>same DEF TaskTypes
<1>1. ASSUME NEW t \in Tasks, NEW d \in Devices, ConnectToDevice(t, d) PROVE TaskTypes'
  BY <1>1, <1>dial DEF ConnectToDevice
<1>2. ASSUME NEW t \in Tasks, ConnectionTimeout(t) PROVE TaskTypes'
  BY <1>2, <1>failed DEF ConnectionTimeout, TaskTypes
<1>3. ASSUME NEW t \in Tasks, ConnectRetries(t) PROVE TaskTypes'
  <2>1. task[t].dev \in Devices /\ task[t].attempt + 1 \in Attempts
    BY <1>3 DEF ConnectRetries, TaskTypes
  <2> QED BY <1>3, <2>1, <1>dial DEF ConnectRetries
<1>4. ASSUME NEW t \in Tasks, ConnectResumes(t) PROVE TaskTypes'
  BY <1>4, <1>idle DEF ConnectResumes, TaskTypes, IdleTask
<1>5. ASSUME NEW d \in Devices, DeviceConnects(d) PROVE TaskTypes'
  BY <1>5 DEF DeviceConnects, TaskTypes, Racing
<1>6. ASSUME NEW d \in Devices, DeviceRefuses(d) PROVE TaskTypes'
  BY <1>6, <1>failed DEF DeviceRefuses, TaskTypes, Racing
<1>7. ASSUME NEW d \in Devices, LinkDrops(d) PROVE TaskTypes'
  BY <1>7, <1>dial, <1>same DEF LinkDrops
<1>8. ASSUME NEW d \in Devices,
             Discover(d) \/ DisconnectDevice(d) \/ DisconnectFails(d) \/ FinishDisconnect(d)
      PROVE  TaskTypes'
  BY <1>8, <1>same DEF Discover, DisconnectDevice, DisconnectFails, FinishDisconnect
<1>9. ASSUME NEW s \in Scanners,
             \/ StartScanning(s) \/ StopScanning(s) \/ RadioAnswers(s)
             \/ ScanResumes(s) \/ RadioRefuses(s) \/ ScanRetries(s)
      PROVE  TaskTypes'
  BY <1>9, <1>same DEF StartScanning, StopScanning, RadioAnswers, ScanResumes, RadioRefuses,
                       ScanRetries, notOfScan
<1>10. CASE StartCleanup \/ CleanupDisconnects \/ FinishCleanup \/ AdapterOff \/ UNCHANGED vars
  BY <1>10, <1>same DEF StartCleanup, CleanupDisconnects, FinishCleanup, AdapterOff, vars
<1> QED BY <1>1, <1>2, <1>3, <1>4, <1>5, <1>6, <1>7, <1>8, <1>9, <1>10
        DEF Next, TaskStep, DeviceStep, Scanners

LEMMA LinkTypeStep == Types /\ [Next]_vars => LinkTypes'
<1> SUFFICES ASSUME Types, [Next]_vars PROVE LinkTypes'
  OBVIOUS
<1> USE BleAssumption DEF Types
<1>1. ASSUME NEW t \in Tasks, NEW d \in Devices, ConnectToDevice(t, d) PROVE LinkTypes'
  BY <1>1 DEF ConnectToDevice, Dial, LinkTypes
<1>2. ASSUME NEW t \in Tasks, ConnectionTimeout(t) PROVE LinkTypes'
  BY <1>2 DEF ConnectionTimeout, LinkTypes, linkVars, historyVars
<1>3. ASSUME NEW t \in Tasks, ConnectRetries(t) PROVE LinkTypes'
  BY <1>3 DEF ConnectRetries, Dial, LinkTypes, historyVars
<1>4. ASSUME NEW t \in Tasks, ConnectResumes(t) PROVE LinkTypes'
  <2>1. task[t].dev \in Devices
    BY <1>4 DEF ConnectResumes, TaskTypes
  <2> QED BY <1>4, <2>1 DEF ConnectResumes, Watch, LinkTypes, historyVars
<1>5. ASSUME NEW d \in Devices, DeviceConnects(d) PROVE LinkTypes'
  BY <1>5 DEF DeviceConnects, LinkTypes
<1>6. ASSUME NEW d \in Devices, DeviceRefuses(d) PROVE LinkTypes'
  BY <1>6 DEF DeviceRefuses, LinkTypes, historyVars
<1>7. ASSUME NEW d \in Devices, LinkDrops(d) PROVE LinkTypes'
  <2>1. dialled' \in [Devices -> BOOLEAN]
    BY <1>7 DEF LinkDrops, Dial, LinkTypes
  <2> QED BY <1>7, <2>1 DEF LinkDrops, LinkTypes
<1>8. ASSUME NEW d \in Devices,
             Discover(d) \/ DisconnectDevice(d) \/ DisconnectFails(d) \/ FinishDisconnect(d)
      PROVE  LinkTypes'
  BY <1>8 DEF Discover, DisconnectDevice, DisconnectFails, FinishDisconnect, LinkTypes,
              linkVars, historyVars
<1>9. ASSUME NEW s \in Scanners,
             \/ StartScanning(s) \/ StopScanning(s) \/ RadioAnswers(s)
             \/ ScanResumes(s) \/ RadioRefuses(s) \/ ScanRetries(s)
      PROVE  LinkTypes'
  BY <1>9 DEF StartScanning, StopScanning, RadioAnswers, ScanResumes, RadioRefuses,
              ScanRetries, notOfScan, LinkTypes, linkVars, historyVars
<1>10. CASE StartCleanup \/ CleanupDisconnects
  BY <1>10 DEF StartCleanup, CleanupDisconnects, DisconnectAll, LinkTypes, linkVars, historyVars
<1>11. CASE FinishCleanup \/ UNCHANGED vars
  BY <1>11 DEF FinishCleanup, vars, LinkTypes, linkVars, historyVars
<1>12. CASE AdapterOff
  BY <1>12 DEF AdapterOff, LinkTypes
<1> QED BY <1>1, <1>2, <1>3, <1>4, <1>5, <1>6, <1>7, <1>8, <1>9, <1>10, <1>11, <1>12
        DEF Next, TaskStep, DeviceStep, Scanners

LEMMA TypesAlways == Spec => []Types
<1>1. Init => Types
  BY TypesInit
<1>2. Types /\ [Next]_vars => Types'
  BY ScanTypeStep, TaskTypeStep, LinkTypeStep DEF Types
<1> QED BY <1>1, <1>2, PTL DEF Spec

\* The variables keep their types: no call makes more than MaxRetries attempts,
\* and an active call knows its device.
THEOREM TypeCorrect == Spec => []TypeOK
BY TypesAlways, TypesImply, PTL

-----------------------------------------------------------------------------
\* Between the answer of a device and the microtask that records it the link is
\* up; so it is for every connected device, whose listener is registered, unless
\* its link went with the adapter.  Nobody waited for a device that is late.
WatchInv ==
  /\ ConnectedIsWatched
  /\ late \cap (connected \cup unheard) = {}
  /\ \A t \in Tasks : task[t].step = "resolved" => /\ link[task[t].dev] = "up"
                                                   /\ task[t].dev \notin late

LEMMA WatchStep == Types /\ WatchInv /\ [Next]_vars => WatchInv'
<1> SUFFICES ASSUME Types, WatchInv, [Next]_vars PROVE WatchInv'
  OBVIOUS
<1> USE BleAssumption DEF Types, WatchInv, ConnectedIsWatched
\* A step that starts calls, or ends them, without touching the links.
<1>quiet. ASSUME UNCHANGED <<link, unheard, listeners, late>>, connected' \subseteq connected,
                 \A t \in Tasks : task'[t].step = "resolved" =>
                                    task[t].step = "resolved" /\ task'[t].dev = task[t].dev
          PROVE  WatchInv'
  BY <1>quiet
<1>dial. ASSUME NEW t \in Tasks, NEW d \in Devices, NEW n \in Nat, Dial(t, d, n)
         PROVE  \A u \in Tasks : task'[u].step = "resolved" =>
                                    task[u].step = "resolved" /\ task'[u].dev = task[u].dev
  BY <1>dial DEF Dial, TaskTypes
<1>1. ASSUME NEW t \in Tasks, NEW d \in Devices, ConnectToDevice(t, d) PROVE WatchInv'
  BY <1>1, <1>dial, <1>quiet DEF ConnectToDevice
<1>2. ASSUME NEW t \in Tasks, ConnectionTimeout(t) PROVE WatchInv'
  BY <1>2, <1>quiet DEF ConnectionTimeout, Failed, IdleTask, linkVars, historyVars, TaskTypes
<1>3. ASSUME NEW t \in Tasks, ConnectRetries(t) PROVE WatchInv'
  <2>1. task[t].dev \in Devices /\ task[t].attempt + 1 \in Nat
    BY <1>3 DEF ConnectRetries, TaskTypes, Attempts
  <2> QED BY <1>3, <2>1, <1>dial, <1>quiet DEF ConnectRetries, historyVars
<1>4. ASSUME NEW t \in Tasks, ConnectResumes(t) PROVE WatchInv'
  <2>1. link[task[t].dev] = "up" /\ task[t].dev \in Devices \ late
    BY <1>4 DEF ConnectResumes, TaskTypes
  <2>2. ConnectedIsWatched'
    BY <1>4, <2>1 DEF ConnectResumes, Watch, LinkTypes
  <2> QED BY <1>4, <2>1, <2>2 DEF ConnectResumes, IdleTask, TaskTypes, historyVars
<1>5. ASSUME NEW d \in Devices, DeviceConnects(d) PROVE WatchInv'
  <2>1. ConnectedIsWatched'
    BY <1>5 DEF DeviceConnects, LinkTypes
  <2>2. ASSUME NEW t \in Tasks, task'[t].step = "resolved"
        PROVE  task'[t].dev = d /\ Racing(d) # {}
    BY <1>5, <2>2 DEF DeviceConnects, Quiescent, Racing, TaskTypes
  <2>3. link'[d] = "up" /\ (Racing(d) # {} => d \notin late')
    BY <1>5 DEF DeviceConnects, LinkTypes
  <2>4. late' \cap (connected' \cup unheard') = {}
    <3>1. late' \subseteq late \cup {d} /\ unheard' = unheard \ {d} /\ connected' = connected
      BY <1>5 DEF DeviceConnects
    <3>2. d \in late' => d \notin connected
      BY <1>5 DEF DeviceConnects
    <3> QED BY <3>1, <3>2
  <2> QED BY <2>1, <2>2, <2>3, <2>4
<1>6. ASSUME NEW d \in Devices, DeviceRefuses(d) PROVE WatchInv'
  BY <1>6, <1>quiet DEF DeviceRefuses, Racing, Failed, IdleTask, TaskTypes, historyVars
<1>7. ASSUME NEW d \in Devices, LinkDrops(d) PROVE WatchInv'
  <2>1. \A t \in Tasks : task'[t].step # "resolved"
    BY <1>7 DEF LinkDrops, Quiescent, Dial, TaskTypes
  <2>2. ConnectedIsWatched'
    BY <1>7 DEF LinkDrops, LinkTypes
  <2>3. late' \cap (connected' \cup unheard') = {}
    BY <1>7 DEF LinkDrops
  <2> QED BY <2>1, <2>2, <2>3
<1>8. ASSUME NEW d \in Devices,
             Discover(d) \/ DisconnectDevice(d) \/ DisconnectFails(d) \/ FinishDisconnect(d)
      PROVE  WatchInv'
  BY <1>8, <1>quiet DEF Discover, DisconnectDevice, DisconnectFails, FinishDisconnect, linkVars,
                        historyVars
<1>9. ASSUME NEW s \in Scanners,
             \/ StartScanning(s) \/ StopScanning(s) \/ RadioAnswers(s)
             \/ ScanResumes(s) \/ RadioRefuses(s) \/ ScanRetries(s)
      PROVE  WatchInv'
  BY <1>9, <1>quiet DEF StartScanning, StopScanning, RadioAnswers, ScanResumes, RadioRefuses,
              ScanRetries, notOfScan, linkVars, historyVars
<1>10. CASE StartCleanup \/ CleanupDisconnects \/ FinishCleanup \/ UNCHANGED vars
  BY <1>10, <1>quiet DEF StartCleanup, CleanupDisconnects, FinishCleanup, vars, linkVars,
                         historyVars
<1>11. CASE AdapterOff
  <2>1. \A t \in Tasks : task'[t].step # "resolved"
    BY <1>11 DEF AdapterOff, Quiescent
  <2>2. ConnectedIsWatched'
    BY <1>11 DEF AdapterOff, LinkTypes
  <2> QED BY <1>11, <2>1, <2>2 DEF AdapterOff
<1> QED BY <1>1, <1>2, <1>3, <1>4, <1>5, <1>6, <1>7, <1>8, <1>9, <1>10, <1>11
        DEF Next, TaskStep, DeviceStep, Scanners

\* No entry of connectedDevices outlives its link, or its 'disconnect' event when the
\* link goes with the adapter (handleDeviceDisconnect), whichever attempts, timeouts,
\* reconnections, disconnections and cleanup overlap.
THEOREM ConnectedIsWatchedAlways == Spec => []ConnectedIsWatched
<1>1. Init => WatchInv
  BY DEF Init, WatchInv, ConnectedIsWatched, IdleTask
<1>2. Types /\ WatchInv /\ [Next]_vars => WatchInv'
  BY WatchStep
<1>3. WatchInv => ConnectedIsWatched
  BY DEF WatchInv
<1> QED BY <1>1, <1>2, <1>3, TypesAlways, PTL DEF Spec

-----------------------------------------------------------------------------
\* The radio answers one call at a time, and until the caller has recorded the
\* answer the flag may differ from the adapter; the caller will make them agree.
\* The adapter goes off only while no caller has an answer to record.
Answered == {s \in Scanners : scan[s].step \in {"started", "stopped"}}

ScanInv ==
  /\ \A s, r \in Answered : s = r
  /\ \A s \in Scanners : /\ scan[s].step = "started" => radio = TRUE
                         /\ scan[s].step = "stopped" => radio = FALSE
  /\ Answered # {} => silenced = FALSE
  /\ Answered = {} => isScanning = (radio \/ silenced)

\* cleanup, which is called once, finds its own slot free.
CleanerIdle == cleanup = "no" => scan[Cleaner].step = "idle"

LEMMA CleanerStep == Types /\ CleanerIdle /\ [Next]_vars => CleanerIdle'
<1> SUFFICES ASSUME Types, CleanerIdle, [Next]_vars PROVE CleanerIdle'
  OBVIOUS
<1> USE BleAssumption DEF Types, CleanerIdle
<1>1. ASSUME NEW s \in ScanCallers, StartScanning(s) \/ StopScanning(s) PROVE CleanerIdle'
  <2>1. s # Cleaner
    OBVIOUS
  <2>2. scan'[Cleaner] = scan[Cleaner] /\ cleanup' = cleanup
    BY <1>1, <2>1 DEF StartScanning, StopScanning, TryStart, TryStop, notOfScan, ScanTypes,
                      Scanners
  <2> QED BY <2>2
<1>2. ASSUME NEW s \in Scanners,
             RadioAnswers(s) \/ ScanResumes(s) \/ RadioRefuses(s) \/ ScanRetries(s)
      PROVE  CleanerIdle'
  <2>1. scan[s].step # "idle"
    BY <1>2 DEF RadioAnswers, ScanResumes, RadioRefuses, ScanRetries
  <2>2. cleanup' = "no" => cleanup = "no" /\ s # Cleaner
    BY <1>2, <2>1 DEF RadioAnswers, ScanResumes, RadioRefuses, ScanRetries, notOfScan
  <2>3. s # Cleaner => scan'[Cleaner] = scan[Cleaner]
    BY <1>2 DEF RadioAnswers, ScanResumes, RadioRefuses, ScanRetries, TryStart, TryStop,
                ScanTypes, Scanners
  <2> QED BY <2>2, <2>3
<1>3. ASSUME NEW t \in Tasks, TaskStep(t) PROVE CleanerIdle'
  BY <1>3 DEF TaskStep, ConnectToDevice, ConnectionTimeout, ConnectRetries, ConnectResumes,
              scanVars
<1>4. ASSUME NEW d \in Devices, DeviceStep(d) PROVE CleanerIdle'
  BY <1>4 DEF DeviceStep, Discover, DeviceConnects, DeviceRefuses, LinkDrops,
              DisconnectDevice, DisconnectFails, FinishDisconnect, scanVars
<1>5. CASE StartCleanup \/ CleanupDisconnects \/ FinishCleanup
  BY <1>5 DEF StartCleanup, CleanupDisconnects, FinishCleanup, DisconnectAll
<1>6. CASE AdapterOff \/ UNCHANGED vars
  BY <1>6 DEF AdapterOff, vars, scanVars
<1> QED BY <1>1, <1>2, <1>3, <1>4, <1>5, <1>6 DEF Next

LEMMA ScanStep == Types /\ ScanInv /\ CleanerIdle /\ [Next]_vars => ScanInv'
<1> SUFFICES ASSUME Types, ScanInv, CleanerIdle, [Next]_vars PROVE ScanInv'
  OBVIOUS
<1> USE BleAssumption DEF Types
\* A step that neither asks the radio's answer nor records it.
<1>quiet. ASSUME UNCHANGED <<radio, silenced, isScanning>>,
                 \A s \in Scanners : \/ scan'[s] = scan[s]
                                     \/ /\ scan[s].step \notin {"started", "stopped"}
                                        /\ scan'[s].step \notin {"started", "stopped"}
          PROVE  ScanInv'
  <2>1. Answered' = Answered
    BY <1>quiet DEF Answered
  <2> QED BY <1>quiet, <2>1 DEF ScanInv, Answered
<1>idle. IdleScan.step = "idle"
  BY DEF IdleScan
<1>start. ASSUME NEW s \in Scanners, NEW n \in Nat, TryStart(s, n),
                 scan[s].step \notin {"started", "stopped"}
          PROVE  ScanInv'
  BY <1>start, <1>quiet, <1>idle DEF TryStart, ScanTypes
<1>stop. ASSUME NEW s \in Scanners, NEW n \in Nat, TryStop(s, n),
                scan[s].step \notin {"started", "stopped"}
         PROVE  ScanInv'
  BY <1>stop, <1>quiet, <1>idle DEF TryStop, ScanTypes
<1>cleaner. Cleaner \in Scanners /\ ScanCallers \subseteq Scanners
  BY DEF Scanners
<1>1. ASSUME NEW s \in ScanCallers, StartScanning(s) \/ StopScanning(s) PROVE ScanInv'
  BY <1>1, <1>start, <1>stop, <1>cleaner DEF StartScanning, StopScanning
<1>2. ASSUME NEW s \in Scanners, RadioAnswers(s) PROVE ScanInv'
  <2>1. Answered = {}
    BY <1>2 DEF RadioAnswers, Quiescent, Answered
  <2>2. Answered' = {s} /\ (scan'[s].step = "started" <=> radio' = TRUE)
                        /\ (scan'[s].step = "stopped" <=> radio' = FALSE)
    BY <1>2, <2>1 DEF RadioAnswers, Answered, ScanTypes
  <2>3. silenced' = FALSE
    BY <1>2 DEF RadioAnswers
  <2> QED BY <2>2, <2>3 DEF ScanInv, Answered
<1>3. ASSUME NEW s \in Scanners, ScanResumes(s) PROVE ScanInv'
  <2>1. Answered = {s}
    BY <1>3 DEF ScanResumes, ScanInv, Answered
  <2>2. Answered' = {}
    BY <1>3, <2>1, <1>idle DEF ScanResumes, Answered, ScanTypes
  <2>3. isScanning' = (radio' \/ silenced')
    <3>1. radio' = radio /\ silenced' = FALSE
      BY <1>3, <2>1 DEF ScanResumes, ScanInv
    <3>2. isScanning' = radio
      BY <1>3 DEF ScanResumes, ScanInv
    <3> QED BY <3>1, <3>2 DEF ScanTypes
  <2> QED BY <2>2, <2>3 DEF ScanInv, Answered
<1>4. ASSUME NEW s \in Scanners, RadioRefuses(s) PROVE ScanInv'
  BY <1>4, <1>quiet, <1>idle DEF RadioRefuses, ScanTypes
<1>5. ASSUME NEW s \in Scanners, ScanRetries(s) PROVE ScanInv'
  <2>1. scan[s].attempt + 1 \in Nat
    BY <1>5 DEF ScanTypes, Attempts
  <2> QED BY <1>5, <2>1, <1>start, <1>stop DEF ScanRetries
<1>6. CASE UNCHANGED <<radio, silenced, isScanning, scan>>
  BY <1>6, <1>quiet
<1>7. ASSUME NEW t \in Tasks, TaskStep(t) PROVE UNCHANGED <<radio, silenced, isScanning, scan>>
  BY <1>7 DEF TaskStep, ConnectToDevice, ConnectionTimeout, ConnectRetries, ConnectResumes,
              scanVars
<1>8. ASSUME NEW d \in Devices, DeviceStep(d) PROVE UNCHANGED <<radio, silenced, isScanning, scan>>
  BY <1>8 DEF DeviceStep, Discover, DeviceConnects, DeviceRefuses, LinkDrops,
              DisconnectDevice, DisconnectFails, FinishDisconnect, scanVars
<1>9. CASE StartCleanup
  <2>1. CASE TryStop(Cleaner, 1)
    <3>1. scan[Cleaner].step = "idle"
      BY <1>9 DEF StartCleanup, CleanerIdle
    <3> QED BY <2>1, <3>1, <1>stop, <1>cleaner
  <2> QED BY <1>9, <2>1, <1>6 DEF StartCleanup, scanVars
<1>10. CASE CleanupDisconnects \/ FinishCleanup \/ UNCHANGED vars
  BY <1>10, <1>6 DEF CleanupDisconnects, FinishCleanup, vars, scanVars
<1>11. CASE AdapterOff
  <2>1. Answered = {}
    BY <1>11 DEF AdapterOff, Quiescent, Answered
  <2>2. scan' = scan /\ isScanning' = isScanning /\ radio' = FALSE /\ silenced' = (silenced \/ radio)
    BY <1>11 DEF AdapterOff
  <2>3. Answered' = {}
    BY <2>1, <2>2 DEF Answered
  <2>4. isScanning' = (radio' \/ silenced')
    BY <2>1, <2>2 DEF ScanInv, ScanTypes
  <2> QED BY <2>3, <2>4 DEF ScanInv, Answered
<1> QED BY <1>1, <1>2, <1>3, <1>4, <1>5, <1>6, <1>7, <1>8, <1>9, <1>10, <1>11
        DEF Next

\* Between calls in flight isScanning tells what the adapter does, however
\* many calls of startScanning and stopScanning overlap and fail, but for a
\* scan that ended because the adapter went off (handleStateChange).
THEOREM ScanFlagAgreesAlways == Spec => []ScanFlagAgrees
<1>1. Init => ScanInv /\ CleanerIdle
  <2> SUFFICES ASSUME Init PROVE ScanInv /\ CleanerIdle
    OBVIOUS
  <2>1. \A s \in Scanners : scan[s].step = "idle"
    BY DEF Init, IdleScan
  <2>2. radio = FALSE /\ silenced = FALSE /\ isScanning = FALSE
    BY DEF Init
  <2> QED BY <2>1, <2>2 DEF ScanInv, CleanerIdle, Answered, Scanners
<1>2. Types /\ ScanInv /\ CleanerIdle /\ [Next]_vars => (ScanInv /\ CleanerIdle)'
  BY ScanStep, CleanerStep
<1>3. ScanInv => ScanFlagAgrees
  BY DEF ScanInv, ScanFlagAgrees, Quiescent, Answered
<1> QED BY <1>1, <1>2, <1>3, TypesAlways, PTL DEF Spec

-----------------------------------------------------------------------------
\* What the service knows of the links while microtasks are left: a device that
\* has just answered is about to be recorded, and a device that has just been
\* left is not connected again before disconnectDevice forgets it.
Answering == {task[t].dev : t \in {u \in Tasks : task[u].step = "resolved"}}

LinkInv ==
  /\ \A d \in Devices : leaving[d] = "resolved" => link[d] = "down" /\ d \notin unheard
  /\ cleanup = "no" => {d \in Devices : link[d] = "up"} \cup unheard =
                         connected \cup late \cup Answering

LEMMA LinkStep == Types /\ WatchInv /\ LinkInv /\ [Next]_vars => LinkInv'
<1> SUFFICES ASSUME Types, WatchInv, LinkInv, [Next]_vars PROVE LinkInv'
  OBVIOUS
<1> USE BleAssumption DEF Types, LinkInv
\* A step that changes no link and makes no promise.
<1>quiet. ASSUME UNCHANGED <<link, unheard, connected, late>>, Answering' = Answering,
                 \A d \in Devices : leaving'[d] = "resolved" => leaving[d] = "resolved",
                 cleanup' = "no" => cleanup = "no"
          PROVE  LinkInv'
  BY <1>quiet
\* The devices of the calls that have an answer stay the same when no call that
\* has one, before or after, changes.
<1>same. ASSUME \A t \in Tasks : \/ task'[t] = task[t]
                                 \/ task[t].step # "resolved" /\ task'[t].step # "resolved"
         PROVE  Answering' = Answering
  BY <1>same DEF Answering
<1>dial. ASSUME NEW t \in Tasks, NEW d \in Devices, NEW n \in Nat, Dial(t, d, n),
                task[t].step # "resolved"
         PROVE  Answering' = Answering
  BY <1>dial, <1>same DEF Dial, TaskTypes
<1>1. ASSUME NEW t \in Tasks, NEW d \in Devices, ConnectToDevice(t, d) PROVE LinkInv'
  BY <1>1, <1>dial, <1>quiet DEF ConnectToDevice
<1>2. ASSUME NEW t \in Tasks, ConnectionTimeout(t) PROVE LinkInv'
  <2>1. Answering' = Answering
    BY <1>2, <1>same DEF ConnectionTimeout, Failed, IdleTask, TaskTypes
  <2> QED BY <1>2, <2>1, <1>quiet DEF ConnectionTimeout, linkVars, historyVars
<1>3. ASSUME NEW t \in Tasks, ConnectRetries(t) PROVE LinkInv'
  <2>1. task[t].dev \in Devices /\ task[t].attempt + 1 \in Nat
    BY <1>3 DEF ConnectRetries, TaskTypes, Attempts
  <2>2. Answering' = Answering
    BY <1>3, <2>1, <1>dial DEF ConnectRetries
  <2> QED BY <1>3, <2>2, <1>quiet DEF ConnectRetries, historyVars
<1>4. ASSUME NEW t \in Tasks, ConnectResumes(t) PROVE LinkInv'
  <2>1. task[t].dev \in Answering /\ Answering \subseteq Answering' \cup {task[t].dev}
    BY <1>4 DEF ConnectResumes, Answering, TaskTypes
  <2>2. Answering' \subseteq Answering
    BY <1>4 DEF ConnectResumes, Answering, TaskTypes, IdleTask
  <2> QED BY <1>4, <2>1, <2>2 DEF ConnectResumes, historyVars
<1>5. ASSUME NEW d \in Devices, DeviceConnects(d) PROVE LinkInv'
  <2>1. Answering = {} /\ \A e \in Devices : leaving[e] # "resolved"
    BY <1>5 DEF DeviceConnects, Quiescent, Answering
  <2>2. Answering' = IF Racing(d) # {} THEN {d} ELSE {}
    <3>1. \A t \in Tasks : task'[t].step = "resolved" <=> t \in Racing(d)
      BY <1>5 DEF DeviceConnects, Quiescent, Racing, TaskTypes
    <3>2. \A t \in Racing(d) : task'[t].dev = d
      BY <1>5 DEF DeviceConnects, Racing, TaskTypes
    <3>3. Racing(d) \subseteq Tasks
      BY DEF Racing
    <3>4. Answering' = {task'[t].dev : t \in Racing(d)}
      BY <3>1, <3>3 DEF Answering
    <3> QED BY <3>2, <3>4
  <2>3. {e \in Devices : link'[e] = "up"} \cup unheard' =
          {e \in Devices : link[e] = "up"} \cup unheard \cup {d}
    BY <1>5 DEF DeviceConnects, LinkTypes
  <2>4. ASSUME cleanup = "no"
        PROVE  connected \cup late' \cup Answering' = connected \cup late \cup {d}
    <3>1. CASE Racing(d) # {}
      BY <1>5, <2>2, <3>1 DEF DeviceConnects
    <3>2. CASE Racing(d) = {} /\ link[d] = "down" /\ d \notin unheard
      BY <1>5, <2>2, <3>2 DEF DeviceConnects
    <3>3. CASE Racing(d) = {} /\ (link[d] = "up" \/ d \in unheard)
      <4>1. d \in connected \cup late
        BY <2>1, <2>4, <3>3
      <4> QED BY <1>5, <2>2, <3>3, <4>1 DEF DeviceConnects
    <3> QED BY <3>1, <3>2, <3>3 DEF LinkTypes
  <2> QED BY <1>5, <2>1, <2>3, <2>4 DEF DeviceConnects
<1>6. ASSUME NEW d \in Devices, DeviceRefuses(d) PROVE LinkInv'
  <2>1. Answering' = Answering
    BY <1>6, <1>same DEF DeviceRefuses, Racing, Failed, IdleTask, TaskTypes
  <2> QED BY <1>6, <2>1, <1>quiet DEF DeviceRefuses, historyVars
<1>7. ASSUME NEW d \in Devices, LinkDrops(d) PROVE LinkInv'
  <2>1. Answering = {} /\ Answering' = {}
    <3>1. \A t \in Tasks : task[t].step # "resolved" /\ task'[t].step # "resolved"
      BY <1>7 DEF LinkDrops, Quiescent, Dial, TaskTypes
    <3> QED BY <3>1 DEF Answering
  <2>2. d \notin connected' /\ connected' \cup {d} = connected \cup {d}
    BY <1>7 DEF LinkDrops, WatchInv, ConnectedIsWatched
  <2> QED BY <1>7, <2>1, <2>2 DEF LinkDrops, LinkTypes
<1>8. ASSUME NEW d \in Devices, Discover(d) \/ DisconnectDevice(d) \/ DisconnectFails(d)
      PROVE  LinkInv'
  <2>1. Answering' = Answering
    BY <1>8 DEF Discover, DisconnectDevice, DisconnectFails, Answering
  <2> QED BY <1>8, <2>1, <1>quiet DEF Discover, DisconnectDevice, DisconnectFails, linkVars,
                                      historyVars, LinkTypes
<1>9. ASSUME NEW d \in Devices, FinishDisconnect(d) PROVE LinkInv'
  <2>1. Answering' = Answering
    BY <1>9 DEF FinishDisconnect, Answering
  <2>2. link[d] = "down" /\ d \notin unheard
    BY <1>9 DEF FinishDisconnect
  <2> QED BY <1>9, <2>1, <2>2 DEF FinishDisconnect, linkVars, LinkTypes
<1>10. ASSUME NEW s \in Scanners,
             \/ StartScanning(s) \/ StopScanning(s) \/ RadioAnswers(s)
             \/ ScanResumes(s) \/ RadioRefuses(s) \/ ScanRetries(s)
      PROVE  LinkInv'
  <2>1. UNCHANGED <<link, unheard, connected, late, leaving, task>> /\ (cleanup' = "no" => cleanup = "no")
    BY <1>10 DEF StartScanning, StopScanning, RadioAnswers, ScanResumes, RadioRefuses,
                 ScanRetries, notOfScan, linkVars, historyVars
  <2> QED BY <2>1, <1>quiet DEF Answering
<1>11. CASE StartCleanup \/ CleanupDisconnects
  BY <1>11 DEF StartCleanup, CleanupDisconnects, DisconnectAll, linkVars, LinkTypes
<1>12. CASE FinishCleanup \/ UNCHANGED vars
  BY <1>12 DEF FinishCleanup, vars, linkVars, historyVars, Answering
<1>13. CASE AdapterOff
  <2>1. Answering = {} /\ Answering' = {} /\ \A d \in Devices : leaving'[d] # "resolved"
    BY <1>13 DEF AdapterOff, Quiescent, Answering
  <2>2. /\ {d \in Devices : link'[d] = "up"} = {}
        /\ unheard' = unheard \cup ({d \in Devices : link[d] = "up"} \ late)
        /\ late' = {} /\ connected' = connected /\ cleanup' = cleanup
    BY <1>13 DEF AdapterOff
  <2>3. ASSUME cleanup = "no" PROVE unheard' = connected
    <3>1. {d \in Devices : link[d] = "up"} \cup unheard = connected \cup late
      BY <2>1, <2>3
    <3>2. late \cap connected = {} /\ late \cap unheard = {}
      BY DEF WatchInv
    <3> QED BY <2>2, <3>1, <3>2
  <2> QED BY <2>1, <2>2, <2>3
<1> QED BY <1>1, <1>2, <1>3, <1>4, <1>5, <1>6, <1>7, <1>8, <1>9, <1>10, <1>11, <1>12, <1>13
        DEF Next, TaskStep, DeviceStep, Scanners

\* Until cleanup is called the service knows every link that is up, or that went
\* with the adapter without its 'disconnect' event, except those
\* of devices that answered when all the calls for them had timed out.
THEOREM LinksKnownAlways == Spec => []LinksKnown
<1>1. Init => WatchInv /\ LinkInv
  BY DEF Init, WatchInv, ConnectedIsWatched, LinkInv, Answering, IdleTask
<1>2. Types /\ WatchInv /\ LinkInv /\ [Next]_vars => (WatchInv /\ LinkInv)'
  BY WatchStep, LinkStep
<1>3. LinkInv => LinksKnown
  BY DEF LinkInv, LinksKnown, Quiescent, Answering
<1> QED BY <1>1, <1>2, <1>3, TypesAlways, PTL DEF Spec

\* isScanning and connectedDevices agree with the radio between calls in flight
\* (startScanning, connectToDevice, handleDeviceDisconnect).
THEOREM AgreesWithRadioAlways == Spec => []AgreesWithRadio
<1>1. TypeOK /\ ScanFlagAgrees /\ LinksKnown => AgreesWithRadio
  BY DEF AgreesWithRadio
<1> QED BY <1>1, TypeCorrect, ScanFlagAgreesAlways, LinksKnownAlways, PTL

=============================================================================
