---- MODULE Audits ----
(***************************************************************************)
(* security/SecurityAuditor.js and the security/VulnerabilityScanner.js it *)
(* owns: audits and scans of BLE devices, which overlap.  What a scan or a *)
(* check finds is not distinguished, only whether it throws.               *)
(***************************************************************************)
EXTENDS Naturals, FiniteSets

CONSTANTS Devices, Calls,       \* startAudit and scanDevice calls in progress
          None,
          MaxConcurrentAudits,  \* config.maxConcurrentAudits
          MaxConcurrentScans    \* config.maxConcurrentScans

VARIABLES activeAudits,  \* the status of every audit ever started; "none": no entry
          auditResults,  \* the devices this.auditResults has
          activeScans,   \* the status of every scan ever started
          scanResults,   \* the devices this.scanResults has
          call           \* what each call is doing
auditVars == <<activeAudits, auditResults, activeScans, scanResults, call>>

Statuses == {"none", "in_progress", "completed", "error", "stopped"}
Idle == [phase |-> "idle", audits |-> FALSE, device |-> None]

TypeOK ==
  /\ activeAudits \in [Devices -> Statuses] /\ auditResults \subseteq Devices
  /\ activeScans \in [Devices -> Statuses] /\ scanResults \subseteq Devices
  /\ call \in [Calls -> [phase : {"idle", "scan", "checks", "throws"}, audits : BOOLEAN,
                         device : Devices \cup {None}]]

Init ==
  /\ activeAudits = [d \in Devices |-> "none"] /\ auditResults = {}
  /\ activeScans = [d \in Devices |-> "none"] /\ scanResults = {}
  /\ call = [k \in Calls |-> Idle]

Return(k) == call' = [call EXCEPT ![k] = Idle]
GoTo(k, phase) == call' = [call EXCEPT ![k].phase = phase]

\* The catch blocks: the status becomes an error, whoever set it.
WithError(active, d) == IF active[d] = "none" THEN active ELSE [active EXCEPT ![d] = "error"]
Stopped(active) == [d \in Devices |-> IF active[d] = "in_progress" THEN "stopped" ELSE active[d]]
InProgress(active) == {d \in Devices : active[d] = "in_progress"}

----
(* VulnerabilityScanner *)

ValidateScanStart(d) ==
  /\ Cardinality(InProgress(activeScans)) < MaxConcurrentScans
  /\ activeScans[d] # "in_progress"

\* scanDevice up to the first await.  A refused scan throws, and its catch block
\* marks the scan of that device that does run.
ScanDevice(k, d, audits) ==
  IF ValidateScanStart(d)
  THEN /\ activeScans' = [activeScans EXCEPT ![d] = "in_progress"]
       /\ call' = [call EXCEPT ![k] = [phase |-> "scan", audits |-> audits, device |-> d]]
  ELSE /\ activeScans' = WithError(activeScans, d)
       /\ call' = IF audits
                  THEN [call EXCEPT ![k] = [phase |-> "throws", audits |-> audits, device |-> d]]
                  ELSE call

StartScan(k, d) ==
  /\ call[k] = Idle
  /\ ScanDevice(k, d, FALSE)
  /\ UNCHANGED <<activeAudits, auditResults, scanResults>>

\* _performDeviceScan and its checks have answered.
ScanDone(k) ==
  LET d == call[k].device IN
  /\ call[k].phase = "scan"
  /\ scanResults' = scanResults \cup {d}
  /\ activeScans' = [activeScans EXCEPT ![d] = "completed"]
  /\ IF call[k].audits THEN GoTo(k, "checks") ELSE Return(k)
  /\ UNCHANGED <<activeAudits, auditResults>>

\* There is no device object.
ScanFails(k) ==
  /\ call[k].phase = "scan"
  /\ activeScans' = WithError(activeScans, call[k].device)
  /\ IF call[k].audits THEN GoTo(k, "throws") ELSE Return(k)
  /\ UNCHANGED <<activeAudits, auditResults, scanResults>>

ClearScanResults(d) ==
  /\ scanResults' = scanResults \ {d}
  /\ UNCHANGED <<activeAudits, auditResults, activeScans, call>>

StopAllScans ==
  /\ activeScans' = Stopped(activeScans)
  /\ UNCHANGED <<activeAudits, auditResults, scanResults, call>>

----
(* SecurityAuditor *)

\* The limit is compared with every audit ever started: no entry is ever removed.
StartsAudit(d) ==
  /\ Cardinality({e \in Devices : activeAudits[e] # "none"}) < MaxConcurrentAudits
  /\ activeAudits[d] = "none"

\* startAudit: the scan starts in the same step.  An audit that is refused marks
\* the one of that device that does run.
StartAudit(k, d) ==
  /\ call[k] = Idle
  /\ IF StartsAudit(d)
     THEN /\ activeAudits' = [activeAudits EXCEPT ![d] = "in_progress"]
          /\ ScanDevice(k, d, TRUE)
     ELSE activeAudits' = WithError(activeAudits, d) /\ UNCHANGED <<activeScans, call>>
  /\ UNCHANGED <<auditResults, scanResults>>

\* A check reads the configuration of a service that has none.
ChecksFail(k) ==
  /\ call[k].phase = "checks"
  /\ GoTo(k, "throws")
  /\ UNCHANGED <<activeAudits, auditResults, activeScans, scanResults>>

AuditDone(k) ==
  LET d == call[k].device IN
  /\ call[k].phase = "checks"
  /\ auditResults' = auditResults \cup {d}
  /\ activeAudits' = [activeAudits EXCEPT ![d] = "completed"]
  /\ Return(k)
  /\ UNCHANGED <<activeScans, scanResults>>

(* Operators named after a defect are wrong variants of the definition that follows them: Next does not
   use them; they serve to check that the properties notice the defect. *)
AuditFailsUnmarked(k) ==
  /\ call[k].phase = "throws"
  /\ Return(k)
  /\ UNCHANGED <<activeAudits, auditResults, activeScans, scanResults>>
AuditFails(k) ==
  /\ call[k].phase = "throws"
  /\ activeAudits' = WithError(activeAudits, call[k].device)
  /\ Return(k)
  /\ UNCHANGED <<auditResults, activeScans, scanResults>>

ClearAuditResults(d) ==
  /\ auditResults' = auditResults \ {d}
  /\ UNCHANGED <<activeAudits, activeScans, scanResults, call>>

StopAllAudits ==
  /\ activeAudits' = Stopped(activeAudits)
  /\ UNCHANGED <<auditResults, activeScans, scanResults, call>>

Next ==
  \/ \E k \in Calls :
       \/ \E d \in Devices : StartScan(k, d) \/ StartAudit(k, d)
       \/ ScanDone(k) \/ ScanFails(k) \/ ChecksFail(k) \/ AuditDone(k) \/ AuditFails(k)
  \/ \E d \in Devices : ClearScanResults(d) \/ ClearAuditResults(d)
  \/ StopAllScans \/ StopAllAudits
Spec == Init /\ [][Next]_auditVars

----
Auditing(d) == {k \in Calls : call[k].audits /\ call[k].device = d}
Scanning(d) == {k \in Calls : call[k].phase = "scan" /\ call[k].device = d}

(* What getActiveAudits and getActiveScans report is under way: exactly one *)
(* call audits a device whose audit is in progress, and some call scans a   *)
(* device whose scan is; however calls are refused, stopped or fail, a      *)
(* device is audited by one call at a time, and no more audits than the     *)
(* limit run.  (More scans than the limit may run: a refused one marks the  *)
(* running scan of its device as failed, which makes room for another.)     *)
AuditsAccounted ==
  /\ \A d \in Devices :
       /\ Cardinality(Auditing(d)) <= 1
       /\ activeAudits[d] = "in_progress" => Auditing(d) # {}
       /\ activeScans[d] = "in_progress" => Scanning(d) # {}
  /\ Cardinality({k \in Calls : call[k].audits}) <= MaxConcurrentAudits
====
