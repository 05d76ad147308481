---- MODULE Threats ----
(***************************************************************************)
(* security/ThreatDetectionService.js: threats are recorded, and clients   *)
(* blocked for them.  analyzeThreat is split at its awaits, so that calls  *)
(* overlap with each other and with unblockClient and cleanup.  The other  *)
(* methods are one step each.                                              *)
(***************************************************************************)
EXTENDS Naturals, FiniteSets

CONSTANTS Calls,          \* analyzeThreat calls in progress
          Clients, Ips, None,
          MaxAuthFailures

VARIABLES failures,       \* authentication failures among the client's threats
          highSeverity,   \* clients with a threat of high severity
          blockedClients, blockedIps,
          call,           \* what each analyzeThreat waits for
          pardoned,       \* history: clients unblocked since their last threat that blocks
          overtaken,      \* history: analyses whose client was unblocked before their second block
          undone          \* history: clients blocked by such an analysis since they were unblocked
pardonVars == <<pardoned, overtaken, undone>>
threatVars == <<failures, highSeverity, blockedClients, blockedIps, call, pardonVars>>

Idle == [phase |-> "idle", client |-> None]

\* bound: failures beyond the limit count as the limit.
TypeOK ==
  /\ failures \in [Clients -> 0..MaxAuthFailures]
  /\ highSeverity \subseteq Clients
  /\ blockedClients \subseteq Clients /\ blockedIps \subseteq Ips
  /\ pardoned \subseteq Clients /\ overtaken \subseteq Calls /\ undone \subseteq Clients
  /\ call \in [Calls -> [phase : {"idle", "severe", "mild"}, client : Clients \cup {None}]]

Init ==
  /\ failures = [c \in Clients |-> 0] /\ highSeverity = {}
  /\ blockedClients = {} /\ blockedIps = {}
  /\ pardoned = {} /\ overtaken = {} /\ undone = {}
  /\ call = [k \in Calls |-> Idle]

TooMany(n) == n >= MaxAuthFailures

\* analyzeThreat up to its first await: the threat is recorded, and the client
\* blocked for one reason; for the other it is blocked only after the await.
\* Threats are never forgotten, so that one failure after unblockClient is again
\* one too many.
AnalyzeThreat(k, c, failure, high) ==
  LET count == IF failure /\ failures[c] < MaxAuthFailures THEN failures[c] + 1 ELSE failures[c]
      first == failure /\ TooMany(count)
      awaits == first \/ high
  IN /\ call[k] = Idle
     /\ failures' = [failures EXCEPT ![c] = count]
     /\ highSeverity' = highSeverity \cup (IF high THEN {c} ELSE {})
     /\ blockedClients' = blockedClients \cup (IF awaits THEN {c} ELSE {})
     /\ pardoned' = IF awaits THEN pardoned \ {c} ELSE pardoned
     /\ call' = IF awaits
                THEN [call EXCEPT ![k] = [phase |-> IF first /\ high THEN "severe" ELSE "mild", client |-> c]]
                ELSE call
     /\ undone' = IF awaits THEN undone \ {c} ELSE undone
     /\ UNCHANGED <<blockedIps, overtaken>>

\* After the first block: a threat of high severity blocks the client once more,
\* whatever has happened meanwhile.
BlockAgain(k) ==
  LET c == call[k].client IN
  /\ call[k].phase = "severe"
  /\ blockedClients' = blockedClients \cup {c}
  /\ undone' = undone \cup (IF k \in overtaken THEN {c} ELSE {})
  /\ overtaken' = overtaken \ {k}
  /\ call' = [call EXCEPT ![k].phase = "mild"]
  /\ UNCHANGED <<failures, highSeverity, blockedIps, pardoned>>

Analyzed(k) ==
  /\ call[k].phase = "mild"
  /\ call' = [call EXCEPT ![k] = Idle]
  /\ UNCHANGED <<failures, highSeverity, blockedClients, blockedIps, pardonVars>>

UnblockClient(c) ==
  /\ blockedClients' = blockedClients \ {c}
  /\ pardoned' = pardoned \cup {c}
  /\ overtaken' = overtaken \cup {k \in Calls : call[k].phase = "severe" /\ call[k].client = c}
  /\ undone' = undone \ {c}
  /\ UNCHANGED <<failures, highSeverity, blockedIps, call>>

BlockIp(ip) ==
  /\ blockedIps' = blockedIps \cup {ip}
  /\ UNCHANGED <<failures, highSeverity, blockedClients, call, pardonVars>>

UnblockIp(ip) ==
  /\ blockedIps' = blockedIps \ {ip}
  /\ UNCHANGED <<failures, highSeverity, blockedClients, call, pardonVars>>

(* Operators named after a defect are wrong variants of the definition that follows them: Next does not
   use them; they serve to check that the properties notice the defect. *)
CleanupBlocksOnly ==
  /\ blockedClients' = {} /\ blockedIps' = {} /\ pardoned' = {} /\ undone' = {}
  /\ UNCHANGED <<failures, highSeverity, call, overtaken>>
\* cleanup and stop; calls in progress go on.
Cleanup ==
  /\ failures' = [c \in Clients |-> 0] /\ highSeverity' = {}
  /\ blockedClients' = {} /\ blockedIps' = {} /\ pardoned' = {} /\ undone' = {}
  /\ UNCHANGED <<call, overtaken>>

Next ==
  \/ \E k \in Calls :
       \/ \E c \in Clients, failure, high \in BOOLEAN : AnalyzeThreat(k, c, failure, high)
       \/ BlockAgain(k) \/ Analyzed(k)
  \/ \E c \in Clients : UnblockClient(c)
  \/ \E ip \in Ips : BlockIp(ip) \/ UnblockIp(ip)
  \/ Cleanup
Spec == Init /\ [][Next]_threatVars

----
(* However analyses overlap with each other, with unblockClient and with    *)
(* cleanup: a client on record with too many failures, or with a threat of  *)
(* high severity, is blocked, unless it was unblocked after the last threat *)
(* that blocks; and only an analysis that was about to block it when it was *)
(* unblocked undoes that, not one that began later, nor one for less.       *)
ThreatsAnswered ==
  /\ \A c \in Clients :
       TooMany(failures[c]) \/ c \in highSeverity => c \in blockedClients \cup pardoned
  /\ pardoned \cap blockedClients \subseteq undone
====
