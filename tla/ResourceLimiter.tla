---------------------------- MODULE ResourceLimiter ----------------------------
(***************************************************************************)
(* src/mcp/server/ResourceLimiter.js: limits on connections, memory, CPU   *)
(* and network usage that are checked together, and counts that its users  *)
(* bring up and down.  The clock is the CPU time of the process: the ratio *)
(* checkCpuUsage compares with 0.8 is CPU seconds since the last check     *)
(* that passed, however long ago that is.  A check of the memory keeps     *)
(* nothing: its outcome is arbitrary.                                      *)
(***************************************************************************)
EXTENDS Naturals

CONSTANTS
  MaxConnections,   \* options.maxConnections
  MaxCpuUsage,      \* options.maxCpuUsage, in CPU time since the last check that passed
  MaxNetworkUsage,  \* options.maxNetworkUsage
  Sizes,            \* networkBytes of a check
  MaxOpen,          \* bound: connections open at a time
  MaxCpu            \* bound: the CPU time of the process

VARIABLES
  cpu,                 \* external: process.cpuUsage()
  lastCpuUsage,        \* this.lastCpuUsage
  currentConnections,  \* this.currentConnections
  currentNetworkUsage, \* this.currentNetworkUsage
  open,                \* history: connections counted and not yet uncounted by their users
  forgotten,           \* history: connections that were open at the last reset
  admitted             \* history: bytes that were allowed since the last reset

limiterVars == <<cpu, lastCpuUsage, currentConnections, currentNetworkUsage, open, forgotten,
                 admitted>>

Init ==
  /\ cpu = 1 /\ lastCpuUsage = 1
  /\ currentConnections = 0 /\ currentNetworkUsage = 0
  /\ open = 0 /\ forgotten = 0 /\ admitted = 0

-----------------------------------------------------------------------------
CanAcceptConnection == currentConnections < MaxConnections

(* Operators named after a defect are wrong variants of the definition that *)
(* follows them: Next does not use them; they serve to check that the       *)
(* properties notice the defect.                                            *)
\* A connection above the limit is not counted.
IncrementSaturating ==
  /\ open < MaxOpen
  /\ open' = open + 1
  /\ currentConnections' = IF CanAcceptConnection THEN currentConnections + 1 ELSE currentConnections
  /\ UNCHANGED <<cpu, lastCpuUsage, currentNetworkUsage, forgotten, admitted>>
IncrementConnections ==
  /\ open < MaxOpen
  /\ open' = open + 1
  /\ currentConnections' = currentConnections + 1
  /\ UNCHANGED <<cpu, lastCpuUsage, currentNetworkUsage, forgotten, admitted>>

\* A user uncounts a connection it has counted, before a reset perhaps.
DecrementConnections ==
  /\ open > 0
  /\ open' = open - 1
  /\ currentConnections' = IF currentConnections = 0 THEN 0 ELSE currentConnections - 1
  /\ UNCHANGED <<cpu, lastCpuUsage, currentNetworkUsage, forgotten, admitted>>

CpuWithin == cpu - lastCpuUsage <= MaxCpuUsage
\* Only a check that passes is the base of the next one.
CheckCpuUsage ==
  lastCpuUsage' = IF CpuWithin THEN cpu ELSE lastCpuUsage

NetworkWithin(bytes) == currentNetworkUsage + bytes <= MaxNetworkUsage
CheckNetworkUsage(bytes) ==
  currentNetworkUsage' = IF NetworkWithin(bytes) THEN currentNetworkUsage + bytes ELSE currentNetworkUsage

\* All checks are made, whichever has failed: bytes count that were refused.
EnforceLimits(bytes, memoryWithin) ==
  /\ CheckCpuUsage
  /\ CheckNetworkUsage(bytes)
  /\ admitted' = IF CanAcceptConnection /\ memoryWithin /\ CpuWithin /\ NetworkWithin(bytes)
                 THEN admitted + bytes ELSE admitted
  /\ UNCHANGED <<cpu, currentConnections, open, forgotten>>

\* The connections that are open stay open, and are uncounted later.
Reset ==
  /\ currentConnections' = 0 /\ currentNetworkUsage' = 0 /\ lastCpuUsage' = cpu
  /\ forgotten' = open /\ admitted' = 0
  /\ UNCHANGED <<cpu, open>>

Tick ==
  /\ cpu < MaxCpu
  /\ cpu' = cpu + 1
  /\ UNCHANGED <<lastCpuUsage, currentConnections, currentNetworkUsage, open, forgotten, admitted>>

Next ==
  \/ IncrementConnections \/ DecrementConnections
  \/ \E bytes \in Sizes, memoryWithin \in BOOLEAN : EnforceLimits(bytes, memoryWithin)
  \/ Reset \/ Tick

Spec == Init /\ [][Next]_limiterVars

-----------------------------------------------------------------------------
TypeOK ==
  /\ cpu \in 1..MaxCpu /\ lastCpuUsage \in 1..cpu
  /\ currentConnections \in 0..MaxOpen /\ open \in 0..MaxOpen
  /\ currentNetworkUsage \in 0..MaxNetworkUsage
  /\ forgotten \in 0..MaxOpen /\ admitted \in Nat

\* enforceLimits and reset: whatever resets come between counting and uncounting,
\* the limiter counts no connection that is not open, and of those that are it
\* misses at most as many as the last reset forgot; and the bytes that were allowed
\* since are all counted and within maxNetworkUsage, whichever other check refuses
\* what is counted with them.
LimitsAccounted ==
  /\ currentConnections <= open /\ open <= currentConnections + forgotten
  /\ admitted <= currentNetworkUsage
=============================================================================
