---- MODULE Recovery ----
(***************************************************************************)
(* mcp/server/DisasterRecovery.js, which restores a saved state of the     *)
(* connection pool with mcp/server/HighAvailability.js stopped meanwhile,  *)
(* over several attempts.  Nothing keeps a second recovery, or a caller of *)
(* HighAvailability.start and stop, from overlapping one that runs.  The   *)
(* connection pool, the keep-alive and the state manager are injected, and *)
(* each of their answers may be an error.                                  *)
(***************************************************************************)
EXTENDS Naturals

CONSTANTS RecoveryAttempts,  \* config.recoveryAttempts
          Callers,           \* those that call initiateRecovery, start and stop
          MaxSaved,          \* bound: states saved
          None

VARIABLES saved,      \* external: the state the state manager holds, numbered
          poolState,  \* external: the state restored last, 0 before any
          keepAlive,  \* external: the keep-alive runs
          healthCheckTimer,  \* HighAvailability's this.healthCheckTimer is set
          recovery,   \* what each caller's call waits for
          alone       \* history: the latest call, if no other has been in progress since it began
recoveryVars == <<saved, poolState, keepAlive, healthCheckTimer, recovery, alone>>

Stages == {"loading", "stopping", "restoring", "starting", "delayed"}
Ends == {"none", "recovered", "failed"}
At(recovers, pc, attempts, state) ==
  [recovers |-> recovers, pc |-> pc, attempts |-> attempts, state |-> state]

TypeOK ==
  /\ saved \in 0..MaxSaved /\ poolState \in 0..MaxSaved
  /\ keepAlive \in BOOLEAN /\ healthCheckTimer \in BOOLEAN
  /\ recovery \in [Callers -> [recovers : BOOLEAN, pc : Stages \cup Ends,
                               attempts : 0..RecoveryAttempts, state : 0..MaxSaved]]
  /\ alone \in Callers \cup {None}

\* HighAvailability has been started, and nothing is saved.
Init ==
  /\ saved = 0 /\ poolState = 0
  /\ keepAlive = TRUE /\ healthCheckTimer = TRUE
  /\ recovery = [c \in Callers |-> At(FALSE, "none", 0, 0)] /\ alone = None

SaveSystemState ==
  /\ saved < MaxSaved
  /\ saved' = saved + 1
  /\ UNCHANGED <<poolState, keepAlive, healthCheckTimer, recovery, alone>>

----
(* The calls begin; none of them looks whether another one is in progress. *)
InProgress(c) == recovery[c].pc \in Stages
Begins(c, call) ==
  /\ ~InProgress(c)
  /\ recovery' = [recovery EXCEPT ![c] = call]
  /\ alone' = IF \E d \in Callers : InProgress(d) THEN None ELSE c

InitiateRecovery(c) ==
  /\ Begins(c, At(TRUE, IF RecoveryAttempts = 0 THEN "failed" ELSE "loading", 0, 0))
  /\ UNCHANGED <<saved, poolState, keepAlive, healthCheckTimer>>

StartHighAvailability(c) ==
  /\ Begins(c, At(FALSE, "starting", 0, 0))
  /\ UNCHANGED <<saved, poolState, keepAlive, healthCheckTimer>>

\* stop clears its timer and goes on to the keep-alive.
StopHighAvailability(c) ==
  /\ Begins(c, At(FALSE, "stopping", 0, 0))
  /\ healthCheckTimer' = FALSE
  /\ UNCHANGED <<saved, poolState, keepAlive>>

----
(* The calls go on, one await after the other *)
Goes(c, pc) == recovery' = [recovery EXCEPT ![c].pc = pc]

\* An error ends the attempt where it stands: what it has stopped stays stopped.
Fails(c) ==
  LET n == recovery[c].attempts + 1 IN
  IF recovery[c].recovers
    THEN recovery' = [recovery EXCEPT ![c] = At(TRUE, IF n < RecoveryAttempts THEN "delayed" ELSE "failed", n, 0)]
    ELSE Goes(c, "none")

DelayEnds(c) ==
  /\ recovery[c].pc = "delayed"
  /\ Goes(c, "loading")
  /\ UNCHANGED <<saved, poolState, keepAlive, healthCheckTimer, alone>>

\* The state is loaded, and highAvailability.stop called.
LoadState(c) ==
  /\ recovery[c].pc = "loading"
  /\ \/ /\ recovery' = [recovery EXCEPT ![c] = At(TRUE, "stopping", @.attempts, saved)]
        /\ healthCheckTimer' = FALSE
     \/ Fails(c) /\ UNCHANGED healthCheckTimer
  /\ UNCHANGED <<saved, poolState, keepAlive, alone>>

Stop(c) ==
  /\ recovery[c].pc = "stopping"
  /\ \/ keepAlive' = FALSE /\ Goes(c, IF recovery[c].recovers THEN "restoring" ELSE "none")
     \/ Fails(c) /\ UNCHANGED keepAlive
  /\ UNCHANGED <<saved, poolState, healthCheckTimer, alone>>

(* Operators named after a defect are wrong variants of the definition that follows them: Next does not
   use them; they serve to check that the properties notice the defect. *)
\* A failure to restore is logged, and the recovery goes on.
RestoreOrGoOn(c) ==
  /\ recovery[c].pc = "restoring"
  /\ poolState' \in {poolState, recovery[c].state} /\ Goes(c, "starting")
  /\ UNCHANGED <<saved, keepAlive, healthCheckTimer, alone>>
Restore(c) ==
  /\ recovery[c].pc = "restoring"
  /\ \/ poolState' = recovery[c].state /\ Goes(c, "starting")
     \/ Fails(c) /\ UNCHANGED poolState
  /\ UNCHANGED <<saved, keepAlive, healthCheckTimer, alone>>

\* HighAvailability.start: the timer is set after the keep-alive has started.
Start(c) ==
  /\ recovery[c].pc = "starting"
  /\ \/ /\ keepAlive' = TRUE /\ healthCheckTimer' = TRUE
        /\ Goes(c, IF recovery[c].recovers THEN "recovered" ELSE "none")
     \/ Fails(c) /\ healthCheckTimer' = FALSE /\ UNCHANGED keepAlive
  /\ UNCHANGED <<saved, poolState, alone>>

Next ==
  \/ SaveSystemState
  \/ \E c \in Callers :
       \/ InitiateRecovery(c) \/ StartHighAvailability(c) \/ StopHighAvailability(c)
       \/ DelayEnds(c) \/ LoadState(c) \/ Stop(c) \/ Restore(c) \/ Start(c)
Spec == Init /\ [][Next]_recoveryVars

----
(* A recovery that no other call has overlapped or followed leaves the     *)
(* pool watched, by the timer and by the keep-alive, and in the state it   *)
(* loaded, when it reports success, however many of its attempts failed    *)
(* before and in whatever state earlier calls that overlapped left things; *)
(* and no health check runs while it stops the pool's supervision,         *)
(* restores the pool and starts it again.  One that is overlapped may      *)
(* report success over a pool that another call has stopped.               *)
RecoveredIsWatched ==
  \A c \in Callers : alone = c /\ recovery[c].recovers =>
    /\ recovery[c].pc = "recovered" => healthCheckTimer /\ keepAlive /\ poolState = recovery[c].state
    /\ recovery[c].pc \in {"stopping", "restoring", "starting"} => ~healthCheckTimer
====
