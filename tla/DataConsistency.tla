---- MODULE DataConsistency ----
(***************************************************************************)
(* mcp/server/DataConsistency.js: transactions that live in the connection *)
(* pool and are followed in a log, with crashes of the process in between. *)
(* The pool and the log are external and durable; the set of active        *)
(* transactions and the calls in progress are lost in a crash.             *)
(***************************************************************************)
EXTENDS Naturals, FiniteSets

CONSTANTS Txs,         \* the ids of transactions
          Calls,       \* calls in progress
          MaxCrashes,  \* bound: crashes
          None

VARIABLES db,       \* external: a transaction in the pool: "none", "open", "committed", "rolledBack"
          log,      \* external: its entry: "none", "started", "committed", "rolledBack"
          active,   \* this.activeTransactions
          call,     \* what each call waits for
          lost,     \* history: transactions whose begin a crash cut short
          crashes   \* bound: crashes so far
txVars == <<db, log, active, call, lost, crashes>>

Idle == [pc |-> "idle", tx |-> None, todo |-> {}]
\* A call of recoverTransactions has the transactions it goes on with in `todo'.
Waits(pc, t, todo) == [pc |-> pc, tx |-> t, todo |-> todo]
Steps == {"beginning", "appending", "committing", "marking", "rollingBack", "unmarking"}

TypeOK ==
  /\ db \in [Txs -> {"none", "open", "committed", "rolledBack"}]
  /\ log \in [Txs -> {"none", "started", "committed", "rolledBack"}]
  /\ active \subseteq Txs /\ lost \subseteq Txs /\ crashes \in 0..MaxCrashes
  /\ call \in [Calls -> [pc : Steps \cup {"idle", "recovering"}, tx : Txs \cup {None}, todo : SUBSET Txs]]

Init ==
  /\ db = [t \in Txs |-> "none"] /\ log = [t \in Txs |-> "none"]
  /\ active = {} /\ lost = {} /\ crashes = 0
  /\ call = [k \in Calls |-> Idle]

Start(k, c) == call[k] = Idle /\ call' = [call EXCEPT ![k] = c]
Ends(k) == call' = [call EXCEPT ![k] = Idle]
At(k, pc) == call[k].pc = pc

----
(* beginTransaction *)

BeginTransaction(k) == Start(k, Waits("beginning", None, {})) /\ UNCHANGED <<db, log, active, lost, crashes>>

PoolBegins(k, t) ==
  /\ At(k, "beginning") /\ db[t] = "none"
  /\ db' = [db EXCEPT ![t] = "open"]
  /\ active' = active \cup {t}
  /\ call' = [call EXCEPT ![k] = Waits("appending", t, {})]
  /\ UNCHANGED <<log, lost, crashes>>

\* Without an entry the caller does not learn the id, and no recovery finds it.
LogAppends(k) ==
  /\ At(k, "appending")
  /\ log' = [log EXCEPT ![call[k].tx] = "started"]
  /\ Ends(k)
  /\ UNCHANGED <<db, active, lost, crashes>>

\* The pool or the log refuses: the error goes to the caller, nothing is undone.
Refused(k) ==
  /\ \E pc \in Steps : At(k, pc)
  /\ call[k].todo = {}
  /\ Ends(k)
  /\ UNCHANGED <<db, log, active, lost, crashes>>

----
(* commitTransaction and rollbackTransaction, of a transaction begun before *)
Begun(t) == log[t] # "none"

CommitTransaction(k, t) ==
  /\ Begun(t)
  /\ Start(k, Waits("committing", t, {}))
  /\ UNCHANGED <<db, log, active, lost, crashes>>

(* Operators named after a defect are wrong variants of the definition that follows them: Next does not
   use them; they serve to check that the properties notice the defect. *)
PoolCommitsUnawaited(k) ==
  /\ At(k, "committing")
  /\ db' \in {db, [db EXCEPT ![call[k].tx] = "committed"]}
  /\ call' = [call EXCEPT ![k].pc = "marking"]
  /\ UNCHANGED <<log, active, lost, crashes>>
\* external: only an open transaction commits.
PoolCommits(k) ==
  /\ At(k, "committing") /\ db[call[k].tx] = "open"
  /\ db' = [db EXCEPT ![call[k].tx] = "committed"]
  /\ call' = [call EXCEPT ![k].pc = "marking"]
  /\ UNCHANGED <<log, active, lost, crashes>>

MarkCommitted(k) ==
  /\ At(k, "marking")
  /\ log' = [log EXCEPT ![call[k].tx] = "committed"]
  /\ active' = active \ {call[k].tx}
  /\ Ends(k)
  /\ UNCHANGED <<db, lost, crashes>>

RollbackTransaction(k, t) ==
  /\ Begun(t)
  /\ Start(k, Waits("rollingBack", t, {}))
  /\ UNCHANGED <<db, log, active, lost, crashes>>

\* external: a rollback of what is no longer open is accepted without effect (or
\* refused).
RolledBack(t) == IF db[t] = "open" THEN "rolledBack" ELSE db[t]
PoolRollsBack(k) ==
  /\ At(k, "rollingBack")
  /\ db' = [db EXCEPT ![call[k].tx] = RolledBack(call[k].tx)]
  /\ call' = [call EXCEPT ![k].pc = "unmarking"]
  /\ UNCHANGED <<log, active, lost, crashes>>

\* A recovery goes on with the next transaction, and leaves the active ones alone.
Recovers(k) == call[k].todo # {}
GoesOn(k) ==
  IF Recovers(k) THEN call' = [call EXCEPT ![k] = Waits("recovering", None, @.todo \ {@.tx})]
  ELSE Ends(k)

MarkRolledBack(k) ==
  /\ At(k, "unmarking")
  /\ log' = [log EXCEPT ![call[k].tx] = "rolledBack"]
  /\ active' = IF Recovers(k) THEN active ELSE active \ {call[k].tx}
  /\ GoesOn(k)
  /\ UNCHANGED <<db, lost, crashes>>

----
(* recoverTransactions, and crashes *)

\* external: getUncommitted returns the entries that are only started.  Among them
\* are the transactions that are active.
RecoverTransactions(k) ==
  /\ Start(k, Waits("recovering", None, {t \in Txs : log[t] = "started"}))
  /\ UNCHANGED <<db, log, active, lost, crashes>>

RecoverNext(k) ==
  /\ At(k, "recovering")
  /\ \/ call[k].todo = {} /\ Ends(k)
     \/ \E t \in call[k].todo : call' = [call EXCEPT ![k] = Waits("rollingBack", t, @.todo)]
  /\ UNCHANGED <<db, log, active, lost, crashes>>

\* A recovery logs the error and goes on.
RefusedInRecovery(k) ==
  /\ At(k, "rollingBack") \/ At(k, "unmarking")
  /\ Recovers(k) /\ GoesOn(k)
  /\ UNCHANGED <<db, log, active, lost, crashes>>

Crash ==
  /\ crashes < MaxCrashes
  /\ crashes' = crashes + 1
  /\ lost' = lost \cup {t \in active : log[t] = "none"}
  /\ active' = {} /\ call' = [k \in Calls |-> Idle]
  /\ UNCHANGED <<db, log>>

Next ==
  \/ \E k \in Calls :
       \/ BeginTransaction(k) \/ LogAppends(k) \/ Refused(k)
       \/ \E t \in Txs : PoolBegins(k, t) \/ CommitTransaction(k, t) \/ RollbackTransaction(k, t)
       \/ PoolCommits(k) \/ MarkCommitted(k) \/ PoolRollsBack(k) \/ MarkRolledBack(k)
       \/ RecoverTransactions(k) \/ RecoverNext(k) \/ RefusedInRecovery(k)
  \/ Crash
Spec == Init /\ [][Next]_txVars

----
(* The log never settles what the pool has not: an entry marked committed  *)
(* is committed in the pool, and one marked rolled back is not open there, *)
(* through crashes, recoveries and calls for the same transaction.  (That  *)
(* a committed one is never marked rolled back does not hold: after a      *)
(* crash between commit and mark the recovery does so.)                    *)
LogSettlesAfterPool ==
  \A t \in Txs :
    /\ log[t] = "committed" => db[t] = "committed"
    /\ log[t] = "rolledBack" => db[t] \in {"committed", "rolledBack"}

(* A transaction that is open in the pool is followed: the process has it  *)
(* among the active ones, or the log has it as started and a recovery      *)
(* finds it.  Only a crash between the begin in the pool and the entry in  *)
(* the log leaves one that nobody knows.                                   *)
OpenIsFollowed ==
  \A t \in Txs : db[t] = "open" => t \in active \/ log[t] = "started" \/ t \in lost

(* Both: the log says of a transaction no more than what the pool did.     *)
LogFollowsPool == LogSettlesAfterPool /\ OpenIsFollowed
====
