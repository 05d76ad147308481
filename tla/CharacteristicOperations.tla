----------------------- MODULE CharacteristicOperations -----------------------
(***************************************************************************)
(* src/ble/CharacteristicOperations.js for one device (the queues of       *)
(* different devices share nothing): reads and writes are queued, taken in *)
(* batches by priority when the queue is full or when the batch timer      *)
(* fires, and run; batches overlap.  The timer is started once.            *)
(* Statistics, the history's order and subscriptions are left out.         *)
(***************************************************************************)
EXTENDS Naturals, Sequences, FiniteSets

CONSTANTS
  Operations,   \* calls of queueRead and queueWrite
  Ranks,        \* priorities: 1 is high, 2 medium, 3 low
  MaxBatchSize  \* config.maxBatchSize

VARIABLES
  queue,       \* operationQueues: the operations waiting, by age
  status,      \* what has become of each operation
  batches,     \* the batches that run
  batchTimer,  \* "unset", "set" or "fired": pendingBatches has the device from "set" on
  early        \* history: operations queued before the timer fired

operationVars == <<queue, status, batches, batchTimer, early>>

-----------------------------------------------------------------------------
(* Operators named after a defect are wrong variants of the definition that *)
(* follows them: Next does not use them; they serve to check that the       *)
(* properties notice the defect.                                            *)

Init ==
  /\ queue = <<>>
  /\ status = [o \in Operations |-> "new"]
  /\ batches = {}
  /\ batchTimer = "unset"
  /\ early = {}

\* The sort of _processBatch: by priority, then by age.
Before(q, i, j) == q[i].rank < q[j].rank \/ (q[i].rank = q[j].rank /\ i < j)
Place(q, i) == Cardinality({j \in DOMAIN q : j = i \/ Before(q, j, i)})
ByPriority(q) == [p \in DOMAIN q |-> q[CHOOSE i \in DOMAIN q : Place(q, i) = p]]

Least(a, b) == IF a < b THEN a ELSE b
\* One operation too few is taken.
BatchOfButOne(q) == SubSeq(ByPriority(q), 1, Least(Len(q), MaxBatchSize) - 1)
BatchOf(q) == SubSeq(ByPriority(q), 1, Least(Len(q), MaxBatchSize))
\* The batch is copied (slice), not taken (splice).
RestKept(q) == ByPriority(q)
RestOf(q) == SubSeq(ByPriority(q), Len(BatchOf(q)) + 1, Len(q))
Ids(q) == {q[i].op : i \in DOMAIN q}

\* _processBatch, up to its await: q is the queue, status now the outcome of the
\* caller's part.  An empty queue is left alone.
ProcessBatch(q, now) ==
  IF q = <<>>
  THEN /\ queue' = q
       /\ status' = now
       /\ UNCHANGED batches
  ELSE /\ queue' = RestOf(q)
       /\ batches' = batches \cup {Ids(BatchOf(q))}
       /\ status' = [o \in Operations |-> IF o \in Ids(BatchOf(q)) THEN "running" ELSE now[o]]

\* queueRead and queueWrite, with _queueOperation: a full queue is processed at
\* once; otherwise the batch timer starts, the first time only.
QueueOperation(o, r) ==
  LET q == Append(queue, [op |-> o, rank |-> r])
      queued == [status EXCEPT ![o] = "queued"]
  IN /\ status[o] = "new"
     /\ early' = IF batchTimer = "fired" THEN early ELSE early \cup {o}
     /\ IF Len(q) >= MaxBatchSize
        THEN ProcessBatch(q, queued) /\ UNCHANGED batchTimer
        ELSE /\ queue' = q
             /\ status' = queued
             /\ batchTimer' = IF batchTimer = "unset" THEN "set" ELSE batchTimer
             /\ UNCHANGED batches

\* A write that is refused for its arguments, once the device is known: with high
\* priority it is queued again all the same, before or after those of its
\* priority (its time stamp is the newest), and processed at once.
RefuseWrite(o, r) ==
  /\ status[o] = "new"
  /\ \E p \in Operations : status[p] # "new"
  /\ IF r # 1
     THEN /\ status' = [status EXCEPT ![o] = "refused"]
          /\ UNCHANGED <<queue, batches>>
     ELSE LET entry == [op |-> o, rank |-> r]
          IN \E q \in {<<entry>> \o queue, Append(queue, entry)} :
               ProcessBatch(q, [status EXCEPT ![o] = "queued"])
  /\ UNCHANGED <<batchTimer, early>>

BatchTimerFires ==
  /\ batchTimer = "set"
  /\ batchTimer' = "fired"
  /\ ProcessBatch(queue, status)
  /\ UNCHANGED early

\* Every operation of the batch has run: they enter the history.
BatchDone(b) ==
  /\ b \in batches
  /\ batches' = batches \ {b}
  /\ status' = [o \in Operations |-> IF o \in b THEN "done" ELSE status[o]]
  /\ UNCHANGED <<queue, batchTimer, early>>

Next ==
  \/ \E o \in Operations, r \in Ranks : QueueOperation(o, r) \/ RefuseWrite(o, r)
  \/ BatchTimerFires
  \/ \E b \in SUBSET Operations : BatchDone(b)

Progress == BatchTimerFires \/ \E b \in SUBSET Operations : BatchDone(b)

Spec == Init /\ [][Next]_operationVars

-----------------------------------------------------------------------------
TypeOK ==
  /\ queue \in Seq([op : Operations, rank : Ranks])
  /\ status \in [Operations -> {"new", "queued", "running", "done", "refused"}]
  /\ batches \subseteq SUBSET Operations
  /\ batchTimer \in {"unset", "set", "fired"}
  /\ early \subseteq Operations

\* _processBatch: however batches overlap and writes are queued again, no
\* operation waits or runs twice, none is lost between the queue and a batch,
\* and the queue never holds a full batch.
OperationsAccounted ==
  /\ {o \in Operations : status[o] = "queued"} = Ids(queue)
  /\ {o \in Operations : status[o] = "running"} = UNION batches
  /\ Cardinality(Ids(queue)) = Len(queue)
  /\ \A a, b \in batches : a # b => a \cap b = {}
  /\ Len(queue) < MaxBatchSize

\* _queueOperation: an operation queued before the batch timer has fired is run
\* in the end, so that again and again all of them have been (what is early stays so).
\* One queued later may rest until the queue fills up.
EarlyOperationsRun == []<>(\A o \in early : status[o] = "done")
=============================================================================
