---------------------------- MODULE MessageBatcher ----------------------------
(***************************************************************************)
(* src/mcp/server/MessageBatcher.js: messages are collected in one batch   *)
(* per client and emitted when the batch is full, when the client's batch  *)
(* timer fires, or on request.                                             *)
(*                                                                         *)
(* The calls of addMessage for one client are chained on a promise (the    *)
(* client's entry of operationQueues): a call runs when the call before it *)
(* has settled.  A batch is the set of its messages: the array is sorted   *)
(* after every push, so the set and the comparator Before determine it.    *)
(* Emission is synchronous; what an operation does after an await is an    *)
(* action of its own.                                                      *)
(***************************************************************************)
EXTENDS Naturals, FiniteSets

CONSTANTS
  Clients,       \* client ids
  Ids,           \* message ids a caller may choose
  NoId,          \* the id of a message that validation rejects
  None,          \* "no such call"
  Ranks,         \* the priorityLevels in use, a subset of 1..3 (3 is high)
  BatchSize,     \* config.batchSize
  MaxCalls,      \* bound: number of addMessage calls of a behaviour
  MaxEmissions,  \* bound: processBatch stops when this many batches were emitted
  Ops            \* the other operations callers use: see OpNames

OpNames == {"remove", "flush", "process", "stop"}
Calls == 1..MaxCalls

ASSUME BatcherAssumption ==
  /\ NoId \notin Ids
  /\ None \notin Calls
  /\ Ranks \subseteq 1..3
  /\ BatchSize \in Nat \ {0}
  /\ MaxCalls \in Nat
  /\ MaxEmissions \in Nat
  /\ Ops \subseteq OpNames

VARIABLES
  request,   \* the arguments of each addMessage call, None before the call
  phase,     \* where each call is: see Phases
  prev,      \* the call whose promise a call is chained on
  tail,      \* operationQueues: the last call of the client's chain
  batches,   \* batches: the client's messages, {} when it has no batch
  timers,    \* timers: no entry, a timer that is set, an entry whose timer has fired
  nextSeq,   \* sequenceNumbers
  removing,  \* removeClient is awaiting its flush
  flushing,  \* flush is awaiting _flushBatch
  listening, \* the 'message' listener is registered (until stop)
  emitted,   \* history: each message emitted, with the number of its batch
  flushes,   \* history: number of batches emitted
  accepted,  \* history: number of messages put into a batch
  dropped,   \* history: the calls whose messages were deleted, or emitted to no one
  cut        \* history: the clients whose chain was deleted

callVars    == <<request, prev>>
historyVars == <<emitted, flushes, dropped>>
awaitVars   == <<removing, flushing>>
vars == <<request, phase, prev, tail, batches, timers, nextSeq, removing,
          flushing, listening, emitted, flushes, accepted, dropped, cut>>

Phases == {"unissued", "queued", "flushing", "ok", "failed"}
Request == [client : Clients, id : Ids \cup {NoId}, rank : 1..3]
Message == [call : Calls, client : Clients, id : Ids, rank : 1..3,
            seq : Nat, stamp : Nat \ {0}]
Emission == [msg : Message, batch : Nat, kept : BOOLEAN]

-----------------------------------------------------------------------------
(* Operators named after a defect (TimerKept, EmitFirst, ...) are wrong    *)
(* variants of the definition that follows them: Next does not use them;   *)
(* they serve to check that the properties notice the defect.              *)

\* The comparator of the sort in addMessage.
Before(a, b) == a.rank > b.rank \/ (a.rank = b.rank /\ a.seq < b.seq)

\* The batch is due by its size.
Due(b) == Cardinality(b) >= BatchSize

\* The client's timers entry after _startBatchTimer.
TimerKept(t) == IF t = "none" THEN "set" ELSE t
TimerStarted(t) == "set"

\* _processMessages emits one message per message id of the batch.
EmitFirst(b) == {m \in b : \A x \in b \ {m} : Before(m, x)}
Deduplicated(b) == {m \in b : ~ \E x \in b : x.id = m.id /\ Before(x, m)}

\* The calls that added the messages of a batch.
CallsOf(b) == {m.call : m \in b}

\* Emission of batch b, which is kept or not: the flush a message belongs to,
\* and Before inside it, are the order of emission.  No one hears it after stop.
Emit(b, kept) ==
  /\ flushes' = flushes + 1
  /\ emitted' = IF listening
                THEN emitted \cup {[msg |-> m, batch |-> flushes, kept |-> kept] :
                                     m \in Deduplicated(b)}
                ELSE emitted
  /\ dropped' = IF listening \/ kept THEN dropped ELSE dropped \cup CallsOf(b)

\* The synchronous part of _flushBatch, for client c with the non-empty batch b.
FlushKeepingLast(c, b) ==
  /\ batches' = [batches EXCEPT ![c] = {m \in b : \A x \in b : x.stamp <= m.stamp}]
  /\ timers' = [timers EXCEPT ![c] = "none"]
  /\ Emit(b, FALSE)
Flush(c, b) ==
  /\ batches' = [batches EXCEPT ![c] = {}]
  /\ timers' = [timers EXCEPT ![c] = "none"]
  /\ Emit(b, FALSE)

-----------------------------------------------------------------------------
Init ==
  /\ request = [k \in Calls |-> None]
  /\ phase = [k \in Calls |-> "unissued"]
  /\ prev = [k \in Calls |-> None]
  /\ tail = [c \in Clients |-> None]
  /\ batches = [c \in Clients |-> {}]
  /\ timers = [c \in Clients |-> "none"]
  /\ nextSeq = [c \in Clients |-> 0]
  /\ removing = [c \in Clients |-> FALSE]
  /\ flushing = [c \in Clients |-> FALSE]
  /\ listening = TRUE
  /\ emitted = {}
  /\ flushes = 0
  /\ accepted = 0
  /\ dropped = {}
  /\ cut = {}

\* The requests callers make; a rejected one has no id and an arbitrary rank.
Requests == [client : Clients, id : Ids, rank : Ranks]
              \cup [client : Clients, id : {NoId}, rank : {1}]

\* _enqueueOperation: the call is chained on the tail of its client's queue.
SharedQueue(k, c) ==
  /\ prev' = [prev EXCEPT ![k] = tail[c]]
  /\ tail' = [d \in Clients |-> k]
UnchainedQueue(k, c) ==
  /\ prev' = [prev EXCEPT ![k] = None]
  /\ tail' = [tail EXCEPT ![c] = k]
EnqueueOperation(k, c) ==
  /\ prev' = [prev EXCEPT ![k] = tail[c]]
  /\ tail' = [tail EXCEPT ![c] = k]

\* addMessage is called; nothing but the chain changes until a microtask runs.
AddMessage(k) ==
  /\ phase[k] = "unissued"
  /\ \A j \in Calls : j < k => phase[j] # "unissued"
  /\ \E r \in Requests :
       /\ request' = [request EXCEPT ![k] = r]
       /\ EnqueueOperation(k, r.client)
  /\ phase' = [phase EXCEPT ![k] = "queued"]
  /\ UNCHANGED <<batches, timers, nextSeq, awaitVars, listening, historyVars, accepted, cut>>

\* The state of the promise call k is chained on.
Fulfilled(k) == prev[k] \in {None} \cup {j \in Calls : phase[j] = "ok"}
Rejected(k)  == prev[k] \in {j \in Calls : phase[j] = "failed"}

\* The call's promise is rejected: the operation throws in validation, or the
\* promise it is chained on was rejected and the operation never runs.
RejectInvalidOnly(k) ==
  /\ phase[k] = "queued"
  /\ Fulfilled(k) /\ request[k].id = NoId
  /\ phase' = [phase EXCEPT ![k] = "failed"]
  /\ UNCHANGED <<callVars, tail, batches, timers, nextSeq, awaitVars, listening,
                 historyVars, accepted, cut>>
RejectCall(k) ==
  /\ phase[k] = "queued"
  /\ Rejected(k) \/ (Fulfilled(k) /\ request[k].id = NoId)
  /\ phase' = [phase EXCEPT ![k] = "failed"]
  /\ UNCHANGED <<callVars, tail, batches, timers, nextSeq, awaitVars, listening,
                 historyVars, accepted, cut>>

\* The message call k adds, with the client's next sequence number.
NewMessage(k) ==
  [call |-> k, client |-> request[k].client, id |-> request[k].id,
   rank |-> request[k].rank, seq |-> nextSeq[request[k].client],
   stamp |-> accepted + 1]

\* The operation of addMessage up to its end, or up to the await of its flush.
AcceptCall(k) ==
  /\ phase[k] = "queued"
  /\ Fulfilled(k)
  /\ request[k].id # NoId
  /\ LET c == request[k].client
         b == batches[c] \cup {NewMessage(k)}
     IN /\ nextSeq' = [nextSeq EXCEPT ![c] = @ + 1]
        /\ \/ /\ Due(b)
              /\ Flush(c, b)
              /\ phase' = [phase EXCEPT ![k] = "flushing"]
           \/ /\ ~ Due(b)
              /\ batches' = [batches EXCEPT ![c] = b]
              /\ timers' = [timers EXCEPT ![c] = TimerStarted(timers[c])]
              /\ phase' = [phase EXCEPT ![k] = "ok"]
              /\ UNCHANGED historyVars
  /\ accepted' = accepted + 1
  /\ UNCHANGED <<callVars, tail, awaitVars, listening, cut>>

\* addMessage resumes after its flush: _flushBatch swallows every error.
SettleCall(k) ==
  /\ phase[k] = "flushing"
  /\ phase' = [phase EXCEPT ![k] = "ok"]
  /\ UNCHANGED <<callVars, tail, batches, timers, nextSeq, awaitVars, listening,
                 historyVars, accepted, cut>>

\* No microtask is left: every call that runs has settled and nothing awaits.
Quiescent ==
  /\ \A k \in Calls : phase[k] \notin {"queued", "flushing"}
  /\ \A c \in Clients : ~ removing[c] /\ ~ flushing[c]

\* The callback of setTimeout.  Timers fire between tasks, when no microtask
\* is left.  Without a batch it returns and leaves its entry in timers.
TimerFires(c) ==
  /\ timers[c] = "set"
  /\ Quiescent
  /\ \/ /\ batches[c] # {}
        /\ Flush(c, batches[c])
     \/ /\ batches[c] = {}
        /\ timers' = [timers EXCEPT ![c] = "fired"]
        /\ UNCHANGED <<batches, historyVars>>
  /\ UNCHANGED <<callVars, phase, tail, nextSeq, awaitVars, listening, accepted, cut>>

\* removeClient forgets the client.
ForgetAllButBatch(c) ==
  /\ UNCHANGED <<batches, dropped>>
  /\ tail' = [tail EXCEPT ![c] = None]
  /\ nextSeq' = [nextSeq EXCEPT ![c] = 0]
  /\ cut' = cut \cup {c}
Forget(c) ==
  /\ batches' = [batches EXCEPT ![c] = {}]
  /\ tail' = [tail EXCEPT ![c] = None]
  /\ nextSeq' = [nextSeq EXCEPT ![c] = 0]
  /\ dropped' = dropped \cup CallsOf(batches[c])
  /\ cut' = cut \cup {c}

\* removeClient of a client without a batch runs to its end.
RemoveIdleClient(c) ==
  /\ "remove" \in Ops
  /\ batches[c] = {}
  /\ timers' = [timers EXCEPT ![c] = "none"]
  /\ Forget(c)
  /\ UNCHANGED <<callVars, phase, awaitVars, listening, emitted, flushes, accepted>>

\* removeClient of a client with a batch flushes it and awaits (bound: one
\* removal of a client awaits at a time).
RemoveClient(c) ==
  /\ "remove" \in Ops
  /\ ~ removing[c]
  /\ batches[c] # {}
  /\ Flush(c, batches[c])
  /\ removing' = [removing EXCEPT ![c] = TRUE]
  /\ UNCHANGED <<callVars, phase, tail, nextSeq, flushing, listening, accepted, cut>>

\* ... and deletes what the client has by then; its timer stays.
FinishRemove(c) ==
  /\ removing[c]
  /\ removing' = [removing EXCEPT ![c] = FALSE]
  /\ Forget(c)
  /\ UNCHANGED <<callVars, phase, timers, flushing, listening, emitted, flushes, accepted>>

\* flush(clientId) up to the await (bound: one per client at a time).
ManualFlush(c) ==
  /\ "flush" \in Ops
  /\ ~ flushing[c]
  /\ \/ /\ batches[c] # {}
        /\ Flush(c, batches[c])
     \/ /\ batches[c] = {}
        /\ UNCHANGED <<batches, timers, historyVars>>
  /\ flushing' = [flushing EXCEPT ![c] = TRUE]
  /\ UNCHANGED <<callVars, phase, tail, nextSeq, removing, listening, accepted, cut>>

\* ... and deletes the batch the client has by then.
FinishManualFlush(c) ==
  /\ flushing[c]
  /\ flushing' = [flushing EXCEPT ![c] = FALSE]
  /\ batches' = [batches EXCEPT ![c] = {}]
  /\ dropped' = dropped \cup CallsOf(batches[c])
  /\ UNCHANGED <<callVars, phase, tail, timers, nextSeq, removing, listening,
                 emitted, flushes, accepted, cut>>

\* processBatch(undefined, clientId) emits the batch; _processBatch then throws
\* (this.metrics has no record method) before it deletes anything.
ProcessBatch(c) ==
  /\ "process" \in Ops
  /\ flushes < MaxEmissions
  /\ batches[c] # {}
  /\ Emit(batches[c], TRUE)
  /\ UNCHANGED <<callVars, phase, tail, batches, timers, nextSeq, awaitVars,
                 listening, accepted, cut>>

\* stop: every map is cleared, every timer cancelled, the listeners removed;
\* calls that are chained or awaiting go on (bound: stop is called once).
Stop ==
  /\ "stop" \in Ops
  /\ listening
  /\ listening' = FALSE
  /\ batches' = [c \in Clients |-> {}]
  /\ timers' = [c \in Clients |-> "none"]
  /\ tail' = [c \in Clients |-> None]
  /\ nextSeq' = [c \in Clients |-> 0]
  /\ dropped' = dropped \cup UNION {CallsOf(batches[c]) : c \in Clients}
  /\ cut' = Clients
  /\ UNCHANGED <<callVars, phase, awaitVars, emitted, flushes, accepted>>

CallStep(k) == AddMessage(k) \/ RejectCall(k) \/ AcceptCall(k) \/ SettleCall(k)

ClientStep(c) ==
  \/ TimerFires(c)
  \/ RemoveIdleClient(c) \/ RemoveClient(c) \/ FinishRemove(c)
  \/ ManualFlush(c) \/ FinishManualFlush(c)
  \/ ProcessBatch(c)

Next ==
  \/ \E k \in Calls : CallStep(k)
  \/ \E c \in Clients : ClientStep(c)
  \/ Stop

Spec == Init /\ [][Next]_vars

\* The event loop drains the microtask queue, and fires every timer that stays
\* set however often microtasks run in between.
Fairness ==
  /\ \A k \in Calls : WF_vars(RejectCall(k) \/ AcceptCall(k) \/ SettleCall(k))
  /\ \A c \in Clients : /\ SF_vars(TimerFires(c))
                        /\ WF_vars(FinishRemove(c))
                        /\ WF_vars(FinishManualFlush(c))

FairSpec == Spec /\ Fairness

-----------------------------------------------------------------------------
\* The variables have their types, and a client's chain ends in a call of its own.
TypeOK ==
  /\ request \in [Calls -> Request \cup {None}]
  /\ phase \in [Calls -> Phases]
  /\ prev \in [Calls -> Calls \cup {None}]
  /\ tail \in [Clients -> Calls \cup {None}]
  /\ batches \in [Clients -> SUBSET Message]
  /\ timers \in [Clients -> {"none", "set", "fired"}]
  /\ nextSeq \in [Clients -> Nat]
  /\ removing \in [Clients -> BOOLEAN]
  /\ flushing \in [Clients -> BOOLEAN]
  /\ listening \in BOOLEAN
  /\ emitted \in SUBSET Emission
  /\ flushes \in Nat
  /\ accepted \in Nat
  /\ dropped \in SUBSET Calls
  /\ cut \in SUBSET Clients
  /\ \A k \in Calls : phase[k] # "unissued" => request[k] \in Request
  /\ \A c \in Clients : tail[c] # None =>
       phase[tail[c]] # "unissued" /\ request[tail[c]].client = c

\* A client with pending messages has a timer that is set: whatever was done to
\* the batch, the timer or the client before, no batch is left without the
\* timeout of _startBatchTimer.
PendingHasTimer == \A c \in Clients : batches[c] # {} => timers[c] = "set"

\* Between two steps a batch is below config.batchSize: the size check of
\* addMessage catches every path by which a batch grows.
BatchBounded == \A c \in Clients : Cardinality(batches[c]) < BatchSize

\* What addMessage, the timer and the operations that take batches away keep: the
\* variables have their types, and every batch is small and has its timer.
BatchesGuarded == TypeOK /\ PendingHasTimer /\ BatchBounded

\* a is emitted before b.
EmittedBefore(a, b) ==
  a.batch < b.batch \/ (a.batch = b.batch /\ Before(a.msg, b.msg))

\* What flushes have emitted: processBatch emits a batch and keeps it.
Flushed == {e \in emitted : ~ e.kept}

\* Flushes emit the messages of one client and one priority in the order in
\* which addMessage accepted them, across size, timeout, removal and manual
\* flushes and although removeClient restarts the sequence numbers.
AcceptanceOrder ==
  \A e, f \in Flushed :
    /\ e.msg.client = f.msg.client
    /\ e.msg.rank = f.msg.rank
    /\ e.msg.stamp < f.msg.stamp
    => EmittedBefore(e, f)

\* ... and, for a client whose chain was never deleted (removeClient, stop), in
\* the order in which addMessage was called: the promise chain serialises the
\* calls.
CallOrder ==
  \A e, f \in Flushed :
    /\ e.msg.client = f.msg.client
    /\ e.msg.client \notin cut
    /\ e.msg.rank = f.msg.rank
    /\ e.msg.call < f.msg.call
    => EmittedBefore(e, f)

\* "Clear batch data before processing to prevent duplicate processing": no
\* message is flushed twice.
EmittedOnce == \A e, f \in Flushed : e.msg.call = f.msg.call => e = f

\* Flushes repeat nothing and keep the order of the calls (_enqueueOperation,
\* _flushBatch).
FlushedOnceInOrder == EmittedOnce /\ CallOrder

\* A call whose message was put into a batch.
Taken(k) == phase[k] \in {"flushing", "ok"}
Pending(k) == \E m \in batches[request[k].client] : m.call = k

\* The message of call k, or one with its client and id, was emitted.
Delivered(k) ==
  /\ request[k] # None
  /\ \E e \in emitted :
       e.msg.client = request[k].client /\ e.msg.id = request[k].id

\* No accepted message is dropped: it is pending, or it (or a message with its
\* id) was emitted ("Process any pending messages", removeClient).
NoLoss == \A k \in Calls : Taken(k) => Pending(k) \/ Delivered(k)

\* A call is rejected only because a message of the same client was invalid, at
\* this call or an earlier one: rejection spreads along a client's chain and
\* never to another client.
RejectionHasCause ==
  \A k \in Calls : phase[k] = "failed" =>
    \E j \in 1..k : request[j].client = request[k].client /\ request[j].id = NoId

\* Every call of addMessage settles: the chain of promises never stalls.
EveryCallSettles ==
  \A k \in Calls : phase[k] = "queued" ~> phase[k] \in {"ok", "failed"}

\* Every accepted message is emitted, or one with its client and id is - unless
\* removeClient, flush or stop drops it: no other step loses a message.
AcceptedIsDelivered == \A k \in Calls : Taken(k) ~> Delivered(k) \/ k \in dropped

\* The batcher as a channel: what its batches hold, what its listener has heard
\* and what it dropped.
Channel == INSTANCE MessageChannel WITH
  open <- listening,
  taken <- {k \in Calls : Taken(k)},
  pending <- [c \in Clients |-> {[call |-> m.call, id |-> m.id] : m \in batches[c]}],
  heard <- {<<e.msg.client, e.msg.id>> : e \in emitted},
  lost <- dropped

\* Every operation of the batcher is a step of the channel: a batch leaves as a
\* whole and once, whatever flushes it, and no batch waits for ever.
ImplementsChannel == Channel!FairSpec
=============================================================================
