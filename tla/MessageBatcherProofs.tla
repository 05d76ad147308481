------------------------- MODULE MessageBatcherProofs -------------------------
(***************************************************************************)
(* Theorems about MessageBatcher, for every set of clients and ids, every  *)
(* batch size and every number of calls.                                   *)
(***************************************************************************)
EXTENDS MessageBatcher, FiniteSetTheorems, WellFoundedInduction, TLAPS

-----------------------------------------------------------------------------
(* Types.                                                                  *)

\* The calls of a set of messages are calls.
LEMMA CallsOfType ==
  ASSUME NEW b \in SUBSET Message
  PROVE  CallsOf(b) \in SUBSET Calls
BY DEF CallsOf, Message

\* Emitting a set of messages keeps the history well typed.
LEMMA EmitType ==
  ASSUME emitted \in SUBSET Emission, flushes \in Nat,
         dropped \in SUBSET Calls,
         NEW b \in SUBSET Message, NEW kept \in BOOLEAN, Emit(b, kept)
  PROVE  emitted' \in SUBSET Emission /\ flushes' \in Nat /\ dropped' \in SUBSET Calls
<1>1. \A m \in Deduplicated(b) : [msg |-> m, batch |-> flushes, kept |-> kept] \in Emission
  BY DEF Deduplicated, Emission
<1>2. CallsOf(b) \in SUBSET Calls
  BY CallsOfType
<1> QED
  BY <1>1, <1>2 DEF Emit

\* The message an accepted call adds is a Message of its client.
LEMMA NewMessageType ==
  ASSUME TypeOK, NEW k \in Calls, phase[k] = "queued", request[k].id # NoId
  PROVE  /\ request[k] \in Request
         /\ request[k].client \in Clients
         /\ NewMessage(k) \in Message
<1>1. request[k] \in Request
  BY DEF TypeOK
<1>2. /\ request[k].client \in Clients
      /\ request[k].id \in Ids
      /\ request[k].rank \in 1..3
  BY <1>1 DEF Request
<1>3. nextSeq[request[k].client] \in Nat /\ accepted + 1 \in Nat \ {0}
  BY <1>2 DEF TypeOK
<1> QED
  BY <1>1, <1>2, <1>3 DEF NewMessage, Message

\* A flush keeps the types of what it changes.
LEMMA FlushType ==
  ASSUME TypeOK, NEW c \in Clients, NEW b \in SUBSET Message, Flush(c, b)
  PROVE  /\ batches' \in [Clients -> SUBSET Message]
         /\ timers' \in [Clients -> {"none", "set", "fired"}]
         /\ emitted' \in SUBSET Emission
         /\ flushes' \in Nat
         /\ dropped' \in SUBSET Calls
<1>1. emitted' \in SUBSET Emission /\ flushes' \in Nat /\ dropped' \in SUBSET Calls
  BY EmitType DEF Flush, TypeOK
<1> QED
  BY <1>1 DEF Flush, TypeOK

LEMMA InitType == Init => TypeOK
BY BatcherAssumption DEF Init, TypeOK, Phases

LEMMA NextType == TypeOK /\ [Next]_vars => TypeOK'
<1> SUFFICES ASSUME TypeOK, [Next]_vars PROVE TypeOK'
  OBVIOUS
<1> USE DEF callVars, historyVars, awaitVars
<1>1. ASSUME NEW k \in Calls, AddMessage(k) PROVE TypeOK'
  <2>1. PICK r \in Requests : /\ request' = [request EXCEPT ![k] = r]
                              /\ EnqueueOperation(k, r.client)
    BY <1>1 DEF AddMessage
  <2>2. r \in Request /\ r.client \in Clients
    <3>1. CASE r \in [client : Clients, id : Ids, rank : Ranks]
      <4>1. r.rank \in 1..3
        BY <3>1, BatcherAssumption
      <4>2. r = [client |-> r.client, id |-> r.id, rank |-> r.rank]
        BY <3>1
      <4> QED
        BY <3>1, <4>1, <4>2 DEF Request
    <3>2. CASE r \in [client : Clients, id : {NoId}, rank : {1}]
      BY <3>2 DEF Request
    <3> QED
      BY <3>1, <3>2 DEF Requests
  <2>3. /\ request' \in [Calls -> Request \cup {None}]
        /\ prev' \in [Calls -> Calls \cup {None}]
        /\ tail' \in [Clients -> Calls \cup {None}]
    BY <2>1, <2>2 DEF TypeOK, EnqueueOperation
  <2>4. phase' = [phase EXCEPT ![k] = "queued"] /\ phase' \in [Calls -> Phases]
    BY <1>1 DEF AddMessage, TypeOK, Phases
  <2>5. \A j \in Calls : phase'[j] # "unissued" => request'[j] \in Request
    BY <2>1, <2>2, <2>4 DEF TypeOK
  <2>6. \A c \in Clients : tail'[c] # None =>
          phase'[tail'[c]] # "unissued" /\ request'[tail'[c]].client = c
    <3>1. TAKE c \in Clients
    <3>2. HAVE tail'[c] # None
    <3>3. CASE c = r.client
      BY <3>3, <2>1, <2>2, <2>4 DEF TypeOK, EnqueueOperation
    <3>4. CASE c # r.client
      <4>1. tail'[c] = tail[c] /\ tail[c] \in Calls /\ phase[tail[c]] # "unissued"
            /\ request[tail[c]].client = c
        BY <3>2, <3>4, <2>1 DEF TypeOK, EnqueueOperation
      <4>2. tail[c] # k
        BY <4>1, <1>1 DEF AddMessage
      <4> QED
        BY <4>1, <4>2, <2>1, <2>4 DEF TypeOK
    <3> QED
      BY <3>3, <3>4
  <2> QED
    BY <1>1, <2>3, <2>4, <2>5, <2>6 DEF AddMessage, TypeOK
<1>2. ASSUME NEW k \in Calls, RejectCall(k) PROVE TypeOK'
  BY <1>2 DEF RejectCall, TypeOK, Phases
<1>3. ASSUME NEW k \in Calls, AcceptCall(k) PROVE TypeOK'
  <2> DEFINE c == request[k].client
             b == batches[c] \cup {NewMessage(k)}
  <2>1. c \in Clients /\ NewMessage(k) \in Message
    BY <1>3, NewMessageType DEF AcceptCall
  <2>2. b \in SUBSET Message
    BY <2>1 DEF TypeOK
  <2>3. /\ nextSeq' \in [Clients -> Nat]
        /\ accepted' \in Nat
        /\ UNCHANGED <<request, prev, tail, removing, flushing, listening, cut>>
    BY <1>3, <2>1 DEF AcceptCall, TypeOK
  <2>4. /\ phase' \in [Calls -> Phases]
        /\ \A j \in Calls : phase'[j] = "unissued" <=> phase[j] = "unissued"
    BY <1>3 DEF AcceptCall, TypeOK, Phases
  <2>5. /\ batches' \in [Clients -> SUBSET Message]
        /\ timers' \in [Clients -> {"none", "set", "fired"}]
        /\ emitted' \in SUBSET Emission
        /\ flushes' \in Nat
        /\ dropped' \in SUBSET Calls
    <3>1. CASE Flush(c, b)
      BY <3>1, <2>1, <2>2, FlushType
    <3>2. CASE /\ batches' = [batches EXCEPT ![c] = b]
               /\ timers' = [timers EXCEPT ![c] = TimerStarted(timers[c])]
               /\ UNCHANGED <<emitted, flushes, dropped>>
      BY <3>2, <2>1, <2>2 DEF TypeOK, TimerStarted
    <3> QED
      BY <1>3, <3>1, <3>2 DEF AcceptCall
  <2> QED
    BY <2>3, <2>4, <2>5 DEF TypeOK
<1>4. ASSUME NEW k \in Calls, SettleCall(k) PROVE TypeOK'
  BY <1>4 DEF SettleCall, TypeOK, Phases
<1>5. ASSUME NEW c \in Clients, TimerFires(c) PROVE TypeOK'
  <2>1. /\ batches' \in [Clients -> SUBSET Message]
        /\ timers' \in [Clients -> {"none", "set", "fired"}]
        /\ emitted' \in SUBSET Emission
        /\ flushes' \in Nat
        /\ dropped' \in SUBSET Calls
    <3>1. CASE Flush(c, batches[c])
      BY <3>1, FlushType DEF TypeOK
    <3>2. CASE /\ timers' = [timers EXCEPT ![c] = "fired"]
               /\ UNCHANGED <<batches, emitted, flushes, dropped>>
      BY <3>2 DEF TypeOK
    <3> QED
      BY <1>5, <3>1, <3>2 DEF TimerFires
  <2> QED
    BY <1>5, <2>1 DEF TimerFires, TypeOK
<1>6. ASSUME NEW c \in Clients, RemoveIdleClient(c) PROVE TypeOK'
  <2>1. dropped' \in SUBSET Calls
    BY <1>6, CallsOfType DEF RemoveIdleClient, Forget, TypeOK
  <2> QED
    BY <1>6, <2>1 DEF RemoveIdleClient, Forget, TypeOK
<1>7. ASSUME NEW c \in Clients, RemoveClient(c) PROVE TypeOK'
  <2>1. Flush(c, batches[c]) /\ batches[c] \in SUBSET Message
    BY <1>7 DEF RemoveClient, TypeOK
  <2> QED
    BY <1>7, <2>1, FlushType DEF RemoveClient, TypeOK
<1>8. ASSUME NEW c \in Clients, FinishRemove(c) PROVE TypeOK'
  <2>1. dropped' \in SUBSET Calls
    BY <1>8, CallsOfType DEF FinishRemove, Forget, TypeOK
  <2> QED
    BY <1>8, <2>1 DEF FinishRemove, Forget, TypeOK
<1>9. ASSUME NEW c \in Clients, ManualFlush(c) PROVE TypeOK'
  <2>1. batches[c] \in SUBSET Message
    BY DEF TypeOK
  <2>2. CASE Flush(c, batches[c])
    BY <1>9, <2>1, <2>2, FlushType DEF ManualFlush, TypeOK
  <2>3. CASE UNCHANGED <<batches, timers, emitted, flushes, dropped>>
    BY <1>9, <2>3 DEF ManualFlush, TypeOK
  <2> QED
    BY <1>9, <2>2, <2>3 DEF ManualFlush
<1>10. ASSUME NEW c \in Clients, FinishManualFlush(c) PROVE TypeOK'
  <2>1. dropped' \in SUBSET Calls
    BY <1>10, CallsOfType DEF FinishManualFlush, TypeOK
  <2> QED
    BY <1>10, <2>1 DEF FinishManualFlush, TypeOK
<1>11. ASSUME NEW c \in Clients, ProcessBatch(c) PROVE TypeOK'
  <2>1. emitted' \in SUBSET Emission /\ flushes' \in Nat /\ dropped' \in SUBSET Calls
    BY <1>11, EmitType DEF ProcessBatch, TypeOK
  <2> QED
    BY <1>11, <2>1 DEF ProcessBatch, TypeOK
<1>12. CASE Stop
  <2>1. \A c \in Clients : CallsOf(batches[c]) \in SUBSET Calls
    BY CallsOfType DEF TypeOK
  <2>2. dropped' \in SUBSET Calls
    BY <1>12, <2>1 DEF Stop, TypeOK
  <2> QED
    BY <1>12, <2>2 DEF Stop, TypeOK
<1>13. CASE UNCHANGED vars
  BY <1>13 DEF vars, TypeOK
<1> QED
  BY <1>1, <1>2, <1>3, <1>4, <1>5, <1>6, <1>7, <1>8, <1>9, <1>10, <1>11, <1>12, <1>13
  DEF Next, CallStep, ClientStep

\* Every reachable state is well typed, and the tail of a client's chain is one
\* of the client's own calls.
THEOREM TypeCorrect == Spec => []TypeOK
<1> QED
  BY InitType, NextType, PTL DEF Spec

-----------------------------------------------------------------------------
(* Timers and the size of a batch.                                         *)

\* Every batch is finite and smaller than BatchSize.
BoundInv == \A c \in Clients : IsFiniteSet(batches[c]) /\ Cardinality(batches[c]) < BatchSize

LEMMA InitTimerBound == Init => PendingHasTimer /\ BoundInv
<1> SUFFICES ASSUME Init PROVE PendingHasTimer /\ BoundInv
  OBVIOUS
<1>1. Cardinality({}) = 0 /\ IsFiniteSet({})
  BY FS_EmptySet
<1> QED
  BY <1>1, BatcherAssumption DEF Init, PendingHasTimer, BoundInv

LEMMA NextTimerBound ==
  TypeOK /\ PendingHasTimer /\ BoundInv /\ [Next]_vars => PendingHasTimer' /\ BoundInv'
<1> SUFFICES ASSUME TypeOK, PendingHasTimer, BoundInv, [Next]_vars
             PROVE  PendingHasTimer' /\ BoundInv'
  OBVIOUS
<1> DEFINE Cleared(c) == batches' = [batches EXCEPT ![c] = {}]
           Same == UNCHANGED <<batches, timers>>
<1>1. Cardinality({}) = 0 /\ IsFiniteSet({}) /\ 0 < BatchSize
  BY FS_EmptySet, BatcherAssumption
<1>2. ASSUME Same PROVE PendingHasTimer' /\ BoundInv'
  BY <1>2 DEF PendingHasTimer, BoundInv
<1>3. ASSUME NEW c \in Clients, Cleared(c),
             \A d \in Clients : d # c => timers'[d] = timers[d]
      PROVE  PendingHasTimer' /\ BoundInv'
  BY <1>1, <1>3 DEF PendingHasTimer, BoundInv, TypeOK
<1>4. ASSUME NEW c \in Clients, NEW b, Flush(c, b) PROVE PendingHasTimer' /\ BoundInv'
  BY <1>3, <1>4 DEF Flush, TypeOK
<1>5. ASSUME NEW k \in Calls, AcceptCall(k) PROVE PendingHasTimer' /\ BoundInv'
  <2> DEFINE c == request[k].client
             b == batches[c] \cup {NewMessage(k)}
  <2>1. c \in Clients
    BY <1>5, NewMessageType DEF AcceptCall
  <2>2. CASE Flush(c, b)
    BY <1>4, <2>1, <2>2
  <2>3. CASE /\ ~ Due(b)
             /\ batches' = [batches EXCEPT ![c] = b]
             /\ timers' = [timers EXCEPT ![c] = TimerStarted(timers[c])]
    <3>1. IsFiniteSet(b)
      BY <2>1, FS_AddElement DEF BoundInv
    <3>2. Cardinality(b) < BatchSize
      <4>1. Cardinality(b) \in Nat
        BY <3>1, FS_CardinalityType
      <4> QED
        BY <4>1, <2>3, BatcherAssumption DEF Due
    <3>3. timers'[c] = "set" /\ \A d \in Clients : d # c => timers'[d] = timers[d]
      BY <2>1, <2>3 DEF TypeOK, TimerStarted
    <3>4. batches'[c] = b /\ \A d \in Clients : d # c => batches'[d] = batches[d]
      BY <2>1, <2>3 DEF TypeOK
    <3> QED
      BY <3>1, <3>2, <3>3, <3>4 DEF PendingHasTimer, BoundInv
  <2> QED
    BY <1>5, <2>2, <2>3 DEF AcceptCall
<1>6. ASSUME NEW c \in Clients, TimerFires(c) PROVE PendingHasTimer' /\ BoundInv'
  <2>1. CASE Flush(c, batches[c])
    BY <1>4, <2>1
  <2>2. CASE /\ batches[c] = {}
             /\ timers' = [timers EXCEPT ![c] = "fired"]
             /\ batches' = batches
    BY <2>2 DEF PendingHasTimer, BoundInv, TypeOK
  <2> QED
    BY <1>6, <2>1, <2>2 DEF TimerFires, historyVars
<1>7. ASSUME NEW c \in Clients, RemoveIdleClient(c) PROVE PendingHasTimer' /\ BoundInv'
  BY <1>3, <1>7 DEF RemoveIdleClient, Forget, TypeOK
<1>8. ASSUME NEW c \in Clients, RemoveClient(c) PROVE PendingHasTimer' /\ BoundInv'
  BY <1>4, <1>8 DEF RemoveClient
<1>9. ASSUME NEW c \in Clients, FinishRemove(c) PROVE PendingHasTimer' /\ BoundInv'
  BY <1>3, <1>9 DEF FinishRemove, Forget
<1>10. ASSUME NEW c \in Clients, ManualFlush(c) PROVE PendingHasTimer' /\ BoundInv'
  BY <1>2, <1>4, <1>10 DEF ManualFlush
<1>11. ASSUME NEW c \in Clients, FinishManualFlush(c) PROVE PendingHasTimer' /\ BoundInv'
  BY <1>3, <1>11 DEF FinishManualFlush
<1>12. CASE Stop
  BY <1>1, <1>12 DEF Stop, PendingHasTimer, BoundInv
<1>13. ASSUME NEW k \in Calls, AddMessage(k) \/ RejectCall(k) \/ SettleCall(k)
       PROVE  PendingHasTimer' /\ BoundInv'
  BY <1>2, <1>13 DEF AddMessage, RejectCall, SettleCall
<1>14. ASSUME NEW c \in Clients, ProcessBatch(c) PROVE PendingHasTimer' /\ BoundInv'
  BY <1>2, <1>14 DEF ProcessBatch
<1>15. CASE UNCHANGED vars
  BY <1>2, <1>15 DEF vars
<1> QED
  BY <1>5, <1>6, <1>7, <1>8, <1>9, <1>10, <1>11, <1>12, <1>13, <1>14, <1>15
  DEF Next, CallStep, ClientStep

\* No batch is ever without a timer that is set to flush it.
THEOREM PendingHasTimerAlways == Spec => []PendingHasTimer
<1> QED
  BY InitType, NextType, InitTimerBound, NextTimerBound, PTL DEF Spec

\* No batch ever holds config.batchSize messages between two steps.
THEOREM BatchBoundedAlways == Spec => []BatchBounded
<1>1. BoundInv => BatchBounded
  BY DEF BoundInv, BatchBounded
<1> QED
  BY <1>1, InitType, NextType, InitTimerBound, NextTimerBound, PTL DEF Spec

-----------------------------------------------------------------------------
(* The order in which flushes emit.                                        *)

\* The messages of b are client c's; sequence numbers are below n, stamps at
\* most a, and sequence numbers follow the order of acceptance.
SoundBatch(c, b, n, a) ==
  /\ \A m \in b : m.client = c /\ m.seq < n /\ m.stamp <= a
  /\ \A m, p \in b : m.stamp < p.stamp => m.seq < p.seq

\* What was flushed for client c was accepted before the messages of b.
AfterFlushed(c, b) ==
  \A e \in Flushed : e.msg.client = c => \A m \in b : e.msg.stamp < m.stamp

OrderInv ==
  /\ \A c \in Clients : /\ SoundBatch(c, batches[c], nextSeq[c], accepted)
                        /\ AfterFlushed(c, batches[c])
  /\ \A e \in Flushed : e.batch < flushes /\ e.msg.stamp <= accepted
  /\ AcceptanceOrder

\* Emitting a sound batch keeps the order of everything emitted.
LEMMA EmitOrder ==
  ASSUME TypeOK, OrderInv, NEW c \in Clients, NEW b \in SUBSET Message,
         NEW n \in Nat, NEW a \in Nat, accepted <= a,
         SoundBatch(c, b, n, a), AfterFlushed(c, b), Emit(b, FALSE)
  PROVE  /\ \A e \in Flushed' : e.batch < flushes' /\ e.msg.stamp <= a
         /\ \A e \in Flushed' : e \in Flushed \/ e.msg.client = c
         /\ AcceptanceOrder'
<1> DEFINE new == {[msg |-> m, batch |-> flushes, kept |-> FALSE] : m \in Deduplicated(b)}
<1>1. /\ \A e \in new : e.batch = flushes /\ e.msg \in b
      /\ \A e \in Flushed' : e \in Flushed \/ e \in new
      /\ flushes' = flushes + 1
  BY DEF Emit, Deduplicated, Flushed
<1>2. flushes \in Nat /\ accepted \in Nat
      /\ \A e \in Flushed : e.batch \in Nat /\ e.msg \in Message
  BY DEF TypeOK, Emission, Flushed
<1>3. \A m \in Message : m.stamp \in Nat /\ m.seq \in Nat /\ m.rank \in Nat
  BY DEF Message
<1>4. \A e \in Flushed : e.batch < flushes /\ e.msg.stamp <= accepted
  BY DEF OrderInv
<1>5. \A e \in Flushed' : e.batch < flushes' /\ e.msg.stamp <= a
  BY <1>1, <1>2, <1>3, <1>4 DEF SoundBatch
<1>6. \A e \in Flushed' : e \in Flushed \/ e.msg.client = c
  BY <1>1 DEF SoundBatch
<1>7. ASSUME NEW e \in Flushed', NEW f \in Flushed', e.msg.client = f.msg.client,
             e.msg.rank = f.msg.rank, e.msg.stamp < f.msg.stamp
      PROVE  EmittedBefore(e, f)
  <2>1. CASE e \in Flushed /\ f \in Flushed
    BY <1>7, <2>1 DEF OrderInv, AcceptanceOrder
  <2>2. CASE e \in Flushed /\ f \in new
    BY <1>1, <1>2, <1>4, <2>2 DEF EmittedBefore
  <2>3. CASE e \in new /\ f \in Flushed
    <3>1. e.msg \in b /\ f.msg.client = c
      BY <1>1, <1>7, <2>3 DEF SoundBatch
    <3>2. f.msg.stamp < e.msg.stamp
      BY <2>3, <3>1 DEF AfterFlushed
    <3>3. e.msg \in Message /\ f.msg \in Message
      BY <1>2, <2>3, <3>1
    <3> QED
      BY <1>3, <1>7, <3>2, <3>3
  <2>4. CASE e \in new /\ f \in new
    <3>1. e.msg \in b /\ f.msg \in b /\ e.batch = f.batch
      BY <1>1, <2>4
    <3>2. e.msg.seq < f.msg.seq
      BY <1>7, <3>1 DEF SoundBatch
    <3> QED
      BY <1>7, <3>1, <3>2 DEF EmittedBefore, Before
  <2> QED
    BY <1>1, <2>1, <2>2, <2>3, <2>4
<1> QED
  BY <1>5, <1>6, <1>7 DEF AcceptanceOrder, EmittedBefore

\* The batch an accepted message joins is sound, and after all that was emitted.
LEMMA JoinedBatch ==
  ASSUME TypeOK, OrderInv, NEW k \in Calls, phase[k] = "queued", request[k].id # NoId
  PROVE  LET c == request[k].client
             b == batches[c] \cup {NewMessage(k)}
         IN /\ c \in Clients
            /\ b \in SUBSET Message
            /\ SoundBatch(c, b, nextSeq[c] + 1, accepted + 1)
            /\ AfterFlushed(c, b)
<1> DEFINE c == request[k].client
           b == batches[c] \cup {NewMessage(k)}
<1>1. c \in Clients /\ NewMessage(k) \in Message
  BY NewMessageType
<1>2. b \in SUBSET Message
  BY <1>1 DEF TypeOK
<1>3. /\ NewMessage(k).client = c
      /\ NewMessage(k).seq = nextSeq[c]
      /\ NewMessage(k).stamp = accepted + 1
  BY DEF NewMessage
<1>4. nextSeq[c] \in Nat /\ accepted \in Nat
  BY <1>1 DEF TypeOK
<1>5. \A m \in b : m.stamp \in Nat /\ m.seq \in Nat
  BY <1>2 DEF Message
<1>6. SoundBatch(c, batches[c], nextSeq[c], accepted) /\ AfterFlushed(c, batches[c])
  BY <1>1 DEF OrderInv
<1>7. \A e \in Flushed : e.msg.stamp <= accepted /\ e.msg.stamp \in Nat
  BY DEF OrderInv, TypeOK, Emission, Message, Flushed
<1>8. SoundBatch(c, b, nextSeq[c] + 1, accepted + 1)
  <2>1. \A m \in b : m.client = c /\ m.seq < nextSeq[c] + 1 /\ m.stamp <= accepted + 1
    BY <1>3, <1>4, <1>5, <1>6 DEF SoundBatch
  <2>2. ASSUME NEW m \in b, NEW p \in b, m.stamp < p.stamp PROVE m.seq < p.seq
    BY <1>3, <1>4, <1>5, <1>6, <2>2 DEF SoundBatch
  <2> QED
    BY <2>1, <2>2 DEF SoundBatch
<1>9. AfterFlushed(c, b)
  BY <1>3, <1>4, <1>6, <1>7 DEF AfterFlushed
<1> QED
  BY <1>1, <1>2, <1>8, <1>9

LEMMA InitOrder == Init => OrderInv
BY DEF Init, OrderInv, SoundBatch, AfterFlushed, AcceptanceOrder, Flushed

LEMMA NextOrder ==
  TypeOK /\ OrderInv /\ [Next]_vars => OrderInv'
<1> SUFFICES ASSUME TypeOK, OrderInv, [Next]_vars PROVE OrderInv'
  OBVIOUS
<1>1. \A c \in Clients : SoundBatch(c, {}, 0, accepted) /\ AfterFlushed(c, {})
  BY DEF SoundBatch, AfterFlushed
\* Steps that flush nothing and only empty batches, for one client or for all.
<1>2. ASSUME Flushed' = Flushed, flushes' \in Nat, flushes <= flushes', accepted' = accepted,
             \A c \in Clients : \/ batches'[c] = {}
                                \/ batches'[c] = batches[c] /\ nextSeq'[c] = nextSeq[c]
      PROVE  OrderInv'
  <2>1. flushes \in Nat /\ \A e \in Flushed : e.batch \in Nat
    BY DEF TypeOK, Emission, Flushed
  <2>2. \A e \in Flushed' : e.batch < flushes' /\ e.msg.stamp <= accepted'
    BY <1>2, <2>1 DEF OrderInv
  <2>3. \A c \in Clients : (SoundBatch(c, batches[c], nextSeq[c], accepted)
                              /\ AfterFlushed(c, batches[c]))'
    BY <1>2 DEF OrderInv, SoundBatch, AfterFlushed
  <2>4. AcceptanceOrder'
    BY <1>2 DEF OrderInv, AcceptanceOrder, EmittedBefore
  <2> QED
    BY <2>2, <2>3, <2>4 DEF OrderInv
<1>3. ASSUME UNCHANGED <<emitted, flushes, accepted>>,
             \A c \in Clients : \/ batches'[c] = {}
                                \/ batches'[c] = batches[c] /\ nextSeq'[c] = nextSeq[c]
      PROVE  OrderInv'
  <2>1. Flushed' = Flushed /\ flushes' \in Nat /\ flushes <= flushes'
    BY <1>3 DEF Flushed, TypeOK
  <2> QED
    BY <1>3, <1>2, <2>1
\* Steps that flush the batch of a client.
<1>4. ASSUME NEW c \in Clients, Flush(c, batches[c]), UNCHANGED <<nextSeq, accepted>>
      PROVE  OrderInv'
  <2>1. /\ batches[c] \in SUBSET Message /\ nextSeq[c] \in Nat /\ accepted \in Nat
        /\ accepted <= accepted
        /\ SoundBatch(c, batches[c], nextSeq[c], accepted)
        /\ AfterFlushed(c, batches[c])
    BY <1>4 DEF TypeOK, OrderInv
  <2>2. Emit(batches[c], FALSE)
    BY <1>4, Zenon DEF Flush
  <2>3. /\ \A e \in Flushed' : e.batch < flushes' /\ e.msg.stamp <= accepted
        /\ \A e \in Flushed' : e \in Flushed \/ e.msg.client = c
        /\ AcceptanceOrder'
    BY <2>1, <2>2, EmitOrder
  <2>4. ASSUME NEW d \in Clients
        PROVE  (SoundBatch(d, batches[d], nextSeq[d], accepted) /\ AfterFlushed(d, batches[d]))'
    <3>1. CASE d = c
      BY <1>4, <3>1 DEF Flush, TypeOK, SoundBatch, AfterFlushed
    <3>2. CASE d # c
      <4>1. batches'[d] = batches[d]
        BY <1>4, <3>2 DEF Flush, TypeOK
      <4> QED
        BY <1>4, <2>3, <3>2, <4>1 DEF OrderInv, SoundBatch, AfterFlushed
    <3> QED
      BY <3>1, <3>2
  <2> QED
    BY <1>4, <2>3, <2>4 DEF OrderInv
<1>5. ASSUME NEW k \in Calls, AcceptCall(k) PROVE OrderInv'
  <2> DEFINE c == request[k].client
             b == batches[c] \cup {NewMessage(k)}
  <2>1. /\ c \in Clients /\ b \in SUBSET Message
        /\ SoundBatch(c, b, nextSeq[c] + 1, accepted + 1) /\ AfterFlushed(c, b)
    BY <1>5, JoinedBatch DEF AcceptCall
  <2>2. /\ nextSeq'[c] = nextSeq[c] + 1 /\ accepted' = accepted + 1
        /\ \A d \in Clients : d # c => nextSeq'[d] = nextSeq[d] /\ batches'[d] = batches[d]
        /\ nextSeq[c] \in Nat /\ accepted \in Nat
    BY <1>5, <2>1 DEF AcceptCall, Flush, TypeOK
  <2>3. \A d \in Clients : d # c => SoundBatch(d, batches'[d], nextSeq'[d], accepted')
    BY <2>2 DEF OrderInv, SoundBatch, TypeOK, Message
  <2>4. CASE Flush(c, b)
    <3>1. Emit(b, FALSE)
      BY <2>4, Zenon DEF Flush
    <3>2. nextSeq[c] + 1 \in Nat /\ accepted + 1 \in Nat /\ accepted <= accepted + 1
      BY <2>2
    <3>3. /\ \A e \in Flushed' : e.batch < flushes' /\ e.msg.stamp <= accepted'
          /\ \A e \in Flushed' : e \in Flushed \/ e.msg.client = c
          /\ AcceptanceOrder'
      BY <2>1, <2>2, <3>1, <3>2, EmitOrder
    <3>4. batches'[c] = {}
      BY <2>1, <2>4 DEF Flush, TypeOK
    <3>5. \A d \in Clients : (SoundBatch(d, batches[d], nextSeq[d], accepted))'
      BY <2>3, <3>4 DEF SoundBatch
    <3>6. \A d \in Clients : AfterFlushed(d, batches[d])'
      BY <2>2, <3>3, <3>4 DEF OrderInv, AfterFlushed
    <3> QED
      BY <3>3, <3>5, <3>6 DEF OrderInv
  <2>5. CASE batches' = [batches EXCEPT ![c] = b] /\ UNCHANGED historyVars
    <3>1. batches'[c] = b
      BY <2>1, <2>5 DEF TypeOK
    <3>2. \A d \in Clients : (SoundBatch(d, batches[d], nextSeq[d], accepted))'
      BY <2>1, <2>2, <2>3, <3>1
    <3>3. \A d \in Clients : AfterFlushed(d, batches[d])'
      BY <2>1, <2>2, <2>5, <3>1 DEF OrderInv, AfterFlushed, historyVars, Flushed
    <3>4. \A e \in Flushed' : e.batch < flushes' /\ e.msg.stamp <= accepted'
      BY <2>2, <2>5 DEF OrderInv, historyVars, TypeOK, Emission, Message, Flushed
    <3>5. AcceptanceOrder'
      BY <2>5 DEF OrderInv, historyVars, AcceptanceOrder, EmittedBefore, Flushed
    <3> QED
      BY <3>2, <3>3, <3>4, <3>5 DEF OrderInv
  <2> QED
    BY <1>5, <2>4, <2>5 DEF AcceptCall
<1>6. ASSUME NEW c \in Clients, TimerFires(c) PROVE OrderInv'
  <2>1. CASE Flush(c, batches[c])
    BY <1>4, <1>6, <2>1 DEF TimerFires
  <2>2. CASE UNCHANGED <<batches, historyVars>>
    BY <1>3, <1>6, <2>2 DEF TimerFires, historyVars
  <2> QED
    BY <1>6, <2>1, <2>2 DEF TimerFires
<1>7. ASSUME NEW c \in Clients, RemoveIdleClient(c) \/ FinishRemove(c) \/ FinishManualFlush(c)
      PROVE  OrderInv'
  <2>1. UNCHANGED <<emitted, flushes, accepted>>
    BY <1>7 DEF RemoveIdleClient, FinishRemove, FinishManualFlush, historyVars
  <2>2. \A d \in Clients : \/ batches'[d] = {}
                           \/ batches'[d] = batches[d] /\ nextSeq'[d] = nextSeq[d]
    BY <1>7 DEF RemoveIdleClient, FinishRemove, FinishManualFlush, Forget, TypeOK
  <2> QED
    BY <1>3, <2>1, <2>2
<1>8. ASSUME NEW c \in Clients, RemoveClient(c) PROVE OrderInv'
  BY <1>4, <1>8 DEF RemoveClient
<1>9. ASSUME NEW c \in Clients, ManualFlush(c) PROVE OrderInv'
  BY <1>3, <1>4, <1>9 DEF ManualFlush, historyVars
<1>10. CASE Stop
  BY <1>3, <1>10 DEF Stop, historyVars
<1>11. ASSUME NEW k \in Calls, AddMessage(k) \/ RejectCall(k) \/ SettleCall(k)
       PROVE  OrderInv'
  BY <1>3, <1>11 DEF AddMessage, RejectCall, SettleCall, historyVars
<1>12. ASSUME NEW c \in Clients, ProcessBatch(c) PROVE OrderInv'
  <2>1. Flushed' = Flushed /\ flushes' = flushes + 1
    BY <1>12 DEF ProcessBatch, Emit, Flushed
  <2> QED
    BY <1>2, <1>12, <2>1 DEF ProcessBatch, TypeOK
<1>13. CASE UNCHANGED vars
  BY <1>3, <1>13 DEF vars
<1> QED
  BY <1>5, <1>6, <1>7, <1>8, <1>9, <1>10, <1>11, <1>12, <1>13
  DEF Next, CallStep, ClientStep

\* Flushes emit the messages of one client and one priority in the order in
\* which they were accepted, whatever timers, removals, flushes, processBatch and
\* stop do.
THEOREM AcceptanceOrderAlways == Spec => []AcceptanceOrder
<1>1. OrderInv => AcceptanceOrder
  BY DEF OrderInv
<1> QED
  BY <1>1, InitType, NextType, InitOrder, NextOrder, PTL DEF Spec

\* Every batch is below config.batchSize and has its timer (_startBatchTimer).
THEOREM BatchesGuardedAlways == Spec => []BatchesGuarded
<1>1. TypeOK /\ PendingHasTimer /\ BatchBounded => BatchesGuarded
  BY DEF BatchesGuarded
<1> QED
  BY <1>1, TypeCorrect, PendingHasTimerAlways, BatchBoundedAlways, PTL

-----------------------------------------------------------------------------
(* Rejections, and the order of the calls.                                 *)

Issued(k) == phase[k] # "unissued"

\* Calls are issued in their order; a call is chained on an earlier one of its client.
ChainInv ==
  /\ \A j, k \in Calls : j < k /\ Issued(k) => Issued(j)
  /\ \A k \in Calls : Issued(k) /\ prev[k] # None =>
       /\ prev[k] \in Calls /\ prev[k] < k
       /\ request[prev[k]].client = request[k].client

\* The calls issued for client c.
CallsFor(c) == {k \in Calls : Issued(k) /\ request[k].client = c}

\* The chain of a client that was never cut holds all of its calls: the tail is the
\* last one, each call waits for the one before it, and those before a call that ran
\* have settled.
WholeChain(c) ==
  /\ \A k \in CallsFor(c) : tail[c] # None /\ k <= tail[c]
  /\ \A j, k \in CallsFor(c) : j < k => prev[k] # None /\ j <= prev[k]
  /\ \A j, k \in CallsFor(c) : j < k /\ Taken(k) => phase[j] = "ok"

\* The messages that wait or were flushed.
Known == {e.msg : e \in Flushed} \cup UNION {batches[c] : c \in Clients}

\* A known message is that of a call that ran, of which there is one only; those of a
\* client whose chain was never cut were accepted in the order of the calls.
KnownInv ==
  /\ \A m \in Known : Taken(m.call) /\ request[m.call].client = m.client
  /\ \A m, p \in Known : m.call = p.call => m = p
  /\ \A m, p \in Known :
       m.client = p.client /\ m.client \notin cut /\ m.call < p.call => m.stamp < p.stamp

CallInv ==
  /\ ChainInv
  /\ \A c \in Clients \ cut : WholeChain(c)
  /\ KnownInv
  /\ EmittedOnce
  /\ RejectionHasCause

LEMMA InitCalls == Init => CallInv
<1> SUFFICES ASSUME Init PROVE CallInv
  OBVIOUS
<1>1. Known = {} /\ Flushed = {}
  BY DEF Init, Known, Flushed
<1>2. \A k \in Calls : ~ Issued(k) /\ phase[k] # "failed"
  BY DEF Init, Issued
<1>3. ChainInv /\ RejectionHasCause
  BY <1>2 DEF ChainInv, RejectionHasCause
<1>4. \A c \in Clients : WholeChain(c)
  BY <1>2 DEF WholeChain, CallsFor
<1> QED
  BY <1>1, <1>3, <1>4 DEF CallInv, KnownInv, EmittedOnce

\* No step but AddMessage touches the requests and the chain; a call that has settled
\* stays settled, and no call is withdrawn.
LEMMA SettledStays ==
  ASSUME TypeOK, [Next]_vars, ~ \E k \in Calls : AddMessage(k)
  PROVE  /\ UNCHANGED <<request, prev>>
         /\ \A k \in Calls : /\ Issued(k)' <=> Issued(k)
                             /\ phase[k] = "ok" => phase'[k] = "ok"
                             /\ Taken(k) => Taken(k)'
<1> USE DEF Issued, Taken, callVars
<1>1. ASSUME NEW k \in Calls, RejectCall(k) \/ AcceptCall(k) \/ SettleCall(k)
      PROVE  /\ UNCHANGED <<request, prev>>
             /\ \A j \in Calls : /\ Issued(j)' <=> Issued(j)
                                 /\ phase[j] = "ok" => phase'[j] = "ok"
                                 /\ Taken(j) => Taken(j)'
  <2>1. UNCHANGED <<request, prev>>
    BY <1>1 DEF RejectCall, AcceptCall, SettleCall
  <2>2. \/ phase[k] = "queued" /\ \E p \in {"failed", "flushing", "ok"} :
                                    phase' = [phase EXCEPT ![k] = p]
        \/ phase[k] = "flushing" /\ phase' = [phase EXCEPT ![k] = "ok"]
    BY <1>1 DEF RejectCall, AcceptCall, SettleCall
  <2> QED
    BY <2>1, <2>2 DEF TypeOK
<1>2. CASE UNCHANGED <<request, prev, phase>>
  BY <1>2
<1>3. ASSUME NEW c \in Clients, ClientStep(c) PROVE UNCHANGED <<request, prev, phase>>
  BY <1>3 DEF ClientStep, TimerFires, RemoveIdleClient, RemoveClient, FinishRemove,
     ManualFlush, FinishManualFlush, ProcessBatch
<1>4. CASE Stop \/ UNCHANGED vars
  BY <1>2, <1>4 DEF Stop, vars
<1> QED
  BY <1>1, <1>2, <1>3, <1>4 DEF Next, CallStep

\* What a call of addMessage adds to the chain: it is later than every call issued.
LEMMA CallAdded ==
  ASSUME TypeOK, ChainInv, NEW k \in Calls, AddMessage(k)
  PROVE  LET c == request'[k].client IN
         /\ c \in Clients
         /\ ~ Issued(k) /\ phase'[k] = "queued"
         /\ \A j \in Calls : j # k => /\ request'[j] = request[j]
                                      /\ prev'[j] = prev[j] /\ phase'[j] = phase[j]
         /\ \A j \in Calls : Issued(j) => j < k
         /\ \A j \in Calls : j < k => Issued(j)
         /\ prev'[k] = tail[c] /\ tail'[c] = k
         /\ \A d \in Clients : d # c => tail'[d] = tail[d]
<1>1. PICK r \in Requests : /\ request' = [request EXCEPT ![k] = r]
                            /\ EnqueueOperation(k, r.client)
  BY DEF AddMessage
<1>2. r.client \in Clients /\ request'[k] = r
  BY <1>1 DEF Requests, TypeOK
<1>3. /\ phase[k] = "unissued" /\ phase' = [phase EXCEPT ![k] = "queued"]
      /\ \A j \in Calls : j < k => phase[j] # "unissued"
  BY DEF AddMessage
<1>4. ASSUME NEW j \in Calls, Issued(j) PROVE j < k
  <2>1. ~ (k < j) /\ j # k
    BY <1>3, <1>4 DEF ChainInv, Issued
  <2>2. j \in Nat /\ k \in Nat
    BY BatcherAssumption DEF Calls
  <2> QED
    BY <2>1, <2>2
<1>5. prev' = [prev EXCEPT ![k] = tail[r.client]] /\ tail' = [tail EXCEPT ![r.client] = k]
  BY <1>1 DEF EnqueueOperation
<1> QED
  BY <1>1, <1>2, <1>3, <1>4, <1>5 DEF TypeOK, Issued

LEMMA NextChain == TypeOK /\ ChainInv /\ [Next]_vars => ChainInv'
<1> SUFFICES ASSUME TypeOK, ChainInv, [Next]_vars PROVE ChainInv'
  OBVIOUS
<1>1. ASSUME NEW k \in Calls, AddMessage(k) PROVE ChainInv'
  <2> DEFINE c == request'[k].client
  <2>1. /\ c \in Clients
        /\ ~ Issued(k) /\ phase'[k] = "queued"
        /\ \A j \in Calls : j # k => /\ request'[j] = request[j]
                                     /\ prev'[j] = prev[j] /\ phase'[j] = phase[j]
        /\ \A j \in Calls : Issued(j) => j < k
        /\ \A j \in Calls : j < k => Issued(j)
        /\ prev'[k] = tail[c]
    BY <1>1, CallAdded
  <2>2. \A j, m \in Calls : j < m /\ Issued(m)' => Issued(j)'
    BY <2>1 DEF ChainInv, Issued
  <2>3. ASSUME NEW m \in Calls, Issued(m)', prev'[m] # None
        PROVE  prev'[m] \in Calls /\ prev'[m] < m /\ request'[prev'[m]].client = request'[m].client
    <3>1. CASE m = k
      <4>1. tail[c] \in Calls /\ Issued(tail[c]) /\ request[tail[c]].client = c
        BY <2>1, <2>3, <3>1 DEF TypeOK, Issued
      <4> QED
        BY <2>1, <3>1, <4>1
    <3>2. CASE m # k
      <4>1. Issued(m) /\ prev'[m] = prev[m]
        BY <2>1, <2>3, <3>2 DEF Issued
      <4>2. prev[m] \in Calls /\ prev[m] < m /\ request[prev[m]].client = request[m].client
            /\ Issued(prev[m])
        BY <2>3, <4>1 DEF ChainInv
      <4> QED
        BY <2>1, <3>2, <4>1, <4>2
    <3> QED
      BY <3>1, <3>2
  <2> QED
    BY <2>2, <2>3 DEF ChainInv
<1>2. CASE ~ \E k \in Calls : AddMessage(k)
  BY <1>2, SettledStays DEF ChainInv
<1> QED
  BY <1>1, <1>2

LEMMA NextRejection ==
  TypeOK /\ ChainInv /\ RejectionHasCause /\ [Next]_vars => RejectionHasCause'
<1> SUFFICES ASSUME TypeOK, ChainInv, RejectionHasCause, [Next]_vars,
                    NEW k \in Calls, phase'[k] = "failed"
             PROVE  \E j \in 1..k : request'[j].client = request'[k].client
                                    /\ request'[j].id = NoId
  BY DEF RejectionHasCause
<1> DEFINE Cause(i, j) == j \in 1..i /\ request[j].client = request[i].client
                          /\ request[j].id = NoId
<1>1. ASSUME NEW i \in Calls, AddMessage(i)
      PROVE  \E j \in 1..k : request'[j].client = request'[k].client /\ request'[j].id = NoId
  <2>1. /\ ~ Issued(i) /\ phase'[i] = "queued"
        /\ \A j \in Calls : j # i => request'[j] = request[j] /\ phase'[j] = phase[j]
    BY <1>1, CallAdded
  <2>2. k # i /\ phase[k] = "failed"
    BY <2>1
  <2>3. PICK j \in 1..k : request[j].client = request[k].client /\ request[j].id = NoId
    BY <2>2 DEF RejectionHasCause
  <2>4. j \in Calls /\ Issued(j)
    BY <2>2, BatcherAssumption DEF Calls, ChainInv, Issued
  <2> QED
    BY <2>1, <2>2, <2>3, <2>4
<1>2. CASE ~ \E i \in Calls : AddMessage(i)
  <2>1. request' = request
    BY <1>2, SettledStays
  <2>2. CASE phase[k] = "failed"
    BY <2>1, <2>2 DEF RejectionHasCause
  <2>3. CASE phase[k] # "failed"
    <3>1. RejectCall(k)
      <4>1. ASSUME NEW i \in Calls, AcceptCall(i) \/ SettleCall(i) PROVE FALSE
        BY <2>3, <4>1 DEF AcceptCall, SettleCall, TypeOK
      <4>2. ASSUME NEW i \in Calls, RejectCall(i) PROVE i = k
        BY <2>3, <4>2 DEF RejectCall, TypeOK
      <4>3. ASSUME phase' = phase PROVE FALSE
        BY <2>3, <4>3
      <4>4. ASSUME NEW c \in Clients, ClientStep(c) PROVE phase' = phase
        BY <4>4 DEF ClientStep, TimerFires, RemoveIdleClient, RemoveClient, FinishRemove,
           ManualFlush, FinishManualFlush, ProcessBatch
      <4>5. Stop \/ UNCHANGED vars => phase' = phase
        BY DEF Stop, vars
      <4> QED
        BY <1>2, <4>1, <4>2, <4>3, <4>4, <4>5 DEF Next, CallStep
    <3>2. k \in 1..k
      BY BatcherAssumption DEF Calls
    <3>3. CASE request[k].id = NoId
      BY <2>1, <3>2, <3>3
    <3>4. CASE Rejected(k)
      <4>1. prev[k] \in Calls /\ phase[prev[k]] = "failed"
        BY <3>4 DEF Rejected
      <4>2. Issued(k) /\ prev[k] # None
        BY <3>1, <4>1, BatcherAssumption DEF RejectCall, Issued
      <4>3. prev[k] < k /\ request[prev[k]].client = request[k].client
        BY <4>2 DEF ChainInv
      <4>4. PICK j \in 1..prev[k] : request[j].client = request[prev[k]].client
                                    /\ request[j].id = NoId
        BY <4>1 DEF RejectionHasCause
      <4>5. j \in 1..k
        BY <4>1, <4>3, BatcherAssumption DEF Calls
      <4> QED
        BY <2>1, <4>3, <4>4, <4>5
    <3> QED
      BY <3>1, <3>3, <3>4 DEF RejectCall
  <2> QED
    BY <2>2, <2>3
<1> QED
  BY <1>1, <1>2

\* A call that runs finds every earlier call of its client settled.
LEMMA RunsInTurn ==
  ASSUME TypeOK, ChainInv, NEW k \in Calls, AcceptCall(k), WholeChain(request[k].client)
  PROVE  \A j \in CallsFor(request[k].client) : j < k => phase[j] = "ok"
<1> DEFINE c == request[k].client
<1>1. k \in CallsFor(c) /\ Fulfilled(k)
  BY DEF AcceptCall, CallsFor, Issued
<1>2. ASSUME NEW j \in CallsFor(c), j < k PROVE phase[j] = "ok"
  <2>1. prev[k] # None /\ j <= prev[k]
    BY <1>1, <1>2 DEF WholeChain
  <2>2. prev[k] \in Calls /\ phase[prev[k]] = "ok" /\ request[prev[k]].client = c
    BY <1>1, <2>1 DEF Fulfilled, ChainInv, CallsFor
  <2>3. prev[k] \in CallsFor(c) /\ Taken(prev[k])
    BY <2>2 DEF CallsFor, Issued, Taken
  <2>4. CASE j = prev[k]
    BY <2>2, <2>4
  <2>5. CASE j # prev[k]
    <3>1. j < prev[k]
      BY <2>1, <2>2, <2>5, BatcherAssumption DEF CallsFor, Calls
    <3> QED
      BY <1>2, <2>3, <3>1 DEF WholeChain
  <2> QED
    BY <2>4, <2>5
<1> QED
  BY <1>2

LEMMA NextWhole ==
  ASSUME TypeOK, ChainInv, [Next]_vars, NEW c \in Clients, c \notin cut', WholeChain(c)
  PROVE  WholeChain(c)'
<1>1. ASSUME NEW k \in Calls, AddMessage(k) PROVE WholeChain(c)'
  <2> DEFINE d == request'[k].client
  <2>1. /\ d \in Clients
        /\ ~ Issued(k) /\ phase'[k] = "queued"
        /\ \A j \in Calls : j # k => /\ request'[j] = request[j]
                                     /\ prev'[j] = prev[j] /\ phase'[j] = phase[j]
        /\ \A j \in Calls : Issued(j) => j < k
        /\ prev'[k] = tail[d] /\ tail'[d] = k
        /\ \A e \in Clients : e # d => tail'[e] = tail[e]
    BY <1>1, CallAdded
  <2>2. /\ \A j \in CallsFor(c)' : j # k => j \in CallsFor(c) /\ j < k
        /\ k \in CallsFor(c)' <=> c = d
    BY <2>1 DEF CallsFor, Issued
  <2>3. k # None /\ k <= k /\ ~ (k < k)
    BY BatcherAssumption DEF Calls
  <2>4. \A j \in CallsFor(c)' : tail'[c] # None /\ j <= tail'[c]
    <3>1. CASE c = d
      BY <2>1, <2>2, <2>3, <3>1, BatcherAssumption DEF CallsFor, Calls
    <3>2. CASE c # d
      BY <2>1, <2>2, <3>2 DEF WholeChain
    <3> QED
      BY <3>1, <3>2
  <2>5. ASSUME NEW i \in CallsFor(c)', NEW j \in CallsFor(c)', i < j
        PROVE  prev'[j] # None /\ i <= prev'[j] /\ (Taken(j)' => phase'[i] = "ok")
    <3>1. i # k
      BY <2>2, <2>3, <2>5, BatcherAssumption DEF CallsFor, Calls
    <3>2. CASE j = k
      BY <2>1, <2>2, <3>1, <3>2 DEF WholeChain, Taken
    <3>3. CASE j # k
      BY <2>1, <2>2, <2>5, <3>1, <3>3 DEF WholeChain, Taken, CallsFor
    <3> QED
      BY <3>2, <3>3
  <2> QED
    BY <2>4, <2>5 DEF WholeChain
<1>2. CASE ~ \E k \in Calls : AddMessage(k)
  <2>1. /\ UNCHANGED <<request, prev>>
        /\ \A k \in Calls : /\ Issued(k)' <=> Issued(k)
                            /\ phase[k] = "ok" => phase'[k] = "ok"
    BY <1>2, SettledStays
  <2>2. CallsFor(c)' = CallsFor(c)
    BY <2>1 DEF CallsFor
  <2>3. tail'[c] = tail[c]
    <3>1. ASSUME NEW k \in Calls, RejectCall(k) \/ AcceptCall(k) \/ SettleCall(k)
          PROVE  tail' = tail
      BY <3>1 DEF RejectCall, AcceptCall, SettleCall
    <3>2. ASSUME NEW d \in Clients, RemoveIdleClient(d) \/ FinishRemove(d)
          PROVE  tail'[c] = tail[c]
      BY <3>2 DEF RemoveIdleClient, FinishRemove, Forget, TypeOK
    <3>3. ASSUME NEW d \in Clients, TimerFires(d) \/ RemoveClient(d) \/ ManualFlush(d)
                                    \/ FinishManualFlush(d) \/ ProcessBatch(d)
          PROVE  tail' = tail
      BY <3>3 DEF TimerFires, RemoveClient, ManualFlush, FinishManualFlush, ProcessBatch
    <3>4. CASE Stop
      BY <3>4 DEF Stop
    <3>5. CASE UNCHANGED vars
      BY <3>5 DEF vars
    <3> QED
      BY <1>2, <3>1, <3>2, <3>3, <3>4, <3>5 DEF Next, CallStep, ClientStep
  <2>4. ASSUME NEW i \in CallsFor(c), NEW j \in CallsFor(c), i < j, Taken(j)'
        PROVE  phase'[i] = "ok"
    <3>1. CASE Taken(j)
      BY <2>1, <2>4, <3>1 DEF WholeChain, CallsFor
    <3>2. CASE ~ Taken(j)
      <4>1. AcceptCall(j)
        <5>1. ASSUME NEW k \in Calls, RejectCall(k) \/ SettleCall(k) PROVE FALSE
          BY <2>4, <3>2, <5>1 DEF RejectCall, SettleCall, Taken, CallsFor, TypeOK
        <5>2. ASSUME NEW k \in Calls, AcceptCall(k) PROVE k = j
          BY <2>4, <3>2, <5>2 DEF AcceptCall, Taken, CallsFor, TypeOK
        <5>3. ASSUME phase' = phase PROVE FALSE
          BY <2>4, <3>2, <5>3 DEF Taken
        <5>4. ASSUME NEW d \in Clients, ClientStep(d) PROVE phase' = phase
          BY <5>4 DEF ClientStep, TimerFires, RemoveIdleClient, RemoveClient, FinishRemove,
             ManualFlush, FinishManualFlush, ProcessBatch
        <5>5. Stop \/ UNCHANGED vars => phase' = phase
          BY DEF Stop, vars
        <5> QED
          BY <1>2, <5>1, <5>2, <5>3, <5>4, <5>5 DEF Next, CallStep
      <4>2. phase[i] = "ok"
        BY <2>4, <4>1, RunsInTurn DEF CallsFor
      <4> QED
        BY <2>1, <4>2 DEF CallsFor
    <3> QED
      BY <3>1, <3>2
  <2> QED
    BY <2>1, <2>2, <2>3, <2>4 DEF WholeChain
<1> QED
  BY <1>1, <1>2

\* Chains are cut for good.
LEMMA CutStays == ASSUME TypeOK, [Next]_vars PROVE cut \subseteq cut'
<1>1. ASSUME NEW k \in Calls, CallStep(k) PROVE cut \subseteq cut'
  BY <1>1 DEF CallStep, AddMessage, RejectCall, AcceptCall, SettleCall
<1>2. ASSUME NEW c \in Clients, ClientStep(c) PROVE cut \subseteq cut'
  BY <1>2 DEF ClientStep, TimerFires, RemoveIdleClient, RemoveClient, FinishRemove,
     ManualFlush, FinishManualFlush, ProcessBatch, Forget
<1>3. CASE Stop \/ UNCHANGED vars
  BY <1>3 DEF Stop, vars, TypeOK
<1> QED
  BY <1>1, <1>2, <1>3 DEF Next

\* A flush of messages that are known, or of these and m, makes nothing else known.
LEMMA FlushKnown ==
  ASSUME TypeOK, NEW c \in Clients, NEW m, NEW b \in SUBSET (batches[c] \cup {m}), Flush(c, b)
  PROVE  Known' \subseteq Known \cup {m}
<1>1. batches' = [batches EXCEPT ![c] = {}] /\ Emit(b, FALSE)
  BY Zenon DEF Flush
<1>2. \A e \in Flushed' : e \in Flushed \/ e.msg \in b
  BY <1>1 DEF Emit, Flushed, Deduplicated
<1>3. \A d \in Clients : batches'[d] \subseteq batches[d]
  BY <1>1 DEF TypeOK
<1> QED
  BY <1>2, <1>3 DEF Known

\* Only an accepted call makes a message known.
LEMMA KnownStep ==
  ASSUME TypeOK, [Next]_vars
  PROVE  \/ Known' \subseteq Known
         \/ \E k \in Calls : AcceptCall(k) /\ Known' \subseteq Known \cup {NewMessage(k)}
<1> USE DEF historyVars
<1>1. ASSUME Flushed' = Flushed, \A c \in Clients : batches'[c] \subseteq batches[c]
      PROVE  Known' \subseteq Known
  BY <1>1 DEF Known
<1>2. ASSUME NEW c \in Clients, Flush(c, batches[c]), batches[c] # {} PROVE Known' \subseteq Known
  <2>1. PICK m \in batches[c] : TRUE
    BY <1>2
  <2>2. Known' \subseteq Known \cup {m}
    BY <1>2, FlushKnown
  <2> QED
    BY <2>2 DEF Known
<1>3. ASSUME NEW k \in Calls, AcceptCall(k) PROVE Known' \subseteq Known \cup {NewMessage(k)}
  <2> DEFINE c == request[k].client
             b == batches[c] \cup {NewMessage(k)}
  <2>1. c \in Clients
    BY <1>3, NewMessageType DEF AcceptCall
  <2>2. CASE Flush(c, b)
    <3> HIDE DEF c
    <3>1. \A n : Flush(c, batches[c] \cup {n}) => Known' \subseteq Known \cup {n}
      BY <2>1, FlushKnown
    <3> QED
      BY <2>2, <3>1
  <2>3. CASE batches' = [batches EXCEPT ![c] = b] /\ UNCHANGED historyVars
    <3>1. Flushed' = Flushed
      BY <2>3 DEF Flushed
    <3>2. \A d \in Clients : batches'[d] \subseteq batches[d] \cup {NewMessage(k)}
      BY <2>1, <2>3 DEF TypeOK
    <3> QED
      BY <3>1, <3>2 DEF Known
  <2> QED
    BY <1>3, <2>2, <2>3 DEF AcceptCall
<1>4. ASSUME NEW k \in Calls, AddMessage(k) \/ RejectCall(k) \/ SettleCall(k)
      PROVE  Known' \subseteq Known
  BY <1>1, <1>4 DEF AddMessage, RejectCall, SettleCall, Flushed
<1>5. ASSUME NEW c \in Clients, ClientStep(c) PROVE Known' \subseteq Known
  <2>1. CASE Flush(c, batches[c]) /\ batches[c] # {}
    BY <1>2, <2>1
  <2>2. CASE UNCHANGED <<batches, historyVars>>
    BY <1>1, <2>2 DEF Flushed
  <2>3. CASE TimerFires(c) \/ RemoveClient(c) \/ ManualFlush(c)
    BY <2>1, <2>2, <2>3 DEF TimerFires, RemoveClient, ManualFlush
  <2>4. CASE RemoveIdleClient(c) \/ FinishRemove(c) \/ FinishManualFlush(c)
    <3>1. emitted' = emitted /\ batches' = [batches EXCEPT ![c] = {}]
      BY <2>4 DEF RemoveIdleClient, FinishRemove, FinishManualFlush, Forget
    <3>2. \A d \in Clients : batches'[d] \subseteq batches[d]
      BY <3>1 DEF TypeOK
    <3> QED
      BY <1>1, <3>1, <3>2 DEF Flushed
  <2>5. CASE ProcessBatch(c)
    <3>1. Flushed' = Flushed /\ batches' = batches
      BY <2>5 DEF ProcessBatch, Emit, Flushed
    <3> QED
      BY <1>1, <3>1
  <2> QED
    BY <1>5, <2>3, <2>4, <2>5 DEF ClientStep
<1>6. CASE Stop
  BY <1>1, <1>6 DEF Stop, Flushed
<1>7. CASE UNCHANGED vars
  BY <1>1, <1>7 DEF vars, Flushed
<1> QED
  BY <1>3, <1>4, <1>5, <1>6, <1>7 DEF Next, CallStep

\* A call that ran keeps its request and its place.
LEMMA TakenStays ==
  ASSUME TypeOK, ChainInv, [Next]_vars, NEW k \in Calls, Taken(k)
  PROVE  Taken(k)' /\ request'[k] = request[k]
<1>1. ASSUME NEW j \in Calls, AddMessage(j) PROVE Taken(k)' /\ request'[k] = request[k]
  <2>1. k # j
    BY <1>1 DEF AddMessage, Taken
  <2>2. phase'[k] = phase[k] /\ request'[k] = request[k]
    BY <1>1, <2>1, CallAdded
  <2> QED
    BY <2>2 DEF Taken
<1>2. CASE ~ \E j \in Calls : AddMessage(j)
  BY <1>2, SettledStays
<1> QED
  BY <1>1, <1>2

\* An accepted message is newer than every known one, and its call is later than the
\* calls of its client's known ones, when the client's chain was never cut.
LEMMA NewestKnown ==
  ASSUME TypeOK, OrderInv, KnownInv, \A c \in Clients \ cut : WholeChain(c),
         NEW k \in Calls, AcceptCall(k), NEW m \in Known
  PROVE  /\ m.call # k
         /\ m.stamp < NewMessage(k).stamp
         /\ m.client = request[k].client /\ m.client \notin cut => m.call < k
<1>1. /\ phase[k] = "queued" /\ request[k].client \in Clients
      /\ NewMessage(k).stamp = accepted + 1
  BY NewMessageType DEF AcceptCall, NewMessage
<1>2. Taken(m.call) /\ request[m.call].client = m.client
  BY DEF KnownInv
<1>3. m \in Message /\ m.stamp <= accepted
  <2>1. CASE \E e \in Flushed : m = e.msg
    BY <2>1 DEF OrderInv, Flushed, TypeOK, Emission
  <2>2. CASE \E c \in Clients : m \in batches[c]
    BY <2>2 DEF OrderInv, SoundBatch, TypeOK
  <2> QED
    BY <2>1, <2>2 DEF Known
<1>4. m.call \in Calls /\ m.stamp \in Nat /\ accepted \in Nat
  BY <1>3 DEF Message, TypeOK
<1>5. m.call # k
  BY <1>1, <1>2 DEF Taken
<1>6. ASSUME m.client = request[k].client, m.client \notin cut PROVE ~ (k < m.call)
  <2>1. WholeChain(m.client) /\ m.call \in CallsFor(m.client) /\ k \in CallsFor(m.client)
    BY <1>1, <1>2, <1>4, <1>6 DEF CallsFor, Issued, Taken
  <2> QED
    BY <1>1, <1>2, <2>1 DEF WholeChain
<1> QED
  BY <1>1, <1>3, <1>4, <1>5, <1>6, BatcherAssumption DEF Calls

LEMMA NextKnown ==
  ASSUME TypeOK, ChainInv, OrderInv, KnownInv, \A c \in Clients \ cut : WholeChain(c),
         [Next]_vars
  PROVE  KnownInv'
<1>1. \A m \in Known : m.call \in Calls
  BY DEF Known, Flushed, TypeOK, Emission, Message
<1>2. \A m \in Known : Taken(m.call)' /\ request'[m.call].client = m.client
  BY <1>1, TakenStays DEF KnownInv
<1>3. cut \subseteq cut'
  BY CutStays
<1>4. CASE Known' \subseteq Known
  BY <1>2, <1>3, <1>4 DEF KnownInv
<1>5. ASSUME NEW k \in Calls, AcceptCall(k), Known' \subseteq Known \cup {NewMessage(k)}
      PROVE  KnownInv'
  <2> DEFINE n == NewMessage(k)
  <2>1. n.call = k /\ n.client = request[k].client
    BY DEF NewMessage
  <2>2. Taken(k)' /\ request' = request
    BY <1>5 DEF AcceptCall, Taken, callVars, TypeOK
  <2>3. \A m \in Known : /\ m.call # k /\ m.stamp < n.stamp
                         /\ m.client = n.client /\ m.client \notin cut => m.call < k
    BY <1>5, <2>1, NewestKnown
  <2> HIDE DEF n
  <2>4. \A m \in Known' : Taken(m.call)' /\ request'[m.call].client = m.client
    BY <1>2, <1>5, <2>1, <2>2 DEF n
  <2>5. \A m, p \in Known' : m.call = p.call => m = p
    BY <1>5, <2>1, <2>3 DEF KnownInv, n
  <2>6. ASSUME NEW m \in Known', NEW p \in Known',
               m.client = p.client, m.client \notin cut', m.call < p.call
        PROVE  m.stamp < p.stamp
    <3>1. m.client \notin cut /\ m \in Known \cup {n} /\ p \in Known \cup {n}
      BY <1>3, <1>5, <2>6 DEF n
    <3>2. CASE m \in Known /\ p \in Known
      BY <2>6, <3>1, <3>2 DEF KnownInv
    <3>3. CASE m \in Known /\ p = n
      BY <2>3, <3>3
    <3>4. CASE m = n /\ p \in Known
      <4>1. k < p.call /\ p.call < k /\ p.call \in Calls
        BY <1>1, <2>1, <2>3, <2>6, <3>1, <3>4
      <4> QED
        BY <4>1, BatcherAssumption DEF Calls
    <3>5. CASE m = n /\ p = n
      BY <2>1, <2>6, <3>5, BatcherAssumption DEF Calls
    <3> QED
      BY <3>1, <3>2, <3>3, <3>4, <3>5
  <2> QED
    BY <2>4, <2>5, <2>6 DEF KnownInv
<1> QED
  BY <1>4, <1>5, KnownStep

\* A step leaves what was flushed alone, or flushes one batch of messages newer than
\* all that was flushed for their client.
LEMMA FlushedStep ==
  ASSUME TypeOK, OrderInv, [Next]_vars
  PROVE  \/ Flushed' = Flushed
         \/ \E c \in Clients : \E b \in SUBSET Message :
              Emit(b, FALSE) /\ AfterFlushed(c, b) /\ \A m \in b : m.client = c
<1> DEFINE NewFlush == \E c \in Clients : \E b \in SUBSET Message :
              Emit(b, FALSE) /\ AfterFlushed(c, b) /\ \A m \in b : m.client = c
<1>1. ASSUME UNCHANGED emitted PROVE Flushed' = Flushed
  BY <1>1 DEF Flushed
<1>2. ASSUME NEW c \in Clients, Flush(c, batches[c]) PROVE NewFlush
  <2>1. Emit(batches[c], FALSE)
    BY <1>2, Zenon DEF Flush
  <2>2. batches[c] \in SUBSET Message /\ AfterFlushed(c, batches[c])
        /\ \A m \in batches[c] : m.client = c
    BY DEF TypeOK, OrderInv, SoundBatch
  <2> QED
    BY <2>1, <2>2
<1>3. ASSUME NEW k \in Calls, AcceptCall(k) PROVE Flushed' = Flushed \/ NewFlush
  <2> DEFINE c == request[k].client
             b == batches[c] \cup {NewMessage(k)}
  <2>1. c \in Clients /\ b \in SUBSET Message /\ AfterFlushed(c, b)
        /\ \A m \in b : m.client = c
    BY <1>3, JoinedBatch DEF AcceptCall, SoundBatch
  <2>2. ASSUME Flush(c, b) PROVE NewFlush
    <3> HIDE DEF c, b
    <3>1. Emit(b, FALSE)
      BY <2>2, Zenon DEF Flush
    <3> QED
      BY <2>1, <3>1
  <2> QED
    BY <1>1, <1>3, <2>2 DEF AcceptCall, historyVars
<1>4. ASSUME NEW k \in Calls, AddMessage(k) \/ RejectCall(k) \/ SettleCall(k)
      PROVE  Flushed' = Flushed
  BY <1>1, <1>4 DEF AddMessage, RejectCall, SettleCall, historyVars
<1>5. ASSUME NEW c \in Clients, TimerFires(c) \/ RemoveClient(c) \/ ManualFlush(c)
      PROVE  Flushed' = Flushed \/ NewFlush
  <2> HIDE DEF NewFlush
  <2>1. Flush(c, batches[c]) \/ UNCHANGED emitted
    BY <1>5 DEF TimerFires, RemoveClient, ManualFlush, historyVars
  <2> QED
    BY <1>1, <1>2, <2>1
<1>6. ASSUME NEW c \in Clients, RemoveIdleClient(c) \/ FinishRemove(c) \/ FinishManualFlush(c)
      PROVE  Flushed' = Flushed
  BY <1>1, <1>6 DEF RemoveIdleClient, FinishRemove, FinishManualFlush
<1>7. ASSUME NEW c \in Clients, ProcessBatch(c) PROVE Flushed' = Flushed
  BY <1>7 DEF ProcessBatch, Emit, Flushed
<1>8. CASE Stop \/ UNCHANGED vars
  BY <1>1, <1>8 DEF Stop, vars
<1> QED
  BY <1>3, <1>4, <1>5, <1>6, <1>7, <1>8 DEF Next, CallStep, ClientStep

LEMMA NextOnce ==
  ASSUME TypeOK, OrderInv, KnownInv', EmittedOnce, [Next]_vars
  PROVE  EmittedOnce'
<1>1. CASE Flushed' = Flushed
  BY <1>1 DEF EmittedOnce
<1>2. ASSUME NEW c \in Clients, NEW b \in SUBSET Message,
             Emit(b, FALSE), AfterFlushed(c, b), \A m \in b : m.client = c
      PROVE  EmittedOnce'
  <2> DEFINE New(e) == e.msg \in b /\ e = [msg |-> e.msg, batch |-> flushes, kept |-> FALSE]
  <2>1. \A e \in Flushed' : e \in Flushed \/ New(e)
    BY <1>2 DEF Emit, Flushed, Deduplicated
  <2>2. ASSUME NEW e \in Flushed', NEW f \in Flushed', e.msg.call = f.msg.call PROVE e.msg = f.msg
    BY <2>2 DEF KnownInv, Known
  <2>3. ASSUME NEW e \in Flushed, NEW f \in Flushed', New(f) PROVE e.msg # f.msg
    <3>1. f.msg.client = c /\ f.msg.stamp \in Nat
      BY <1>2, <2>3 DEF Message
    <3> QED
      BY <1>2, <2>3, <3>1 DEF AfterFlushed
  <2>4. ASSUME NEW e \in Flushed', NEW f \in Flushed', e.msg.call = f.msg.call PROVE e = f
    <3>1. CASE e \in Flushed /\ f \in Flushed
      BY <2>4, <3>1 DEF EmittedOnce
    <3>2. CASE New(e) /\ New(f)
      BY <2>2, <2>4, <3>2
    <3>3. CASE (e \in Flushed /\ New(f)) \/ (f \in Flushed /\ New(e))
      BY <2>2, <2>3, <2>4, <3>3
    <3>4. (e \in Flushed \/ New(e)) /\ (f \in Flushed \/ New(f))
      BY <2>1, <2>4
    <3> QED
      BY <3>1, <3>2, <3>3, <3>4
  <2> QED
    BY <2>4 DEF EmittedOnce
<1> QED
  BY <1>1, <1>2, FlushedStep

LEMMA NextCalls == TypeOK /\ OrderInv /\ CallInv /\ [Next]_vars => CallInv'
<1> SUFFICES ASSUME TypeOK, OrderInv, CallInv, [Next]_vars PROVE CallInv'
  OBVIOUS
<1>1. ChainInv /\ KnownInv /\ EmittedOnce /\ RejectionHasCause
      /\ \A c \in Clients \ cut : WholeChain(c)
  BY DEF CallInv
<1>2. ChainInv'
  BY <1>1, NextChain
<1>3. RejectionHasCause'
  BY <1>1, NextRejection
<1>4. \A c \in Clients \ cut' : WholeChain(c)'
  BY <1>1, NextWhole, CutStays
<1>5. KnownInv'
  BY <1>1, NextKnown
<1>6. EmittedOnce'
  BY <1>1, <1>5, NextOnce
<1> QED
  BY <1>2, <1>3, <1>4, <1>5, <1>6 DEF CallInv

\* An earlier call's message has the earlier stamp, and stamps are flushed in order.
LEMMA OnceInOrder == TypeOK /\ OrderInv /\ CallInv => FlushedOnceInOrder
<1> SUFFICES ASSUME TypeOK, OrderInv, CallInv PROVE FlushedOnceInOrder
  OBVIOUS
<1>1. ASSUME NEW e \in Flushed, NEW f \in Flushed,
             e.msg.client = f.msg.client, e.msg.client \notin cut, e.msg.rank = f.msg.rank,
             e.msg.call < f.msg.call
      PROVE  EmittedBefore(e, f)
  <2>1. e.msg.stamp < f.msg.stamp
    BY <1>1 DEF CallInv, KnownInv, Known
  <2> QED
    BY <1>1, <2>1 DEF OrderInv, AcceptanceOrder
<1> QED
  BY <1>1 DEF CallInv, FlushedOnceInOrder, CallOrder

\* Whatever timers, removals and stop do in between, a rejected call of addMessage
\* follows an invalid message of its own client: rejections spread along the promise
\* chain of _enqueueOperation and nowhere else.
THEOREM RejectionHasCauseAlways == Spec => []RejectionHasCause
<1>1. CallInv => RejectionHasCause
  BY DEF CallInv
<1> QED
  BY <1>1, InitType, NextType, InitOrder, NextOrder, InitCalls, NextCalls, PTL DEF Spec

\* No message is ever flushed twice, and a client whose chain was never deleted gets the
\* messages of one priority in the order of its calls of addMessage.
THEOREM FlushedOnceInOrderAlways == Spec => []FlushedOnceInOrder
<1> QED
  BY InitType, NextType, InitOrder, NextOrder, InitCalls, NextCalls, OnceInOrder, PTL DEF Spec

-----------------------------------------------------------------------------
(* The batcher implements the channel.                                     *)

\* A set of natural numbers that is not empty has a least element.
LEMMA NatLeast ==
  ASSUME NEW T \in SUBSET Nat, T # {}
  PROVE  \E n \in T : \A m \in T : n <= m
<1> DEFINE R == {ss \in Nat \X Nat : ss[1] < ss[2]}
<1>1. IsWellFoundedOn(R, Nat)
  BY NatLessThanWellFounded, Zenon DEF OpToRel
<1>2. PICK n \in T : \A m \in T : ~ (<<m, n>> \in R)
  <2> HIDE DEF R
  <2> QED
    BY <1>1, WFMin
<1>3. \A m \in T : ~ (m < n)
  BY <1>2
<1> QED
  BY <1>3

\* Every message of a batch has a representative among those that are emitted:
\* _processMessages drops a message only for one with its id.
LEMMA Represented ==
  ASSUME NEW b \in SUBSET Message, NEW m \in b
  PROVE  \E x \in Deduplicated(b) : x.id = m.id
<1> DEFINE same == {x \in b : x.id = m.id}
           ranks == {3 - x.rank : x \in same}
<1>1. \A x \in same : x.rank \in 1..3 /\ x.seq \in Nat
  BY DEF Message
<1>2. PICK r \in ranks : \A q \in ranks : r <= q
  <2>1. ranks \in SUBSET Nat /\ ranks # {}
    BY <1>1
  <2> HIDE DEF ranks
  <2> QED
    BY <2>1, NatLeast
<1> DEFINE best == {x \in same : 3 - x.rank = r}
           seqs == {x.seq : x \in best}
<1>3. PICK n \in seqs : \A q \in seqs : n <= q
  <2>1. seqs \in SUBSET Nat /\ seqs # {}
    BY <1>1, <1>2
  <2> HIDE DEF seqs
  <2> QED
    BY <2>1, NatLeast
<1>4. PICK x \in best : x.seq = n
  BY <1>3
<1>5. ASSUME NEW y \in same PROVE ~ Before(y, x)
  <2>1. 3 - y.rank \in ranks /\ 3 - x.rank = r
    BY <1>4
  <2>2. y.rank <= x.rank
    BY <1>1, <1>2, <1>4, <2>1
  <2>3. CASE y.rank = x.rank
    <3>1. y.seq \in seqs
      BY <2>1, <2>3
    <3>2. x.seq <= y.seq
      <4> HIDE DEF seqs, best, ranks
      <4> QED
        BY <1>3, <1>4, <3>1
    <3>3. x.seq \in Nat /\ y.seq \in Nat /\ x.rank \in Nat
      BY <1>1, <1>4
    <3> HIDE DEF seqs, best, ranks, same
    <3> QED
      BY <2>3, <3>2, <3>3 DEF Before
  <2>4. CASE y.rank # x.rank
    BY <1>1, <1>4, <2>2, <2>4 DEF Before
  <2> QED
    BY <2>3, <2>4
<1> QED
  BY <1>4, <1>5 DEF Deduplicated

\* The messages of a batch as the channel sees them.
Shown(b) == {[call |-> m.call, id |-> m.id] : m \in b}

LEMMA ShownCalls ==
  ASSUME NEW b
  PROVE  Channel!CallsIn(Shown(b)) = CallsOf(b)
<1>1. \A m \in b : \E s \in Shown(b) : s.call = m.call
  <2>1. TAKE m \in b
  <2>2. [call |-> m.call, id |-> m.id] \in Shown(b)
    BY DEF Shown
  <2> QED
    BY <2>2
<1>2. \A s \in Shown(b) : \E m \in b : s.call = m.call
  BY DEF Shown
<1>3. CallsOf(b) \subseteq Channel!CallsIn(Shown(b))
  BY <1>1 DEF Channel!CallsIn, CallsOf
<1>4. Channel!CallsIn(Shown(b)) \subseteq CallsOf(b)
  BY <1>2 DEF Channel!CallsIn, CallsOf
<1> QED
  BY <1>3, <1>4

\* The calls, batches and emissions as the channel sees them.
TakenCalls == {k \in Calls : Taken(k)}
Waiting == [c \in Clients |-> Shown(batches[c])]
HeardIds == {<<e.msg.client, e.msg.id>> : e \in emitted}

\* The messages w leave client c, in these terms.
Left(c, w) ==
  /\ Waiting' = [Waiting EXCEPT ![c] = {}]
  /\ \/ listening /\ HeardIds' = HeardIds \cup {<<c, m.id>> : m \in w} /\ dropped' = dropped
     \/ ~ listening /\ HeardIds' = HeardIds /\ dropped' = dropped \cup Channel!CallsIn(w)

\* What the listener has heard when the messages of a client's batch are emitted.
LEMMA EmitHeard ==
  ASSUME NEW c \in Clients, NEW b \in SUBSET Message, \A m \in b : m.client = c,
         NEW kept, Emit(b, kept), listening
  PROVE  HeardIds' = HeardIds \cup {<<c, m.id>> : m \in Shown(b)}
<1> DEFINE new == {[msg |-> m, batch |-> flushes, kept |-> kept] : m \in Deduplicated(b)}
<1>1. emitted' = emitted \cup new
  BY DEF Emit
<1>2. HeardIds' = HeardIds \cup {<<e.msg.client, e.msg.id>> : e \in new}
  BY <1>1 DEF HeardIds
<1>3. {<<e.msg.client, e.msg.id>> : e \in new} = {<<c, m.id>> : m \in Deduplicated(b)}
  <2>1. \A e \in new : \E m \in Deduplicated(b) : e.msg.client = c /\ e.msg.id = m.id
    BY DEF Deduplicated
  <2>2. \A m \in Deduplicated(b) : \E e \in new : e.msg.client = c /\ e.msg.id = m.id
    <3>1. TAKE m \in Deduplicated(b)
    <3>2. /\ [msg |-> m, batch |-> flushes, kept |-> kept] \in new
          /\ m.client = c
      BY DEF Deduplicated
    <3> QED
      BY <3>2
  <2> HIDE DEF new
  <2> QED
    BY <2>1, <2>2
<1>4. {<<c, m.id>> : m \in Deduplicated(b)} = {<<c, m.id>> : m \in b}
  BY Represented DEF Deduplicated
<1>5. {<<c, m.id>> : m \in b} = {<<c, m.id>> : m \in Shown(b)}
  <2>1. \A s \in Shown(b) : \E m \in b : s.id = m.id
    BY DEF Shown
  <2>2. \A m \in b : \E s \in Shown(b) : s.id = m.id
    <3>1. TAKE m \in b
    <3>2. [call |-> m.call, id |-> m.id] \in Shown(b)
      BY DEF Shown
    <3> QED
      BY <3>2
  <2> QED
    BY <2>1, <2>2
<1> QED
  BY <1>2, <1>3, <1>4, <1>5

\* A batch that is replaced by another one, seen from the channel.
LEMMA BatchReplaced ==
  ASSUME TypeOK, NEW c \in Clients, NEW b, batches' = [batches EXCEPT ![c] = b]
  PROVE  Waiting' = [Waiting EXCEPT ![c] = Shown(b)]
BY DEF TypeOK, Waiting

\* A flush makes the whole batch leave.
LEMMA FlushLeaves ==
  ASSUME TypeOK, NEW c \in Clients, NEW b \in SUBSET Message,
         \A m \in b : m.client = c, Flush(c, b)
  PROVE  Left(c, Shown(b))
<1>1. batches' = [batches EXCEPT ![c] = {}] /\ Emit(b, FALSE)
  BY Zenon DEF Flush
<1>2. Shown({}) = {}
  BY DEF Shown
<1>3. Waiting' = [Waiting EXCEPT ![c] = {}]
  BY <1>1, <1>2, BatchReplaced
<1>4. CASE listening
  <2>1. HeardIds' = HeardIds \cup {<<c, m.id>> : m \in Shown(b)}
    BY <1>1, <1>4, EmitHeard
  <2>2. dropped' = dropped
    BY <1>1, <1>4 DEF Emit
  <2> QED
    BY <1>3, <1>4, <2>1, <2>2 DEF Left
<1>5. CASE ~ listening
  <2>1. dropped' = dropped \cup CallsOf(b) /\ emitted' = emitted
    BY <1>1, <1>5 DEF Emit
  <2>2. dropped' = dropped \cup Channel!CallsIn(Shown(b)) /\ HeardIds' = HeardIds
    BY <2>1, ShownCalls DEF HeardIds
  <2> QED
    BY <1>3, <1>5, <2>2 DEF Left
<1> QED
  BY <1>4, <1>5

LEMMA ChannelInit == Init => Channel!Init
<1> SUFFICES ASSUME Init PROVE Channel!Init
  OBVIOUS
<1>1. TakenCalls = {}
  BY DEF Init, TakenCalls, Taken
<1>2. Waiting = [c \in Clients |-> {}]
  BY DEF Init, Waiting, Shown
<1>3. HeardIds = {}
  BY DEF Init, HeardIds
<1> QED
  BY <1>1, <1>2, <1>3 DEF Init, Channel!Init, TakenCalls, Waiting, Shown, HeardIds

\* A step that changes neither the calls nor what the channel shows of them.
LEMMA ChannelStutter ==
  ASSUME UNCHANGED <<TakenCalls, Waiting, HeardIds, listening, dropped>>
  PROVE  UNCHANGED Channel!vars
BY DEF Channel!vars, TakenCalls, Waiting, Shown, HeardIds

\* What a call does before and after its message is accepted.
LEMMA ChannelCall ==
  ASSUME TypeOK, NEW k \in Calls, AddMessage(k) \/ RejectCall(k) \/ SettleCall(k)
  PROVE  UNCHANGED Channel!vars
<1>1. UNCHANGED <<batches, emitted, listening, dropped>>
  BY DEF AddMessage, RejectCall, SettleCall, historyVars
<1>2. TakenCalls' = TakenCalls
  BY DEF AddMessage, RejectCall, SettleCall, TakenCalls, Taken, TypeOK
<1> QED
  BY <1>1, <1>2, ChannelStutter DEF Waiting, Shown, HeardIds

\* An accepted message waits, or leaves with the batch it completes.
LEMMA ChannelAccept ==
  ASSUME TypeOK, OrderInv, NEW k \in Calls, AcceptCall(k)
  PROVE  Channel!Accept(request[k].client, k)
<1> DEFINE c == request[k].client
           id == request[k].id
           b == batches[c] \cup {NewMessage(k)}
           w == Shown(batches[c]) \cup {[call |-> k, id |-> id]}
<1>1. /\ c \in Clients /\ id \in Ids /\ b \in SUBSET Message
      /\ \A m \in b : m.client = c
  BY JoinedBatch, NewMessageType DEF AcceptCall, SoundBatch, Request
<1>2. Shown(b) = w
  <2>1. NewMessage(k).call = k /\ NewMessage(k).id = id
    BY DEF NewMessage
  <2>2. Shown(b) = Shown(batches[c])
                     \cup {[call |-> NewMessage(k).call, id |-> NewMessage(k).id]}
    BY DEF Shown
  <2> QED
    BY <2>1, <2>2
<1>3. k \notin TakenCalls /\ TakenCalls' = TakenCalls \cup {k}
  BY DEF AcceptCall, TakenCalls, Taken, TypeOK
<1>4. listening' = listening
  BY DEF AcceptCall
<1>5. Waiting[c] = Shown(batches[c])
  BY <1>1 DEF Waiting
<1>6. CASE Flush(c, b)
  <2>1. Left(c, w)
    BY <1>1, <1>2, <1>6, FlushLeaves
  <2> HIDE DEF c, id
  <2> QED
    BY <1>1, <1>3, <1>4, <1>5, <2>1
    DEF Left, Channel!Accept, Channel!Leave, TakenCalls, Waiting, Shown, HeardIds, c, id
<1>7. CASE batches' = [batches EXCEPT ![c] = b] /\ UNCHANGED historyVars
  <2>1. Waiting' = [Waiting EXCEPT ![c] = w]
    BY <1>1, <1>2, <1>7, BatchReplaced
  <2>2. HeardIds' = HeardIds /\ dropped' = dropped
    BY <1>7 DEF HeardIds, historyVars
  <2> QED
    BY <1>1, <1>3, <1>4, <1>5, <2>1, <2>2
    DEF Channel!Accept, TakenCalls, Waiting, Shown, HeardIds
<1> QED
  BY <1>6, <1>7 DEF AcceptCall

\* A flush of a batch sends it; the calls stay as they are.
LEMMA ChannelSend ==
  ASSUME TypeOK, OrderInv, NEW c \in Clients, batches[c] # {}, Flush(c, batches[c]),
         UNCHANGED <<phase, listening>>
  PROVE  Channel!Send(c)
<1>1. batches[c] \in SUBSET Message /\ \A m \in batches[c] : m.client = c
  BY DEF TypeOK, OrderInv, SoundBatch
<1>2. Left(c, Shown(batches[c]))
  BY <1>1, FlushLeaves
<1>3. TakenCalls' = TakenCalls
  BY DEF TakenCalls, Taken
<1>4. Waiting[c] = Shown(batches[c]) /\ Waiting[c] # {}
  BY DEF Waiting, Shown
<1> QED
  BY <1>2, <1>3, <1>4
  DEF Left, Channel!Send, Channel!Leave, TakenCalls, Waiting, Shown, HeardIds

\* A batch that is deleted is dropped.
LEMMA ChannelDrop ==
  ASSUME TypeOK, NEW c \in Clients, batches' = [batches EXCEPT ![c] = {}],
         dropped' = dropped \cup CallsOf(batches[c]), UNCHANGED <<phase, listening, emitted>>
  PROVE  Channel!Drop(c)
<1>1. Waiting' = [Waiting EXCEPT ![c] = {}]
  <2>1. Shown({}) = {}
    BY DEF Shown
  <2> QED
    BY <2>1, BatchReplaced DEF Waiting
<1>2. dropped' = dropped \cup Channel!CallsIn(Waiting[c])
  BY ShownCalls DEF Waiting
<1>3. TakenCalls' = TakenCalls /\ HeardIds' = HeardIds
  BY DEF TakenCalls, Taken, HeardIds
<1> QED
  BY <1>1, <1>2, <1>3 DEF Channel!Drop, TakenCalls, Waiting, Shown, HeardIds

\* processBatch lets the listener hear the batch and keeps it.
LEMMA ChannelCopy ==
  ASSUME TypeOK, OrderInv, NEW c \in Clients, ProcessBatch(c)
  PROVE  Channel!Copy(c) \/ UNCHANGED Channel!vars
<1>1. /\ batches[c] \in SUBSET Message /\ \A m \in batches[c] : m.client = c
      /\ Emit(batches[c], TRUE) /\ UNCHANGED <<phase, listening, batches>>
  BY DEF ProcessBatch, TypeOK, OrderInv, SoundBatch
<1>2. TakenCalls' = TakenCalls /\ Waiting' = Waiting
  BY <1>1 DEF TakenCalls, Taken, Waiting
<1>3. dropped' = dropped
  BY <1>1 DEF Emit
<1>4. CASE listening
  <2>1. HeardIds' = HeardIds \cup {<<c, m.id>> : m \in Shown(batches[c])}
    BY <1>1, <1>4, EmitHeard
  <2>2. Waiting[c] = Shown(batches[c])
    BY DEF Waiting
  <2> QED
    BY <1>1, <1>2, <1>3, <1>4, <2>1, <2>2 DEF Channel!Copy, TakenCalls, Waiting, Shown, HeardIds
<1>5. CASE ~ listening
  <2>1. HeardIds' = HeardIds
    BY <1>1, <1>5 DEF Emit, HeardIds
  <2> QED
    BY <1>1, <1>2, <1>3, <2>1, ChannelStutter
<1> QED
  BY <1>4, <1>5

\* stop closes the channel.
LEMMA ChannelClose ==
  ASSUME TypeOK, Stop
  PROVE  Channel!Close
<1>1. Waiting' = [c \in Clients |-> {}]
  BY DEF Stop, Waiting, Shown
<1>2. TakenCalls' = TakenCalls /\ HeardIds' = HeardIds
  BY DEF Stop, TakenCalls, Taken, HeardIds
<1>3. dropped' = dropped \cup UNION {Channel!CallsIn(Waiting[c]) : c \in Clients}
  <2>1. \A c \in Clients : Channel!CallsIn(Waiting[c]) = CallsOf(batches[c])
    BY ShownCalls DEF Waiting
  <2> QED
    BY <2>1 DEF Stop
<1> QED
  BY <1>1, <1>2, <1>3 DEF Stop, Channel!Close, TakenCalls, Waiting, Shown, HeardIds

LEMMA ChannelStep ==
  TypeOK /\ OrderInv /\ [Next]_vars => [Channel!Next]_(Channel!vars)
<1> SUFFICES ASSUME TypeOK, OrderInv, [Next]_vars PROVE [Channel!Next]_(Channel!vars)
  OBVIOUS
<1>1. ASSUME NEW k \in Calls, CallStep(k) PROVE [Channel!Next]_(Channel!vars)
  <2>1. CASE AcceptCall(k)
    <3>1. request[k].client \in Clients
      BY <2>1, NewMessageType DEF AcceptCall
    <3> QED
      BY <2>1, <3>1, ChannelAccept DEF Channel!Next
  <2>2. CASE AddMessage(k) \/ RejectCall(k) \/ SettleCall(k)
    BY <2>2, ChannelCall
  <2> QED
    BY <1>1, <2>1, <2>2 DEF CallStep
<1>2. ASSUME NEW c \in Clients, ClientStep(c) PROVE [Channel!Next]_(Channel!vars)
  <2>1. CASE batches[c] # {} /\ Flush(c, batches[c]) /\ UNCHANGED <<phase, listening>>
    BY <2>1, ChannelSend DEF Channel!Next
  <2>2. CASE UNCHANGED <<phase, batches, emitted, listening, dropped>>
    <3>1. UNCHANGED <<TakenCalls, Waiting, HeardIds>>
      BY <2>2 DEF TakenCalls, Taken, Waiting, HeardIds
    <3> QED
      BY <2>2, <3>1, ChannelStutter
  <2>3. CASE /\ batches' = [batches EXCEPT ![c] = {}]
             /\ dropped' = dropped \cup CallsOf(batches[c])
             /\ UNCHANGED <<phase, listening, emitted>>
    BY <2>3, ChannelDrop DEF Channel!Next
  <2>4. CASE ProcessBatch(c)
    BY <2>4, ChannelCopy DEF Channel!Next
  <2>5. CASE TimerFires(c)
    BY <2>1, <2>2, <2>5 DEF TimerFires, historyVars
  <2>6. CASE RemoveClient(c)
    BY <2>1, <2>6 DEF RemoveClient
  <2>7. CASE ManualFlush(c)
    BY <2>1, <2>2, <2>7 DEF ManualFlush, historyVars
  <2>8. CASE RemoveIdleClient(c) \/ FinishRemove(c) \/ FinishManualFlush(c)
    BY <2>3, <2>8 DEF RemoveIdleClient, FinishRemove, FinishManualFlush, Forget
  <2> QED
    BY <1>2, <2>4, <2>5, <2>6, <2>7, <2>8 DEF ClientStep
<1>3. CASE Stop
  BY <1>3, ChannelClose DEF Channel!Next
<1>4. CASE UNCHANGED vars
  <2>1. UNCHANGED <<phase, batches, emitted, listening, dropped>>
    BY <1>4 DEF vars
  <2>2. UNCHANGED <<TakenCalls, Waiting, HeardIds>>
    BY <2>1 DEF TakenCalls, Taken, Waiting, HeardIds
  <2> QED
    BY <2>1, <2>2, ChannelStutter
<1> QED
  BY <1>1, <1>2, <1>3, <1>4 DEF Next

\* Every operation of the batcher is a step of the channel: whatever flushes a
\* batch takes it whole and once, and every message it deletes is accounted for.
THEOREM ImplementsChannelAlways == Spec => Channel!Spec
<1> QED
  BY InitType, NextType, InitOrder, NextOrder, ChannelInit, ChannelStep, PTL
  DEF Spec, Channel!Spec

=============================================================================
