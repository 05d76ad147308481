---- MODULE CachingLayer ----
(***************************************************************************)
(* mcp/server/CachingLayer.js with the buffer pool of its MemoryManager    *)
(* (utils/MemoryManager.js).                                               *)
(*                                                                         *)
(* set, delete and clear look at the memory first: they go on in a         *)
(* microtask, in the order in which they were called (`pending'), and no   *)
(* timer runs and no time passes before all of them are through.  get      *)
(* answers at once, and deletes an expired entry through delete.           *)
(* getMemoryStats has no field heapUsed, so monitorMemoryUsage compares    *)
(* undefined with its limits and never evicts: evictEntries is not reached *)
(* and is not modelled.  A value is None when it is no Buffer; a Buffer is *)
(* one of the callers', who may hand over the same one again, or one that  *)
(* compression made, which is numbered.  In place of its timestamp an      *)
(* entry has the time since then, its age.                                 *)
(***************************************************************************)
EXTENDS Naturals, Sequences, FiniteSets, SequencesExt

CONSTANTS Keys,        \* the keys of the cache
          Buffers,     \* the Buffers that callers hand over
          MaxAge,      \* config.invalidationStrategy.maxAge
          PoolSize,    \* config.invalidationStrategy.maxSize, the pool's size
          BatchSize,   \* config.preloading.batchSize
          Ttls,        \* the ttl arguments of set, 0 standing for none
          MaxSets,     \* bound: values handed to set and preload
          MaxPending,  \* bound: calls that wait
          None

VARIABLES cache,         \* this.cache: key -> entry
          pool,          \* memoryManager.pools.buffer, oldest first
          pending,       \* the calls behind their first await, in their order
          preloadQueue,  \* this.preloadQueue
          preloading,    \* this.preloadingInterval and memoryManager.monitoringInterval are set
          again,         \* setTimeouts of processPreloadQueue outstanding
          untilCheck,    \* the time until invalidationCheckInterval is due
          compressed,    \* the number of values compressed
          zeroed,        \* history: the Buffers that returnToPool has overwritten
          handed,        \* history: the callers' Buffers handed over so far
          twice,         \* history: those handed over more than once
          sets           \* bound: values handed over so far
timers == <<preloading, untilCheck>>
hands == <<handed, twice, sets>>
memory == <<cache, pool, compressed, zeroed>>
cacheVars == <<pending, preloadQueue, again, timers, hands, memory>>

Given == Buffers \cup {None}
Entry == [value : Given \cup Nat, age : Nat, ttl : Nat]
Interval == IF MaxAge < 2 THEN 1 ELSE MaxAge \div 2
Value == [key : Keys, value : Given]   \* an argument of set or preload
NewSet(vs, ttl, batch) == [op |-> "set", key |-> Head(vs).key, value |-> Head(vs).value,
                           ttl |-> ttl, rest |-> Tail(vs), batch |-> batch]

\* The calls that wait: a set, with the sets to begin after it if it is of a batch of
\* preloads; a delete; a clear, which is what a destroy waits for as well.
SetCall == [op : {"set"}, key : Keys, value : Given, ttl : Ttls \cup {0}, rest : Seq(Value), batch : BOOLEAN]
Waiting == SetCall \cup [op : {"delete"}, key : Keys] \cup [op : {"clear"}]

TypeOK ==
  /\ cache \in [Keys -> Entry \cup {None}]
  /\ pool \in Seq(Buffers \cup Nat) /\ zeroed \subseteq Buffers \cup Nat /\ compressed \in Nat
  /\ pending \in Seq(Waiting)
  /\ preloadQueue \in Seq(Value) /\ again \in Nat /\ preloading \in BOOLEAN /\ untilCheck \in 0..Interval
  /\ handed \subseteq Buffers /\ twice \subseteq handed /\ sets \in 0..MaxSets

Init ==
  /\ sets = 0 /\ untilCheck = Interval
  /\ cache = [k \in Keys |-> None]
  /\ pool = <<>> /\ pending = <<>> /\ preloadQueue = <<>>
  /\ preloading = TRUE /\ again = 0
  /\ compressed = 0 /\ zeroed = {} /\ handed = {} /\ twice = {}

Call(c) == Len(pending) < MaxPending /\ pending' = Append(pending, c)

\* A caller hands over a value.
Hand(v) ==
  /\ sets < MaxSets /\ sets' = sets + 1
  /\ handed' = handed \cup ({v} \cap Buffers)
  /\ twice' = twice \cup ({v} \cap handed)

BeginSet(k, v, ttl) ==
  /\ Hand(v)
  /\ Call(NewSet(<<[key |-> k, value |-> v]>>, ttl, FALSE))
  /\ UNCHANGED <<preloadQueue, again, timers, memory>>

BeginDelete(k) ==
  /\ Call([op |-> "delete", key |-> k])
  /\ UNCHANGED <<preloadQueue, again, timers, hands, memory>>

\* A get that finds its entry expired deletes the key, without awaiting it.
Expired(e) == e # None /\ e.ttl # 0 /\ e.age > e.ttl
GetExpired(k) == Expired(cache[k]) /\ BeginDelete(k)

BeginClear ==
  /\ Call([op |-> "clear"])
  /\ UNCHANGED <<preloadQueue, again, timers, hands, memory>>

\* destroy stops the preloading interval, clears and, before any timer runs, stops the
\* monitoring of the memory.  memoryManager.destroy is no function: the call ends there,
\* and invalidation goes on.
BeginDestroy ==
  /\ preloading' = FALSE
  /\ Call([op |-> "clear"])
  /\ UNCHANGED <<preloadQueue, again, untilCheck, hands, memory>>

----
(* The head of the pending calls goes on *)

Buffer(k) == cache[k] # None /\ cache[k].value # None

\* A full pool drops its oldest buffer; the pool is a Set, and has a buffer once.
Room == IF Len(pool) >= PoolSize THEN Tail(pool) ELSE pool
ReturnToPool(b) ==
  /\ pool' = IF Contains(Room, b) THEN Room ELSE Append(Room, b)
  /\ zeroed' = zeroed \cup {b}

\* The value is stored as it is or compressed; one that JSON cannot express is refused.
\* A batch goes on with its next set, or looks whether more has been queued.
Store(c, v) ==
  cache' = [cache EXCEPT ![c.key] = [value |-> v, age |-> 0, ttl |-> c.ttl]]
More == IF preloadQueue = <<>> THEN 0 ELSE 1
Set(c) ==
  /\ \/ Store(c, c.value) /\ UNCHANGED compressed
     \/ Store(c, compressed + 1) /\ compressed' = compressed + 1
     \/ UNCHANGED <<cache, compressed>>
  /\ pending' = Tail(pending) \o (IF c.rest = <<>> THEN <<>> ELSE <<NewSet(c.rest, 0, TRUE)>>)
  /\ again' = again + (IF c.batch /\ c.rest = <<>> THEN More ELSE 0)
  /\ UNCHANGED <<pool, zeroed, preloadQueue, timers, hands>>

Delete(k) ==
  /\ IF Buffer(k) THEN ReturnToPool(cache[k].value) ELSE UNCHANGED <<pool, zeroed>>
  /\ cache' = [cache EXCEPT ![k] = None]
  /\ pending' = Tail(pending)
  /\ UNCHANGED <<compressed, preloadQueue, again, timers, hands>>

\* clear returns the buffers of all entries, in the order of the map (the model takes any
\* order), and drops the entries.  It does so in one go: what the model lets come between
\* two entries only waits behind it.
ClearBuffer(k) ==
  /\ Buffer(k)
  /\ ReturnToPool(cache[k].value)
  /\ cache' = [cache EXCEPT ![k] = None]
  /\ UNCHANGED <<compressed, pending, preloadQueue, again, timers, hands>>

ClearEnds ==
  /\ \A k \in Keys : ~Buffer(k)
  /\ cache' = [k \in Keys |-> None]
  /\ pending' = Tail(pending)
  /\ UNCHANGED <<pool, compressed, zeroed, preloadQueue, again, timers, hands>>

GoOn ==
  /\ pending # <<>>
  /\ LET c == Head(pending) IN
       \/ c.op = "set" /\ Set(c)
       \/ c.op = "delete" /\ Delete(c.key)
       \/ c.op = "clear" /\ ((\E k \in Keys : ClearBuffer(k)) \/ ClearEnds)

----
(* Preloading, invalidation, memory and time: timers, which run when no    *)
(* call waits                                                              *)

Preload(k, v) ==
  /\ Hand(v)
  /\ preloadQueue' = Append(preloadQueue, [key |-> k, value |-> v])
  /\ UNCHANGED <<pending, again, timers, memory>>

\* The interval, or the timeout an earlier batch left behind, takes a batch.
ProcessPreloadQueue ==
  /\ pending = <<>> /\ preloadQueue # <<>>
  /\ LET n == IF Len(preloadQueue) < BatchSize THEN Len(preloadQueue) ELSE BatchSize
         more == IF n = 0 THEN 1 ELSE 0 IN
       /\ \/ preloading /\ again' = again + more
          \/ again > 0 /\ again' = again - 1 + more
       /\ preloadQueue' = SubSeq(preloadQueue, n + 1, Len(preloadQueue))
       /\ IF n = 0 THEN pending' = pending ELSE Call(NewSet(SubSeq(preloadQueue, 1, n), 0, TRUE))
  /\ UNCHANGED <<timers, hands, memory>>

(* Operators named after a defect are wrong variants of the definition that follows them: Next does not
   use them; they serve to check that the properties notice the defect. *)
InvalidateUnread(e) == e.age > MaxAge /\ e.ttl # 0
Invalidate(e) == e.age > MaxAge

CheckInvalidation ==
  /\ pending = <<>> /\ untilCheck = 0
  /\ cache' = [k \in Keys |-> IF cache[k] # None /\ Invalidate(cache[k]) THEN None ELSE cache[k]]
  /\ untilCheck' = Interval
  /\ UNCHANGED <<pool, compressed, zeroed, pending, preloadQueue, preloading, again, hands>>

\* MemoryManager.monitorMemoryUsage, when the heap is nearly full.
ClearAllPools ==
  /\ pending = <<>> /\ preloading
  /\ pool' = <<>>
  /\ UNCHANGED <<cache, compressed, zeroed, pending, preloadQueue, again, timers, hands>>

\* bound: no timer is late, time stands still while a call waits or one is due.
Tick ==
  /\ pending = <<>> /\ untilCheck > 0
  /\ untilCheck' = untilCheck - 1
  /\ cache' = [k \in Keys |-> IF cache[k] = None THEN None ELSE [cache[k] EXCEPT !.age = @ + 1]]
  /\ UNCHANGED <<pool, compressed, zeroed, pending, preloadQueue, preloading, again, hands>>

Next ==
  \/ \E k \in Keys : \/ \E v \in Given : Preload(k, v) \/ \E ttl \in Ttls : BeginSet(k, v, ttl)
                     \/ BeginDelete(k) \/ GetExpired(k)
  \/ BeginClear \/ BeginDestroy \/ GoOn
  \/ ProcessPreloadQueue \/ CheckInvalidation \/ ClearAllPools \/ Tick
Spec == Init /\ [][Next]_cacheVars

----
(* No entry outlives maxAge by more than one period of the invalidation,   *)
(* whether it has a ttl or not, and after a destroy that failed as well.   *)
EntriesInvalidatedInTime ==
  \A k \in Keys : cache[k] # None => cache[k].age <= MaxAge + Interval

(* The pool never exceeds its size.  And returnToPool zeroes what it takes *)
(* for good: an entry may refer to such a buffer only if a caller handed   *)
(* the buffer over more than once, under two keys or again after it was    *)
(* deleted (which the code does not notice); what compression made is      *)
(* never zeroed under an entry.                                            *)
PoolSound ==
  /\ Len(pool) <= PoolSize
  /\ \A k \in Keys : Buffer(k) /\ cache[k].value \in zeroed => cache[k].value \in twice

(* Both: what the cache holds is fresh, and overwritten only by a caller   *)
(* who shares it.                                                          *)
CachingSound == EntriesInvalidatedInTime /\ PoolSound
====
