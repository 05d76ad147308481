-------------------------------- MODULE ApiKeys --------------------------------
(***************************************************************************)
(* The two stores of API keys: src/auth/ApiKeyManager.js holds one key per *)
(* client and rotates it from an interval; src/auth/ApiKeyRotation.js      *)
(* keeps the last maxKeys keys of a client, each with an expiry.  Both are *)
(* synchronous, and the interval fires on time.  Keys are random: the key  *)
(* made by the n-th call for a client is the number n.                     *)
(***************************************************************************)
EXTENDS Naturals, Sequences, FiniteSets

CONSTANTS
  Clients,
  RotationInterval,  \* rotationInterval of both
  MaxKeyAge,         \* ApiKeyManager.maxKeyAge
  MaxKeys,           \* ApiKeyRotation.maxKeys
  MaxMade,           \* bound: keys made for a client
  MaxTime            \* bound: the clock stops here

VARIABLES
  now,       \* Date.now()
  held,      \* ApiKeyManager: the client has a key
  createdAt, \* and when the first one was made
  rotatedAt, \* lastRotated
  nextFire,  \* when the rotation interval fires; 0 when it is not set
  keyStore,  \* ApiKeyRotation: the keys of a client, oldest first
  made,      \* the number of keys made so far
  newest,    \* history: the expiry of the last key made
  startedAt  \* history: when the rotation interval was set

managerVars == <<held, createdAt, rotatedAt, nextFire, startedAt>>
storeVars == <<keyStore, made, newest>>
keyVars == <<now, managerVars, storeVars>>

Least(a, b) == IF a < b THEN a ELSE b
Period == Least(RotationInterval, MaxKeyAge)

-----------------------------------------------------------------------------
(* Operators named after a defect are wrong variants of the definition that *)
(* follows them: Next does not use them; they serve to check that the       *)
(* properties notice the defect.                                            *)

Init ==
  /\ now = 0
  /\ held = {}
  /\ createdAt = [c \in Clients |-> 0]
  /\ rotatedAt = [c \in Clients |-> 0]
  /\ nextFire = 0
  /\ keyStore = [c \in Clients |-> <<>>]
  /\ made = [c \in Clients |-> 0]
  /\ newest = [c \in Clients |-> 0]
  /\ startedAt = 0

-----------------------------------------------------------------------------
(* ApiKeyManager                                                            *)

\* createKey replaces a key that is there.
CreateKey(c) ==
  /\ held' = held \cup {c}
  /\ createdAt' = [createdAt EXCEPT ![c] = now]
  /\ rotatedAt' = [rotatedAt EXCEPT ![c] = now]
  /\ UNCHANGED <<now, nextFire, startedAt, storeVars>>

\* rotateKey, called by a user of the manager: the time of creation stays.
RotateKey(c) ==
  /\ c \in held
  /\ rotatedAt' = [rotatedAt EXCEPT ![c] = now]
  /\ UNCHANGED <<now, held, createdAt, nextFire, startedAt, storeVars>>

RemoveKey(c) ==
  /\ c \in held
  /\ held' = held \ {c}
  /\ UNCHANGED <<now, createdAt, rotatedAt, nextFire, startedAt, storeVars>>

\* A key that was rotated by hand is due only when the client's first is old.
NeedsRotationByAge(c) == now - createdAt[c] >= MaxKeyAge
\* needsRotation: once the first key is old, at every firing.
NeedsRotation(c) ==
  \/ now - rotatedAt[c] >= RotationInterval
  \/ now - createdAt[c] >= MaxKeyAge

\* startRotationInterval replaces the interval, whose period starts again.
StartRotation ==
  /\ nextFire' = now + Period
  /\ startedAt' = now
  /\ UNCHANGED <<now, held, createdAt, rotatedAt, storeVars>>

RotateDue ==
  /\ nextFire = now
  /\ nextFire # 0
  /\ rotatedAt' = [c \in Clients |-> IF c \in held /\ NeedsRotation(c) THEN now ELSE rotatedAt[c]]
  /\ nextFire' = now + Period
  /\ UNCHANGED <<now, held, createdAt, startedAt, storeVars>>

\* cleanup and stop; stopRotationInterval keeps the keys.
StopManager(keep) ==
  /\ nextFire' = 0
  /\ held' = IF keep THEN held ELSE {}
  /\ UNCHANGED <<now, createdAt, rotatedAt, startedAt, storeVars>>

-----------------------------------------------------------------------------
(* ApiKeyRotation                                                           *)

\* slice(-maxKeys) keeps the latest keys.
LastKeys(s) == SubSeq(s, IF Len(s) > MaxKeys THEN Len(s) - MaxKeys + 1 ELSE 1, Len(s))
\* filter: the p-th key of the result is the one kept that has p kept up to it.
Kept(s) == {i \in DOMAIN s : now <= s[i].expiresAt}
Unexpired(s) ==
  [p \in 1..Cardinality(Kept(s)) |-> s[CHOOSE i \in Kept(s) : Cardinality({j \in Kept(s) : j <= i}) = p]]
CleanKeys(s) == LastKeys(Unexpired(s))

\* generateApiKey; rotateApiKey cleans up before.
GenerateApiKey(c, clean) ==
  LET before == IF clean THEN CleanKeys(keyStore[c]) ELSE keyStore[c]
      key == [id |-> made[c] + 1, expiresAt |-> now + RotationInterval]
  IN /\ made[c] < MaxMade
     /\ made' = [made EXCEPT ![c] = @ + 1]
     /\ keyStore' = [keyStore EXCEPT ![c] = LastKeys(Append(before, key))]
     /\ newest' = [newest EXCEPT ![c] = now + RotationInterval]
     /\ UNCHANGED <<now, managerVars>>

\* The key is in the store, and not expired.
Accepts(c, id) == \E i \in DOMAIN keyStore[c] :
                    keyStore[c][i].id = id /\ now <= keyStore[c][i].expiresAt

\* isValidKey refuses an expired key and cleans up the client's keys.
RefuseExpired(c, id) ==
  /\ \E i \in DOMAIN keyStore[c] : keyStore[c][i].id = id
  /\ ~ Accepts(c, id)
  /\ keyStore' = [keyStore EXCEPT ![c] = CleanKeys(@)]
  /\ UNCHANGED <<now, managerVars, made, newest>>

\* cleanup without a client cleans every client's keys.
CleanAll ==
  /\ keyStore' = [c \in Clients |-> CleanKeys(keyStore[c])]
  /\ UNCHANGED <<now, managerVars, made, newest>>

\* Time does not pass the interval's next firing.
Tick ==
  /\ now < MaxTime
  /\ nextFire # 0 => now < nextFire
  /\ now' = now + 1
  /\ UNCHANGED <<managerVars, storeVars>>

Next ==
  \/ \E c \in Clients :
       \/ CreateKey(c)
       \/ RotateKey(c)
       \/ RemoveKey(c)
       \/ \E clean \in BOOLEAN : GenerateApiKey(c, clean)
       \/ \E id \in 1 .. MaxMade : RefuseExpired(c, id)
  \/ StartRotation
  \/ RotateDue
  \/ \E keep \in BOOLEAN : StopManager(keep)
  \/ CleanAll
  \/ Tick

Spec == Init /\ [][Next]_keyVars

-----------------------------------------------------------------------------
ManagerTypeOK ==
  /\ now \in 0 .. MaxTime
  /\ held \subseteq Clients
  /\ createdAt \in [Clients -> 0 .. MaxTime]
  /\ rotatedAt \in [Clients -> 0 .. MaxTime]
  /\ \A c \in Clients : createdAt[c] <= rotatedAt[c]
  /\ nextFire \in 0 .. MaxTime + Period
  /\ startedAt \in 0 .. MaxTime

StoreTypeOK ==
  /\ made \in [Clients -> 0 .. MaxMade]
  /\ newest \in [Clients -> 0 .. MaxTime + RotationInterval]
  /\ keyStore \in [Clients -> Seq([id : 1 .. MaxMade, expiresAt : 0 .. MaxTime + RotationInterval])]

TypeOK == ManagerTypeOK /\ StoreTypeOK

\* startRotationInterval and needsRotation together bound the age of a key: while
\* the interval runs, no key has been in use under it for longer than a rotation
\* interval and one period, whatever is rotated by hand or created meanwhile.
KeysRotatedInTime ==
  \A c \in held :
    nextFire # 0 => \/ now - rotatedAt[c] < RotationInterval + Period
                    \/ now - startedAt < RotationInterval + Period

\* isValidKey accepts the last key generateApiKey made for a client until it
\* expires, whatever has been cleaned up, and at most maxKeys keys of a client.
CurrentKeyAccepted ==
  \A c \in Clients :
    /\ made[c] > 0 /\ now <= newest[c] => Accepts(c, made[c])
    /\ Cardinality({id \in 1 .. made[c] : Accepts(c, id)}) <= MaxKeys

\* Both: the managed keys are rotated in time, the stored ones accepted in time.
KeysSound == KeysRotatedInTime /\ CurrentKeyAccepted
=============================================================================
