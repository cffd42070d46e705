-------------------------- MODULE ScimStoreProofs --------------------------
(***************************************************************************)
(* What the operations of a Transaction do to a store state, for every set  *)
(* of records, ids, scopes and types: they keep it in good order (StoreInv) *)
(* and move each id only forward along its life (Follows).  The proofs of   *)
(* MemoryStore, ScimServer and Reconciler rest on these lemmas.             *)
(***************************************************************************)
EXTENDS ScimStore, TLAPS

StoreInv(s) ==
  /\ IsState(s)
  /\ Keyed(s)
  /\ IdsUnique(s)
  /\ IndexesUnique(s)
  /\ RecordsValid(s)

\* Each id is at the same place in t as in s, or further along.
Follows(s, t) == \A i \in Ids : Stages!Forward(LifeOf(s, i), LifeOf(t, i))

-----------------------------------------------------------------------------
(* Facts about one store state *)

\* newMemoryState is in good order.
LEMMA EmptyStoreInv == StoreInv(newMemoryState)
BY DEF StoreInv, IsState, IsMap, Keyed, IdsUnique, IndexesUnique, RecordsValid,
       newMemoryState, EmptyMap

\* Put writes one key of a Go map.
LEMMA PutMap ==
  ASSUME NEW T, NEW f, IsMap(f, T), NEW k \in Keys, NEW v \in T
  PROVE  /\ IsMap(Put(f, k, v), T)
         /\ DOMAIN Put(f, k, v) = DOMAIN f \cup {k}
         /\ Put(f, k, v)[k] = v
         /\ \A j \in DOMAIN f : j # k => Put(f, k, v)[j] = f[j]
BY DEF IsMap, Put

\* delete() removes one key of a Go map.
LEMMA DropMap ==
  ASSUME NEW T, NEW f, IsMap(f, T), NEW k \in Keys
  PROVE  /\ IsMap(Drop(f, k), T)
         /\ DOMAIN Drop(f, k) = DOMAIN f \ {k}
         /\ \A j \in DOMAIN f : j # k => Drop(f, k)[j] = f[j]
BY DEF IsMap, Drop

\* recordKey of a record is a key, and determines the type and the id.
LEMMA KeyOfRecord ==
  ASSUME NEW r \in Record
  PROVE  /\ recordKey(r.type, r.id) \in Keys
         /\ recordKey(r.type, r.id)[1] = r.type
         /\ recordKey(r.type, r.id)[2] = r.id
BY DEF recordKey, Keys, Record

\* newRecord builds a record of the type and id it is given.
LEMMA NewRecordType ==
  ASSUME NEW scope \in Scopes, NEW manager \in Managers,
         NEW type \in ResourceTypes, NEW id \in Ids,
         NEW doc \in Document, NEW now \in Time, NEW cred \in Credentials \cup {None}
  PROVE  newRecord(scope, manager, type, id, doc, now, cred) \in Record
<1>1. <<type, id, doc, cred>> \in Versions
  BY DEF Versions
<1>2. doc.ext \in ExternalIds \cup {None} /\ doc.name \in Names \cup {None}
  BY DEF Document
<1> QED
  BY <1>1, <1>2 DEF newRecord, Record, calculateRecordVersion

\* tombstoneOf builds a tombstone.
LEMMA TombstoneOfType ==
  ASSUME NEW r \in Record, NEW now \in Time
  PROVE  tombstoneOf(r, now) \in Tombstone
BY DEF tombstoneOf, Tombstone, Record

\* replacementRecord keeps what identifies a record, builds a record that
\* validateRecord accepts, and moves the time of one that changes forward.
LEMMA ReplacementType ==
  ASSUME NEW r \in Record, validateRecord(r), NEW doc \in Document, NEW now \in Time,
         NEW cred \in Credentials \cup {None}
  PROVE  LET u == replacementRecord(r, doc, now, cred) IN
         /\ u \in Record
         /\ validateRecord(u)
         /\ u.type = r.type /\ u.id = r.id /\ u.scope = r.scope
         /\ u.created = r.created /\ u.manager = r.manager
         /\ u.data = doc /\ u.cred = cred
         /\ recordChanges(r, doc, cred) => u.modified > r.modified
         /\ ~recordChanges(r, doc, cred) => u = r
<1> DEFINE u == replacementRecord(r, doc, now, cred)
<1>1. CASE ~recordChanges(r, doc, cred)
  BY <1>1 DEF replacementRecord, recordChanges
<1>2. CASE recordChanges(r, doc, cred)
  <2> DEFINE m == nextModified(r, now)
             v == <<r.type, r.id, doc, cred>>
  <2>1. r.modified \in Nat /\ r.created \in Nat /\ now \in Nat
    BY DEF Record, Time
  <2>2. m \in Nat /\ m > r.modified
    BY <2>1 DEF nextModified
  <2>3. m >= r.created
    BY <2>1, <2>2 DEF validateRecord
  <2>4. v \in Versions
    BY DEF Versions, Record
  <2> HIDE DEF m, v
  <2>5. u = [r EXCEPT !.data = doc, !.ext = doc.ext, !.index = doc.name, !.cred = cred,
                      !.modified = m, !.version = v]
    BY <1>2 DEF replacementRecord, calculateRecordVersion, m, v
  <2>6. doc.ext \in ExternalIds \cup {None} /\ doc.name \in Names \cup {None}
    BY DEF Document
  <2>7. u \in Record
    BY <2>2, <2>4, <2>5, <2>6 DEF Record, Time
  <2>8. /\ u.type = r.type /\ u.id = r.id /\ u.scope = r.scope
        /\ u.created = r.created /\ u.manager = r.manager
        /\ u.data = doc /\ u.cred = cred /\ u.ext = doc.ext /\ u.index = doc.name
        /\ u.modified = m /\ u.version = v
    BY <2>5 DEF Record
  <2>9. validateRecord(u)
    BY <2>3, <2>8 DEF validateRecord, calculateRecordVersion, v
  <2> QED
    BY <1>2, <2>2, <2>7, <2>8, <2>9
<1> QED
  BY <1>1, <1>2

-----------------------------------------------------------------------------
(* What an operation that returns nil changes *)

\* Create puts the record under a key that was neither live nor deleted.
LEMMA CreateEffect ==
  ASSUME NEW s, StoreInv(s), NEW r \in Record, CreateError(s, r) = "nil"
  PROVE  LET t == Create(s, r)
             key == recordKey(r.type, r.id)
         IN  /\ key \notin DOMAIN s.records \cup DOMAIN s.tombstones
             /\ DOMAIN t.records = DOMAIN s.records \cup {key}
             /\ t.records[key] = r
             /\ \A j \in DOMAIN s.records : t.records[j] = s.records[j]
             /\ t.tombstones = s.tombstones
<1> DEFINE key == recordKey(r.type, r.id)
           t == Create(s, r)
<1>1. ~identityTaken(s, r) /\ ~tombstoned(s, r)
  BY DEF CreateError
<1>2. key \in Keys /\ key[2] = r.id
  BY KeyOfRecord
<1>3. \A k \in DOMAIN s.records \cup DOMAIN s.tombstones : k[2] # r.id
  BY <1>1 DEF identityTaken, tombstoned, StoreInv, IsState, IsMap, Keyed, recordKey,
              Record, Tombstone
<1>4. t = [records |-> Put(s.records, key, r), tombstones |-> s.tombstones]
  BY DEF Create, StoreInv, IsState
<1>5. IsMap(s.records, Record)
  BY DEF StoreInv, IsState
<1> HIDE DEF t, key
<1> QED
  BY <1>2, <1>3, <1>4, <1>5, PutMap, SMTT(30) DEF t, key

\* Replace changes the record under its key and nothing else.
LEMMA ReplaceEffect ==
  ASSUME NEW s, StoreInv(s), NEW r \in Record, NEW expected,
         ReplaceError(s, r, expected) = "nil"
  PROVE  LET t == Replace(s, r, expected)
             key == recordKey(r.type, r.id)
         IN  /\ key \in DOMAIN s.records
             /\ DOMAIN t.records = DOMAIN s.records
             /\ t.records[key] = r
             /\ \A j \in DOMAIN s.records : j # key => t.records[j] = s.records[j]
             /\ t.tombstones = s.tombstones
<1> DEFINE key == recordKey(r.type, r.id)
           t == Replace(s, r, expected)
<1>1. key \in DOMAIN s.records
  BY DEF ReplaceError, found
<1>2. key \in Keys
  BY KeyOfRecord
<1>3. t = [records |-> Put(s.records, key, r), tombstones |-> s.tombstones]
  BY DEF Replace, StoreInv, IsState
<1>4. IsMap(s.records, Record)
  BY DEF StoreInv, IsState
<1> HIDE DEF t, key
<1> QED
  BY <1>1, <1>2, <1>3, <1>4, PutMap DEF t, key

\* Delete moves one key from the records to the tombstones.
LEMMA DeleteEffect ==
  ASSUME NEW s, StoreInv(s), NEW scope, NEW key, NEW expected, NEW m \in Tombstone,
         DeleteError(s, scope, key, expected, m) = "nil"
  PROVE  LET t == Delete(s, scope, key, expected, m)
         IN  /\ key \in DOMAIN s.records
             /\ DOMAIN t.records = DOMAIN s.records \ {key}
             /\ \A j \in DOMAIN s.records : j # key => t.records[j] = s.records[j]
             /\ DOMAIN t.tombstones = DOMAIN s.tombstones \cup {key}
             /\ t.tombstones[key] = m
             /\ \A j \in DOMAIN s.tombstones : j # key => t.tombstones[j] = s.tombstones[j]
<1> DEFINE t == Delete(s, scope, key, expected, m)
<1>1. key \in DOMAIN s.records
  BY DEF DeleteError, found
<1>2. IsMap(s.records, Record) /\ IsMap(s.tombstones, Tombstone) /\ key \in Keys
  BY <1>1 DEF StoreInv, IsState, IsMap
<1>3. t = [records |-> Drop(s.records, key), tombstones |-> Put(s.tombstones, key, m)]
  BY DEF Delete
<1> HIDE DEF t
<1>4. /\ DOMAIN t.records = DOMAIN s.records \ {key}
      /\ \A j \in DOMAIN s.records : j # key => t.records[j] = s.records[j]
  BY <1>2, <1>3, DropMap
<1>5. /\ DOMAIN t.tombstones = DOMAIN s.tombstones \cup {key}
      /\ t.tombstones[key] = m
      /\ \A j \in DOMAIN s.tombstones : j # key => t.tombstones[j] = s.tombstones[j]
  <2> DEFINE tombs == Put(s.tombstones, key, m)
  <2>1. /\ DOMAIN tombs = DOMAIN s.tombstones \cup {key}
        /\ tombs[key] = m
        /\ \A j \in DOMAIN s.tombstones : j # key => tombs[j] = s.tombstones[j]
    BY DEF Put
  <2> QED
    BY <1>3, <2>1
<1> QED
  BY <1>1, <1>4, <1>5 DEF t

-----------------------------------------------------------------------------
(* Operations keep a store state in good order *)

\* memoryTransaction.Create keeps ids and unique values unshared.
LEMMA CreateKeeps ==
  ASSUME NEW s, StoreInv(s), NEW r \in Record
  PROVE  StoreInv(Create(s, r))
<1>1. CASE CreateError(s, r) # "nil"
  BY <1>1 DEF Create
<1>2. CASE CreateError(s, r) = "nil"
  <2> DEFINE key == recordKey(r.type, r.id)
             recs == Put(s.records, key, r)
             t == [records |-> recs, tombstones |-> s.tombstones]
  <2>1. /\ validateRecord(r)
        /\ ~identityTaken(s, r)
        /\ ~tombstoned(s, r)
        /\ ~hasIndexConflict(s, r, {})
    BY <1>2 DEF CreateError
  <2>2. Create(s, r) = t
    BY <1>2 DEF Create, StoreInv, IsState
  <2>3. key \in Keys /\ key[1] = r.type /\ key[2] = r.id
    BY KeyOfRecord
  <2>4. /\ IsMap(recs, Record)
        /\ DOMAIN recs = DOMAIN s.records \cup {key}
        /\ recs[key] = r
        /\ \A j \in DOMAIN s.records : j # key => recs[j] = s.records[j]
    BY <2>3, PutMap DEF StoreInv, IsState
  <2>5. /\ t.records = recs
        /\ t.tombstones = s.tombstones
    OBVIOUS
  <2> HIDE DEF recs, t
  <2>6. \A k \in DOMAIN s.records : k[2] # r.id
    BY <2>1 DEF identityTaken, StoreInv, IsState, IsMap, Keyed, recordKey, Record
  <2>7. \A k \in DOMAIN s.tombstones : k[2] # r.id
    BY <2>1 DEF tombstoned, StoreInv, IsState, IsMap, Keyed, recordKey, Tombstone
  <2>8. IsState(t)
    BY <2>4, <2>5 DEF StoreInv, IsState, t
  <2>9. Keyed(t)
    BY <2>4, <2>5 DEF StoreInv, Keyed
  <2>10. IdsUnique(t)
    BY <2>3, <2>4, <2>5, <2>6, <2>7 DEF StoreInv, IdsUnique
  <2>11. IndexesUnique(t)
    BY <2>1, <2>4, <2>5 DEF StoreInv, IndexesUnique, hasIndexConflict
  <2>12. RecordsValid(t)
    BY <2>1, <2>4, <2>5 DEF StoreInv, RecordsValid
  <2> QED
    BY <2>2, <2>8, <2>9, <2>10, <2>11, <2>12 DEF StoreInv
<1> QED
  BY <1>1, <1>2

\* memoryTransaction.Replace keeps the same facts, and the owner of the record.
LEMMA ReplaceKeeps ==
  ASSUME NEW s, StoreInv(s), NEW r \in Record, NEW expected
  PROVE  StoreInv(Replace(s, r, expected))
<1>1. CASE ReplaceError(s, r, expected) # "nil"
  BY <1>1 DEF Replace
<1>2. CASE ReplaceError(s, r, expected) = "nil"
  <2> DEFINE key == recordKey(r.type, r.id)
             recs == Put(s.records, key, r)
             t == [records |-> recs, tombstones |-> s.tombstones]
  <2>1. /\ validateRecord(r)
        /\ key \in DOMAIN s.records
        /\ ~hasIndexConflict(s, r, {key})
    BY <1>2 DEF ReplaceError, found
  <2>2. Replace(s, r, expected) = t
    BY <1>2 DEF Replace, StoreInv, IsState
  <2>3. key \in Keys /\ key[1] = r.type /\ key[2] = r.id
    BY KeyOfRecord
  <2>4. /\ IsMap(recs, Record)
        /\ DOMAIN recs = DOMAIN s.records
        /\ recs[key] = r
        /\ \A j \in DOMAIN s.records : j # key => recs[j] = s.records[j]
    BY <2>1, <2>3, PutMap DEF StoreInv, IsState
  <2>5. /\ t.records = recs
        /\ t.tombstones = s.tombstones
    OBVIOUS
  <2> HIDE DEF recs, t
  <2>6. IsState(t)
    BY <2>4, <2>5 DEF StoreInv, IsState, t
  <2>7. Keyed(t)
    BY <2>4, <2>5 DEF StoreInv, Keyed
  <2>8. IdsUnique(t)
    BY <2>4, <2>5 DEF StoreInv, IdsUnique
  <2>9. IndexesUnique(t)
    BY <2>1, <2>4, <2>5 DEF StoreInv, IndexesUnique, hasIndexConflict
  <2>10. RecordsValid(t)
    BY <2>1, <2>4, <2>5 DEF StoreInv, RecordsValid
  <2> QED
    BY <2>2, <2>6, <2>7, <2>8, <2>9, <2>10 DEF StoreInv
<1> QED
  BY <1>1, <1>2

\* memoryTransaction.Delete moves one key from the records to the tombstones.
LEMMA DeleteKeeps ==
  ASSUME NEW s, StoreInv(s), NEW scope, NEW key, NEW expected, NEW m \in Tombstone
  PROVE  StoreInv(Delete(s, scope, key, expected, m))
<1>1. CASE DeleteError(s, scope, key, expected, m) # "nil"
  BY <1>1 DEF Delete
<1>2. CASE DeleteError(s, scope, key, expected, m) = "nil"
  <2> DEFINE recs == Drop(s.records, key)
             tombs == Put(s.tombstones, key, m)
             t == [records |-> recs, tombstones |-> tombs]
  <2>1. /\ key \in DOMAIN s.records
        /\ m = tombstoneOf(s.records[key], m.deletedAt)
        /\ key \notin DOMAIN s.tombstones
    BY <1>2 DEF DeleteError, found
  <2>2. Delete(s, scope, key, expected, m) = t
    BY <1>2 DEF Delete
  <2>3. key \in Keys
    BY <2>1 DEF StoreInv, IsState, IsMap
  <2>4. /\ IsMap(recs, Record)
        /\ DOMAIN recs = DOMAIN s.records \ {key}
        /\ \A j \in DOMAIN s.records : j # key => recs[j] = s.records[j]
    <3>1. IsMap(s.records, Record)
      BY DEF StoreInv, IsState
    <3> QED
      BY <2>3, <3>1, DropMap DEF recs
  <2>5. /\ IsMap(tombs, Tombstone)
        /\ DOMAIN tombs = DOMAIN s.tombstones \cup {key}
        /\ tombs[key] = m
        /\ \A j \in DOMAIN s.tombstones : j # key => tombs[j] = s.tombstones[j]
    <3>1. IsMap(s.tombstones, Tombstone)
      BY DEF StoreInv, IsState
    <3> QED
      BY <2>3, <3>1, PutMap DEF tombs
  <2>6. /\ t.records = recs
        /\ t.tombstones = tombs
    OBVIOUS
  <2>7. /\ m.type = s.records[key].type
        /\ m.id = s.records[key].id
    BY <2>1 DEF tombstoneOf
  <2> HIDE DEF recs, tombs, t
  <2>8. IsState(t)
    BY <2>4, <2>5, <2>6 DEF StoreInv, IsState, t
  <2>9. Keyed(t)
    BY <2>1, <2>4, <2>5, <2>6, <2>7 DEF StoreInv, Keyed
  <2>10. IdsUnique(t)
    BY <2>1, <2>4, <2>5, <2>6 DEF StoreInv, IdsUnique
  <2>11. IndexesUnique(t)
    BY <2>4, <2>6 DEF StoreInv, IndexesUnique
  <2>12. RecordsValid(t)
    BY <2>4, <2>6 DEF StoreInv, RecordsValid
  <2> QED
    BY <2>2, <2>8, <2>9, <2>10, <2>11, <2>12 DEF StoreInv
<1> QED
  BY <1>1, <1>2

-----------------------------------------------------------------------------
(* Operations only move ids forward *)

\* In a state in good order, LifeOf an id is what its only key says.
LEMMA LifeOfKey ==
  ASSUME NEW s, StoreInv(s)
  PROVE  /\ \A k \in DOMAIN s.records :
              LifeOf(s, k[2]) = Stages!Live(OwnerOf(s.records[k]))
         /\ \A k \in DOMAIN s.tombstones :
              LifeOf(s, k[2]) = Stages!Dead(OwnerOf(s.tombstones[k]))
<1>1. ASSUME NEW k \in DOMAIN s.records
      PROVE  LifeOf(s, k[2]) = Stages!Live(OwnerOf(s.records[k]))
  <2>1. k = CHOOSE j \in DOMAIN s.records : j[2] = k[2]
    BY <1>1 DEF StoreInv, IdsUnique
  <2> QED
    BY <1>1, <2>1 DEF LifeOf, Stages!Live
<1>2. ASSUME NEW k \in DOMAIN s.tombstones
      PROVE  LifeOf(s, k[2]) = Stages!Dead(OwnerOf(s.tombstones[k]))
  <2>1. k = CHOOSE j \in DOMAIN s.tombstones : j[2] = k[2]
    BY <1>2 DEF StoreInv, IdsUnique
  <2>2. ~ \E j \in DOMAIN s.records : j[2] = k[2]
    BY <1>2 DEF StoreInv, IdsUnique
  <2> QED
    BY <1>2, <2>1, <2>2 DEF LifeOf, Stages!Dead
<1> QED
  BY <1>1, <1>2

\* An id without a key is unused.
LEMMA LifeOfUnused ==
  ASSUME NEW s, NEW i \in Ids,
         \A k \in DOMAIN s.records : k[2] # i,
         \A k \in DOMAIN s.tombstones : k[2] # i
  PROVE  LifeOf(s, i) = Stages!Unused
BY DEF LifeOf, Stages!Unused

\* Every id of a state in good order is at one of the abstract stages.
LEMMA LifeOfType ==
  ASSUME NEW s, StoreInv(s), NEW i \in Ids
  PROVE  LifeOf(s, i) \in Stages!LifeStates
<1>1. CASE \E k \in DOMAIN s.records : k[2] = i
  <2>1. PICK k \in DOMAIN s.records : k[2] = i
    BY <1>1
  <2>2. OwnerOf(s.records[k]) \in Owners
    BY DEF StoreInv, IsState, IsMap, Record, OwnerOf, Owners
  <2> QED
    BY <2>1, <2>2, LifeOfKey DEF Stages!LifeStates
<1>2. CASE \E k \in DOMAIN s.tombstones : k[2] = i
  <2>1. PICK k \in DOMAIN s.tombstones : k[2] = i
    BY <1>2
  <2>2. OwnerOf(s.tombstones[k]) \in Owners
    BY DEF StoreInv, IsState, IsMap, Tombstone, OwnerOf, Owners
  <2> QED
    BY <2>1, <2>2, LifeOfKey DEF Stages!LifeStates
<1>3. CASE /\ \A k \in DOMAIN s.records : k[2] # i
           /\ \A k \in DOMAIN s.tombstones : k[2] # i
  BY <1>3, LifeOfUnused DEF Stages!LifeStates
<1> QED
  BY <1>1, <1>2, <1>3

\* Lives go forward through any number of operations.
LEMMA FollowsTransitive ==
  ASSUME NEW s, NEW t, NEW u, Follows(s, t), Follows(t, u)
  PROVE  Follows(s, u)
<1> SUFFICES ASSUME NEW i \in Ids
             PROVE  Stages!Forward(LifeOf(s, i), LifeOf(u, i))
  BY DEF Follows
<1>1. Stages!Forward(LifeOf(s, i), LifeOf(t, i)) /\ Stages!Forward(LifeOf(t, i), LifeOf(u, i))
  BY DEF Follows
<1> QED
  BY <1>1 DEF Stages!Forward, Stages!Unused, Stages!Live, Stages!Dead

\* Create takes an unused id.
LEMMA CreateFollows ==
  ASSUME NEW s, StoreInv(s), NEW r \in Record
  PROVE  Follows(s, Create(s, r))
<1>1. CASE CreateError(s, r) # "nil"
  BY <1>1 DEF Create, Follows, Stages!Forward
<1>2. CASE CreateError(s, r) = "nil"
  <2> DEFINE key == recordKey(r.type, r.id)
             t == Create(s, r)
  <2>1. /\ DOMAIN t.records = DOMAIN s.records \cup {key}
        /\ \A j \in DOMAIN s.records : t.records[j] = s.records[j]
        /\ t.tombstones = s.tombstones
    BY <1>2, CreateEffect
  <2>7. StoreInv(t)
    BY CreateKeeps
  <2> HIDE DEF t
  <2> SUFFICES ASSUME NEW i \in Ids
               PROVE  Stages!Forward(LifeOf(s, i), LifeOf(t, i))
    BY DEF Follows, t
  <2>8. CASE \E k \in DOMAIN s.records : k[2] = i
    <3>1. PICK k \in DOMAIN s.records : k[2] = i
      BY <2>8
    <3>2. k \in DOMAIN t.records /\ t.records[k] = s.records[k]
      BY <2>1
    <3> QED
      BY <2>7, <3>1, <3>2, LifeOfKey DEF Stages!Forward
  <2>9. CASE \E k \in DOMAIN s.tombstones : k[2] = i
    BY <2>1, <2>7, <2>9, LifeOfKey DEF Stages!Forward
  <2>10. CASE /\ \A k \in DOMAIN s.records : k[2] # i
              /\ \A k \in DOMAIN s.tombstones : k[2] # i
    BY <2>10, LifeOfUnused DEF Stages!Forward
  <2> QED
    BY <2>8, <2>9, <2>10
<1> QED
  BY <1>1, <1>2

\* Replace leaves every id with its owner.
LEMMA ReplaceFollows ==
  ASSUME NEW s, StoreInv(s), NEW r \in Record, NEW expected
  PROVE  Follows(s, Replace(s, r, expected))
<1>1. CASE ReplaceError(s, r, expected) # "nil"
  BY <1>1 DEF Replace, Follows, Stages!Forward
<1>2. CASE ReplaceError(s, r, expected) = "nil"
  <2> DEFINE key == recordKey(r.type, r.id)
             t == Replace(s, r, expected)
  <2>1. /\ key \in DOMAIN s.records
        /\ s.records[key].scope = r.scope
        /\ s.records[key].manager = r.manager
    BY <1>2 DEF ReplaceError, found
  <2>5. /\ DOMAIN t.records = DOMAIN s.records
        /\ t.records[key] = r
        /\ \A j \in DOMAIN s.records : j # key => t.records[j] = s.records[j]
        /\ t.tombstones = s.tombstones
    BY <1>2, ReplaceEffect
  <2>6. s.records[key].type = r.type
    BY <2>1, KeyOfRecord DEF StoreInv, Keyed, recordKey
  <2>7. \A k \in DOMAIN s.records : OwnerOf(t.records[k]) = OwnerOf(s.records[k])
    BY <2>1, <2>5, <2>6 DEF OwnerOf
  <2>8. StoreInv(t)
    BY ReplaceKeeps
  <2> HIDE DEF t
  <2> SUFFICES ASSUME NEW i \in Ids
               PROVE  Stages!Forward(LifeOf(s, i), LifeOf(t, i))
    BY DEF Follows, t
  <2>9. CASE \E k \in DOMAIN s.records : k[2] = i
    BY <2>5, <2>7, <2>8, <2>9, LifeOfKey DEF Stages!Forward
  <2>10. CASE \E k \in DOMAIN s.tombstones : k[2] = i
    BY <2>5, <2>8, <2>10, LifeOfKey DEF Stages!Forward
  <2>11. CASE /\ \A k \in DOMAIN s.records : k[2] # i
              /\ \A k \in DOMAIN s.tombstones : k[2] # i
    BY <2>11, LifeOfUnused DEF Stages!Forward
  <2> QED
    BY <2>9, <2>10, <2>11
<1> QED
  BY <1>1, <1>2

\* Delete kills one live id and keeps its owner in the tombstone.
LEMMA DeleteFollows ==
  ASSUME NEW s, StoreInv(s), NEW scope, NEW key, NEW expected, NEW m \in Tombstone
  PROVE  Follows(s, Delete(s, scope, key, expected, m))
<1>1. CASE DeleteError(s, scope, key, expected, m) # "nil"
  BY <1>1 DEF Delete, Follows, Stages!Forward
<1>2. CASE DeleteError(s, scope, key, expected, m) = "nil"
  <2> DEFINE t == Delete(s, scope, key, expected, m)
  <2>1. /\ key \in DOMAIN s.records
        /\ m = tombstoneOf(s.records[key], m.deletedAt)
    BY <1>2 DEF DeleteError, found
  <2>4. /\ DOMAIN t.records = DOMAIN s.records \ {key}
        /\ \A j \in DOMAIN s.records : j # key => t.records[j] = s.records[j]
    BY <1>2, DeleteEffect
  <2>5. /\ DOMAIN t.tombstones = DOMAIN s.tombstones \cup {key}
        /\ t.tombstones[key] = m
        /\ \A j \in DOMAIN s.tombstones : j # key => t.tombstones[j] = s.tombstones[j]
    BY <1>2, DeleteEffect
  <2>6. OwnerOf(m) = OwnerOf(s.records[key])
    BY <2>1 DEF OwnerOf, tombstoneOf
  <2>7. OwnerOf(s.records[key]) \in Owners
    BY <2>1 DEF StoreInv, IsState, IsMap, Record, OwnerOf, Owners
  <2>8. StoreInv(t)
    BY DeleteKeeps
  <2>9. key \notin DOMAIN s.tombstones
    BY <2>1 DEF StoreInv, IdsUnique
  <2> HIDE DEF t
  <2> SUFFICES ASSUME NEW i \in Ids
               PROVE  Stages!Forward(LifeOf(s, i), LifeOf(t, i))
    BY DEF Follows, t
  <2>10. CASE i = key[2]
    <3>1. LifeOf(s, i) = Stages!Live(OwnerOf(s.records[key]))
      BY <2>1, <2>10, LifeOfKey
    <3>2. LifeOf(t, i) = Stages!Dead(OwnerOf(s.records[key]))
      BY <2>5, <2>6, <2>8, <2>10, LifeOfKey
    <3> QED
      BY <2>7, <3>1, <3>2 DEF Stages!Forward
  <2>11. CASE i # key[2] /\ \E k \in DOMAIN s.records : k[2] = i
    <3>1. PICK k \in DOMAIN s.records : k[2] = i
      BY <2>11
    <3>2. k \in DOMAIN t.records /\ t.records[k] = s.records[k]
      BY <2>4, <2>11, <3>1
    <3> QED
      BY <2>8, <3>1, <3>2, LifeOfKey DEF Stages!Forward
  <2>12. CASE \E k \in DOMAIN s.tombstones : k[2] = i
    <3>1. PICK k \in DOMAIN s.tombstones : k[2] = i
      BY <2>12
    <3>2. k \in DOMAIN t.tombstones /\ t.tombstones[k] = s.tombstones[k]
      BY <2>5, <2>9, <3>1
    <3> QED
      BY <2>8, <3>1, <3>2, LifeOfKey DEF Stages!Forward
  <2>13. CASE /\ \A k \in DOMAIN s.records : k[2] # i
              /\ \A k \in DOMAIN s.tombstones : k[2] # i
    BY <2>13, LifeOfUnused DEF Stages!Forward
  <2> QED
    BY <2>10, <2>11, <2>12, <2>13
<1> QED
  BY <1>1, <1>2
=============================================================================
