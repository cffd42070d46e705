-------------------------- MODULE ReconcilerProofs --------------------------
(***************************************************************************)
(* Theorems about Reconciler, for every set of managers, requests,          *)
(* documents and ids, every sort order of identities and every bound.       *)
(*                                                                          *)
(* The inductive invariant relates the private copy of the transaction that *)
(* runs to the store it was copied from, which the mutex keeps as it was:   *)
(* which records the copy has changed, added and dropped so far (Built),    *)
(* which ones are still to be looked at (Remaining) and what has been       *)
(* counted (Counted).                                                       *)
(***************************************************************************)
EXTENDS Reconciler, ScimStoreProofs, FiniteSetTheorems, WellFoundedInduction

\* A record is what request q of manager m desires for its identity.
InPlace(m, q, r) ==
  /\ r.scope = q.scope
  /\ r.manager = m
  /\ identityOf(r) \in DOMAIN q.desired
  /\ r.data = q.desired[identityOf(r)]

\* A record of the store that w has too: changed only if it is the manager's, has
\* an identity that is done and differed from what is desired for it.
Changed(m, q, s, w, done) ==
  \A k \in DOMAIN s.records \cap DOMAIN w.records :
    LET old == s.records[k]
        new == w.records[k]
    IN  /\ new # old => /\ identityOf(old) \in done
                        /\ old.scope = q.scope
                        /\ old.manager = m
                        /\ identityOf(new) = identityOf(old)
                        /\ new.created = old.created
                        /\ ~InPlace(m, q, old)
        /\ identityOf(old) \in done /\ old.scope = q.scope => InPlace(m, q, new)

\* A record that only w has: it is desired, and nothing in the store, live or
\* deleted, bears its identity.
Added(m, q, s, w, done) ==
  \A k \in DOMAIN w.records \ DOMAIN s.records :
    LET new == w.records[k] IN
    /\ identityOf(new) \in done
    /\ InPlace(m, q, new)
    /\ bearers(s, q.scope, identityOf(new)) = {}
    /\ ~tombstonedIdentity(s, q.scope, identityOf(new))

\* A record that w has no more: the manager's, not desired, and to be deleted.
Dropped(m, q, s, w) ==
  \A k \in DOMAIN s.records \ DOMAIN w.records :
    /\ k \in managedKeys(s, q.scope, m)
    /\ identityOf(s.records[k]) \notin DOMAIN q.desired
    /\ q.deleteMissing

\* Every identity that is done has its record in w.
Reached(m, q, w, done) ==
  \A d \in done : \E k \in bearers(w, q.scope, d) : InPlace(m, q, w.records[k])

\* The tombstones of w are those of the store and of the records w dropped.
Buried(s, w) ==
  /\ DOMAIN w.tombstones = DOMAIN s.tombstones \cup (DOMAIN s.records \ DOMAIN w.records)
  /\ \A k \in DOMAIN s.tombstones : w.tombstones[k] = s.tombstones[k]

\* What the transaction of m has made of store s once the identities in done are
\* applied.
Built(m, q, s, w, done) ==
  /\ Changed(m, q, s, w, done)
  /\ Added(m, q, s, w, done)
  /\ Dropped(m, q, s, w)
  /\ Reached(m, q, w, done)
  /\ Buried(s, w)

\* The managed map: the manager's records that were not desired so far and are
\* not deleted yet.
Remaining(m, q, s, w, done) ==
  {k \in managedKeys(s, q.scope, m) \cap DOMAIN w.records : identityOf(s.records[k]) \notin done}

\* The records that the counts of ReconcileResult count.
New(s, w)  == DOMAIN w.records \ DOMAIN s.records
Gone(s, w) == DOMAIN s.records \ DOMAIN w.records
Updated(s, w) ==
  {k \in DOMAIN s.records \cap DOMAIN w.records : w.records[k] # s.records[k]}
Same(q, s, w, done) ==
  {k \in DOMAIN s.records \cap DOMAIN w.records :
     /\ s.records[k].scope = q.scope
     /\ identityOf(s.records[k]) \in done
     /\ w.records[k] = s.records[k]}

Counted(q, s, w, done, counts) ==
  counts = [created   |-> Cardinality(New(s, w)),
            updated   |-> Cardinality(Updated(s, w)),
            unchanged |-> Cardinality(Same(q, s, w, done)),
            deleted   |-> Cardinality(Gone(s, w))]

\* A tombstone keeps the externalId its record had.
TombstonesTrue(s) ==
  \A k \in DOMAIN s.tombstones : s.tombstones[k].ext = s.tombstones[k].version[3].ext

\* A store state in good order with finitely many records.
Sound(s) ==
  /\ StoreInv(s)
  /\ TombstonesTrue(s)
  /\ IsFiniteSet(DOMAIN s.records)

\* The identities that m's transaction has applied.
Done(m) == DOMAIN run[m].req.desired \ run[m].todo

\* What Begin puts into run[m].
TransactionFields == {"phase", "req", "now", "working", "todo", "managed", "counts"}

\* What holds of the transaction of m while it runs.
TransactionInv(m) ==
  LET q == run[m].req
      w == run[m].working
  IN  /\ DOMAIN run[m] = TransactionFields
      /\ run[m].todo \subseteq DOMAIN q.desired
      /\ ~duplicateIdentity(store, q.scope)
      /\ Sound(w)
      /\ Follows(store, w)
      /\ Built(m, q, store, w, Done(m))
      /\ run[m].managed = Remaining(m, q, store, w, Done(m))
      /\ Counted(q, store, w, Done(m), run[m].counts)

\* What holds of the call of m at any time.
RunInv(m) ==
  /\ run[m].phase \in {"idle", "prepared", "transacting"}
  /\ run[m].phase # "idle" => run[m].req \in Requests /\ run[m].now \in Time
  /\ run[m].phase = "transacting" => TransactionInv(m)

\* The counters stay within their bounds.
Bounded == clock \in 1..MaxTime /\ runs \in 0..MaxRuns /\ writes \in 0..MaxWrites

\* At most one transaction runs.
Exclusive ==
  \A m, n \in Reconcilers :
    run[m].phase = "transacting" /\ run[n].phase = "transacting" => m = n

\* The inductive invariant.
Inv ==
  /\ Bounded
  /\ Sound(store)
  /\ run = [m \in Reconcilers |-> run[m]]
  /\ outcome = [m \in Reconcilers |-> outcome[m]]
  /\ Exclusive
  /\ \A m \in Reconcilers : RunInv(m)

-----------------------------------------------------------------------------
(* Sound states *)

\* The empty store is sound.
LEMMA EmptySound == Sound(newMemoryState)
BY EmptyStoreInv, FS_EmptySet DEF Sound, TombstonesTrue, newMemoryState, EmptyMap

\* Create adds one record and no tombstone.
LEMMA CreateSound ==
  ASSUME NEW s, Sound(s), NEW r \in Record
  PROVE  Sound(Create(s, r)) /\ Follows(s, Create(s, r))
<1>1. StoreInv(Create(s, r)) /\ Follows(s, Create(s, r))
  BY CreateKeeps, CreateFollows DEF Sound
<1>2. CASE CreateError(s, r) # "nil"
  BY <1>1, <1>2 DEF Create
<1>3. CASE CreateError(s, r) = "nil"
  <2> DEFINE t == Create(s, r)
  <2>1. /\ DOMAIN t.records = DOMAIN s.records \cup {recordKey(r.type, r.id)}
        /\ t.tombstones = s.tombstones
    BY <1>3, CreateEffect DEF Sound
  <2> HIDE DEF t
  <2>2. IsFiniteSet(DOMAIN t.records)
    BY <2>1, FS_AddElement DEF Sound
  <2> QED
    BY <1>1, <2>1, <2>2 DEF Sound, TombstonesTrue, t
<1> QED
  BY <1>2, <1>3

\* Replace keeps the keys and the tombstones.
LEMMA ReplaceSound ==
  ASSUME NEW s, Sound(s), NEW r \in Record, NEW expected
  PROVE  Sound(Replace(s, r, expected)) /\ Follows(s, Replace(s, r, expected))
<1>1. StoreInv(Replace(s, r, expected)) /\ Follows(s, Replace(s, r, expected))
  BY ReplaceKeeps, ReplaceFollows DEF Sound
<1>2. CASE ReplaceError(s, r, expected) # "nil"
  BY <1>1, <1>2 DEF Replace
<1>3. CASE ReplaceError(s, r, expected) = "nil"
  <2> DEFINE t == Replace(s, r, expected)
  <2>1. DOMAIN t.records = DOMAIN s.records /\ t.tombstones = s.tombstones
    BY <1>3, ReplaceEffect DEF Sound
  <2> HIDE DEF t
  <2> QED
    BY <1>1, <2>1 DEF Sound, TombstonesTrue, t
<1> QED
  BY <1>2, <1>3

\* Delete drops one record, and its tombstone keeps the record's externalId.
LEMMA DeleteSound ==
  ASSUME NEW s, Sound(s), NEW scope, NEW key, NEW expected, NEW b \in Tombstone
  PROVE  /\ Sound(Delete(s, scope, key, expected, b))
         /\ Follows(s, Delete(s, scope, key, expected, b))
<1> DEFINE t == Delete(s, scope, key, expected, b)
<1>1. StoreInv(t) /\ Follows(s, t)
  BY DeleteKeeps, DeleteFollows DEF Sound
<1>2. CASE DeleteError(s, scope, key, expected, b) # "nil"
  BY <1>1, <1>2 DEF Delete
<1>3. CASE DeleteError(s, scope, key, expected, b) = "nil"
  <2>1. /\ key \in DOMAIN s.records
        /\ DOMAIN t.records = DOMAIN s.records \ {key}
        /\ DOMAIN t.tombstones = DOMAIN s.tombstones \cup {key}
        /\ t.tombstones[key] = b
        /\ \A j \in DOMAIN s.tombstones : j # key => t.tombstones[j] = s.tombstones[j]
    BY <1>3, DeleteEffect DEF Sound
  <2>2. b = tombstoneOf(s.records[key], b.deletedAt)
    BY <1>3 DEF DeleteError
  <2>3. b.ext = s.records[key].ext /\ b.version = s.records[key].version
    BY <2>2 DEF tombstoneOf
  <2>4. validateRecord(s.records[key])
    BY <2>1 DEF Sound, StoreInv, RecordsValid
  <2>5. b.ext = b.version[3].ext
    BY <2>3, <2>4 DEF validateRecord, calculateRecordVersion
  <2> HIDE DEF t
  <2>6. TombstonesTrue(t)
    BY <2>1, <2>5 DEF Sound, TombstonesTrue
  <2>7. IsFiniteSet(DOMAIN t.records)
    BY <2>1, FS_RemoveElement DEF Sound
  <2> QED
    BY <1>1, <2>6, <2>7 DEF Sound, t
<1> QED
  BY <1>2, <1>3

-----------------------------------------------------------------------------
(* What one step of the transaction makes of the copy *)

\* Without duplicates, an identity has at most one bearer.
LEMMA OneBearer ==
  ASSUME NEW s, NEW scope, ~duplicateIdentity(s, scope), NEW d \in Identities,
         NEW j \in bearers(s, scope, d), NEW k \in bearers(s, scope, d)
  PROVE  j = k
BY DEF duplicateIdentity

\* Nothing is dropped, changed or counted for an identity that is not done.
LEMMA NotDone ==
  ASSUME NEW m, NEW q, NEW s, NEW w, NEW done,
         Built(m, q, s, w, done), NEW k \in DOMAIN s.records \cap DOMAIN w.records,
         identityOf(s.records[k]) \notin done
  PROVE  w.records[k] = s.records[k]
BY DEF Built, Changed

\* The record of a desired identity that nothing bears is created.
LEMMA CreateBuilt ==
  ASSUME NEW m, NEW q, NEW s, Sound(s), NEW w, Sound(w), NEW done,
         NEW d \in DOMAIN q.desired, d \notin done,
         Built(m, q, s, w, done),
         bearers(s, q.scope, d) = {}, ~tombstonedIdentity(s, q.scope, d),
         NEW r \in Record, InPlace(m, q, r), identityOf(r) = d,
         CreateError(w, r) = "nil"
  PROVE  LET t == Create(w, r)
             key == recordKey(r.type, r.id)
         IN  /\ Built(m, q, s, t, done \cup {d})
             /\ Remaining(m, q, s, t, done \cup {d}) = Remaining(m, q, s, w, done)
             /\ key \notin New(s, w)
             /\ New(s, t) = New(s, w) \cup {key}
             /\ Updated(s, t) = Updated(s, w)
             /\ Same(q, s, t, done \cup {d}) = Same(q, s, w, done)
             /\ Gone(s, t) = Gone(s, w)
<1> DEFINE t == Create(w, r)
           key == recordKey(r.type, r.id)
           then == done \cup {d}
<1>1. /\ key \notin DOMAIN w.records \cup DOMAIN w.tombstones
      /\ DOMAIN t.records = DOMAIN w.records \cup {key}
      /\ t.records[key] = r
      /\ \A j \in DOMAIN w.records : t.records[j] = w.records[j]
      /\ t.tombstones = w.tombstones
  BY CreateEffect DEF Sound
<1> HIDE DEF t, key
<1>2. key \notin DOMAIN s.records
  BY <1>1 DEF Built, Buried
<1>3. \A k \in DOMAIN s.records : s.records[k].scope = q.scope => identityOf(s.records[k]) # d
  BY DEF bearers, liveIn
<1>4. Changed(m, q, s, t, then)
  BY <1>1, <1>2, <1>3 DEF Built, Changed
<1>5. Added(m, q, s, t, then)
  BY <1>1, <1>2 DEF Built, Added
<1>6. Dropped(m, q, s, t)
  BY <1>1, <1>2 DEF Built, Dropped
<1>7. Reached(m, q, t, then)
  <2>1. key \in bearers(t, q.scope, d) /\ InPlace(m, q, t.records[key])
    BY <1>1 DEF bearers, liveIn, InPlace
  <2>2. ASSUME NEW e \in done PROVE \E k \in bearers(t, q.scope, e) : InPlace(m, q, t.records[k])
    <3>1. PICK k \in bearers(w, q.scope, e) : InPlace(m, q, w.records[k])
      BY <2>2 DEF Built, Reached
    <3>2. k \in DOMAIN w.records /\ k \in bearers(t, q.scope, e) /\ t.records[k] = w.records[k]
      BY <1>1, <3>1 DEF bearers, liveIn
    <3> QED
      BY <3>1, <3>2
  <2> QED
    BY <2>1, <2>2 DEF Reached
<1>8. Buried(s, t)
  BY <1>1, <1>2 DEF Built, Buried
<1>9. Remaining(m, q, s, t, then) = Remaining(m, q, s, w, done)
  BY <1>1, <1>2, <1>3 DEF Remaining, managedKeys, liveIn
<1>10. /\ key \notin New(s, w)
       /\ New(s, t) = New(s, w) \cup {key}
       /\ Gone(s, t) = Gone(s, w)
  BY <1>1, <1>2 DEF New, Gone
<1>11. Updated(s, t) = Updated(s, w)
  BY <1>1, <1>2 DEF Updated
<1>12. Same(q, s, t, then) = Same(q, s, w, done)
  BY <1>1, <1>2, <1>3 DEF Same
<1> QED
  BY <1>4, <1>5, <1>6, <1>7, <1>8, <1>9, <1>10, <1>11, <1>12 DEF Built, t, key

\* The record of a desired identity is as desired already.
LEMMA KeepBuilt ==
  ASSUME NEW m, NEW q, NEW s, NEW w, NEW done,
         NEW d \in DOMAIN q.desired, d \notin done, d \in Identities,
         Built(m, q, s, w, done),
         ~duplicateIdentity(s, q.scope), NEW k \in bearers(s, q.scope, d),
         InPlace(m, q, s.records[k])
  PROVE  /\ Built(m, q, s, w, done \cup {d})
         /\ Remaining(m, q, s, w, done \cup {d}) = Remaining(m, q, s, w, done) \ {k}
         /\ k \notin Same(q, s, w, done)
         /\ Same(q, s, w, done \cup {d}) = Same(q, s, w, done) \cup {k}
<1> DEFINE then == done \cup {d}
<1>1. k \in DOMAIN s.records /\ identityOf(s.records[k]) = d /\ s.records[k].scope = q.scope
  BY DEF bearers, liveIn
<1>2. k \in DOMAIN w.records
  BY <1>1 DEF Built, Dropped
<1>3. w.records[k] = s.records[k]
  BY <1>1, <1>2, NotDone
<1>4. \A j \in DOMAIN s.records :
        s.records[j].scope = q.scope /\ identityOf(s.records[j]) = d => j = k
  BY OneBearer DEF bearers, liveIn
<1>5. Changed(m, q, s, w, then)
  BY <1>1, <1>3, <1>4 DEF Built, Changed
<1>6. Added(m, q, s, w, then)
  BY DEF Built, Added
<1>7. Reached(m, q, w, then)
  <2>1. k \in bearers(w, q.scope, d) /\ InPlace(m, q, w.records[k])
    BY <1>1, <1>2, <1>3 DEF bearers, liveIn
  <2> QED
    BY <2>1 DEF Built, Reached
<1>8. Remaining(m, q, s, w, then) = Remaining(m, q, s, w, done) \ {k}
  BY <1>1, <1>4 DEF Remaining, managedKeys, liveIn
<1>9. /\ k \notin Same(q, s, w, done)
      /\ Same(q, s, w, then) = Same(q, s, w, done) \cup {k}
  BY <1>1, <1>2, <1>3, <1>4 DEF Same
<1> QED
  BY <1>5, <1>6, <1>7, <1>8, <1>9 DEF Built

\* The record of a desired identity is replaced by what is desired.
LEMMA ReplaceBuilt ==
  ASSUME NEW m, NEW q, NEW s, NEW w, NEW done, Built(m, q, s, w, done),
         NEW d \in DOMAIN q.desired, d \notin done, d \in Identities,
         ~duplicateIdentity(s, q.scope), NEW k \in bearers(s, q.scope, d),
         s.records[k].manager = m, ~InPlace(m, q, s.records[k]),
         NEW t, k \in DOMAIN w.records, DOMAIN t.records = DOMAIN w.records,
         \A j \in DOMAIN w.records : j # k => t.records[j] = w.records[j],
         t.tombstones = w.tombstones,
         InPlace(m, q, t.records[k]), identityOf(t.records[k]) = d,
         t.records[k].created = s.records[k].created
  PROVE  /\ Built(m, q, s, t, done \cup {d})
         /\ Remaining(m, q, s, t, done \cup {d}) = Remaining(m, q, s, w, done) \ {k}
         /\ k \notin Updated(s, w)
         /\ New(s, t) = New(s, w)
         /\ Updated(s, t) = Updated(s, w) \cup {k}
         /\ Same(q, s, t, done \cup {d}) = Same(q, s, w, done)
         /\ Gone(s, t) = Gone(s, w)
<1> DEFINE then == done \cup {d}
           r == t.records[k]
<1>1. k \in DOMAIN s.records /\ identityOf(s.records[k]) = d /\ s.records[k].scope = q.scope
  BY DEF bearers, liveIn
<1>2. /\ k \in DOMAIN w.records
      /\ DOMAIN t.records = DOMAIN w.records
      /\ \A j \in DOMAIN w.records : j # k => t.records[j] = w.records[j]
      /\ t.tombstones = w.tombstones
  OBVIOUS
<1>3. w.records[k] = s.records[k] /\ r # s.records[k]
  BY <1>1, <1>2, NotDone
<1>4. \A j \in DOMAIN s.records :
        s.records[j].scope = q.scope /\ identityOf(s.records[j]) = d => j = k
  BY OneBearer DEF bearers, liveIn
<1>5. Changed(m, q, s, t, then)
  BY <1>1, <1>2, <1>3, <1>4 DEF Built, Changed
<1>6. Added(m, q, s, t, then)
  BY <1>1, <1>2 DEF Built, Added
<1>7. Dropped(m, q, s, t)
  BY <1>2 DEF Built, Dropped
<1>8. Reached(m, q, t, then)
  <2>1. k \in bearers(t, q.scope, d) /\ InPlace(m, q, t.records[k])
    BY <1>2 DEF bearers, liveIn, InPlace
  <2>2. ASSUME NEW e \in done PROVE \E j \in bearers(t, q.scope, e) : InPlace(m, q, t.records[j])
    <3>1. PICK j \in bearers(w, q.scope, e) : InPlace(m, q, w.records[j])
      BY <2>2 DEF Built, Reached
    <3>2. j # k /\ j \in DOMAIN w.records
      BY <1>1, <1>3, <2>2, <3>1 DEF bearers, liveIn
    <3>3. j \in bearers(t, q.scope, e) /\ t.records[j] = w.records[j]
      BY <1>2, <3>1, <3>2 DEF bearers, liveIn
    <3> QED
      BY <3>1, <3>3
  <2> QED
    BY <2>1, <2>2 DEF Reached
<1>9. Buried(s, t)
  BY <1>2 DEF Built, Buried
<1>10. Remaining(m, q, s, t, then) = Remaining(m, q, s, w, done) \ {k}
  BY <1>1, <1>2, <1>4 DEF Remaining, managedKeys, liveIn
<1>11. New(s, t) = New(s, w) /\ Gone(s, t) = Gone(s, w)
  BY <1>2 DEF New, Gone
<1>12. k \notin Updated(s, w) /\ Updated(s, t) = Updated(s, w) \cup {k}
  BY <1>1, <1>2, <1>3 DEF Updated
<1>13. Same(q, s, t, then) = Same(q, s, w, done)
  BY <1>1, <1>2, <1>3, <1>4 DEF Same
<1> QED
  BY <1>5, <1>6, <1>7, <1>8, <1>9, <1>10, <1>11, <1>12, <1>13 DEF Built

\* State t is w with the record under k deleted.
Removed(w, t, k) ==
  /\ k \in DOMAIN w.records /\ k \notin DOMAIN w.tombstones
  /\ DOMAIN t.records = DOMAIN w.records \ {k}
  /\ \A j \in DOMAIN w.records : j # k => t.records[j] = w.records[j]
  /\ DOMAIN t.tombstones = DOMAIN w.tombstones \cup {k}
  /\ \A j \in DOMAIN w.tombstones : j # k => t.tombstones[j] = w.tombstones[j]

\* A managed record that is not desired is deleted.
LEMMA DeleteBuilt ==
  ASSUME NEW m, NEW q, NEW s, NEW w, NEW done, Built(m, q, s, w, done),
         NEW k \in Remaining(m, q, s, w, done), identityOf(s.records[k]) \notin DOMAIN q.desired,
         q.deleteMissing, NEW t, Removed(w, t, k)
  PROVE  /\ Built(m, q, s, t, done)
         /\ Remaining(m, q, s, t, done) = Remaining(m, q, s, w, done) \ {k}
         /\ k \notin Gone(s, w)
         /\ New(s, t) = New(s, w)
         /\ Updated(s, t) = Updated(s, w)
         /\ Same(q, s, t, done) = Same(q, s, w, done)
         /\ Gone(s, t) = Gone(s, w) \cup {k}
<1>1. /\ k \in DOMAIN s.records
      /\ k \in managedKeys(s, q.scope, m)
      /\ identityOf(s.records[k]) \notin done
  BY DEF Remaining, managedKeys, liveIn
<1>2. /\ k \in DOMAIN w.records
      /\ DOMAIN t.records = DOMAIN w.records \ {k}
      /\ \A j \in DOMAIN w.records : j # k => t.records[j] = w.records[j]
      /\ DOMAIN t.tombstones = DOMAIN w.tombstones \cup {k}
      /\ \A j \in DOMAIN w.tombstones : j # k => t.tombstones[j] = w.tombstones[j]
  BY DEF Removed
<1>3. w.records[k] = s.records[k]
  BY <1>1, <1>2, NotDone
<1>4. k \notin DOMAIN w.tombstones
  BY DEF Removed
<1>5. Changed(m, q, s, t, done)
  BY <1>2 DEF Built, Changed
<1>6. Added(m, q, s, t, done)
  BY <1>2 DEF Built, Added
<1>7. Dropped(m, q, s, t)
  BY <1>1, <1>2 DEF Built, Dropped
<1>8. Reached(m, q, t, done)
  <2>1. ASSUME NEW e \in done PROVE \E j \in bearers(t, q.scope, e) : InPlace(m, q, t.records[j])
    <3>1. PICK j \in bearers(w, q.scope, e) : InPlace(m, q, w.records[j])
      BY <2>1 DEF Built, Reached
    <3>2. j # k /\ j \in DOMAIN w.records
      BY <1>1, <1>3, <2>1, <3>1 DEF bearers, liveIn
    <3>3. j \in bearers(t, q.scope, e) /\ t.records[j] = w.records[j]
      BY <1>2, <3>1, <3>2 DEF bearers, liveIn
    <3> QED
      BY <3>1, <3>3
  <2> QED
    BY <2>1 DEF Reached
<1>9. Buried(s, t)
  BY <1>1, <1>2, <1>4 DEF Built, Buried
<1>10. Remaining(m, q, s, t, done) = Remaining(m, q, s, w, done) \ {k}
  BY <1>2 DEF Remaining
<1>11. /\ New(s, t) = New(s, w)
       /\ k \notin Gone(s, w)
       /\ Gone(s, t) = Gone(s, w) \cup {k}
  BY <1>1, <1>2 DEF New, Gone
<1>12. Updated(s, t) = Updated(s, w)
  BY <1>2, <1>3 DEF Updated
<1>13. Same(q, s, t, done) = Same(q, s, w, done)
  BY <1>1, <1>2 DEF Same
<1> QED
  BY <1>5, <1>6, <1>7, <1>8, <1>9, <1>10, <1>11, <1>12, <1>13 DEF Built

-----------------------------------------------------------------------------
(* The steps *)

\* Some identity comes first in the sort order.
LEMMA FirstIdentity ==
  ASSUME NEW T, T \subseteq Identities, T # {}
  PROVE  \E d \in T : \A e \in T : Rank[d] <= Rank[e]
<1> DEFINE R == OpToRel(<, Nat)
           ranks == {Rank[d] : d \in T}
<1>1. IsWellFoundedOn(R, Nat)
  BY NatLessThanWellFounded
<1>2. ranks \subseteq Nat /\ ranks # {}
  BY RankAssumption
<1> HIDE DEF R, ranks
<1>3. PICK x \in ranks : \A y \in ranks : ~(<<y, x>> \in R)
  BY <1>1, <1>2, WFMin
<1>4. \A y \in ranks : ~(y < x)
  BY <1>2, <1>3 DEF R, OpToRel
<1>5. PICK d \in T : x = Rank[d]
  BY <1>3 DEF ranks
<1>6. \A e \in T : Rank[e] \in ranks /\ Rank[e] \in Nat
  BY <1>2 DEF ranks
<1> QED
  BY <1>4, <1>5, <1>6

\* The sets that the counts count are finite.
LEMMA CountsFinite ==
  ASSUME NEW q, NEW s, Sound(s), NEW w, Sound(w), NEW done
  PROVE  /\ IsFiniteSet(New(s, w)) /\ IsFiniteSet(Gone(s, w))
         /\ IsFiniteSet(Updated(s, w)) /\ IsFiniteSet(Same(q, s, w, done))
<1>1. /\ New(s, w) \in SUBSET DOMAIN w.records
      /\ Gone(s, w) \in SUBSET DOMAIN s.records
      /\ Updated(s, w) \in SUBSET DOMAIN s.records
      /\ Same(q, s, w, done) \in SUBSET DOMAIN s.records
  BY DEF New, Gone, Updated, Same
<1>2. IsFiniteSet(DOMAIN s.records) /\ IsFiniteSet(DOMAIN w.records)
  BY DEF Sound
<1> QED
  BY <1>1, <1>2, FS_Subset

\* One more element is one more in the count.
LEMMA OneMore ==
  ASSUME NEW S, IsFiniteSet(S), NEW x, x \notin S
  PROVE  Cardinality(S \cup {x}) = Cardinality(S) + 1
BY FS_AddElement

\* A call that is not touched keeps its invariant while the store is as it was.
LEMMA SameRun ==
  ASSUME NEW m \in Reconcilers, RunInv(m), store' = store, run'[m] = run[m]
  PROVE  RunInv(m)'
BY DEF RunInv, TransactionInv, Done

\* A call without a transaction keeps its invariant whatever the store becomes.
LEMMA SameRunUnlocked ==
  ASSUME NEW m \in Reconcilers, RunInv(m), run'[m] = run[m], run[m].phase # "transacting"
  PROVE  RunInv(m)'
BY DEF RunInv

\* A call that ends, with an error.
LEMMA AbortInv ==
  ASSUME Inv, NEW m \in Reconcilers, abort(m)
  PROVE  Inv'
<1>1. /\ run' = [run EXCEPT ![m] = Idle]
      /\ UNCHANGED <<store, clock, outcome, runs, writes>>
  BY DEF abort
<1>2. /\ run' = [n \in Reconcilers |-> run'[n]]
      /\ run'[m].phase = "idle"
      /\ \A n \in Reconcilers \ {m} : run'[n] = run[n]
  BY <1>1 DEF Inv, Idle
<1>3. ASSUME NEW n \in Reconcilers PROVE RunInv(n)'
  <2>1. CASE n = m
    BY <1>2, <2>1 DEF RunInv
  <2>2. CASE n # m
    BY <1>1, <1>2, <2>2, SameRun DEF Inv
  <2> QED
    BY <2>1, <2>2
<1>4. Exclusive'
  BY <1>2 DEF Inv, Exclusive
<1>5. Bounded'
  BY <1>1 DEF Inv, Bounded
<1> QED
  BY <1>1, <1>2, <1>3, <1>4, <1>5 DEF Inv

\* The state of m's transaction becomes r.
LEMMA AdvanceInv ==
  ASSUME Inv, NEW m \in Reconcilers,
         run[m].phase = "transacting" \/ unlocked,
         run[m].req \in Requests, run[m].now \in Time,
         NEW r, run' = [run EXCEPT ![m] = r],
         UNCHANGED <<store, clock, outcome, runs, writes>>,
         DOMAIN r = TransactionFields,
         r.phase = "transacting", r.req = run[m].req, r.now = run[m].now,
         r.todo \subseteq DOMAIN r.req.desired,
         ~duplicateIdentity(store, r.req.scope),
         Sound(r.working), Follows(store, r.working),
         NEW done, done = DOMAIN r.req.desired \ r.todo,
         Built(m, r.req, store, r.working, done),
         r.managed = Remaining(m, r.req, store, r.working, done),
         Counted(r.req, store, r.working, done, r.counts)
  PROVE  Inv'
<1>1. /\ run' = [n \in Reconcilers |-> run'[n]]
      /\ \A n \in Reconcilers \ {m} : run'[n] = run[n]
      /\ run'[m] = r
  BY DEF Inv
<1>2. TransactionInv(m)'
  BY <1>1 DEF TransactionInv, Done
<1>3. RunInv(m)'
  BY <1>1, <1>2 DEF RunInv
<1>4. \A n \in Reconcilers \ {m} : run[n].phase # "transacting"
  BY DEF Inv, Exclusive, unlocked
<1>5. Exclusive'
  BY <1>1, <1>4 DEF Exclusive
<1>6. \A n \in Reconcilers : RunInv(n)'
  BY <1>1, <1>3, SameRun DEF Inv
<1>7. Bounded'
  BY DEF Inv, Bounded
<1> QED
  BY <1>1, <1>5, <1>6, <1>7 DEF Inv

\* The copy starts as the store itself.
LEMMA BeginInv ==
  ASSUME Inv, NEW m \in Reconcilers, Begin(m)
  PROVE  Inv'
<1> DEFINE q == run[m].req
           r == [phase |-> "transacting", req |-> q, now |-> run[m].now,
                 working |-> store, todo |-> DOMAIN q.desired,
                 managed |-> managedKeys(store, q.scope, m), counts |-> NoCounts]
<1>1. /\ run[m].phase = "prepared" /\ unlocked
      /\ ~duplicateIdentity(store, q.scope)
      /\ run' = [run EXCEPT ![m] = r]
      /\ UNCHANGED <<store, clock, outcome, runs, writes>>
  BY DEF Begin
<1>2. q \in Requests /\ run[m].now \in Time
  BY <1>1 DEF Inv, RunInv
<1>3. Built(m, q, store, store, {})
  BY DEF Built, Changed, Added, Dropped, Reached, Buried
<1>4. managedKeys(store, q.scope, m) = Remaining(m, q, store, store, {})
  BY DEF Remaining, managedKeys, liveIn
<1>5. /\ New(store, store) = {} /\ Gone(store, store) = {}
      /\ Updated(store, store) = {} /\ Same(q, store, store, {}) = {}
  BY DEF New, Gone, Updated, Same
<1>6. Counted(q, store, store, {}, NoCounts)
  BY <1>5, FS_EmptySet DEF Counted, NoCounts
<1>7. Sound(store) /\ Follows(store, store)
  BY DEF Inv, Follows, Stages!Forward
<1>8. {} = DOMAIN q.desired \ DOMAIN q.desired
  OBVIOUS
<1>9. /\ DOMAIN r = TransactionFields /\ r.phase = "transacting" /\ r.req = q
      /\ r.now = run[m].now /\ r.working = store /\ r.todo = DOMAIN q.desired
      /\ r.managed = managedKeys(store, q.scope, m) /\ r.counts = NoCounts
  BY DEF TransactionFields
<1> HIDE DEF r
<1> QED
  BY <1>1, <1>2, <1>3, <1>4, <1>6, <1>7, <1>8, <1>9, AdvanceInv

\* What applying one desired resource needs to know of the transaction.
LEMMA Applying ==
  ASSUME Inv, NEW m \in Reconcilers, applying(m)
  PROVE  LET q == run[m].req
             d == nextDesired(m)
         IN  /\ d \in run[m].todo /\ d \in DOMAIN q.desired /\ d \notin Done(m)
             /\ d \in Identities /\ d = <<d[1], d[2]>>
             /\ d[1] \in ResourceTypes /\ d[2] \in ExternalIds
             /\ q \in Requests /\ q.scope \in Scopes /\ run[m].now \in Time
             /\ q.desired[d] \in Document /\ q.desired[d].ext = d[2]
             /\ run[m].phase = "transacting" /\ TransactionInv(m)
<1> DEFINE q == run[m].req
           d == nextDesired(m)
<1>1. run[m].phase = "transacting" /\ run[m].todo # {}
  BY DEF applying
<1>2. q \in Requests /\ run[m].now \in Time /\ TransactionInv(m)
  BY <1>1 DEF Inv, RunInv
<1>3. run[m].todo \subseteq DOMAIN q.desired /\ DOMAIN q.desired \subseteq Identities
  BY <1>2, RequestsAssumption DEF TransactionInv
<1>4. d \in run[m].todo
  BY <1>1, <1>3, FirstIdentity DEF nextDesired
<1> HIDE DEF d
<1>5. d \in Identities /\ d \in DOMAIN q.desired /\ d \notin Done(m)
  BY <1>3, <1>4 DEF Done
<1>6. d = <<d[1], d[2]>> /\ d[1] \in ResourceTypes /\ d[2] \in ExternalIds
  BY <1>5 DEF Identities
<1>7. q.scope \in Scopes /\ q.desired[d] \in Document /\ q.desired[d].ext = d[2]
  BY <1>2, <1>5, RequestsAssumption
<1> QED
  BY <1>1, <1>2, <1>4, <1>5, <1>6, <1>7 DEF d

\* One desired resource is done.
LEMMA AppliedInv ==
  ASSUME Inv, NEW m \in Reconcilers, applying(m), NEW w, NEW managed, NEW counts,
         applied(m, w, managed, counts),
         Sound(w), Follows(store, w),
         NEW then, then = Done(m) \cup {nextDesired(m)},
         Built(m, run[m].req, store, w, then),
         managed = Remaining(m, run[m].req, store, w, then),
         Counted(run[m].req, store, w, then, counts)
  PROVE  Inv'
<1> DEFINE q == run[m].req
           d == nextDesired(m)
           r == [run[m] EXCEPT !.working = w, !.todo = run[m].todo \ {d},
                               !.managed = managed, !.counts = counts]
<1>1. /\ d \in run[m].todo /\ d \in DOMAIN q.desired
      /\ q \in Requests /\ run[m].now \in Time
      /\ run[m].phase = "transacting" /\ TransactionInv(m)
  BY Applying
<1>2. /\ run' = [run EXCEPT ![m] = r]
      /\ UNCHANGED <<store, clock, outcome, runs, writes>>
  BY DEF applied, Inv
<1> HIDE DEF d
<1>3. /\ DOMAIN run[m] = TransactionFields
      /\ run[m].todo \subseteq DOMAIN q.desired
      /\ ~duplicateIdentity(store, q.scope)
  BY <1>1 DEF TransactionInv
<1>4. /\ DOMAIN r = TransactionFields /\ r.phase = "transacting" /\ r.req = q
      /\ r.now = run[m].now /\ r.working = w /\ r.todo = run[m].todo \ {d}
      /\ r.managed = managed /\ r.counts = counts
  BY <1>1, <1>3 DEF TransactionFields
<1> HIDE DEF r
<1>5. then = DOMAIN q.desired \ r.todo /\ r.todo \subseteq DOMAIN q.desired
  BY <1>1, <1>3, <1>4 DEF Done, d
<1> QED
  BY <1>1, <1>2, <1>3, <1>4, <1>5, AdvanceInv

\* One more of a kind changes one of four counts.
LEMMA CountFields ==
  ASSUME NEW a, NEW b, NEW c, NEW e, NEW counts,
         counts = [created |-> a, updated |-> b, unchanged |-> c, deleted |-> e]
  PROVE  /\ [counts EXCEPT !["created"] = @ + 1] =
              [created |-> a + 1, updated |-> b, unchanged |-> c, deleted |-> e]
         /\ [counts EXCEPT !["updated"] = @ + 1] =
              [created |-> a, updated |-> b + 1, unchanged |-> c, deleted |-> e]
         /\ [counts EXCEPT !["unchanged"] = @ + 1] =
              [created |-> a, updated |-> b, unchanged |-> c + 1, deleted |-> e]
         /\ [counts EXCEPT !["deleted"] = @ + 1] =
              [created |-> a, updated |-> b, unchanged |-> c, deleted |-> e + 1]
<1>1. [counts EXCEPT !["created"] = @ + 1] = [created |-> a + 1, updated |-> b, unchanged |-> c, deleted |-> e]
  <2> DEFINE x == counts["created"] + 1
  <2>1. x = a + 1
    OBVIOUS
  <2> HIDE DEF x
  <2>2. [counts EXCEPT !["created"] = x] = [created |-> x, updated |-> b, unchanged |-> c, deleted |-> e]
    OBVIOUS
  <2> QED
    BY <2>1, <2>2 DEF x
<1>2. [counts EXCEPT !["updated"] = @ + 1] = [created |-> a, updated |-> b + 1, unchanged |-> c, deleted |-> e]
  <2> DEFINE x == counts["updated"] + 1
  <2>1. x = b + 1
    OBVIOUS
  <2> HIDE DEF x
  <2>2. [counts EXCEPT !["updated"] = x] = [created |-> a, updated |-> x, unchanged |-> c, deleted |-> e]
    OBVIOUS
  <2> QED
    BY <2>1, <2>2 DEF x
<1>3. [counts EXCEPT !["unchanged"] = @ + 1] = [created |-> a, updated |-> b, unchanged |-> c + 1, deleted |-> e]
  <2> DEFINE x == counts["unchanged"] + 1
  <2>1. x = c + 1
    OBVIOUS
  <2> HIDE DEF x
  <2>2. [counts EXCEPT !["unchanged"] = x] = [created |-> a, updated |-> b, unchanged |-> x, deleted |-> e]
    OBVIOUS
  <2> QED
    BY <2>1, <2>2 DEF x
<1>4. [counts EXCEPT !["deleted"] = @ + 1] = [created |-> a, updated |-> b, unchanged |-> c, deleted |-> e + 1]
  <2> DEFINE x == counts["deleted"] + 1
  <2>1. x = e + 1
    OBVIOUS
  <2> HIDE DEF x
  <2>2. [counts EXCEPT !["deleted"] = x] = [created |-> a, updated |-> b, unchanged |-> c, deleted |-> x]
    OBVIOUS
  <2> QED
    BY <2>1, <2>2 DEF x
<1> QED
  BY <1>1, <1>2, <1>3, <1>4

\* An identity that nobody bears gets a new record, or the call fails.
LEMMA ApplyCreateInv ==
  ASSUME Inv, NEW m \in Reconcilers, ApplyCreate(m)
  PROVE  Inv'
<1> DEFINE q == run[m].req
           d == nextDesired(m)
           w == run[m].working
           then == Done(m) \cup {d}
<1>1. applying(m) /\ ~blocked(m) /\ existing(m) = {}
  BY DEF ApplyCreate
<1>2. /\ d \in DOMAIN q.desired /\ d \notin Done(m)
      /\ d = <<d[1], d[2]>> /\ d[1] \in ResourceTypes /\ d[2] \in ExternalIds
      /\ q.scope \in Scopes /\ run[m].now \in Time
      /\ q.desired[d] \in Document /\ q.desired[d].ext = d[2]
      /\ TransactionInv(m)
  BY <1>1, Applying
<1>3. /\ Sound(store) /\ Sound(w) /\ Follows(store, w)
      /\ Built(m, q, store, w, Done(m))
      /\ run[m].managed = Remaining(m, q, store, w, Done(m))
      /\ Counted(q, store, w, Done(m), run[m].counts)
  BY <1>2 DEF Inv, TransactionInv
<1>4. bearers(store, q.scope, d) = {} /\ ~tombstonedIdentity(store, q.scope, d)
  BY <1>1 DEF existing, blocked
<1>5. PICK id \in Ids :
        LET r == newRecord(q.scope, m, d[1], id, q.desired[d], run[m].now, None)
        IN  IF CreateError(w, r) # "nil"
            THEN abort(m)
            ELSE applied(m, Create(w, r), run[m].managed, counted(m, "created"))
  BY DEF ApplyCreate, desiredDocument
<1> DEFINE r == newRecord(q.scope, m, d[1], id, q.desired[d], run[m].now, None)
           t == Create(w, r)
           key == recordKey(r.type, r.id)
<1>6. CASE CreateError(w, r) # "nil"
  BY <1>5, <1>6, AbortInv
<1>7. CASE CreateError(w, r) = "nil"
  <2>1. applied(m, t, run[m].managed, counted(m, "created"))
    BY <1>5, <1>7
  <2>2. r \in Record
    <3>1. m \in Managers /\ None \in Credentials \cup {None}
      BY DEF Reconcilers
    <3> QED
      BY <1>2, <3>1, NewRecordType
  <2>3. identityOf(r) = d /\ InPlace(m, q, r)
    BY <1>2 DEF newRecord, identityOf, InPlace
  <2> HIDE DEF r, q, d
  <2>4. /\ Built(m, q, store, t, then)
        /\ Remaining(m, q, store, t, then) = Remaining(m, q, store, w, Done(m))
        /\ key \notin New(store, w)
        /\ New(store, t) = New(store, w) \cup {key}
        /\ Updated(store, t) = Updated(store, w)
        /\ Same(q, store, t, then) = Same(q, store, w, Done(m))
        /\ Gone(store, t) = Gone(store, w)
    BY <1>2, <1>3, <1>4, <1>7, <2>2, <2>3, CreateBuilt
  <2>5. Sound(t) /\ Follows(w, t)
    BY <1>3, <2>2, CreateSound
  <2>6. Follows(store, t)
    BY <1>3, <2>5, FollowsTransitive
  <2> HIDE DEF t
  <2>7. Cardinality(New(store, t)) = Cardinality(New(store, w)) + 1
    BY <1>3, <2>4, CountsFinite, OneMore
  <2>8. Counted(q, store, t, then, counted(m, "created"))
    BY <1>3, <2>4, <2>7, CountFields DEF Counted, counted
  <2> QED
    BY <1>1, <1>3, <2>1, <2>4, <2>5, <2>6, <2>8, AppliedInv DEF q, d
<1> QED
  BY <1>6, <1>7

\* The manager's record of an identity is brought up to date, or the call fails.
LEMMA ApplyUpdateInv ==
  ASSUME Inv, NEW m \in Reconcilers, ApplyUpdate(m)
  PROVE  Inv'
<1> DEFINE q == run[m].req
           d == nextDesired(m)
           w == run[m].working
           doc == q.desired[d]
           then == Done(m) \cup {d}
<1>1. applying(m) /\ ~blocked(m)
  BY DEF ApplyUpdate
<1>2. /\ d \in DOMAIN q.desired /\ d \notin Done(m) /\ d \in Identities
      /\ d = <<d[1], d[2]>>
      /\ run[m].now \in Time
      /\ doc \in Document /\ doc.ext = d[2]
      /\ TransactionInv(m)
  BY <1>1, Applying
<1>3. /\ Sound(store) /\ Sound(w) /\ Follows(store, w)
      /\ Built(m, q, store, w, Done(m))
      /\ run[m].managed = Remaining(m, q, store, w, Done(m))
      /\ Counted(q, store, w, Done(m), run[m].counts)
      /\ ~duplicateIdentity(store, q.scope)
  BY <1>2 DEF Inv, TransactionInv
<1>4. PICK k \in existing(m) :
        LET current == store.records[k]
            updated == replacementRecord(current, doc, run[m].now, current.cred)
            rest == run[m].managed \ {k}
        IN  IF ~recordChanges(current, doc, current.cred)
            THEN applied(m, w, rest, counted(m, "unchanged"))
            ELSE IF ReplaceError(w, updated, current.version) # "nil"
            THEN abort(m)
            ELSE applied(m, Replace(w, updated, current.version), rest, counted(m, "updated"))
  BY DEF ApplyUpdate, desiredDocument
<1> DEFINE current == store.records[k]
           updated == replacementRecord(current, doc, run[m].now, current.cred)
           rest == run[m].managed \ {k}
<1>5. k \in bearers(store, q.scope, d) /\ current.manager = m
  BY <1>1, <1>4 DEF existing, blocked
<1>6. /\ k \in DOMAIN store.records /\ current.scope = q.scope /\ identityOf(current) = d
      /\ current \in Record /\ validateRecord(current)
      /\ recordKey(current.type, current.id) = k
  BY <1>3, <1>5 DEF bearers, liveIn, Sound, StoreInv, IsState, IsMap, RecordsValid, Keyed
<1>7. CASE ~recordChanges(current, doc, current.cred)
  <2>1. applied(m, w, rest, counted(m, "unchanged"))
    BY <1>4, <1>7
  <2>2. InPlace(m, q, current)
    BY <1>2, <1>5, <1>6, <1>7 DEF recordChanges, InPlace
  <2> HIDE DEF q, d
  <2>3. /\ Built(m, q, store, w, then)
        /\ Remaining(m, q, store, w, then) = Remaining(m, q, store, w, Done(m)) \ {k}
        /\ k \notin Same(q, store, w, Done(m))
        /\ Same(q, store, w, then) = Same(q, store, w, Done(m)) \cup {k}
    BY <1>2, <1>3, <1>5, <2>2, KeepBuilt, SMTT(30)
  <2>4. Cardinality(Same(q, store, w, then)) = Cardinality(Same(q, store, w, Done(m))) + 1
    BY <1>3, <2>3, CountsFinite, OneMore
  <2>5. Counted(q, store, w, then, counted(m, "unchanged"))
    BY <1>3, <2>4, CountFields DEF Counted, counted
  <2> QED
    BY <1>1, <1>3, <2>1, <2>3, <2>5, AppliedInv DEF q, d
<1>8. CASE /\ recordChanges(current, doc, current.cred)
           /\ ReplaceError(w, updated, current.version) # "nil"
  BY <1>4, <1>8, AbortInv
<1>9. CASE /\ recordChanges(current, doc, current.cred)
           /\ ReplaceError(w, updated, current.version) = "nil"
  <2> DEFINE t == Replace(w, updated, current.version)
  <2>1. applied(m, t, rest, counted(m, "updated"))
    BY <1>4, <1>9
  <2>2. current.cred \in Credentials \cup {None}
    BY <1>6 DEF Record
  <2>3. /\ updated \in Record
        /\ validateRecord(updated)
        /\ updated.type = current.type /\ updated.id = current.id
        /\ updated.scope = current.scope
        /\ updated.created = current.created /\ updated.manager = current.manager
        /\ updated.data = doc
    BY <1>2, <1>6, <2>2, ReplacementType
  <2> HIDE DEF updated
  <2>4. updated.ext = d[2]
    BY <1>2, <2>3 DEF validateRecord
  <2>5. identityOf(updated) = d /\ InPlace(m, q, updated)
    BY <1>2, <1>5, <1>6, <2>3, <2>4 DEF identityOf, InPlace
  <2>6. ~InPlace(m, q, current)
    BY <1>6, <1>9 DEF recordChanges, InPlace
  <2>7. recordKey(updated.type, updated.id) = k
    BY <1>6, <2>3
  <2> HIDE DEF q, d
  <2>8. /\ Built(m, q, store, t, then)
        /\ Remaining(m, q, store, t, then) = Remaining(m, q, store, w, Done(m)) \ {k}
        /\ k \notin Updated(store, w)
        /\ New(store, t) = New(store, w)
        /\ Updated(store, t) = Updated(store, w) \cup {k}
        /\ Same(q, store, t, then) = Same(q, store, w, Done(m))
        /\ Gone(store, t) = Gone(store, w)
    <3>1. /\ k \in DOMAIN w.records
          /\ DOMAIN t.records = DOMAIN w.records
          /\ t.records[k] = updated
          /\ \A j \in DOMAIN w.records : j # k => t.records[j] = w.records[j]
          /\ t.tombstones = w.tombstones
      BY <1>3, <1>9, <2>3, <2>7, ReplaceEffect DEF Sound
    <3>2. /\ InPlace(m, q, t.records[k]) /\ identityOf(t.records[k]) = d
          /\ t.records[k].created = store.records[k].created
      BY <2>3, <2>5, <3>1
    <3> HIDE DEF w, t
    <3> QED
      BY <1>2, <1>3, <1>5, <2>6, <3>1, <3>2, ReplaceBuilt
  <2>9. Sound(t) /\ Follows(w, t)
    BY <1>3, <2>3, ReplaceSound
  <2>10. Follows(store, t)
    BY <1>3, <2>9, FollowsTransitive
  <2> HIDE DEF t
  <2>11. Cardinality(Updated(store, t)) = Cardinality(Updated(store, w)) + 1
    BY <1>3, <2>8, CountsFinite, OneMore
  <2>12. Counted(q, store, t, then, counted(m, "updated"))
    BY <1>3, <2>8, <2>11, CountFields DEF Counted, counted
  <2> QED
    BY <1>1, <1>3, <2>1, <2>8, <2>9, <2>10, <2>12, AppliedInv DEF q, d
<1> QED
  BY <1>7, <1>8, <1>9

\* A managed record that is not desired is deleted, or the call fails.
LEMMA DeleteMissingInv ==
  ASSUME Inv, NEW m \in Reconcilers, DeleteMissing(m)
  PROVE  Inv'
<1> DEFINE q == run[m].req
           w == run[m].working
           done == DOMAIN q.desired
<1>1. run[m].phase = "transacting" /\ run[m].todo = {} /\ q.deleteMissing
  BY DEF DeleteMissing, deleting
<1>2. TransactionInv(m) /\ q \in Requests /\ run[m].now \in Time
  BY <1>1 DEF Inv, RunInv
<1>3. Done(m) = done
  BY <1>1 DEF Done
<1>4. /\ Sound(store) /\ Sound(w) /\ Follows(store, w)
      /\ Built(m, q, store, w, done)
      /\ run[m].managed = Remaining(m, q, store, w, done)
      /\ Counted(q, store, w, done, run[m].counts)
      /\ ~duplicateIdentity(store, q.scope)
      /\ DOMAIN run[m] = TransactionFields
  BY <1>2, <1>3 DEF Inv, TransactionInv
<1>5. PICK k \in run[m].managed :
        LET current == store.records[k]
            tombstone == tombstoneOf(current, run[m].now)
        IN  IF DeleteError(w, current.scope, k, current.version, tombstone) # "nil"
            THEN abort(m)
            ELSE /\ run' = [run EXCEPT ![m] = [run[m] EXCEPT
                      !.working = Delete(w, current.scope, k, current.version, tombstone),
                      !.managed = run[m].managed \ {k},
                      !.counts = counted(m, "deleted")]]
                 /\ UNCHANGED <<store, clock, outcome, runs, writes>>
  BY DEF DeleteMissing
<1> DEFINE current == store.records[k]
           tombstone == tombstoneOf(current, run[m].now)
           t == Delete(w, current.scope, k, current.version, tombstone)
<1>6. CASE DeleteError(w, current.scope, k, current.version, tombstone) # "nil"
  BY <1>5, <1>6, AbortInv
<1>7. CASE DeleteError(w, current.scope, k, current.version, tombstone) = "nil"
  <2> DEFINE counts == counted(m, "deleted")
             r == [run[m] EXCEPT !.working = t, !.managed = run[m].managed \ {k},
                                 !.counts = counts]
  <2>1. /\ run' = [run EXCEPT ![m] = r]
        /\ UNCHANGED <<store, clock, outcome, runs, writes>>
    BY <1>5, <1>7
  <2>2. k \in DOMAIN store.records /\ current \in Record
    BY <1>4 DEF Remaining, managedKeys, liveIn, Sound, StoreInv, IsState, IsMap
  <2>3. tombstone \in Tombstone
    BY <1>2, <2>2, TombstoneOfType
  <2> HIDE DEF tombstone, current
  <2>4. /\ Built(m, q, store, t, done)
        /\ Remaining(m, q, store, t, done) = Remaining(m, q, store, w, done) \ {k}
        /\ k \notin Gone(store, w)
        /\ New(store, t) = New(store, w)
        /\ Updated(store, t) = Updated(store, w)
        /\ Same(q, store, t, done) = Same(q, store, w, done)
        /\ Gone(store, t) = Gone(store, w) \cup {k}
    <3>1. k \in Remaining(m, q, store, w, done)
      BY <1>4
    <3>2. /\ k \in DOMAIN w.records
          /\ DOMAIN t.records = DOMAIN w.records \ {k}
          /\ \A j \in DOMAIN w.records : j # k => t.records[j] = w.records[j]
          /\ DOMAIN t.tombstones = DOMAIN w.tombstones \cup {k}
          /\ \A j \in DOMAIN w.tombstones : j # k => t.tombstones[j] = w.tombstones[j]
      BY <1>4, <1>7, <2>3, DeleteEffect DEF Sound
    <3>3. k \notin DOMAIN w.tombstones
      BY <1>4, <3>2 DEF Sound, StoreInv, IdsUnique
    <3>4. Removed(w, t, k)
      BY <3>2, <3>3 DEF Removed
    <3>5. Built(m, q, store, w, done) /\ q.deleteMissing
      BY <1>1, <1>4
    <3>6. identityOf(store.records[k]) \notin DOMAIN q.desired
      BY <3>1 DEF Remaining
    <3> HIDE DEF q, w, t, done
    <3> QED
      BY <3>1, <3>4, <3>5, <3>6, DeleteBuilt
  <2>5. Sound(t) /\ Follows(w, t)
    BY <1>4, <2>3, DeleteSound
  <2>6. Follows(store, t)
    BY <1>4, <2>5, FollowsTransitive
  <2> HIDE DEF t
  <2>7. Cardinality(Gone(store, t)) = Cardinality(Gone(store, w)) + 1
    BY <1>4, <2>4, CountsFinite, OneMore
  <2>8. Counted(q, store, t, done, counts)
    BY <1>4, <2>4, <2>7, CountFields DEF Counted, counted
  <2> HIDE DEF counts
  <2>9. /\ DOMAIN r = TransactionFields /\ r.phase = "transacting" /\ r.req = q
        /\ r.now = run[m].now /\ r.working = t /\ r.todo = {}
        /\ r.managed = run[m].managed \ {k} /\ r.counts = counts
    BY <1>1, <1>4 DEF TransactionFields
  <2> HIDE DEF r
  <2>10. done = DOMAIN q.desired \ r.todo /\ r.todo \subseteq DOMAIN q.desired
    BY <2>9
  <2> HIDE DEF done
  <2> QED
    BY <1>1, <1>2, <1>4, <2>1, <2>4, <2>5, <2>6, <2>8, <2>9, <2>10, AdvanceInv
<1> QED
  BY <1>6, <1>7

\* A call reads the clock and waits for the mutex.
LEMMA StartInv ==
  ASSUME Inv, NEW m \in Reconcilers, Start(m)
  PROVE  Inv'
<1>1. PICK q \in Requests :
        run' = [run EXCEPT ![m] = [phase |-> "prepared", req |-> q, now |-> clock]]
  BY DEF Start
<1>2. /\ runs < MaxRuns /\ runs' = runs + 1
      /\ outcome' = [outcome EXCEPT ![m] = None]
      /\ UNCHANGED <<store, clock, writes>>
  BY DEF Start
<1>3. /\ run' = [n \in Reconcilers |-> run'[n]]
      /\ run'[m].phase = "prepared" /\ run'[m].req = q /\ run'[m].now = clock
      /\ \A n \in Reconcilers \ {m} : run'[n] = run[n]
  BY <1>1 DEF Inv
<1>4. Bounded' /\ clock \in Time
  BY <1>2, ReconcilerBounds DEF Inv, Bounded, Time
<1>5. RunInv(m)'
  BY <1>2, <1>3, <1>4 DEF RunInv
<1>6. \A n \in Reconcilers : RunInv(n)'
  BY <1>2, <1>3, <1>5, SameRun DEF Inv
<1>7. Exclusive'
  BY <1>3 DEF Inv, Exclusive
<1>8. outcome' = [n \in Reconcilers |-> outcome'[n]]
  BY <1>2 DEF Inv
<1> QED
  BY <1>2, <1>3, <1>4, <1>6, <1>7, <1>8 DEF Inv

\* The copy becomes the store while no other transaction runs.
LEMMA CommitInv ==
  ASSUME Inv, NEW m \in Reconcilers, Commit(m)
  PROVE  Inv'
<1>1. /\ run[m].phase = "transacting"
      /\ store' = run[m].working
      /\ outcome' = [outcome EXCEPT ![m] = run[m].counts]
      /\ run' = [run EXCEPT ![m] = Idle]
      /\ UNCHANGED <<clock, runs, writes>>
  BY DEF Commit
<1>2. /\ run' = [n \in Reconcilers |-> run'[n]]
      /\ run'[m].phase = "idle"
      /\ \A n \in Reconcilers \ {m} : run'[n] = run[n]
  BY <1>1 DEF Inv, Idle
<1>3. \A n \in Reconcilers \ {m} : run[n].phase # "transacting"
  BY <1>1 DEF Inv, Exclusive
<1>4. Sound(store')
  BY <1>1 DEF Inv, RunInv, TransactionInv
<1>5. RunInv(m)'
  BY <1>2 DEF RunInv
<1>6. \A n \in Reconcilers : RunInv(n)'
  BY <1>2, <1>3, <1>5, SameRunUnlocked DEF Inv
<1>7. Exclusive'
  BY <1>2, <1>3 DEF Exclusive
<1>8. outcome' = [n \in Reconcilers |-> outcome'[n]]
  BY <1>1 DEF Inv
<1>9. Bounded'
  BY <1>1 DEF Inv, Bounded
<1> QED
  BY <1>2, <1>4, <1>6, <1>7, <1>8, <1>9 DEF Inv

\* A client writes while no transaction runs.
LEMMA ClientWriteInv ==
  ASSUME Inv, NEW after, Sound(after), clientWrite(after)
  PROVE  Inv'
<1>1. /\ unlocked /\ writes < MaxWrites /\ store' = after /\ writes' = writes + 1
      /\ UNCHANGED <<clock, run, outcome, runs>>
  BY DEF clientWrite
<1>2. Bounded'
  BY <1>1, ReconcilerBounds DEF Inv, Bounded
<1>3. \A n \in Reconcilers : RunInv(n)'
  BY <1>1, SameRunUnlocked DEF Inv, unlocked
<1>4. Exclusive'
  BY <1>1 DEF Inv, Exclusive
<1> QED
  BY <1>1, <1>2, <1>3, <1>4 DEF Inv

\* What the three client writes make of the store is sound and follows from it.
LEMMA ClientWriteSound ==
  ASSUME Inv, ClientPost \/ ClientReplace \/ ClientDelete
  PROVE  \E after : Sound(after) /\ Follows(store, after) /\ clientWrite(after)
<1>1. clock \in Time /\ Sound(store)
  BY ReconcilerBounds DEF Inv, Bounded, Time
<1>2. \A k \in DOMAIN store.records :
        store.records[k] \in Record /\ validateRecord(store.records[k])
  BY <1>1 DEF Sound, StoreInv, IsState, IsMap, RecordsValid
<1>3. CASE ClientPost
  <2>1. PICK scope \in Scopes, key \in Keys, doc \in Posted :
          clientWrite(Create(store, newRecord(scope, NoManager, key[1], key[2], doc, clock, None)))
    BY <1>3 DEF ClientPost
  <2> DEFINE r == newRecord(scope, NoManager, key[1], key[2], doc, clock, None)
  <2>2. /\ key[1] \in ResourceTypes /\ key[2] \in Ids /\ doc \in Document
        /\ NoManager \in Managers /\ None \in Credentials \cup {None}
    BY ReconcilerBounds DEF Keys
  <2>3. r \in Record
    BY <1>1, <2>2, NewRecordType
  <2> HIDE DEF r
  <2>4. Sound(Create(store, r)) /\ Follows(store, Create(store, r))
    BY <1>1, <2>3, CreateSound
  <2> QED
    BY <2>1, <2>4 DEF r
<1>4. CASE ClientReplace
  <2>1. PICK key \in DOMAIN store.records, doc \in Posted :
          clientWrite(Replace(store, replacementRecord(store.records[key], doc, clock,
                                                       store.records[key].cred),
                              store.records[key].version))
    BY <1>4 DEF ClientReplace
  <2> DEFINE current == store.records[key]
             r == replacementRecord(current, doc, clock, current.cred)
  <2>2. doc \in Document /\ current.cred \in Credentials \cup {None}
    BY <1>2, ReconcilerBounds DEF Record
  <2>3. r \in Record
    BY <1>1, <1>2, <2>2, ReplacementType
  <2> HIDE DEF r
  <2>4. /\ Sound(Replace(store, r, current.version))
        /\ Follows(store, Replace(store, r, current.version))
    BY <1>1, <2>3, ReplaceSound
  <2> QED
    BY <2>1, <2>4 DEF r
<1>5. CASE ClientDelete
  <2>1. PICK key \in DOMAIN store.records :
          clientWrite(Delete(store, store.records[key].scope, key, store.records[key].version,
                             tombstoneOf(store.records[key], clock)))
    BY <1>5 DEF ClientDelete
  <2> DEFINE current == store.records[key]
             b == tombstoneOf(current, clock)
             after == Delete(store, current.scope, key, current.version, b)
  <2>2. b \in Tombstone
    BY <1>1, <1>2, TombstoneOfType
  <2> HIDE DEF b
  <2>3. Sound(after) /\ Follows(store, after)
    BY <1>1, <2>2, DeleteSound
  <2> QED
    BY <2>1, <2>3 DEF b
<1> QED
  BY <1>3, <1>4, <1>5

\* Time moves on.
LEMMA TickInv ==
  ASSUME Inv, Tick
  PROVE  Inv'
<1>1. /\ clock < MaxTime /\ clock' = clock + 1
      /\ UNCHANGED <<store, run, outcome, runs, writes>>
  BY DEF Tick
<1>2. Bounded'
  BY <1>1, ReconcilerBounds DEF Inv, Bounded
<1>3. \A n \in Reconcilers : RunInv(n)'
  BY <1>1, SameRun DEF Inv
<1>4. Exclusive'
  BY <1>1 DEF Inv, Exclusive
<1> QED
  BY <1>1, <1>2, <1>3, <1>4 DEF Inv

\* Nothing runs and the store is empty at first.
LEMMA InitInv == Init => Inv
<1> SUFFICES ASSUME Init PROVE Inv
  OBVIOUS
<1>1. Sound(store)
  BY EmptySound DEF Init
<1>2. /\ run = [m \in Reconcilers |-> run[m]]
      /\ outcome = [m \in Reconcilers |-> outcome[m]]
      /\ \A m \in Reconcilers : run[m].phase = "idle"
  BY DEF Init, Idle
<1>3. Bounded
  BY ReconcilerBounds DEF Init, Bounded
<1> QED
  BY <1>1, <1>2, <1>3 DEF Inv, Exclusive, RunInv

\* Every step keeps the invariant.
LEMMA NextInv == Inv /\ [Next]_vars => Inv'
<1> SUFFICES ASSUME Inv, [Next]_vars PROVE Inv'
  OBVIOUS
<1>1. ASSUME NEW m \in Reconcilers, Start(m) PROVE Inv'
  BY <1>1, StartInv
<1>2. ASSUME NEW m \in Reconcilers, Begin(m) PROVE Inv'
  BY <1>2, BeginInv
<1>3. ASSUME NEW m \in Reconcilers, BeginFails(m) \/ ApplyBlocked(m) \/ Cancel(m) PROVE Inv'
  BY <1>3, AbortInv DEF BeginFails, ApplyBlocked, Cancel
<1>4. ASSUME NEW m \in Reconcilers, ApplyCreate(m) PROVE Inv'
  BY <1>4, ApplyCreateInv
<1>5. ASSUME NEW m \in Reconcilers, ApplyUpdate(m) PROVE Inv'
  BY <1>5, ApplyUpdateInv
<1>6. ASSUME NEW m \in Reconcilers, DeleteMissing(m) PROVE Inv'
  BY <1>6, DeleteMissingInv
<1>7. ASSUME NEW m \in Reconcilers, Commit(m) PROVE Inv'
  BY <1>7, CommitInv
<1>8. CASE ClientPost \/ ClientReplace \/ ClientDelete
  BY <1>8, ClientWriteSound, ClientWriteInv
<1>9. CASE Tick
  BY <1>9, TickInv
<1>10. CASE UNCHANGED vars
  <2>1. /\ store' = store /\ clock' = clock /\ run' = run
        /\ outcome' = outcome /\ runs' = runs /\ writes' = writes
    BY <1>10 DEF vars
  <2>2. \A n \in Reconcilers : RunInv(n)'
    BY <2>1, SameRun DEF Inv
  <2> QED
    BY <2>1, <2>2 DEF Inv, Exclusive, Bounded
<1> QED
  BY <1>1, <1>2, <1>3, <1>4, <1>5, <1>6, <1>7, <1>8, <1>9, <1>10 DEF Next, Transaction

-----------------------------------------------------------------------------
(* Theorems *)

\* The inductive invariant holds in every reachable state.
THEOREM Invariance == Spec => []Inv
BY InitInv, NextInv, PTL DEF Spec

\* Every variable keeps its type and one manager at a time transacts.
THEOREM TypeCorrect == Spec => []TypeOK
<1>1. ASSUME Inv PROVE TypeOK
  <2>1. ASSUME NEW m \in Reconcilers, run[m].phase = "transacting"
        PROVE  /\ IsState(run[m].working)
               /\ run[m].todo \subseteq Identities
               /\ run[m].managed \subseteq DOMAIN store.records
    <3>1. TransactionInv(m) /\ run[m].req \in Requests
      BY <1>1, <2>1 DEF Inv, RunInv
    <3>2. run[m].todo \subseteq Identities
      BY <3>1, RequestsAssumption DEF TransactionInv
    <3>3. IsState(run[m].working)
      BY <3>1 DEF TransactionInv, Sound, StoreInv
    <3>4. run[m].managed \subseteq DOMAIN store.records
      BY <3>1 DEF TransactionInv, Remaining, managedKeys, liveIn
    <3> QED
      BY <3>2, <3>3, <3>4
  <2>2. IsState(store)
    BY <1>1 DEF Inv, Sound, StoreInv
  <2>3. \A m \in Reconcilers : run[m].phase \in {"idle", "prepared", "transacting"}
    BY <1>1 DEF Inv, RunInv
  <2> QED
    BY <1>1, <2>1, <2>2, <2>3 DEF Inv, TypeOK, Bounded, Exclusive
<1> QED
  BY <1>1, Invariance, PTL

\* Only the commit of m's transaction gives m's call a result.
LEMMA CommitStep ==
  ASSUME Inv, [Next]_vars, NEW m \in Reconcilers, commits(m)
  PROVE  Commit(m)
<1>1. outcome'[m] # outcome[m] /\ outcome'[m] # None
  BY DEF commits
<1>2. ASSUME NEW n \in Reconcilers, Start(n) PROVE FALSE
  BY <1>1, <1>2 DEF Start, Inv
<1>3. ASSUME NEW n \in Reconcilers, Transaction(n) \/ Cancel(n) PROVE Commit(m)
  <2>1. ASSUME outcome' = outcome PROVE FALSE
    BY <1>1, <2>1
  <2>2. CASE Commit(n)
    <3>1. outcome' = [outcome EXCEPT ![n] = run[n].counts]
      BY <2>2 DEF Commit
    <3>2. n = m
      BY <1>1, <3>1 DEF Inv
    <3> QED
      BY <2>2, <3>2
  <2>3. CASE Begin(n) \/ BeginFails(n) \/ ApplyBlocked(n) \/ Cancel(n)
    BY <2>1, <2>3 DEF Begin, BeginFails, ApplyBlocked, Cancel, abort
  <2>4. CASE ApplyCreate(n)
    BY <2>1, <2>4 DEF ApplyCreate, abort, applied
  <2>5. CASE ApplyUpdate(n)
    BY <2>1, <2>5 DEF ApplyUpdate, abort, applied
  <2>6. CASE DeleteMissing(n)
    BY <2>1, <2>6 DEF DeleteMissing, abort
  <2> QED
    BY <1>3, <2>2, <2>3, <2>4, <2>5, <2>6 DEF Transaction
<1>4. CASE ClientPost \/ ClientReplace \/ ClientDelete
  BY <1>1, <1>4 DEF ClientPost, ClientReplace, ClientDelete, clientWrite
<1>5. CASE Tick \/ UNCHANGED vars
  BY <1>1, <1>5 DEF Tick, vars
<1> QED
  BY <1>2, <1>3, <1>4, <1>5 DEF Next

\* What a commit leaves, with every desired identity applied.
LEMMA CommitBuilds ==
  ASSUME Inv, [Next]_vars, NEW m \in Reconcilers, commits(m)
  PROVE  LET q == run[m].req
             done == DOMAIN q.desired
         IN  /\ done \subseteq Identities
             /\ ~duplicateIdentity(store, q.scope)
             /\ Sound(store) /\ Sound(store') /\ Follows(store, store')
             /\ Built(m, q, store, store', done)
             /\ q.deleteMissing => Remaining(m, q, store, store', done) = {}
             /\ Counted(q, store, store', done, outcome'[m])
<1> DEFINE q == run[m].req
           done == DOMAIN q.desired
<1>1. Commit(m)
  BY CommitStep
<1>2. /\ run[m].phase = "transacting" /\ run[m].todo = {}
      /\ q.deleteMissing => run[m].managed = {}
      /\ store' = run[m].working
      /\ outcome'[m] = run[m].counts
  BY <1>1 DEF Commit, deleting, Inv
<1>3. TransactionInv(m) /\ q \in Requests
  BY <1>2 DEF Inv, RunInv
<1>4. Done(m) = done
  BY <1>2 DEF Done
<1>5. done \subseteq Identities
  BY <1>3, RequestsAssumption
<1> QED
  BY <1>2, <1>3, <1>4, <1>5 DEF TransactionInv, Inv

\* A call that reports success left exactly what was desired (reconcile.go
\* Reconcile).
THEOREM CommitsSatisfy == Spec => CommitSatisfiesRequest
<1>1. ASSUME Inv, [Next]_vars, NEW m \in Reconcilers, commits(m)
      PROVE  Satisfies(store', m, run[m].req)
  <2> DEFINE q == run[m].req
             done == DOMAIN q.desired
  <2>1. /\ Built(m, q, store, store', done)
        /\ q.deleteMissing => Remaining(m, q, store, store', done) = {}
    BY <1>1, CommitBuilds
  <2> HIDE DEF q
  <2>2. ASSUME NEW d \in DOMAIN q.desired
        PROVE  \E k \in bearers(store', q.scope, d) :
                 store'.records[k].manager = m /\ store'.records[k].data = q.desired[d]
    <3>1. PICK k \in bearers(store', q.scope, d) : InPlace(m, q, store'.records[k])
      BY <2>1 DEF Built, Reached
    <3> QED
      BY <3>1 DEF InPlace, bearers
  <2>3. ASSUME q.deleteMissing, NEW k \in managedKeys(store', q.scope, m)
        PROVE  identityOf(store'.records[k]) \in DOMAIN q.desired
    <3>1. k \in DOMAIN store'.records
      BY DEF managedKeys, liveIn
    <3>2. CASE k \notin DOMAIN store.records
      BY <2>1, <3>1, <3>2 DEF Built, Added
    <3>3. CASE k \in DOMAIN store.records /\ store'.records[k] # store.records[k]
      BY <2>1, <3>1, <3>3 DEF Built, Changed
    <3>4. CASE k \in DOMAIN store.records /\ store'.records[k] = store.records[k]
      <4>1. k \in managedKeys(store, q.scope, m)
        BY <3>4 DEF managedKeys, liveIn
      <4> QED
        BY <2>1, <2>3, <3>1, <3>4, <4>1 DEF Remaining
    <3> QED
      BY <3>2, <3>3, <3>4
  <2> QED
    BY <2>2, <2>3 DEF Satisfies, q
<1>2. Inv /\ [Next]_vars =>
        \A m \in Reconcilers : commits(m) => Satisfies(store', m, run[m].req)
  BY <1>1
<1> QED
  BY <1>2, Invariance, PTL DEF Spec, CommitSatisfiesRequest

\* A repeated call is a no-op on the whole store.
THEOREM RepeatsChangeNothing == Spec => RepeatChangesNothing
<1>1. ASSUME Inv, [Next]_vars, NEW m \in Reconcilers, commits(m),
             Satisfies(store, m, run[m].req)
      PROVE  store' = store
  <2> DEFINE q == run[m].req
             done == DOMAIN q.desired
  <2>1. /\ Built(m, q, store, store', done) /\ done \subseteq Identities
        /\ ~duplicateIdentity(store, q.scope) /\ Sound(store) /\ Sound(store')
    BY <1>1, CommitBuilds
  <2>2. Satisfies(store, m, q)
    BY <1>1
  <2> HIDE DEF q
  <2>3. ASSUME NEW k \in DOMAIN store'.records \ DOMAIN store.records PROVE FALSE
    <3>1. /\ identityOf(store'.records[k]) \in done
          /\ bearers(store, q.scope, identityOf(store'.records[k])) = {}
      BY <2>1 DEF Built, Added
    <3> QED
      BY <2>2, <3>1 DEF Satisfies
  <2>4. ASSUME NEW k \in DOMAIN store.records \ DOMAIN store'.records PROVE FALSE
    <3>1. /\ k \in managedKeys(store, q.scope, m)
          /\ identityOf(store.records[k]) \notin DOMAIN q.desired
          /\ q.deleteMissing
      BY <2>1 DEF Built, Dropped
    <3> QED
      BY <2>2, <3>1 DEF Satisfies
  <2>5. DOMAIN store'.records = DOMAIN store.records
    BY <2>3, <2>4
  <2>6. ASSUME NEW k \in DOMAIN store.records, store'.records[k] # store.records[k]
        PROVE  FALSE
    <3> DEFINE d == identityOf(store.records[k])
    <3>1. d \in done /\ store.records[k].scope = q.scope /\ ~InPlace(m, q, store.records[k])
      BY <2>1, <2>5, <2>6 DEF Built, Changed
    <3>2. PICK j \in bearers(store, q.scope, d) :
            store.records[j].manager = m /\ store.records[j].data = q.desired[d]
      BY <2>2, <3>1 DEF Satisfies
    <3>3. k \in bearers(store, q.scope, d)
      BY <3>1 DEF bearers, liveIn
    <3>4. j = k
      BY <2>1, <3>1, <3>2, <3>3, OneBearer
    <3> QED
      BY <3>1, <3>2, <3>4 DEF InPlace
  <2>7. store'.records = store.records
    BY <2>1, <2>5, <2>6 DEF Sound, StoreInv, IsState, IsMap
  <2>8. store'.tombstones = store.tombstones
    BY <2>1, <2>5 DEF Built, Buried, Sound, StoreInv, IsState, IsMap
  <2> QED
    BY <2>1, <2>7, <2>8 DEF Sound, StoreInv, IsState
<1>2. Inv /\ [Next]_vars =>
        \A m \in Reconcilers :
          commits(m) /\ Satisfies(store, m, run[m].req) => store' = store
  BY <1>1
<1> QED
  BY <1>2, Invariance, PTL DEF Spec, RepeatChangesNothing

\* Reconciliation "never adopts or deletes resources carrying another manager
\* marker".
THEOREM OthersStayUntouched == Spec => OthersUntouched
<1>1. ASSUME Inv, [Next]_vars, NEW m \in Reconcilers, commits(m)
      PROVE  /\ \A k \in DOMAIN store.records :
                  store.records[k].manager # m =>
                    k \in DOMAIN store'.records /\ store'.records[k] = store.records[k]
             /\ \A k \in DOMAIN store'.records \ DOMAIN store.records :
                  /\ store'.records[k].manager = m
                  /\ store'.records[k].scope = run[m].req.scope
  <2> DEFINE q == run[m].req
             done == DOMAIN q.desired
  <2>1. Built(m, q, store, store', done)
    BY <1>1, CommitBuilds
  <2>2. ASSUME NEW k \in DOMAIN store.records, store.records[k].manager # m
        PROVE  k \in DOMAIN store'.records /\ store'.records[k] = store.records[k]
    <3>1. k \in DOMAIN store'.records
      BY <2>1, <2>2 DEF Built, Dropped, managedKeys
    <3> QED
      BY <2>1, <2>2, <3>1 DEF Built, Changed
  <2>3. ASSUME NEW k \in DOMAIN store'.records \ DOMAIN store.records
        PROVE  store'.records[k].manager = m /\ store'.records[k].scope = q.scope
    BY <2>1 DEF Built, Added, InPlace
  <2> QED
    BY <2>2, <2>3
<1>2. Inv /\ [Next]_vars =>
        \A m \in Reconcilers : commits(m) =>
          /\ \A k \in DOMAIN store.records :
               store.records[k].manager # m =>
                 k \in DOMAIN store'.records /\ store'.records[k] = store.records[k]
          /\ \A k \in DOMAIN store'.records \ DOMAIN store.records :
               /\ store'.records[k].manager = m
               /\ store'.records[k].scope = run[m].req.scope
  BY <1>1
<1> QED
  BY <1>2, Invariance, PTL DEF Spec, OthersUntouched

\* A resource that is still desired keeps its id, its identity and its creation
\* time (replacementRecord in reconcile.go).
THEOREM IdsArePreserved == Spec => IdsPreserved
<1> DEFINE Kept(m, k) ==
      LET r == store.records[k] IN
      /\ r.manager = m
      /\ r.scope = run[m].req.scope
      /\ identityOf(r) \in DOMAIN run[m].req.desired
      => /\ k \in DOMAIN store'.records
         /\ identityOf(store'.records[k]) = identityOf(r)
         /\ store'.records[k].created = r.created
<1>1. ASSUME Inv, [Next]_vars, NEW m \in Reconcilers, commits(m),
             NEW k \in DOMAIN store.records
      PROVE  Kept(m, k)
  <2> DEFINE q == run[m].req
             done == DOMAIN q.desired
  <2>1. Built(m, q, store, store', done)
    BY <1>1, CommitBuilds
  <2>2. ASSUME identityOf(store.records[k]) \in done
        PROVE  k \in DOMAIN store'.records
    BY <2>1, <2>2 DEF Built, Dropped
  <2> QED
    BY <2>1, <2>2 DEF Built, Changed
<1>2. Inv /\ [Next]_vars =>
        \A m \in Reconcilers : commits(m) => \A k \in DOMAIN store.records : Kept(m, k)
  BY <1>1
<1> QED
  BY <1>2, Invariance, PTL DEF Spec, IdsPreserved

\* A deleted identity is not brought back by a manager that still desires it
\* (the tombstones that Reconcile scans).
THEOREM DeletedIdentitiesStayDeleted == Spec => DeletedStaysDeleted
<1>1. ASSUME Inv, [Next]_vars, NEW m \in Reconcilers, commits(m),
             NEW k \in DOMAIN store'.records \ DOMAIN store.records,
             NEW j \in DOMAIN store.tombstones,
             store.tombstones[j].scope = run[m].req.scope,
             deletedIdentity(store.tombstones[j]) = identityOf(store'.records[k])
      PROVE  FALSE
  <2> DEFINE q == run[m].req
             b == store.tombstones[j]
             d == identityOf(store'.records[k])
  <2>1. Built(m, q, store, store', DOMAIN q.desired) /\ Sound(store)
    BY <1>1, CommitBuilds
  <2>2. ~tombstonedIdentity(store, q.scope, d)
    BY <2>1 DEF Built, Added
  <2>3. identityOf(b) = d
    BY <1>1, <2>1 DEF Sound, TombstonesTrue, deletedIdentity, identityOf
  <2>4. b.type = d[1]
    BY <2>3 DEF identityOf
  <2>5. b \in Tombstones(store, q.scope, d[1])
    BY <1>1, <2>4 DEF Tombstones
  <2> QED
    BY <2>2, <2>3, <2>5 DEF tombstonedIdentity
<1>2. Inv /\ [Next]_vars =>
        \A m \in Reconcilers : commits(m) =>
          \A k \in DOMAIN store'.records \ DOMAIN store.records :
            \A j \in DOMAIN store.tombstones :
              store.tombstones[j].scope = run[m].req.scope =>
                deletedIdentity(store.tombstones[j]) # identityOf(store'.records[k])
  BY <1>1
<1> QED
  BY <1>2, Invariance, PTL DEF Spec, DeletedStaysDeleted

\* ReconcileResult counts what the commit did to the store.
THEOREM CountsAreRight == Spec => CountsMatchStore
<1> DEFINE Matches(m) ==
      LET before == DOMAIN store.records
          after == DOMAIN store'.records
      IN  outcome'[m] =
            [created   |-> Cardinality(after \ before),
             deleted   |-> Cardinality(before \ after),
             updated   |-> Cardinality({k \in before \cap after :
                                          store'.records[k] # store.records[k]}),
             unchanged |-> Cardinality({k \in before \cap after :
                             /\ store.records[k].scope = run[m].req.scope
                             /\ identityOf(store.records[k]) \in DOMAIN run[m].req.desired
                             /\ store'.records[k] = store.records[k]})]
<1>1. ASSUME Inv, [Next]_vars, NEW m \in Reconcilers, commits(m)
      PROVE  Matches(m)
  <2> DEFINE q == run[m].req
             done == DOMAIN q.desired
  <2>1. Counted(q, store, store', done, outcome'[m])
    BY <1>1, CommitBuilds
  <2> QED
    BY <2>1 DEF Counted, New, Gone, Updated, Same
<1>2. Inv /\ [Next]_vars => \A m \in Reconcilers : commits(m) => Matches(m)
  BY <1>1
<1> QED
  BY <1>2, Invariance, PTL DEF Spec, CountsMatchStore

\* The life of ids that the committed records and tombstones spell out.
LC == INSTANCE IdLifecycle WITH life <- [i \in Ids |-> LifeOf(store, i)]

\* Reconcilers and clients together implement IdLifecycle: no write resurrects, reassigns or forgets an id.
Lifecycle == LC!Spec

\* Whoever writes, an id goes from unused to live to dead and keeps its type,
\* scope and manager: the steps of a reconciliation, committed as one, are one
\* Advance (reconcile.go Reconcile).
THEOREM ImplementsLifecycle == Spec => Lifecycle
<1> DEFINE life == [i \in Ids |-> LifeOf(store, i)]
<1>1. Init => LC!Init
  <2>1. ASSUME NEW i \in Ids PROVE LifeOf(newMemoryState, i) = LC!Unused
    BY DEF LifeOf, LC!Unused, newMemoryState, EmptyMap
  <2> QED
    BY <2>1 DEF Init, LC!Init
<1>2. ASSUME Inv, [Next]_vars PROVE Follows(store, store')
  <2>1. CASE store' = store
    BY <2>1 DEF Follows, Stages!Forward
  <2>2. ASSUME NEW m \in Reconcilers, Commit(m) PROVE Follows(store, store')
    BY <1>2, <2>2 DEF Commit, Inv, RunInv, TransactionInv
  <2>3. CASE ClientPost \/ ClientReplace \/ ClientDelete
    <3>1. PICK after : Follows(store, after) /\ clientWrite(after)
      BY <1>2, <2>3, ClientWriteSound
    <3> QED
      BY <3>1 DEF clientWrite
  <2>4. ASSUME NEW m \in Reconcilers,
               Start(m) \/ Begin(m) \/ BeginFails(m) \/ ApplyBlocked(m) \/ Cancel(m)
        PROVE  store' = store
    BY <2>4 DEF Start, Begin, BeginFails, ApplyBlocked, Cancel, abort
  <2>5. ASSUME NEW m \in Reconcilers, ApplyCreate(m) \/ ApplyUpdate(m) \/ DeleteMissing(m)
        PROVE  store' = store
    BY <2>5 DEF ApplyCreate, ApplyUpdate, DeleteMissing, abort, applied
  <2>6. CASE Tick \/ UNCHANGED vars
    BY <2>1, <2>6 DEF Tick, vars
  <2> QED
    BY <1>2, <2>1, <2>2, <2>3, <2>4, <2>5, <2>6 DEF Next, Transaction
<1>3. Inv /\ Inv' /\ [Next]_vars => [LC!Advance]_life
  <2> SUFFICES ASSUME Inv, Inv', [Next]_vars PROVE LC!Advance
    OBVIOUS
  <2>1. Follows(store, store')
    BY <1>2
  <2>2. \A i \in Ids : LifeOf(store', i) \in LC!LifeStates
    BY LifeOfType DEF Inv, Sound, LC!LifeStates, LC!Unused, LC!Live, LC!Dead,
           Stages!LifeStates, Stages!Unused, Stages!Live, Stages!Dead
  <2> QED
    BY <2>1, <2>2
       DEF LC!Advance, Follows, LC!Forward, LC!Unused, LC!Live, LC!Dead,
           Stages!Forward, Stages!Unused, Stages!Live, Stages!Dead
<1> QED
  BY <1>1, <1>3, Invariance, PTL DEF Spec, LC!Spec, Lifecycle
=============================================================================
