------------------------- MODULE MemoryStoreProofs -------------------------
(***************************************************************************)
(* Theorems about MemoryStore, for every set of callers, records, ids,      *)
(* scopes and types and every bound.                                        *)
(*                                                                          *)
(* The inductive invariant says of the committed state and of the private   *)
(* copy alike that they are store states in good order (StoreInv), and that *)
(* the copy follows the committed state: each id is where it was or further *)
(* along its life.  The operations of a transaction keep both facts, by the *)
(* lemmas of ScimStoreProofs.                                               *)
(***************************************************************************)
EXTENDS MemoryStore, ScimStoreProofs

\* The committed state and the private copy are in good order, and the copy of
\* a running transaction follows the committed state.
Inv ==
  /\ TypeOK
  /\ StoreInv(state)
  /\ StoreInv(working)
  /\ holder # None => Follows(state, working)

\* The empty store satisfies the invariant.
LEMMA InitInv == Init => Inv
<1> SUFFICES ASSUME Init PROVE Inv
  OBVIOUS
<1>1. StoreInv(state) /\ StoreInv(working)
  BY EmptyStoreInv DEF Init
<1>2. TypeOK
  BY <1>1, CallersAssumption, BoundsAssumption DEF Init, TypeOK, StoreInv, PCs, Returned
<1> QED
  BY <1>1, <1>2 DEF Init, Inv

\* The tombstone a caller builds from a candidate is a tombstone.
LEMMA TombstoneType ==
  ASSUME NEW t \in Candidates, NEW now \in 0..MaxTime
  PROVE  tombstoneOf(t, now) \in Tombstone
BY CandidatesAssumption, BoundsAssumption, TombstoneOfType DEF Time

\* An operation of a callback keeps the invariant if its result is in good order
\* and follows the private copy.
LEMMA OperateInv ==
  ASSUME Inv, NEW c \in Callers, NEW after, operate(c, after),
         StoreInv(after), Follows(working, after)
  PROVE  Inv'
<1>1. /\ state' = state /\ holder' = holder /\ pc' = pc /\ cancelled' = cancelled
      /\ working' = after
      /\ ops < MaxOps /\ ops' = ops + 1
  BY DEF operate
<1>2. TypeOK'
  BY <1>1, BoundsAssumption DEF Inv, TypeOK, StoreInv
<1>3. Follows(state, working) => Follows(state, after)
  BY FollowsTransitive
<1>4. StoreInv(state)' /\ StoreInv(working)'
  BY <1>1 DEF Inv
<1>5. (holder # None => Follows(state, working))'
  BY <1>1, <1>3 DEF Inv
<1> QED
  BY <1>2, <1>4, <1>5 DEF Inv

\* A transaction that ends keeps the invariant if the new committed state is the
\* old one or the private copy.
LEMMA UnlockInv ==
  ASSUME Inv, NEW c \in Callers, pc[c] = "callback", NEW result \in {"ok", "failed"},
         unlock(c, result), state' = state \/ state' = working
  PROVE  Inv'
<1>1. /\ working' = newMemoryState
      /\ holder' = None
      /\ pc' = [pc EXCEPT ![c] = result]
      /\ cancelled' = cancelled
      /\ ops' = 0
  BY DEF unlock
<1>2. StoreInv(state)'
  BY DEF Inv
<1>3. StoreInv(working)'
  BY <1>1, EmptyStoreInv
<1>4. TypeOK'
  BY <1>1, <1>2, <1>3, BoundsAssumption, CallersAssumption
     DEF Inv, TypeOK, StoreInv, PCs, Returned
<1> QED
  BY <1>1, <1>2, <1>3, <1>4 DEF Inv

\* Every step keeps the invariant.
LEMMA NextInv == Inv /\ [Next]_vars => Inv'
<1> SUFFICES ASSUME Inv, [Next]_vars PROVE Inv'
  OBVIOUS
<1>1. CASE UNCHANGED vars
  <2>1. TypeOK'
    BY <1>1 DEF Inv, TypeOK, vars
  <2>2. StoreInv(state)' /\ StoreInv(working)' /\ (holder # None => Follows(state, working))'
    BY <1>1 DEF Inv, vars
  <2> QED
    BY <2>1, <2>2 DEF Inv
<1>2. ASSUME NEW c \in Callers, Step(c) PROVE Inv'
  <2>1. CASE Call(c) \/ CallCancelled(c)
    <3>1. /\ state' = state /\ working' = working /\ holder' = holder /\ ops' = ops
          /\ pc[c] \in Returned
          /\ \E p \in {"waiting", "failed"}, b \in BOOLEAN :
               /\ pc' = [pc EXCEPT ![c] = p]
               /\ cancelled' = [cancelled EXCEPT ![c] = b]
      BY <2>1 DEF Call, CallCancelled
    <3>2. TypeOK'
      BY <3>1 DEF Inv, TypeOK, PCs, Returned
    <3> QED
      BY <3>1, <3>2 DEF Inv
  <2>2. CASE Lock(c)
    <3>1. /\ state' = state /\ working' = state /\ holder' = c /\ ops' = 0
          /\ cancelled' = cancelled
          /\ pc' = [pc EXCEPT ![c] = "callback"]
          /\ holder = None
      BY <2>2 DEF Lock
    <3>2. TypeOK'
      BY <3>1, BoundsAssumption, CallersAssumption DEF Inv, TypeOK, PCs, Returned
    <3>3. Follows(state, state)
      BY DEF Follows, Stages!Forward
    <3>4. StoreInv(state)' /\ StoreInv(working)'
      BY <3>1 DEF Inv
    <3>5. Follows(state, working)'
      BY <3>1, <3>3
    <3> QED
      BY <3>2, <3>4, <3>5 DEF Inv
  <2>3. CASE TxCreate(c)
    <3>1. PICK r \in Candidates : operate(c, Create(working, r))
      BY <2>3 DEF TxCreate
    <3>2. r \in Record /\ StoreInv(working)
      BY CandidatesAssumption DEF Inv
    <3>3. StoreInv(Create(working, r)) /\ Follows(working, Create(working, r))
      BY <3>2, CreateKeeps, CreateFollows
    <3> QED
      BY <3>1, <3>3, OperateInv
  <2>4. CASE TxReplace(c)
    <3>1. PICK r \in Candidates, seen \in Candidates :
            operate(c, Replace(working, r, seen.version))
      BY <2>4 DEF TxReplace
    <3>2. r \in Record /\ StoreInv(working)
      BY CandidatesAssumption DEF Inv
    <3> DEFINE after == Replace(working, r, seen.version)
    <3>3. StoreInv(after) /\ Follows(working, after)
      BY <3>2, ReplaceKeeps, ReplaceFollows
    <3> QED
      BY <3>1, <3>3, OperateInv
  <2>5. CASE TxDelete(c)
    <3>1. PICK r \in Candidates, t \in Candidates, now \in 0..MaxTime :
            operate(c, Delete(working, r.scope, recordKey(r.type, r.id), r.version,
                              tombstoneOf(t, now)))
      BY <2>5 DEF TxDelete
    <3> DEFINE after == Delete(working, r.scope, recordKey(r.type, r.id), r.version,
                               tombstoneOf(t, now))
    <3>2. tombstoneOf(t, now) \in Tombstone /\ StoreInv(working)
      BY TombstoneType DEF Inv
    <3>3. StoreInv(after) /\ Follows(working, after)
      BY <3>2, DeleteKeeps, DeleteFollows
    <3> QED
      BY <3>1, <3>3, OperateInv
  <2>6. CASE Commit(c)
    BY <2>6, UnlockInv DEF Commit
  <2>7. CASE CommitCancelled(c) \/ Rollback(c)
    BY <2>7, UnlockInv DEF CommitCancelled, Rollback
  <2>8. CASE Cancel(c)
    <3>1. /\ UNCHANGED <<state, working, holder, pc, ops>>
          /\ cancelled' = [cancelled EXCEPT ![c] = TRUE]
      BY <2>8 DEF Cancel
    <3>2. TypeOK'
      BY <3>1 DEF Inv, TypeOK
    <3> QED
      BY <3>1, <3>2 DEF Inv
  <2> QED
    BY <1>2, <2>1, <2>2, <2>3, <2>4, <2>5, <2>6, <2>7, <2>8 DEF Step
<1> QED
  BY <1>1, <1>2 DEF Next

\* The invariant holds in every reachable state.
THEOREM Invariance == Spec => []Inv
BY InitInv, NextInv, PTL DEF Spec

-----------------------------------------------------------------------------
(* Theorems *)

\* Every variable keeps its type, and the mutex belongs to the one caller that
\* runs its callback, in every behaviour of MemoryStore.
THEOREM TypeCorrect == Spec => []TypeOK
<1>1. Inv => TypeOK
  BY DEF Inv
<1> QED
  BY <1>1, Invariance, PTL

\* MemoryStore never lets two resources, live or deleted, share an id.
THEOREM IdentityNeverShared == Spec => []UniqueIdentity
<1>1. Inv => UniqueIdentity
  BY DEF Inv, StoreInv, UniqueIdentity
<1> QED
  BY <1>1, Invariance, PTL

\* MemoryStore never commits two resources of one scope and type with the same
\* folded unique attribute.
THEOREM NamesNeverShared == Spec => []UniqueIndex
<1>1. Inv => UniqueIndex
  BY DEF Inv, StoreInv, UniqueIndex
<1> QED
  BY <1>1, Invariance, PTL

\* MemoryStore never commits a record that validateRecord refuses.
THEOREM RecordsStayValid == Spec => []CommittedRecordsValid
<1>1. Inv => CommittedRecordsValid
  BY DEF Inv, StoreInv, CommittedRecordsValid
<1> QED
  BY <1>1, Invariance, PTL

\* MemoryStore implements IdLifecycle: commits only move ids forward.
THEOREM ImplementsLifecycle == Spec => Lifecycle
<1> DEFINE life == [i \in Ids |-> LifeOf(state, i)]
<1>1. Init => LC!Init
  <2>1. ASSUME NEW i \in Ids PROVE LifeOf(newMemoryState, i) = LC!Unused
    BY DEF LifeOf, LC!Unused, newMemoryState, EmptyMap
  <2> QED
    BY <2>1 DEF Init, LC!Init
<1>2. Inv /\ Inv' /\ [Next]_vars => [LC!Advance]_life
  <2> SUFFICES ASSUME Inv, Inv', [Next]_vars PROVE [LC!Advance]_life
    OBVIOUS
  <2>1. CASE state' = state
    BY <2>1
  <2>2. ASSUME NEW c \in Callers, Commit(c) PROVE LC!Advance
    <3>1. Follows(state, state')
      BY <2>2, CallersAssumption DEF Commit, Inv, TypeOK
    <3>2. \A i \in Ids : LifeOf(state', i) \in LC!LifeStates
      BY LifeOfType DEF Inv, LC!LifeStates, LC!Unused, LC!Live, LC!Dead,
             Stages!LifeStates, Stages!Unused, Stages!Live, Stages!Dead
    <3> QED
      BY <3>1, <3>2
         DEF LC!Advance, Follows, LC!Forward, LC!Unused, LC!Live, LC!Dead,
             Stages!Forward, Stages!Unused, Stages!Live, Stages!Dead
  <2>3. state' = state \/ \E c \in Callers : Commit(c)
    BY DEF Next, Step, vars, Call, CallCancelled, Lock, operate, TxCreate, TxReplace,
           TxDelete, CommitCancelled, Rollback, Cancel
  <2> QED
    BY <2>1, <2>2, <2>3
<1> QED
  BY <1>1, <1>2, Invariance, PTL DEF Spec, LC!Spec, Lifecycle
=============================================================================
