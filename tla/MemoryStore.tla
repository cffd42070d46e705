---------------------------- MODULE MemoryStore ----------------------------
(***************************************************************************)
(* MemoryStore.Transact under concurrent callers.                           *)
(*                                                                          *)
(* A call checks its context, waits for the store's mutex, copies the       *)
(* committed state, runs the caller's callback on the copy, and installs    *)
(* the copy only if the callback returned nil and the context is still      *)
(* live.  The callback is any sequence of at most MaxOps operations with    *)
(* any arguments, since Store is a public interface: it may go on after an  *)
(* operation failed, fail after one succeeded, or panic.  Contexts are      *)
(* cancelled at any moment.                                                 *)
(***************************************************************************)
EXTENDS ScimStore

CONSTANTS
  Callers,     \* goroutines that call Transact
  Candidates,  \* records that callbacks pass to the operations, valid or not
  MaxOps,      \* bound: operations of one callback
  MaxTime      \* bound: clock readings used as inputs

ASSUME CallersAssumption    == None \notin Callers
ASSUME CandidatesAssumption == Candidates \subseteq Record
ASSUME BoundsAssumption     == MaxOps \in Nat /\ MaxTime \in Nat

VARIABLES
  state,      \* store.state, the committed state
  working,    \* the private copy of the transaction that holds the mutex
  holder,     \* the caller that holds store.mu, None when it is free
  pc,         \* where each caller is in Transact
  cancelled,  \* ctx.Err() # nil for the caller's current call
  ops         \* operations the current callback has performed

vars == <<state, working, holder, pc, cancelled, ops>>

\* Where a caller can be: outside Transact (not called yet, or returned nil or
\* an error), blocked on the mutex, or running its callback.
Returned == {"idle", "ok", "failed"}
PCs      == Returned \cup {"waiting", "callback"}

-----------------------------------------------------------------------------
(* Transact *)

Init ==
  /\ state = newMemoryState
  /\ working = newMemoryState
  /\ holder = None
  /\ pc = [c \in Callers |-> "idle"]
  /\ cancelled = [c \in Callers |-> FALSE]
  /\ ops = 0

\* Transact with a live context goes on to the mutex.
Call(c) ==
  /\ pc[c] \in Returned
  /\ pc' = [pc EXCEPT ![c] = "waiting"]
  /\ cancelled' = [cancelled EXCEPT ![c] = FALSE]
  /\ UNCHANGED <<state, working, holder, ops>>

\* Transact with a context that is already cancelled returns its error.
CallCancelled(c) ==
  /\ pc[c] \in Returned
  /\ pc' = [pc EXCEPT ![c] = "failed"]
  /\ cancelled' = [cancelled EXCEPT ![c] = TRUE]
  /\ UNCHANGED <<state, working, holder, ops>>

\* Mutant: the mutex does not exclude.
LockHeldMutex(c) ==
  /\ pc[c] = "waiting"
  /\ holder' = c
  /\ working' = state
  /\ ops' = 0
  /\ pc' = [pc EXCEPT ![c] = "callback"]
  /\ UNCHANGED <<state, cancelled>>

\* store.mu.Lock() succeeds and the committed state is cloned.
Lock(c) ==
  /\ pc[c] = "waiting"
  /\ holder = None
  /\ holder' = c
  /\ working' = state
  /\ ops' = 0
  /\ pc' = [pc EXCEPT ![c] = "callback"]
  /\ UNCHANGED <<state, cancelled>>

\* One operation of the callback leaves its result in the private copy.
operate(c, after) ==
  /\ pc[c] = "callback"
  /\ ops < MaxOps
  /\ ops' = ops + 1
  /\ working' = after
  /\ UNCHANGED <<state, holder, pc, cancelled>>

TxCreate(c) == \E r \in Candidates : operate(c, Create(working, r))

\* The caller names the version of any record it may have read under that id.
TxReplace(c) ==
  \E r \in Candidates : \E seen \in {q \in Candidates : q.id = r.id} :
    operate(c, Replace(working, r, seen.version))

\* The tombstone may be built from the record that is deleted or from another.
TxDelete(c) ==
  \E r \in Candidates, now \in 0..MaxTime :
    \E t \in {q \in Candidates : q.id = r.id} :
      operate(c, Delete(working, r.scope, recordKey(r.type, r.id), r.version,
                        tombstoneOf(t, now)))

unlock(c, result) ==
  /\ holder' = None
  /\ working' = newMemoryState
  /\ ops' = 0
  /\ pc' = [pc EXCEPT ![c] = result]
  /\ UNCHANGED cancelled

\* The callback returns nil and ctx.Err() is nil: the copy becomes the state.
Commit(c) ==
  /\ pc[c] = "callback"
  /\ ~cancelled[c]
  /\ state' = working
  /\ unlock(c, "ok")

\* Mutant: the early return keeps the mutex.
CancelledWithoutUnlock(c) ==
  /\ pc[c] = "callback"
  /\ cancelled[c]
  /\ pc' = [pc EXCEPT ![c] = "failed"]
  /\ UNCHANGED <<state, working, holder, cancelled, ops>>

\* The callback returns nil, but the context was cancelled meanwhile.
CommitCancelled(c) ==
  /\ pc[c] = "callback"
  /\ cancelled[c]
  /\ UNCHANGED state
  /\ unlock(c, "failed")

\* The callback returns an error or panics; the deferred Unlock runs.
Rollback(c) ==
  /\ pc[c] = "callback"
  /\ UNCHANGED state
  /\ unlock(c, "failed")

\* The environment cancels the context of a call that has not returned.
Cancel(c) ==
  /\ pc[c] \in {"waiting", "callback"}
  /\ ~cancelled[c]
  /\ cancelled' = [cancelled EXCEPT ![c] = TRUE]
  /\ UNCHANGED <<state, working, holder, pc, ops>>

Step(c) ==
  \/ Call(c)
  \/ CallCancelled(c)
  \/ Lock(c)
  \/ TxCreate(c)
  \/ TxReplace(c)
  \/ TxDelete(c)
  \/ Commit(c)
  \/ CommitCancelled(c)
  \/ Rollback(c)
  \/ Cancel(c)

Next == \E c \in Callers : Step(c)

Spec == Init /\ [][Next]_vars

\* sync.Mutex hands the lock over to a starving waiter, so a caller that finds
\* it free again and again gets it; callbacks terminate.
Fairness ==
  \A c \in Callers :
    /\ SF_vars(Lock(c))
    /\ WF_vars(Commit(c) \/ CommitCancelled(c) \/ Rollback(c))

FairSpec == Spec /\ Fairness

-----------------------------------------------------------------------------
(* Properties *)

\* Every variable has its type, and the mutex is held by exactly the caller
\* that runs its callback.
TypeOK ==
  /\ IsState(state)
  /\ IsState(working)
  /\ holder \in Callers \cup {None}
  /\ pc \in [Callers -> PCs]
  /\ cancelled \in [Callers -> BOOLEAN]
  /\ ops \in 0..MaxOps
  /\ \A c \in Callers : pc[c] = "callback" <=> holder = c

\* An id that MemoryStore.Create accepted is never shared, across resource types
\* and across live and deleted resources (memory.go Create, the two scans).
UniqueIdentity == Keyed(state) /\ IdsUnique(state)

\* No interleaving and no sequence of operations inside one transaction commits
\* two records with the same folded unique value (hasIndexConflict).
UniqueIndex == IndexesUnique(state)

\* Every committed record satisfies validateRecord, whatever callers passed in.
CommittedRecordsValid == RecordsValid(state)

LC == INSTANCE IdLifecycle WITH life <- [i \in Ids |-> LifeOf(state, i)]

\* The committed state implements IdLifecycle: no commit resurrects, reassigns
\* or forgets an id, changes the scope, type or manager of a live resource, or
\* drops another caller's committed transaction.
Lifecycle == LC!Spec

\* A call that waits for the mutex returns, however many others compete for it
\* and whether or not its context is cancelled.
CallsReturn == \A c \in Callers : pc[c] = "waiting" ~> pc[c] \in Returned
=============================================================================
