----------------------------- MODULE Reconciler -----------------------------
(***************************************************************************)
(* Reconciler.Reconcile, one per manager, beside HTTP clients that write    *)
(* the same store.                                                          *)
(*                                                                          *)
(* Reconcile validates and sorts its desired resources and reads the clock  *)
(* under reconciler.mu, then runs one transaction: it scans the live        *)
(* records and tombstones of its scope, creates or updates one desired      *)
(* resource after the other in order of type and externalId, then deletes   *)
(* the manager's resources that are not desired, if asked to.  The          *)
(* transaction works on a private copy while the store's mutex is held, so  *)
(* every other writer waits; each step of it is a step here, since each can *)
(* fail and undo all the others.                                            *)
(***************************************************************************)
EXTENDS ScimStore, FiniteSets

CONSTANTS
  NoManager,   \* Manager of a resource written over HTTP
  Requests,    \* what may be asked: [scope, desired, deleteMissing]
  Rank,        \* the sort order of desired identities <<type, externalId>>
  Limit,       \* MaximumReconcileResources
  Posted,      \* bound: documents that HTTP clients write
  MaxTime,     \* bound: clock readings
  MaxRuns,     \* bound: calls of Reconcile
  MaxWrites    \* bound: HTTP writes

Identities == ResourceTypes \X ExternalIds
Reconcilers == Managers \ {NoManager}

\* A request's desired resources are a map from identities to documents, as
\* duplicates are refused, whose documents carry the identity's externalId.
ASSUME RequestsAssumption ==
  \A q \in Requests :
    /\ q.scope \in Scopes
    /\ q.deleteMissing \in BOOLEAN
    /\ DOMAIN q.desired \subseteq Identities
    /\ Cardinality(DOMAIN q.desired) <= Limit
    /\ \A d \in DOMAIN q.desired :
         q.desired[d] \in Document /\ q.desired[d].ext = d[2] /\ q.desired[d].name # None
ASSUME RankAssumption ==
  /\ Rank \in [Identities -> Nat]
  /\ \A d, e \in Identities : Rank[d] = Rank[e] => d = e
ASSUME ReconcilerBounds ==
  /\ NoManager \in Managers
  /\ Posted \subseteq Document
  /\ Limit \in Nat /\ MaxTime \in Nat \ {0} /\ MaxRuns \in Nat /\ MaxWrites \in Nat

VARIABLES
  store,    \* the committed state of the store
  clock,    \* the clock of servers and reconcilers
  run,      \* each manager's call of Reconcile
  outcome,  \* the result of each manager's last call, None unless it committed
  runs,     \* calls so far
  writes    \* HTTP writes so far

vars == <<store, clock, run, outcome, runs, writes>>

Idle == [phase |-> "idle"]

NoCounts == [created |-> 0, updated |-> 0, unchanged |-> 0, deleted |-> 0]

-----------------------------------------------------------------------------
(* What the scan at the head of the transaction finds *)

identityOf(v) == <<v.type, v.ext>>

liveIn(s, scope) == {k \in DOMAIN s.records : s.records[k].scope = scope}

\* Keys of the live records, in scope, that bear an identity.
bearers(s, scope, d) == {k \in liveIn(s, scope) : identityOf(s.records[k]) = d}

\* "store returned duplicate external identity"
duplicateIdentity(s, scope) ==
  \E d \in Identities : \E j, k \in bearers(s, scope, d) : j # k

\* List refuses to return more than Limit records of one type.
tooMany(s, scope) ==
  \E type \in ResourceTypes : Cardinality(List(s, scope, type)) > Limit

\* managed: the manager's records that have an externalId.
managedKeys(s, scope, m) ==
  {k \in liveIn(s, scope) : s.records[k].manager = m /\ s.records[k].ext # None}

tombstonedIdentity(s, scope, d) ==
  \E t \in Tombstones(s, scope, d[1]) : identityOf(t) = d

-----------------------------------------------------------------------------
(* Reconcile *)

Init ==
  /\ store = newMemoryState
  /\ clock = 1
  /\ run = [m \in Reconcilers |-> Idle]
  /\ outcome = [m \in Reconcilers |-> None]
  /\ runs = 0
  /\ writes = 0

\* Mutant: the transaction does not exclude others.
NeverLocked == TRUE

\* Nobody holds the store's mutex.
unlocked == \A m \in Reconcilers : run[m].phase # "transacting"

\* Validation, sort and clock reading, before the transaction.
Start(m) ==
  /\ run[m].phase = "idle"
  /\ runs < MaxRuns
  /\ runs' = runs + 1
  /\ \E q \in Requests :
       run' = [run EXCEPT ![m] = [phase |-> "prepared", req |-> q, now |-> clock]]
  /\ outcome' = [outcome EXCEPT ![m] = None]
  /\ UNCHANGED <<store, clock, writes>>

\* The call returns an error and the private copy is dropped.
abort(m) ==
  /\ run' = [run EXCEPT ![m] = Idle]
  /\ UNCHANGED <<store, clock, outcome, runs, writes>>

\* The store's mutex is taken, and the scan finds the state in order.
Begin(m) ==
  /\ run[m].phase = "prepared"
  /\ unlocked
  /\ ~tooMany(store, run[m].req.scope)
  /\ ~duplicateIdentity(store, run[m].req.scope)
  /\ run' = [run EXCEPT ![m] =
       [phase   |-> "transacting",
        req     |-> run[m].req,
        now     |-> run[m].now,
        working |-> store,
        todo    |-> DOMAIN run[m].req.desired,
        managed |-> managedKeys(store, run[m].req.scope, m),
        counts  |-> NoCounts]]
  /\ UNCHANGED <<store, clock, outcome, runs, writes>>

\* The scan fails.
BeginFails(m) ==
  /\ run[m].phase = "prepared"
  /\ unlocked
  /\ \/ tooMany(store, run[m].req.scope)
     \/ duplicateIdentity(store, run[m].req.scope)
  /\ abort(m)

\* The next desired identity, in sorted order.
nextDesired(m) ==
  CHOOSE d \in run[m].todo : \A e \in run[m].todo : Rank[d] <= Rank[e]

applying(m) == run[m].phase = "transacting" /\ run[m].todo # {}

\* liveByKey of the scan: the record with the next identity when the
\* transaction began, while the store itself is locked.
existing(m) == bearers(store, run[m].req.scope, nextDesired(m))

desiredDocument(m) == run[m].req.desired[nextDesired(m)]

\* Mutant: no-ops are not counted.
CountedChange(m, field) ==
  IF field = "unchanged" THEN run[m].counts ELSE [run[m].counts EXCEPT ![field] = @ + 1]

\* ReconcileResult with one more of a kind.
counted(m, field) == [run[m].counts EXCEPT ![field] = @ + 1]

\* The next resource is done: the copy, the managed map and a count move on.
applied(m, working, managed, counts) ==
  /\ run' = [run EXCEPT ![m] = [run[m] EXCEPT !.working = working,
                                             !.todo = run[m].todo \ {nextDesired(m)},
                                             !.managed = managed,
                                             !.counts = counts]]
  /\ UNCHANGED <<store, clock, outcome, runs, writes>>

\* Mutant: records of other managers are adopted.
OnlyTombstoned(m) == tombstonedIdentity(store, run[m].req.scope, nextDesired(m))

\* A tombstone blocks the identity, or another manager has it.
blocked(m) ==
  \/ tombstonedIdentity(store, run[m].req.scope, nextDesired(m))
  \/ \E k \in existing(m) : store.records[k].manager # m

ApplyBlocked(m) ==
  /\ applying(m)
  /\ blocked(m)
  /\ abort(m)

\* No live record has the identity: a new id is drawn and the record created.
ApplyCreate(m) ==
  /\ applying(m)
  /\ ~blocked(m)
  /\ existing(m) = {}
  /\ \E id \in Ids :
       LET r == newRecord(run[m].req.scope, m, nextDesired(m)[1], id,
                          desiredDocument(m), run[m].now, None)
       IN  IF CreateError(run[m].working, r) # "nil"
           THEN abort(m)
           ELSE applied(m, Create(run[m].working, r), run[m].managed,
                        counted(m, "created"))

\* Mutant: the record stays in the managed map.
ApplyStillManaged(m) ==
  /\ applying(m)
  /\ ~blocked(m)
  /\ \E k \in existing(m) :
       LET current == store.records[k]
           updated == replacementRecord(current, desiredDocument(m), run[m].now, current.cred)
       IN  IF ~recordChanges(current, desiredDocument(m), current.cred)
           THEN applied(m, run[m].working, run[m].managed, counted(m, "unchanged"))
           ELSE IF ReplaceError(run[m].working, updated, current.version) # "nil"
           THEN abort(m)
           ELSE applied(m, Replace(run[m].working, updated, current.version), run[m].managed,
                        counted(m, "updated"))

\* The manager's own record has the identity.  It is replaced if it differs and
\* leaves the managed map either way.
ApplyUpdate(m) ==
  /\ applying(m)
  /\ ~blocked(m)
  /\ \E k \in existing(m) :
       LET current == store.records[k]
           updated == replacementRecord(current, desiredDocument(m), run[m].now, current.cred)
           rest == run[m].managed \ {k}
       IN  IF ~recordChanges(current, desiredDocument(m), current.cred)
           THEN applied(m, run[m].working, rest,
                        counted(m, "unchanged"))
           ELSE IF ReplaceError(run[m].working, updated, current.version) # "nil"
           THEN abort(m)
           ELSE applied(m, Replace(run[m].working, updated, current.version), rest,
                        counted(m, "updated"))

\* Mutant: one deletion is enough.
DeletingOnce(m) ==
  /\ run[m].phase = "transacting"
  /\ run[m].todo = {}
  /\ run[m].req.deleteMissing
  /\ run[m].managed # {}
  /\ run[m].counts.deleted = 0

\* All desired resources are in place and some managed ones are left over.
deleting(m) ==
  /\ run[m].phase = "transacting"
  /\ run[m].todo = {}
  /\ run[m].req.deleteMissing
  /\ run[m].managed # {}

\* Go iterates over the managed map in any order.
DeleteMissing(m) ==
  /\ deleting(m)
  /\ \E k \in run[m].managed :
       LET current == store.records[k]
           tombstone == tombstoneOf(current, run[m].now)
       IN  IF DeleteError(run[m].working, current.scope, k, current.version, tombstone) # "nil"
           THEN abort(m)
           ELSE /\ run' = [run EXCEPT ![m] = [run[m] EXCEPT
                     !.working = Delete(run[m].working, current.scope, k, current.version,
                                        tombstone),
                     !.managed = run[m].managed \ {k},
                     !.counts = counted(m, "deleted")]]
                /\ UNCHANGED <<store, clock, outcome, runs, writes>>

\* The callback returns nil and the copy becomes the committed state.
Commit(m) ==
  /\ run[m].phase = "transacting"
  /\ run[m].todo = {}
  /\ ~deleting(m)
  /\ store' = run[m].working
  /\ outcome' = [outcome EXCEPT ![m] = run[m].counts]
  /\ run' = [run EXCEPT ![m] = Idle]
  /\ UNCHANGED <<clock, runs, writes>>

\* The context is cancelled, or entropy runs out, at any point before commit.
Cancel(m) ==
  /\ run[m].phase # "idle"
  /\ abort(m)

-----------------------------------------------------------------------------
(* HTTP clients: the writes of Server, each one transaction *)

\* A client transaction that changes the store.
clientWrite(after) ==
  /\ unlocked
  /\ writes < MaxWrites
  /\ after # store
  /\ store' = after
  /\ writes' = writes + 1
  /\ UNCHANGED <<clock, run, outcome, runs>>

ClientPost ==
  \E scope \in Scopes, key \in Keys, doc \in Posted :
    clientWrite(Create(store, newRecord(scope, NoManager, key[1], key[2], doc, clock, None)))

\* PUT or PATCH keep the manager, whoever it is, and may change the externalId.
ClientReplace ==
  \E key \in DOMAIN store.records, doc \in Posted :
    LET current == store.records[key] IN
    clientWrite(Replace(store, replacementRecord(current, doc, clock, current.cred),
                        current.version))

ClientDelete ==
  \E key \in DOMAIN store.records :
    LET current == store.records[key] IN
    clientWrite(Delete(store, current.scope, key, current.version, tombstoneOf(current, clock)))

Tick ==
  /\ clock < MaxTime
  /\ clock' = clock + 1
  /\ UNCHANGED <<store, run, outcome, runs, writes>>

Transaction(m) ==
  \/ Begin(m)
  \/ BeginFails(m)
  \/ ApplyBlocked(m)
  \/ ApplyCreate(m)
  \/ ApplyUpdate(m)
  \/ DeleteMissing(m)
  \/ Commit(m)

Next ==
  \/ \E m \in Reconcilers : Start(m) \/ Transaction(m) \/ Cancel(m)
  \/ ClientPost \/ ClientReplace \/ ClientDelete
  \/ Tick

Spec == Init /\ [][Next]_vars

-----------------------------------------------------------------------------
(* Properties *)

\* Every variable has its type, and at most one manager is in its transaction.
TypeOK ==
  /\ IsState(store)
  /\ clock \in 1..MaxTime
  /\ runs \in 0..MaxRuns
  /\ writes \in 0..MaxWrites
  /\ \A m \in Reconcilers :
       /\ run[m].phase \in {"idle", "prepared", "transacting"}
       /\ run[m].phase = "transacting" =>
            /\ IsState(run[m].working)
            /\ run[m].todo \subseteq Identities
            /\ run[m].managed \subseteq DOMAIN store.records
  /\ \A m, n \in Reconcilers :
       run[m].phase = "transacting" /\ run[n].phase = "transacting" => m = n

\* m's transaction commits in this step.
commits(m) == outcome[m] = None /\ outcome'[m] # None

\* State s is what request q of manager m asks for.
Satisfies(s, m, q) ==
  /\ \A d \in DOMAIN q.desired :
       \E k \in bearers(s, q.scope, d) :
         s.records[k].manager = m /\ s.records[k].data = q.desired[d]
  /\ q.deleteMissing =>
       \A k \in managedKeys(s, q.scope, m) : identityOf(s.records[k]) \in DOMAIN q.desired

\* A call that reports success left exactly what was desired: every identity
\* live, owned and with the desired data, and with DeleteMissing nothing of the
\* manager besides (reconcile.go Reconcile).
CommitSatisfiesRequest ==
  [][\A m \in Reconcilers : commits(m) => Satisfies(store', m, run[m].req)]_vars

\* Asking again for what the store already satisfies changes nothing: ids,
\* versions and times stay (replacementRecord's no-op).
RepeatChangesNothing ==
  [][\A m \in Reconcilers :
       commits(m) /\ Satisfies(store, m, run[m].req) => store' = store]_vars

\* Reconciliation "never adopts or deletes resources carrying another manager
\* marker": every record of another manager or of none, in every scope, is as
\* it was, and what appears is the manager's own.
OthersUntouched ==
  [][\A m \in Reconcilers : commits(m) =>
       /\ \A k \in DOMAIN store.records :
            store.records[k].manager # m =>
              k \in DOMAIN store'.records /\ store'.records[k] = store.records[k]
       /\ \A k \in DOMAIN store'.records \ DOMAIN store.records :
            /\ store'.records[k].manager = m
            /\ store'.records[k].scope = run[m].req.scope]_vars

\* A resource of the manager that is still desired keeps its provider id, even
\* when its data, its name and those of the other resources change.
IdsPreserved ==
  [][\A m \in Reconcilers : commits(m) =>
       \A k \in DOMAIN store.records :
         LET r == store.records[k] IN
         /\ r.manager = m
         /\ r.scope = run[m].req.scope
         /\ identityOf(r) \in DOMAIN run[m].req.desired
         => /\ k \in DOMAIN store'.records
            /\ identityOf(store'.records[k]) = identityOf(r)
            /\ store'.records[k].created = r.created]_vars

\* The identity of a deleted resource, from the version its tombstone keeps.
deletedIdentity(t) == <<t.type, t.version[3].ext>>

\* An identity that was deleted, by a client or by any manager, is not brought
\* back by a reconciliation that still desires it.
DeletedStaysDeleted ==
  [][\A m \in Reconcilers : commits(m) =>
       \A k \in DOMAIN store'.records \ DOMAIN store.records :
         \A j \in DOMAIN store.tombstones :
           store.tombstones[j].scope = run[m].req.scope =>
             deletedIdentity(store.tombstones[j]) # identityOf(store'.records[k])]_vars

\* ReconcileResult counts what the commit did to the store.
CountsMatchStore ==
  [][\A m \in Reconcilers : commits(m) =>
       LET before == DOMAIN store.records
           after == DOMAIN store'.records
       IN  outcome'[m] =
             [created   |-> Cardinality(after \ before),
              deleted   |-> Cardinality(before \ after),
              updated   |-> Cardinality({k \in before \cap after :
                                           store'.records[k] # store.records[k]}),
              unchanged |-> Cardinality({k \in before \cap after :
                              /\ store.records[k].scope = run[m].req.scope
                              /\ identityOf(store.records[k]) \in DOMAIN run[m].req.desired
                              /\ store'.records[k] = store.records[k]})]]_vars

\* The scan of Reconcile treats two live records with one externalId in one
\* scope and type as a broken store: "store returned duplicate external
\* identity".
ExternalIdsUnique == \A scope \in Scopes : ~duplicateIdentity(store, scope)
=============================================================================
