# Verification of gotth-scim

gotth-scim is a Go library (`src/pkg/scim`) that serves the SCIM 2.0 protocol
(RFC 7643, RFC 7644) over a pluggable transactional store.  This directory holds
TLA+ models of its parts, the TLC instances that check them, and TLAPS proofs
about the memory store, the HTTP handlers, the reconciler, Bulk, documents and
searches.

## The system

| part | state | operations | talks to |
|---|---|---|---|
| store contract (`store.go`, `record.go`) | `Record`, `Tombstone`, the version of a record | `validateRecord`, `newRecord`, `replacementRecord` | used by everything below |
| memory store (`memory.go`) | one mutex, two maps (live records, tombstones) | `Transact`; inside it `Get`, `List`, `Create`, `Replace`, `Delete`, `Tombstones` | callbacks of server and reconciler run with the mutex held |
| HTTP handlers (`server.go`, `etag.go`, `credentials.go`) | a clock and an entropy source under `server.mu` | POST, GET, PUT, PATCH, DELETE | one `Transact` per request; a password adapter inside the transaction |
| reconciler (`reconcile.go`) | a clock and entropy under `reconciler.mu` | `Reconcile` | one `Transact` per call |
| Bulk (`bulk.go`, `bulk_execute.go`) | local to one request: references, failed references, done, failures | `serveBulk` | one handler transaction per operation |
| documents (`resource.go`, `mutability.go`, `patch*.go`, `json.go`, `normalize.go`) | none | `prepareResource`, `enforceReplacementMutability`, `applyPatchDocument` | called by handlers and reconciler |
| search (`search.go`, `filter*.go`) | none | `executeSearch`, `parseFilter`, `projectDocument` | one `Transact` per page; PATCH paths use the filter parser |
| discovery, schemas, conformance harness | none | static answers, a test helper | |

What is hard here:

- *Concurrency.*  Handlers, reconcilers and Bulk requests run in their own
  goroutines and meet only in the store.  A handler reads the clock (and draws
  an id) before it waits for the store, so what it holds may be stale when its
  transaction runs; a client's knowledge is older still.
- *Failure.*  A transaction may be refused, fail half way, panic or be cancelled
  at any point before the commit; an answer may be lost after it.
- *Identity over time.*  Ids and external ids must not come back after a delete,
  across resource types, scopes and any number of transactions.
- *Order.*  Reconcile creates and updates before it deletes; Bulk reorders
  operations by their references and must stop, skip or refuse the right ones.
- *Documents.*  What is stored is the result of many requests, each of them
  stripped, cleaned, normalised, merged with what may not change and validated.
  A stored document on which these steps disagree is refused on every later read.
- *Pages.*  A client walks through a search page by page while the store changes,
  and several types share one limit.

The list of hazards, each at its line and with the properties that would catch
it, is in `PROJECT.json`.

## Modules

| module | models | composition |
|---|---|---|
| `ScimStore` | records and the operations of one transaction, as operators on a store state | no variables |
| `IdStages`, `IdLifecycle` | the stages of an id's life, and what a store promises about ids | abstract specification |
| `MemoryStore` | `Transact` with its mutex, copy, commit, rollback, cancellation | extends `ScimStore`, implements `IdLifecycle` |
| `ScimStoreProofs` | lemmas about `ScimStore`'s operators | used by the three modules that prove about a store |
| `Induction` | induction over numbers, and facts about sequences, as lemmas | used by the two modules below that prove about loops |
| `MemoryStoreProofs`, `ScimServerProofs`, `ReconcilerProofs`, `BulkProofs` | theorems about the module of that name | extend it, and the first three `ScimStoreProofs` |
| `ResourceDocumentProofs`, `SearchProofs` | theorems about `ResourceDocument` and `Projection`, and about `Search` | extend them and `Induction` |
| `ScimServer` | the resource handlers and their clients | extends `ScimStore`; a transaction is one step |
| `Reconciler` | `Reconcile` of several managers, beside HTTP writers | extends `ScimStore`; the mutex is held over several steps |
| `Bulk` | the passes of `serveBulk` | stands alone; the outcome of an operation is a choice |
| `ResourceDocument` | what POST, PUT and PATCH make of one document under its schema | the detail behind `body` and `Merge` of `ScimServer` |
| `Projection` | what a response shows of a document | extends `ResourceDocument` |
| `Search` | candidates, sort and pages, and a client that walks while others write | stands alone; a filter is the set of values it accepts |
| `Filter` | parser, schema check and evaluation of filters | the detail behind `Search`'s filters |
| `MC*` | the instances that TLC checks | |

Names follow the source: `validateRecord`, `replacementRecord`,
`hasIndexConflict`, `evaluateWritePreconditions` and the like are the functions
of that name.  Operators marked *Mutant* are wrong versions of the definition
that follows them.  No specification uses them; they show that the properties
can fail.

### ScimStore

A store state is `[records, tombstones]`, two maps keyed by `<<type, id>>` as in
`memoryState`.  A document is reduced to its unique attribute (`name`: userName
or displayName), its externalId and the rest (`body`); that is what the store,
the version and the reconciler tell apart.  A version is the tuple of what
`calculateRecordVersion` hashes, so SHA-256 is taken to be injective.  Case
folding is a constant function `Fold` on names.  Times are naturals and 0 is the
zero `time.Time`; one step stands for the nanosecond that `replacementRecord`
adds.  Each operation has an operator for its error, with the early returns in
the order of the code, and one for the state it leaves.

### MemoryStore

`Call` and `CallCancelled` are the entry of `Transact`, `Lock` takes the mutex
and copies the state, `TxCreate`, `TxReplace` and `TxDelete` are operations of
the callback, `Commit`, `CommitCancelled` and `Rollback` its three exits, and
`Cancel` is the environment.  `Store` is a public interface, so callbacks do
anything: they pass records that are invalid, versions that are out of date and
tombstones of other records, go on after an error and fail after a success.

### ScimServer

A request is received (`ReceivePost` ... : decoding, password extraction, clock),
executed (`ExecutePost` ... : the callback of `Transact`, one step by what
`MemoryStore` shows), and answered (`Deliver`) or its answer lost (`Lose`).
`Fail` is a transaction that fails as a whole.  `view` is the last
representation a client received, from which it takes the tags it sends.  Every
method keeps the code's order: Get, preconditions, PATCH, password, mutability,
validation, no-op, Replace.  A request may carry If-Match and If-None-Match together,
each absent or with a value of its own (`preconditionsOf`).  `show` is
`writeRecordProjected`: a record with a body in `Unrenderable` has been committed by
then and is answered 500.  Which documents those are is the subject of
`ResourceDocument`; here they are a set of bodies that may be written.

The password adapter (`secrets`) is external: there is no implementation of
`PasswordTransaction` under `src/` but a test double, so `writeSecret` is modelled by
the contract that the interface states, to commit and roll back with the
transaction, and a revision is taken to be the password it stands for.
`CredentialsAgree` is about what the handlers do with such an adapter.  What the
mutability rules make of two bodies is the constant `Merge`, and of validation only
the required `userName` is left.  Whether the server sends weak tags is chosen in
`Init`.  Bodies that are not JSON, projections and unknown paths are answered without
touching any state and are left out.

### Reconciler

`Start` validates, sorts and reads the clock; `Begin` takes the store's mutex and
scans; `ApplyCreate`, `ApplyUpdate` and `ApplyBlocked` handle the next desired
resource in the order of `Rank`; `DeleteMissing` removes one managed record;
`Commit` installs the copy.  Every error, and a cancellation at any point, drops
the copy (`abort`).  Each manager has a `Reconciler` of its own, which
`reconciler.mu` makes sequential.  HTTP writers are the transactions of
`Server.create`, `replace`/`patch` and `remove`.

### Bulk

`index` walks over the operations; `Continue`, `Block` and `Execute` are the three
things a pass does with one, `NextPass` starts another pass, `FailCycle` refuses
what is left after a pass without progress, `Answer` ends the loop.  Reaching
`failOnErrors` ends it inside `finish`.  Whether an executed operation succeeds is
a choice, so the model covers whatever other clients do in between.

### ResourceDocument and Projection

The state is one resource: its definition (attribute names to contracts), its
stored document and the last status.  `Post`, `Put` and `Patch` are the document
half of the handlers: `prepareResource` (decode, `stripReadOnly`,
`removeUnassigned`, `normalizePrimaryValues`, canonical extension keys,
validation), for PUT and PATCH after `enforceReplacementMutability`, and for PATCH
after `applyPatchDocument`.  A document is an object of simple values, objects and
lists; names are canonical except for the key of an extension, which a client may
spell in another case.  The order of the steps is the order of the code, which is
what the finding `document_spelling` is about.  `stripReadOnly`,
`enforceReplacementMutability` and the validation of extensions go into the value of
an extension only when it is an object, as the code does; a client may send anything
there, which is what `document_unlisted` is about.  `Projection` adds
`projectDocument` with its sequence of deletions and copies, each a loop over the
paths of one kind; it changes no state, so its property is an invariant over every
document that the three actions reach and every list of paths in `Selections`.

### Search

`records` are the live resources with the value of the sort attribute, `deleted`
the tombstones, `walk` the client's progress.  `Page` is one request: `collect`
goes through the types with the limit that is left, as the transaction in
`executeSearch` does, and `applySearch` filters, sorts and slices.  `stableSort`
stands for `sort.Slice` and `sort.SliceStable`: it inserts one element after the
other behind those that do not come after it.  `broken` are the live records that
`renderRecord` refuses: any write may leave one, and a search that meets one is
answered 500 before the filter is looked at.  `StoreFails` is a transaction that fails
for the adapter's reasons, which is answered 500 as well.  The other two places where
`executeSearch` answers 500 cannot be reached: `MatchFilter` fails on operators the
parser does not produce, and `projectDocument` when it cannot copy a document that was
just decoded.  `Create`, `Replace` and `Delete` are other clients between two pages.  Records are finitely many, and a request names
each type once (`RequestAssumption`), as the registry does.

### Filter

The state is a filter that grows token by token.  `parseOr`, `parseAnd`,
`parseUnary` and `parseAttribute` are the recursive descent with the depth it
counts; `validateFilterExpression` and `compatibleFilterValue` are the schema
check; `matchFilter`, `compareFilterValue` and `orderFilterValues` the evaluation.
The reference is the grammar of RFC 7644 read as sets of trees (`ors`, `ands`,
`units`).  Strings are numbers that share their higher part when they differ only
in case, or name one instant, so that folding and time zones are conversions and
not identities; those in `Timestamps` are the ones `time.Parse` takes, so that the
literal of a `dateTime` comparison may be malformed, while what is stored is not.

## Runs

| run | checks | shows |
|---|---|---|
| `memory_store` | `TypeOK`, `UniqueIdentity`, `UniqueIndex`, `CommittedRecordsValid`, `Lifecycle`, `CallsReturn` | arbitrary callbacks of two callers cannot commit a shared id, a shared folded name, an invalid record, or a state that moves an id backwards or loses a commit; every call returns, cancelled or not |
| `server_conditional` | `CopiesMoveForward`, `NotModifiedDataIsCurrent`, `ConditionalWritesLoseNothing`, `CurrentTagAdmits`, `ModifiedAdvances` | conditional requests of two clients on one resource, with strong and with weak tags, one or both headers, and writes answered 500 after their commit |
| `server_tenants` | `CredentialsAgree`, `AcknowledgedSurvives`, `ScopesIsolated` | two tenants, two types, passwords, lost answers |
| `reconciler` | `TypeOK`, `RepeatChangesNothing`, `OthersUntouched`, `IdsPreserved`, `CommitSatisfiesRequest`, `DeletedStaysDeleted`, `CountsMatchStore` | two managers and HTTP writers on one scope |
| `bulk` | `CyclesNeverExecute`, `DependenciesFirst`, `AnswersExplained`, `FailOnErrorsStops`, `Answered` | every request of three operations with any references, up to its answer |
| `document` | `StoredIsCanonical`, `AtMostOnePrimary`, `ReadOnlyNeverStored`, `ElementsCanBeRemoved`, `AddCanBeRetried`, `ProjectionIsExact`, `ImmutableChangesOnlyThroughAbsence` | every document that sequences of POST, PUT and PATCH reach is one that reads accept; what clients may not write they cannot, and what they may take out or repeat they can |
| `search` | `TypeOK`, `WalksAreSound`, `BoundaryIsExact`, `ServerErrorsAreExact` | walks through searches of one and two types, while others write, and the causes of 413 and 500 |
| `filter` | `ParserFollowsGrammar`, `AcceptedComparisonsDecide`, `ValuePathAgreesWithDotted` | the parser is the grammar, and an accepted comparison is a decision |
| `server_strong_tag`, `reconciler_duplicate`, `document_spelling`, `document_unlisted` | one statement of the repository each | violated, see Findings |

Bounds.

- *memory_store*: two callers, two operations per callback, two ids, types,
  scopes and managers, two names that are one up to case, one externalId.  Two
  operations are enough for a delete and a re-create inside one transaction;
  transactions follow one another without limit, so two callers can keep passing
  the mutex to each other.  The theorems below lift all bounds.
- *server_conditional*: two clients, one id, four requests: create, read by both,
  write by one, conditional write by the other.  Two clock values make a stale
  reading and a fresh one.  A client sends the tag it holds as a strong or as a weak
  one.  The headers `*` and malformed ones are modelled (`SentHeaders`), and left out
  of this instance for its size: they are decided by the current request alone.
  One of the two documents sent cannot be rendered once it is stored; PATCH writes
  another body.
- *server_tenants*: two ids and three requests: create, delete and re-create fit,
  as does a write of one tenant between two of the other.
- *reconciler*: three ids, two identities, two names, three calls, one HTTP write
  (`reconciler_duplicate`: two), two clock readings, so that a call may hold a
  stale one.  Requests are all assignments of names to none, one or both identities,
  so swaps, chains and clashes of names occur.  `Limit` is 2, so the scan does
  fail on too many records.
- *bulk*: three operations, three bulkIds, `failOnErrors` up to 2: self
  references, cycles of two and three, operations behind a cycle, unknown
  references, chains against the request order.
- *document*: requests follow one another without limit; what is bounded is what
  may be sent.  A group has lists of up to two members (and one of three), with
  immutable, read-only and missing sub-attributes, one value in two members, nulls
  and values of the wrong shape, a list in the place of an extension among them.  A user has an immutable and a read-only attribute,
  a complex one, emails with primary marks, and an extension.  PATCH has every
  operation, with and without path, sub-attribute and filter, and pairs of operations.
  Projections are asked for with every list of up to two paths.
  `document_spelling` adds the other spelling of the extension's key.
- *search*: four ids, a limit of three and pages of two, two writes.  The groups
  alone can use up the limit and the user then goes past it; a walk has up to three
  pages.  Any record written may be one that cannot be rendered.  Starts of -1, 0, 1, 2 and 3 and counts of -1, 1, 7 and none occur.
- *filter*: every comparison of every type with every kind of literal, alone and in a
  value path; every sequence of up to seven tokens without a literal, and beyond that
  the mixed forms of `and`, `or`, `not` and brackets.  `maximumFilterDepth` is 10
  instead of 32, which three groups exceed.

Symmetry is used for callers, clients, ids and managers where an
instance does not tell them apart, and never with a liveness property.  Deadlock
is checked for the memory store and for documents.  The other instances stop by
design, when the bound on requests or calls is used up, the Bulk request is answered,
the client has its last page or the filter its last token, and say
`CHECK_DEADLOCK FALSE`.

Fairness.  `MemoryStore` assumes strong fairness of taking the mutex:
`sync.Mutex` goes over to handing the lock to the longest waiter when one has waited
a millisecond, so a waiter that sees the lock free again and again gets it.  It
assumes weak fairness of finishing a callback: callbacks are finite loops.  Its
callers contend without limit.  Nothing is assumed of clients, cancellations or the
clock.  `serveBulk` is one goroutine, so `Bulk` assumes that it goes on while it can.
That a call of `Reconcile` returns is a case of `MemoryStore`'s `CallsReturn` and of
the loop over its desired resources being finite, and has no run of its own.

## Findings

- `server_strong_tag`: the version leaves `lastModified` out while the rendered
  resource has it.  Change a resource and change it back: the strong tag is that
  of the first representation and the representation is another.  The data is
  the same (`NotModifiedDataIsCurrent`).
- `reconciler_duplicate`: two HTTP clients can give one externalId to two
  resources of a type, since the index is not unique.  `Reconcile` calls that a
  broken store and fails for every manager of the scope from then on.
- `document_unlisted`: the value sent under an extension's schema is checked when the
  schema is listed in `schemas` or the value is an object.  A list or a string that is
  not listed passes, and is stored with whatever read-only sub-attributes the objects
  in the list have.  `docs/implementation-spec.md:32` says that the definitions
  validate extensions and read-only fields.  Every PATCH that leaves the value in place
  lists the extension and is then refused.  `ReadOnlyNeverStored` excepts such a value
  and nothing else.
- `document_spelling`: `prepareResource` strips read-only attributes before
  `validateSchemaSet` moves an extension to the canonical spelling of its schema.  An
  extension that is sent under another spelling keeps them.  The POST commits and is
  answered 500, since `renderRecord` finds the stored document not canonical, and so
  is every later read and search that meets it.  An extension an application
  registers is exposed to this; the enterprise extension is not, because its
  validation deletes the one read-only attribute it has.

Observations that no run states (but for the first, no document says otherwise):

- POST evaluates no precondition, although `docs/implementation-spec.md:49` lists it
  among the methods that do.  The model shows it directly: `ExecutePost` reads none.
- Two members with one `value` are one to `enforceMultiValueMutability`: a PUT of the
  unchanged document may be refused or give one the type of the other.  Hence
  `distinctive` in two properties.  `[a]` cannot be replaced by `[b, a]` when `b`
  differs in an immutable sub-attribute, because `b` is compared with the element at
  its index.
- An immutable sub-attribute can be changed by removing its parent and adding it again;
  `ImmutableChangesOnlyThroughAbsence` says that this is the only way.
- A PATCH that marks an element primary is undone without an error when a later
  element is marked too.  An added element that is stored without its read-only part
  or its mark is added once more by a retry: `AddCanBeRetried` speaks of elements
  that are stored as they were sent.
- A PATCH lists every extension that is present, also one that was stored without
  being listed, so a request that changes nothing else changes `schemas`; and an add
  with a value path merges what it sends into the elements it selects.  Both were
  found when `AddCanBeRetried` was proved, and both are premises of it now.
- An immutable `primary` would be overwritten by `normalizePrimaryValues`, and an
  immutable list with immutable sub-attributes may keep the wrong ones when two of its
  elements have one value.  No built-in schema is like that; `ImmutableContracts` says so.
- PATCH add of a single object to an absent multi-valued attribute stores an object
  where a list is required and is answered 400.
- `attributes=a.b` shows nothing when `a` is returned on request only.
- `x eq null` matches no resource, and `not (a eq v)` is not `a ne v` for a
  multi-valued `a`.  The filter depth of 32 admits nine nested groups.

`docs/provenance.md:21` says that Bulk executes in request order; operations with
forward references run after those they refer to, which is what
`docs/implementation-spec.md:52` and `DependenciesFirst` say.

## Proofs

The theorems hold for every value of the constants that satisfies the named
assumptions: any number of callers, clients, managers, ids and operations, any
documents and requests, any bound.  The assumptions are that folding is a function
on names, that the empty string is none of the other values (`FoldAssumption`,
`NoneAssumption`), and per module the types of its constants.  Some are more than
types: `HeaderAssumption` says that a header with one tag in it is neither absent
nor `*` nor malformed; `MaxTime` is at least 1, the first clock reading, because
0 is the zero time; `DefinitionAssumption` says that an extension has neither a
mutability of its own nor several values, as the Go type `Extension` has it;
`RequestAssumption` (in `ResourceDocument` and in `Search`) and
`SelectionAssumption` say what decoding lets through.  The theorems about documents
name further hypotheses in their statements, listed below.

The prover has no induction over data.  `Induction` derives it from the library's
well-foundedness of the naturals: a set that holds 0 and every successor holds every
number (`NatSetInduction`).  The loops of the code are written as recursive functions
on `0 .. Len(s)`; a lemma per loop (`WithoutLoop`, `AppendAllLoop`, `PatchLoop`,
`DeleteAllLoop` ...) shows that the function exists and what one round does, and the
lemmas that use it go by induction over the rounds.

`ScimStoreProofs` is what the others share.  `StoreInv` is a store state in good
order: types, keys that fit the values, unique ids, unique folded names, valid
records.  `Follows(s, t)` says that each id is in `t` where it is in `s` or further
along its life.  For each of `Create`, `Replace` and `Delete` there is a lemma on
what it changes (`CreateEffect` ...), one that it keeps `StoreInv` (`CreateKeeps` ...)
and one that its result follows its argument (`CreateFollows` ...);
`FollowsTransitive` puts several together.

### MemoryStoreProofs

- `TypeCorrect`: `Spec => []TypeOK`, the mutual exclusion included;
- `IdentityNeverShared`: `Spec => []UniqueIdentity`;
- `NamesNeverShared`: `Spec => []UniqueIndex`;
- `RecordsStayValid`: `Spec => []CommittedRecordsValid`;
- `ImplementsLifecycle`: `Spec => Lifecycle`, the refinement of `IdLifecycle`.

None of these is inductive by itself, because a commit installs the private copy
about which they say nothing.  The inductive invariant `Inv` says of the
committed state and of the copy alike that they satisfy `StoreInv`, and that while
the mutex is held the copy follows the committed state.  A commit is then an
`Advance` step of `IdLifecycle` and every other action a stutter.

### ScimServerProofs

- `TypeCorrect`: `Spec => []TypeOK`;
- `CredentialsAlwaysAgree`: `Spec => []CredentialsAgree`;
- `AcknowledgedNeverLost`: `Spec => []AcknowledgedSurvives`;
- `NotModifiedIsTrue`: `Spec => []NotModifiedDataIsCurrent`;
- `NoLostUpdates`: `Spec => ConditionalWritesLoseNothing`;
- `CurrentTagsAreAdmitted`: `Spec => CurrentTagAdmits`;
- `TimesMoveForward`: `Spec => ModifiedAdvances`;
- `CopiesNeverGoBack`: `Spec => CopiesMoveForward`;
- `TenantsAreIsolated`: `Spec => ScopesIsolated`;
- `ImplementsLifecycle`: `Spec => Lifecycle`, for the committed store of the server.

A tag that a client sends may be older than anything in the store, so the theorems
need to know about every record that is still in an answer or in a client's copy.
`Inv` says that each of them is `Known`: `validateRecord` accepted it, so that its
version determines its key, data and credential, and its key is live or has a
tombstone; and that a 304 was given for a record that the request's header names.
It also says that none of them is ahead of the store (`Behind`) and no client's copy
ahead of the answer on its way to it (`Later`), from which `CopiesNeverGoBack` follows:
a record under the same key is the same or has a later time, and a key is not used
again.  `TypeCorrect` is a part of the proof only, no run checks it.
The proof first reduces the five `Execute` actions and `Fail` to five outcomes of a
transaction (`Refused`, `Created`, `Written`, `Deleted`, `Read`; lemma `StepCases`),
which keeps every later argument to one case per outcome.

### ReconcilerProofs

- `TypeCorrect`: `Spec => []TypeOK`, one transaction at a time included;
- `CommitsSatisfy`: `Spec => CommitSatisfiesRequest`;
- `RepeatsChangeNothing`: `Spec => RepeatChangesNothing`;
- `OthersStayUntouched`: `Spec => OthersUntouched`;
- `IdsArePreserved`: `Spec => IdsPreserved`;
- `DeletedIdentitiesStayDeleted`: `Spec => DeletedStaysDeleted`;
- `CountsAreRight`: `Spec => CountsMatchStore`;
- `ImplementsLifecycle`: `Spec => Lifecycle`, a whole reconciliation being one step.

All but the first compare the store before a commit with the store after it, while
the commit is the last of many steps.  `Inv` therefore describes the copy after any
number of them, relative to the store, which the mutex keeps as it was.  With `done`
the identities applied so far, `Built` says which records the copy has changed,
added and dropped and which tombstones it has; `Remaining` what the managed map
holds; `Counted` that the four counts are the sizes of four sets of records.  `Sound`
adds to `StoreInv` that a tombstone's externalId is the one in its version, on which
`DeletedStaysDeleted` rests, and that the records are finitely many, as cardinalities
require.  One lemma per step (`CreateBuilt`, `KeepBuilt`, `ReplaceBuilt`,
`DeleteBuilt`) shows how these sets grow.  That no two live records bear one identity
is not an invariant of the store (finding `reconciler_duplicate`): it is what `Begin`
has checked, and `Inv` keeps it for as long as the transaction runs.

### BulkProofs

- `ExecutesInOrder`: `Spec => []DependenciesFirst`;
- `CyclesStayUnexecuted`: `Spec => []CyclesNeverExecute`;
- `AnswersAreExplained`: `Spec => []AnswersExplained`;
- `FailureLimitHolds`: `Spec => []FailOnErrorsStops`.

`Inv` ties the counters to the outcomes (`CountInv`), `references` and
`failedReferences` to the operations that are done (`ReferenceInv`) and the history
to the outcomes (`OrderInv`).  `OutcomeInv` has the fact that makes calling a cycle
right: while a pass has made no progress, what it has gone past is neither ready nor
blocked; at the end of such a pass everything that is left refers to something that
is left.

### ResourceDocumentProofs

- `OnePrimaryStored`: `Spec => []AtMostOnePrimary`, with any spelling of names;
- `StoredCanonical`: `Spec => []StoredIsCanonical`;
- `ReadOnlyStaysOut`: `Spec => []ReadOnlyNeverStored`;
- `ImmutableKept`: `Spec => ImmutableChangesOnlyThroughAbsence`;
- `RemovalAlwaysPossible`: `Spec => []ElementsCanBeRemoved`;
- `AddsAreRetriable`: `Spec => []AddCanBeRetried`;
- `ProjectionExact`: `Spec => []ProjectionIsExact`.

They hold for every schema, documents of any size and any sequences of operations.
All but the first assume `CanonicalSpelling`, without which the first two of them are
false (finding `document_spelling`), and `AtomicValues`: a simple value is no object
and no list.  `ImmutableKept` assumes `ImmutableContracts` (see the observations), and
the two after it `FailuresTold`: an error is told from a document, which in the code
is a Go type and here a record.  `MCResourceDocument` has TLC evaluate all of these on
the instance but `AtomicValues`, which quantifies over everything.

`CanonicalInv` says that `prepareResource` is done with what is stored: the document is
`Tidy`, attribute by attribute, and valid.  A tidy value is a fixpoint of
`stripReadOnly`, `removeUnassigned` and `normalizePrimaryValues` (`TidyStays`), and what
the three make of any value is tidy (`StripValue`, `AssignValue`, `NormalizeValue`);
their order matters, since demoting primary elements must not bring anything back that
the earlier steps removed.  The rest follows along these lines:

- immutability: what `enforceReplacementMutability` lets through keeps the immutable
  members of the one element with a value (`ComplexKeeps`), and preparation neither
  changes nor moves them between elements (`ListPrepared`, `LeftKeeps`);
- removal and retry: when values tell elements apart, an element is its own
  predecessor (`PreviousSelf`), so mutability gives back what was sent (`EnforcedStays`),
  which preparation leaves alone since the rest of a tidy list is tidy (`RestTidy`);
  a repeated add appends nothing (`AppendNothing`);
- projection: a deletion removes the leaves its path matches (`DeleteLeaves`) and a copy
  adds those of the source (`CopyLeaves`), the latter only because the target stays a
  part of the source with the elements of lists in their places (`Within`).  Exactness
  is then a comparison of two sets of paths, in which a parent of a path matches what
  the path matches (`MatchesThrough`).

### SearchProofs

- `TypeCorrect`: `Spec => []TypeOK`, an id being live or deleted and never both;
- `WalksStaySound`: `Spec => []WalksAreSound`;
- `BoundaryExact`: `Spec => BoundaryIsExact`;
- `ServerErrorsExact`: `Spec => ServerErrorsAreExact`: a page is answered 500 when and
  only when a searched record cannot be rendered (or the store fails, `StoreFails`).

They hold for any number of resources, types and writers, every page size and limit.
`SearchInv` has the finitely many records (`RecordsInv`) and, for the walk, what its
pages so far amount to (`WalkInv`): undisturbed, they are the beginning of the
reference order (`Undisturbed`); with creations only, everything that was there is seen
or has its place still ahead (`NothingMissed`); with deletions only, everything seen is
gone or has its place behind (`NothingRepeated`).  The argument:

- `stableSort` gives the one sequence that enumerates its argument in order, which is
  what makes a page a slice of the reference order whatever order the map of records
  was walked in;
- the loop over the types collects, type by type, the sorted records of each, and fails
  exactly when they add up to more than the limit, wherever it is used up;
- a rank in a strict order is the number of predecessors, so that a page, which is cut
  by position, can be compared with a set of records;
- a create moves no position towards the front and a delete none towards the back
  (`MoreRecords`), so a client that goes on at `start + Len(seen)` skips, or repeats,
  nothing.

TLC checked every inductive invariant on the instances of the runs before it was
proved.

### Only model-checked

- The liveness properties (`CallsReturn`, `Answered`): fairness and ENABLED are out of
  the prover's reach.
- `Filter` (`ParserFollowsGrammar`, `AcceptedComparisonsDecide`,
  `ValuePathAgreesWithDotted`): its parser, its schema check and its evaluator are
  mutually recursive operators over trees, which the prover does not admit.

## Not modelled

- The character level: JSON and filter lexing, PATCH path and header syntax, Unicode
  and PRECIS normalisation, the formats of simple values.
- In filters, schema prefixes and the common attributes; `filter.go`, the older
  filter on identifiers.
- In searches over several types, `combinedSearchDefinition`, and sort attributes
  whose types differ between the types: `Search` sorts by one number.
- The substitution of ids in Bulk operations: `Bulk` models which references are
  known, not the text they are put into.
- `NewRegistry` and the checks of definitions, which run once at start; discovery and
  the schemas, which are static; the conformance harness, which is a test helper.
- A unique index key whose `Unique` and `CaseExact` differ between two records
  (`memory.go:167-169`): the flags of a key come from the definition
  (`resource.go:453`), and `renderRecord` refuses a record whose keys are not those.
  `hasIndexConflict` compares the one unique, folded key that each record has.
- Size limits; nested calls of `Transact` from a callback, which block for ever on
  the mutex and about which the code says nothing.

## Plan

1. `ScimStore`, `MemoryStore`, `IdLifecycle` and their proofs; `ScimServer`,
   `Reconciler`, `Bulk` with their runs.  Done.
2. `ResourceDocument`, `Projection`, `Search` and `Filter` with their runs.  Done.
3. Proofs of all safety properties of `MemoryStore`, `ScimServer`, `Reconciler`, `Bulk`,
   `ResourceDocument`, `Projection` and `Search`, and of the refinement of `IdLifecycle`
   by all three that write a store.  Done.
4. `ScimServer`'s `Merge` as an instance of `ResourceDocument`; entity tag lists; a
   composition of `Bulk` with `ScimServer`'s transactions, so that substituted ids and
   tombstones take part.
