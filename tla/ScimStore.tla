------------------------------ MODULE ScimStore ------------------------------
(***************************************************************************)
(* The storage contract of pkg/scim: what a Record and a Tombstone are, and *)
(* what the operations of a Transaction do to one state of the store.       *)
(*                                                                          *)
(* The module has no variables.  A store state is [records, tombstones],    *)
(* two finite maps keyed by <<resource type, id>> (recordKey), as in        *)
(* memoryState.  MemoryStore, ScimServer and Reconciler build their         *)
(* transactions from the operators below.                                   *)
(*                                                                          *)
(* A resource document is abstracted to the parts the store tells apart:    *)
(* the value of the type's unique attribute (userName, displayName), the    *)
(* externalId, and everything else (body).                                  *)
(***************************************************************************)
EXTENDS Naturals

CONSTANTS
  Scopes,         \* authorization scopes
  ResourceTypes,  \* names of the registered resource definitions
  Ids,            \* provider-assigned resource ids
  Managers,       \* owner markers; NoManager marks a client-written resource
  ExternalIds,    \* client-issued external ids
  Names,          \* values of the unique attribute
  Bodies,         \* the rest of a document
  Credentials,    \* revision tokens of a password adapter
  None,           \* the empty string, an absent attribute or header
  Fold            \* Unicode case folding of names, as strings.EqualFold has it

\* Folding maps a name to a representative of its case class.
ASSUME FoldAssumption == Fold \in [Names -> Names]

\* The empty string is neither an external id, nor a name, nor a revision.
ASSUME NoneAssumption == None \notin ExternalIds \cup Names \cup Credentials

-----------------------------------------------------------------------------
(* Types *)

Time == Nat
ZeroTime == 0   \* time.Time{}, IsZero()

Keys == ResourceTypes \X Ids

Document == [name : Names \cup {None},
             ext  : ExternalIds \cup {None},
             body : Bodies]

\* calculateRecordVersion: SHA-256 over (type, id, data, credential version),
\* taken to be injective.  The times are not part of it.
Versions == ResourceTypes \X Ids \X Document \X (Credentials \cup {None})

Record == [scope    : Scopes,
           type     : ResourceTypes,
           id       : Ids,
           ext      : ExternalIds \cup {None},
           manager  : Managers,
           version  : Versions,
           cred     : Credentials \cup {None},
           created  : Time,
           modified : Time,
           data     : Document,
           index    : Names \cup {None}]  \* the unique IndexKey, None if absent

Tombstone == [scope     : Scopes,
              type      : ResourceTypes,
              id        : Ids,
              ext       : ExternalIds \cup {None},
              manager   : Managers,
              version   : Versions,
              deletedAt : Time]

\* f is a Go map from keys to values of the set T.
IsMap(f, T) ==
  /\ f = [k \in DOMAIN f |-> f[k]]
  /\ DOMAIN f \subseteq Keys
  /\ \A k \in DOMAIN f : f[k] \in T

\* The types of a store state.
IsState(s) ==
  /\ s = [records |-> s.records, tombstones |-> s.tombstones]
  /\ IsMap(s.records, Record)
  /\ IsMap(s.tombstones, Tombstone)

EmptyMap == [k \in {} |-> None]
newMemoryState == [records |-> EmptyMap, tombstones |-> EmptyMap]

Put(f, key, value) == [k \in DOMAIN f \cup {key} |-> IF k = key THEN value ELSE f[k]]
Drop(f, key)       == [k \in DOMAIN f \ {key} |-> f[k]]

recordKey(type, id) == <<type, id>>

-----------------------------------------------------------------------------
(* Records *)

\* Mutant: the version ignores a part of the data.
VersionWithoutBody(type, id, data, cred) ==
  <<type, id, [data EXCEPT !.body = CHOOSE b \in Bodies : TRUE], cred>>

calculateRecordVersion(type, id, data, cred) == <<type, id, data, cred>>

\* The checks of validateRecord that the types above leave open.  An index may
\* be missing from a record, but one that is there agrees with the data.
validateRecord(r) ==
  /\ r.created # ZeroTime
  /\ r.modified >= r.created
  /\ r.ext = r.data.ext
  /\ r.version = calculateRecordVersion(r.type, r.id, r.data, r.cred)
  /\ r.index # None => r.index = r.data.name

newRecord(scope, manager, type, id, doc, now, cred) ==
  [scope    |-> scope,
   type     |-> type,
   id       |-> id,
   ext      |-> doc.ext,
   manager  |-> manager,
   version  |-> calculateRecordVersion(type, id, doc, cred),
   cred     |-> cred,
   created  |-> now,
   modified |-> now,
   data     |-> doc,
   index    |-> doc.name]

\* Mutants: a new password alone is not a change; everything is a change.
DataChanges(current, doc, cred) == doc # current.data
AlwaysChanges(current, doc, cred) == TRUE

\* replacementRecord returns (record, changed): the current record itself when
\* neither the data nor the credential differs.
recordChanges(current, doc, cred) == doc # current.data \/ cred # current.cred

\* Mutant: the clock reading is taken as it is.
StaleModified(current, now) == now

\* The time of a replacement is the request's clock reading, moved past the
\* current one when that reading is not later.
nextModified(current, now) ==
  IF now > current.modified THEN now ELSE current.modified + 1

replacementRecord(current, doc, now, cred) ==
  IF ~recordChanges(current, doc, cred)
  THEN current
  ELSE [current EXCEPT !.data     = doc,
                       !.ext      = doc.ext,
                       !.index    = doc.name,
                       !.cred     = cred,
                       !.modified = nextModified(current, now),
                       !.version  = calculateRecordVersion(current.type, current.id, doc, cred)]

\* Mutant: the tombstone forgets the externalId.
TombstoneWithoutExt(r, now) ==
  [scope |-> r.scope, type |-> r.type, id |-> r.id, ext |-> None,
   manager |-> r.manager, version |-> r.version, deletedAt |-> now]

\* The tombstone that remove and Reconcile build for a record they delete.
tombstoneOf(r, now) ==
  [scope |-> r.scope, type |-> r.type, id |-> r.id, ext |-> r.ext,
   manager |-> r.manager, version |-> r.version, deletedAt |-> now]

-----------------------------------------------------------------------------
(* Operations of a Transaction on a store state.  Each one has the error it *)
(* returns, "nil" for success, in the order of the code's early returns.    *)

\* Mutant: any scope finds the record.
FoundInAnyScope(s, scope, key) == key \in DOMAIN s.records

found(s, scope, key) ==
  /\ key \in DOMAIN s.records
  /\ s.records[key].scope = scope

\* Mutant: unique values are compared without folding.
ExactIndexConflict(s, r, excluded) ==
  \E k \in DOMAIN s.records \ excluded :
    /\ s.records[k].scope = r.scope
    /\ s.records[k].type = r.type
    /\ r.index # None
    /\ r.index = s.records[k].index

\* A live record of the same scope and type, other than the excluded key, holds
\* the same unique value up to case.  The flags of an index come from the type's
\* definition (prepareResource), so that two records of a type never disagree on
\* them, which the code would take for a conflict.
hasIndexConflict(s, r, excluded) ==
  \E k \in DOMAIN s.records \ excluded :
    LET current == s.records[k] IN
    /\ current.scope = r.scope
    /\ current.type = r.type
    /\ r.index # None
    /\ current.index # None
    /\ Fold[r.index] = Fold[current.index]

\* Mutant: the id is compared within one resource type only.
KeyTaken(s, r) == recordKey(r.type, r.id) \in DOMAIN s.records

identityTaken(s, r) == \E k \in DOMAIN s.records : s.records[k].id = r.id

\* Mutant: only the externalId of a deleted resource is looked for.
TombstonedExternally(s, r) ==
  \E k \in DOMAIN s.tombstones :
    LET t == s.tombstones[k] IN
    r.ext # None /\ t.scope = r.scope /\ t.type = r.type /\ t.ext = r.ext

tombstoned(s, r) ==
  \E k \in DOMAIN s.tombstones :
    LET t == s.tombstones[k] IN
    \/ t.id = r.id
    \/ /\ r.ext # None
       /\ t.scope = r.scope
       /\ t.type = r.type
       /\ t.ext = r.ext

\* Mutant: the record is not validated.
UnvalidatedCreateError(s, r) ==
  IF identityTaken(s, r) THEN "ErrConflict"
  ELSE IF tombstoned(s, r) THEN "ErrTombstoned"
  ELSE IF hasIndexConflict(s, r, {}) THEN "ErrConflict"
  ELSE "nil"

CreateError(s, r) ==
  IF ~validateRecord(r) THEN "invalid"
  ELSE IF identityTaken(s, r) THEN "ErrConflict"
  ELSE IF tombstoned(s, r) THEN "ErrTombstoned"
  ELSE IF hasIndexConflict(s, r, {}) THEN "ErrConflict"
  ELSE "nil"

Create(s, r) ==
  IF CreateError(s, r) = "nil"
  THEN [s EXCEPT !.records = Put(s.records, recordKey(r.type, r.id), r)]
  ELSE s

ReplaceError(s, r, expected) ==
  LET key == recordKey(r.type, r.id) IN
  IF ~validateRecord(r) THEN "invalid"
  ELSE IF ~found(s, r.scope, key) THEN "ErrNotFound"
  ELSE IF s.records[key].version # expected THEN "ErrPrecondition"
  ELSE IF \/ s.records[key].created # r.created
          \/ s.records[key].manager # r.manager THEN "invalid"
  ELSE IF hasIndexConflict(s, r, {key}) THEN "ErrConflict"
  ELSE "nil"

Replace(s, r, expected) ==
  IF ReplaceError(s, r, expected) = "nil"
  THEN [s EXCEPT !.records = Put(s.records, recordKey(r.type, r.id), r)]
  ELSE s

DeleteError(s, scope, key, expected, t) ==
  IF ~found(s, scope, key) THEN "ErrNotFound"
  ELSE IF s.records[key].version # expected THEN "ErrPrecondition"
  ELSE IF \/ t # tombstoneOf(s.records[key], t.deletedAt)
          \/ t.deletedAt = ZeroTime THEN "invalid"
  ELSE IF key \in DOMAIN s.tombstones THEN "ErrTombstoned"
  ELSE "nil"

\* Mutant: the tombstone is not stored.
DeleteWithoutTombstone(s, scope, key, expected, t) ==
  IF DeleteError(s, scope, key, expected, t) = "nil"
  THEN [s EXCEPT !.records = Drop(s.records, key)]
  ELSE s

Delete(s, scope, key, expected, t) ==
  IF DeleteError(s, scope, key, expected, t) = "nil"
  THEN [records    |-> Drop(s.records, key),
        tombstones |-> Put(s.tombstones, key, t)]
  ELSE s

\* List with an empty Attribute: every live record of one scope and type.
List(s, scope, type) ==
  {s.records[k] : k \in {k \in DOMAIN s.records :
                           s.records[k].scope = scope /\ s.records[k].type = type}}

Tombstones(s, scope, type) ==
  {s.tombstones[k] : k \in {k \in DOMAIN s.tombstones :
                              s.tombstones[k].scope = scope /\ s.tombstones[k].type = type}}

-----------------------------------------------------------------------------
(* A store state in good order *)

\* Every key of a map is that of the value stored under it.
Keyed(s) ==
  /\ \A k \in DOMAIN s.records : k = recordKey(s.records[k].type, s.records[k].id)
  /\ \A k \in DOMAIN s.tombstones : k = recordKey(s.tombstones[k].type, s.tombstones[k].id)

\* One id names at most one resource, whatever its type, among the live and the
\* deleted ones together.
IdsUnique(s) ==
  /\ DOMAIN s.records \cap DOMAIN s.tombstones = {}
  /\ \A j, k \in DOMAIN s.records \cup DOMAIN s.tombstones : j[2] = k[2] => j = k

\* Live resources of one scope and type have unique attribute values that
\* differ by more than case.
IndexesUnique(s) ==
  \A j, k \in DOMAIN s.records :
    LET p == s.records[j]
        q == s.records[k]
    IN  /\ p.scope = q.scope
        /\ p.type = q.type
        /\ p.index # None
        /\ q.index # None
        /\ Fold[p.index] = Fold[q.index]
        => j = k

\* Everything the store holds passed validateRecord, so that renderRecord never
\* meets a stored record it must refuse for its version, times or externalId.
RecordsValid(s) == \A k \in DOMAIN s.records : validateRecord(s.records[k])

\* The owner of a resource: what no operation may change while it lives, and
\* what its tombstone keeps.
OwnerOf(v) == <<v.type, v.scope, v.manager>>
Owners == ResourceTypes \X Scopes \X Managers

LifeOf(s, i) ==
  IF \E k \in DOMAIN s.records : k[2] = i
  THEN [phase |-> "live",
        owner |-> OwnerOf(s.records[CHOOSE k \in DOMAIN s.records : k[2] = i])]
  ELSE IF \E k \in DOMAIN s.tombstones : k[2] = i
  THEN [phase |-> "dead",
        owner |-> OwnerOf(s.tombstones[CHOOSE k \in DOMAIN s.tombstones : k[2] = i])]
  ELSE [phase |-> "unused"]

\* The stages of an id, which IdLifecycle orders.
Stages == INSTANCE IdStages
=============================================================================
