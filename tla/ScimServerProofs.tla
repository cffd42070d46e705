-------------------------- MODULE ScimServerProofs --------------------------
(***************************************************************************)
(* Theorems about ScimServer, for every set of clients, scopes, types, ids, *)
(* documents and headers, every clock and every bound.                      *)
(*                                                                          *)
(* What makes the properties inductive is what the handlers leave behind in *)
(* the answers and in the clients' copies: each record in them was valid    *)
(* and stored when it was read, so its version determines its key, data and *)
(* credential, its key has not been forgotten since, and what is stored     *)
(* under the key now is that record or a later one.                         *)
(***************************************************************************)
EXTENDS ScimServer, ScimStoreProofs

\* The keys of the resources that are live in s or have a tombstone.
Assigned(s) == DOMAIN s.records \cup DOMAIN s.tombstones

\* A record that was in the store at some time: validateRecord accepted it, and
\* its key is live or deleted in s.
Known(s, r) ==
  /\ r \in Record
  /\ validateRecord(r)
  /\ recordKey(r.type, r.id) \in Assigned(s)

\* q is not an older state of the resource than p, nor another one of the same time.
Later(p, q) ==
  recordKey(q.type, q.id) = recordKey(p.type, p.id) => q = p \/ q.modified > p.modified

\* What s holds under the key of r is r or a later state.
Behind(s, r) ==
  recordKey(r.type, r.id) \in DOMAIN s.records =>
    Later(r, s.records[recordKey(r.type, r.id)])

\* What a handler holds of its request, besides IsRequest.
Decoded(req) ==
  /\ req.method \in {"POST", "PUT"} => req.doc \in Document
  /\ req.method = "PATCH" => req.doc \in SentPatches

\* What holds of the call and the copy of one client.
ClientInv(c) ==
  /\ call[c].phase # "idle" => Decoded(call[c].req)
  /\ call[c].phase = "answered" =>
       /\ call[c].record # None =>
            /\ Known(store, call[c].record)
            /\ Behind(store, call[c].record)
            /\ view[c] # None => Later(view[c], call[c].record)
       /\ call[c].status = 304 =>
            /\ Known(store, call[c].record)
            /\ IfNoneMatch(call[c].req.ifNoneMatch, call[c].record.version) = "refused"
  /\ view[c] # None => Known(store, view[c]) /\ Behind(store, view[c])

\* The inductive invariant.
Inv ==
  /\ TypeOK
  /\ call = [c \in Clients |-> call[c]]
  /\ view = [c \in Clients |-> view[c]]
  /\ StoreInv(store)
  /\ CredentialsAgree
  /\ \A c \in Clients : ClientInv(c)

-----------------------------------------------------------------------------
(* The transactions of the handlers *)

\* c's handler answers and touches neither the server nor the copies.
Answers(c, status, record) ==
  /\ call[c].phase = "running"
  /\ respond(c, status, record)
  /\ UNCHANGED <<weakETags, clock, view, received>>

\* The answer has the record, or the record cannot be rendered.
Shows(c, status, record) == Answers(c, status, record) \/ Answers(c, 500, None)

\* The record the handler of c has found.
Current(c) == store.records[call[c].req.key]

\* The transaction fails, or refuses what is asked.  Only the preconditions of
\* the request lead to a 412.
Refused(c) ==
  \E status \in {400, 404, 409, 412, 500} :
    /\ Answers(c, status, None)
    /\ UNCHANGED <<store, secrets>>
    /\ status = 412 => /\ call[c].req.method # "GET"
                       /\ admission(c) = 412

\* The record of a POST, with its password's revision.
Created(c) ==
  \E r \in Record :
    /\ Shows(c, 201, r)
    /\ call[c].req.method = "POST"
    /\ recordKey(r.type, r.id) = call[c].req.key
    /\ r.scope = ScopeOf[c]
    /\ r.cred = call[c].req.password
    /\ CreateError(store, r) = "nil"
    /\ store' = Create(store, r)
    /\ secrets' = writeSecret(call[c].req.key, call[c].req.password)

\* A PUT or PATCH that was admitted, with or without a change.
Written(c) ==
  \E r \in Record :
    /\ Shows(c, 200, r)
    /\ call[c].req.method \in {"PUT", "PATCH"}
    /\ admission(c) = 200
    /\ recordKey(r.type, r.id) = call[c].req.key
    /\ r.scope = ScopeOf[c]
    /\ r.created = Current(c).created
    /\ r.manager = Current(c).manager
    /\ r.cred = IF call[c].req.password = None
                THEN Current(c).cred ELSE call[c].req.password
    /\ secrets' = writeSecret(call[c].req.key, call[c].req.password)
    /\ \/ r = Current(c) /\ store' = store
       \/ /\ r.modified > Current(c).modified
          /\ ReplaceError(store, r, Current(c).version) = "nil"
          /\ store' = Replace(store, r, Current(c).version)

\* A DELETE that was admitted.
Deleted(c) ==
  LET t == tombstoneOf(Current(c), call[c].req.now) IN
  /\ Answers(c, 204, None)
  /\ call[c].req.method = "DELETE"
  /\ admission(c) = 200
  /\ DeleteError(store, ScopeOf[c], call[c].req.key, Current(c).version, t) = "nil"
  /\ store' = Delete(store, ScopeOf[c], call[c].req.key, Current(c).version, t)
  /\ UNCHANGED secrets

\* A GET that found its record.
Read(c) ==
  /\ \/ Shows(c, 200, Current(c))
     \/ /\ Answers(c, 304, Current(c))
        /\ IfNoneMatch(call[c].req.ifNoneMatch, Current(c).version) = "refused"
  /\ call[c].req.method = "GET"
  /\ found(store, ScopeOf[c], call[c].req.key)
  /\ UNCHANGED <<store, secrets>>

Outcome(c) == Refused(c) \/ Created(c) \/ Written(c) \/ Deleted(c) \/ Read(c)

Execute(c) ==
  ExecutePost(c) \/ ExecutePut(c) \/ ExecutePatch(c) \/ ExecuteDelete(c) \/ ExecuteGet(c)

\* What Get finds is in order, and is the record of the request's key.
LEMMA CurrentRecord ==
  ASSUME Inv, NEW c \in Clients, found(store, ScopeOf[c], call[c].req.key)
  PROVE  /\ Current(c) \in Record
         /\ validateRecord(Current(c))
         /\ recordKey(Current(c).type, Current(c).id) = call[c].req.key
         /\ Current(c).scope = ScopeOf[c]
         /\ call[c].req.key \in DOMAIN store.records
BY DEF Inv, found, Current, StoreInv, IsState, IsMap, RecordsValid, Keyed

\* The preconditions admit, refuse with 400 or 412, and nothing else.
LEMMA AdmissionType ==
  ASSUME NEW c \in Clients
  PROVE  /\ admission(c) \in {200, 400, 404, 412}
         /\ admission(c) # 404 => found(store, ScopeOf[c], call[c].req.key)
BY DEF admission, evaluateWritePreconditions

\* A record is shown.
LEMMA ShowOutcome ==
  ASSUME NEW c \in Clients, NEW status, NEW record, call[c].phase = "running",
         show(c, status, record), UNCHANGED <<weakETags, clock, view, received>>
  PROVE  Shows(c, status, record)
BY DEF show, Shows, Answers

\* A refusal is one of the statuses of Refused.
LEMMA RefuseOutcome ==
  ASSUME NEW c \in Clients, NEW status \in {400, 404, 409, 412, 500},
         call[c].phase = "running",
         refuse(c, status), UNCHANGED <<weakETags, clock, view, received>>,
         status = 412 => call[c].req.method # "GET" /\ admission(c) = 412
  PROVE  Outcome(c)
BY DEF refuse, Refused, Answers, Outcome

\* POST creates the record or is refused.
LEMMA PostOutcome ==
  ASSUME Inv, NEW c \in Clients, ExecutePost(c)
  PROVE  Outcome(c)
<1> DEFINE req == call[c].req
           r == newRecord(ScopeOf[c], NoManager, req.key[1], req.key[2], req.doc,
                          req.now, req.password)
           err == CreateError(store, r)
<1>1. /\ call[c].phase = "running" /\ req.method = "POST"
      /\ UNCHANGED <<weakETags, clock, view, received>>
  BY DEF ExecutePost, running
<1>2. /\ req.key \in Keys /\ req.doc \in Document /\ req.now \in Time
      /\ req.password \in Credentials \cup {None}
  BY <1>1 DEF Inv, TypeOK, IsRequest, ClientInv, Decoded
<1>3. r \in Record /\ recordKey(r.type, r.id) = req.key
  <2>1. ScopeOf[c] \in Scopes /\ NoManager \in Managers
    BY ServerAssumption
  <2>2. /\ req.key[1] \in ResourceTypes /\ req.key[2] \in Ids
        /\ req.key = <<req.key[1], req.key[2]>>
    BY <1>2 DEF Keys
  <2>3. r \in Record
    BY <1>2, <2>1, <2>2, NewRecordType
  <2>4. r.type = req.key[1] /\ r.id = req.key[2]
    BY DEF newRecord
  <2> QED
    BY <2>2, <2>3, <2>4 DEF recordKey
<1>4. r.scope = ScopeOf[c] /\ r.cred = req.password
  BY DEF newRecord
<1>5. CASE err = "nil"
  <2>1. /\ store' = Create(store, r)
        /\ secrets' = writeSecret(req.key, req.password)
        /\ show(c, 201, r)
    BY <1>5 DEF ExecutePost
  <2> HIDE DEF r
  <2>2. Created(c)
    BY <1>1, <1>3, <1>4, <1>5, <2>1, ShowOutcome DEF Created
  <2> QED
    BY <2>2 DEF Outcome
<1>6. CASE err # "nil"
  <2>1. refuse(c, statusOf(err))
    BY <1>6 DEF ExecutePost
  <2>2. statusOf(err) \in {409, 500}
    BY <1>6 DEF CreateError, statusOf
  <2> QED
    BY <1>1, <2>1, <2>2, RefuseOutcome
<1> QED
  BY <1>5, <1>6

\* The transaction of PUT and PATCH writes the record, finds nothing to write or
\* is refused.  The version it expects is the one it read, so that Replace never
\* answers ErrPrecondition.
LEMMA WriteOutcome ==
  ASSUME Inv, NEW c \in Clients, call[c].phase = "running",
         call[c].req.method \in {"PUT", "PATCH"}, admission(c) = 200,
         NEW incoming \in Document, write(c, incoming),
         UNCHANGED <<weakETags, clock, view, received>>
  PROVE  Outcome(c)
<1> DEFINE req == call[c].req
           cur == Current(c)
           doc == enforceReplacementMutability(cur.data, incoming)
           cred == IF req.password = None THEN cur.cred ELSE req.password
           updated == replacementRecord(cur, doc, req.now, cred)
           err == ReplaceError(store, updated, cur.version)
<1>1. /\ cur \in Record
      /\ validateRecord(cur)
      /\ recordKey(cur.type, cur.id) = req.key
      /\ cur.scope = ScopeOf[c]
      /\ req.key \in DOMAIN store.records
  BY AdmissionType, CurrentRecord
<1>2. /\ req.now \in Time
      /\ req.password \in Credentials \cup {None}
  BY DEF Inv, TypeOK, IsRequest
<1>3. cred \in Credentials \cup {None}
  BY <1>1, <1>2 DEF Record
<1>4. doc.body # None => doc \in Document
  <2>1. doc = [incoming EXCEPT !.body = Merge[<<cur.data.body, incoming.body>>]]
    BY DEF enforceReplacementMutability
  <2>2. cur.data.body \in Bodies /\ incoming.body \in Bodies
    BY <1>1 DEF Record, Document
  <2>3. Merge[<<cur.data.body, incoming.body>>] \in Bodies \cup {None}
    BY <2>2, ServerAssumption
  <2> HIDE DEF doc
  <2> QED
    BY <2>1, <2>3 DEF Document
<1>5. \/ refuse(c, 400)
      \/ /\ doc.body # None
         /\ ~recordChanges(cur, doc, cred)
         /\ show(c, 200, cur)
         /\ secrets' = writeSecret(req.key, req.password)
         /\ store' = store
      \/ /\ doc.body # None
         /\ recordChanges(cur, doc, cred)
         /\ err # "nil"
         /\ refuse(c, statusOf(err))
      \/ /\ doc.body # None
         /\ recordChanges(cur, doc, cred)
         /\ err = "nil"
         /\ store' = Replace(store, updated, cur.version)
         /\ secrets' = writeSecret(req.key, req.password)
         /\ show(c, 200, updated)
  BY DEF write, Current
<1>6. doc.body # None =>
        /\ updated \in Record
        /\ validateRecord(updated)
        /\ updated.type = cur.type /\ updated.id = cur.id /\ updated.scope = cur.scope
        /\ updated.created = cur.created /\ updated.manager = cur.manager
        /\ updated.cred = cred
        /\ recordChanges(cur, doc, cred) => updated.modified > cur.modified
  BY <1>1, <1>2, <1>3, <1>4, ReplacementType
<1> HIDE DEF doc, updated
<1>7. CASE refuse(c, 400)
  BY <1>7, RefuseOutcome
<1>8. CASE /\ ~recordChanges(cur, doc, cred)
           /\ show(c, 200, cur)
           /\ secrets' = writeSecret(req.key, req.password)
           /\ store' = store
  <2>1. cred = cur.cred
    BY <1>8 DEF recordChanges
  <2>2. Written(c)
    BY <1>1, <1>8, <2>1, ShowOutcome DEF Written
  <2> QED
    BY <2>2 DEF Outcome
<1>9. CASE doc.body # None /\ err # "nil" /\ refuse(c, statusOf(err))
  <2>1. err \in {"invalid", "ErrConflict"}
    <3>1. recordKey(updated.type, updated.id) = req.key
      BY <1>1, <1>6, <1>9
    <3>2. found(store, updated.scope, req.key)
      BY <1>1, <1>6, <1>9 DEF found, Current
    <3> QED
      BY <1>9, <3>1, <3>2 DEF ReplaceError, Current
  <2>2. statusOf(err) \in {409, 500}
    BY <2>1 DEF statusOf
  <2> QED
    BY <1>9, <2>2, RefuseOutcome
<1>10. CASE /\ doc.body # None
            /\ recordChanges(cur, doc, cred)
            /\ err = "nil"
            /\ store' = Replace(store, updated, cur.version)
            /\ secrets' = writeSecret(req.key, req.password)
            /\ show(c, 200, updated)
  <2>1. Written(c)
    BY <1>1, <1>6, <1>10, ShowOutcome DEF Written
  <2> QED
    BY <2>1 DEF Outcome
<1> QED
  BY <1>5, <1>7, <1>8, <1>9, <1>10

\* A PATCH of a document is a document.
LEMMA PatchedDocument ==
  ASSUME NEW doc \in Document, NEW patch \in SentPatches
  PROVE  applyPatchDocument(doc, patch) \in Document
<1> DEFINE p == applyPatchDocument(doc, patch)
<1>1. patch \in [name : Names \cup {None, Keep}, ext : ExternalIds \cup {None, Keep},
                 body : Bodies \cup {Keep}]
  BY ServerAssumption
<1>2. DOMAIN doc = {"name", "ext", "body"}
  BY DEF Document
<1>3. p = [f \in {"name", "ext", "body"} |-> IF patch[f] = Keep THEN doc[f] ELSE patch[f]]
  BY <1>2 DEF applyPatchDocument
<1>4. p = [name |-> p.name, ext |-> p.ext, body |-> p.body]
  BY <1>3
<1>5. p.name \in Names \cup {None} /\ p.ext \in ExternalIds \cup {None} /\ p.body \in Bodies
  BY <1>1, <1>3 DEF Document
<1> QED
  BY <1>4, <1>5 DEF Document

\* A handler whose request the preconditions do not admit answers with their status.
LEMMA NotAdmitted ==
  ASSUME NEW c \in Clients, call[c].phase = "running", call[c].req.method # "GET",
         admission(c) # 200, refuse(c, admission(c)),
         UNCHANGED <<weakETags, clock, view, received>>
  PROVE  Outcome(c)
BY AdmissionType, RefuseOutcome

\* PUT, PATCH, DELETE and GET.
LEMMA PutOutcome ==
  ASSUME Inv, NEW c \in Clients, ExecutePut(c)
  PROVE  Outcome(c)
<1>1. /\ call[c].phase = "running" /\ call[c].req.method = "PUT"
      /\ UNCHANGED <<weakETags, clock, view, received>>
  BY DEF ExecutePut, running
<1>2. CASE admission(c) # 200
  <2>1. refuse(c, admission(c))
    BY <1>2 DEF ExecutePut
  <2> QED
    BY <1>1, <1>2, <2>1, NotAdmitted
<1>3. CASE admission(c) = 200
  <2>1. write(c, call[c].req.doc)
    BY <1>3 DEF ExecutePut
  <2>2. call[c].req.doc \in Document
    BY <1>1 DEF Inv, ClientInv, Decoded
  <2> QED
    BY <1>1, <1>3, <2>1, <2>2, WriteOutcome
<1> QED
  BY <1>2, <1>3

LEMMA PatchOutcome ==
  ASSUME Inv, NEW c \in Clients, ExecutePatch(c)
  PROVE  Outcome(c)
<1> DEFINE patched == applyPatchDocument(Current(c).data, call[c].req.doc)
<1>1. /\ call[c].phase = "running" /\ call[c].req.method = "PATCH"
      /\ UNCHANGED <<weakETags, clock, view, received>>
  BY DEF ExecutePatch, running
<1>2. CASE admission(c) # 200
  <2>1. refuse(c, admission(c))
    BY <1>2 DEF ExecutePatch
  <2> QED
    BY <1>1, <1>2, <2>1, NotAdmitted
<1>3. CASE admission(c) = 200
  <2>1. refuse(c, 400) \/ write(c, patched)
    BY <1>3 DEF ExecutePatch, Current
  <2>2. call[c].req.doc \in SentPatches
    BY <1>1 DEF Inv, ClientInv, Decoded
  <2>3. Current(c).data \in Document
    BY <1>3, AdmissionType, CurrentRecord DEF Record
  <2>4. patched \in Document
    BY <2>2, <2>3, PatchedDocument
  <2> HIDE DEF patched
  <2> QED
    BY <1>1, <1>3, <2>1, <2>4, WriteOutcome, RefuseOutcome
<1> QED
  BY <1>2, <1>3

LEMMA DeleteOutcome ==
  ASSUME Inv, NEW c \in Clients, ExecuteDelete(c)
  PROVE  Outcome(c)
<1> DEFINE req == call[c].req
           t == tombstoneOf(Current(c), req.now)
           err == DeleteError(store, ScopeOf[c], req.key, Current(c).version, t)
<1>1. /\ call[c].phase = "running" /\ req.method = "DELETE"
      /\ UNCHANGED <<weakETags, clock, view, received>>
  BY DEF ExecuteDelete, running
<1>2. CASE admission(c) # 200
  <2>1. refuse(c, admission(c))
    BY <1>2 DEF ExecuteDelete
  <2> QED
    BY <1>1, <1>2, <2>1, NotAdmitted
<1>3. CASE admission(c) = 200 /\ err # "nil"
  <2>1. refuse(c, statusOf(err))
    BY <1>3 DEF ExecuteDelete, Current
  <2>2. found(store, ScopeOf[c], req.key)
    BY <1>3, AdmissionType
  <2>3. err \in {"invalid", "ErrTombstoned"}
    BY <1>3, <2>2 DEF DeleteError, Current
  <2>4. statusOf(err) \in {409, 500}
    BY <2>3 DEF statusOf
  <2> QED
    BY <1>1, <2>1, <2>4, RefuseOutcome
<1>4. CASE admission(c) = 200 /\ err = "nil"
  <2>1. /\ store' = Delete(store, ScopeOf[c], req.key, Current(c).version, t)
        /\ respond(c, 204, None)
        /\ UNCHANGED secrets
    BY <1>4 DEF ExecuteDelete, Current
  <2>2. Deleted(c)
    BY <1>1, <1>4, <2>1 DEF Deleted, Answers
  <2> QED
    BY <2>2 DEF Outcome
<1> QED
  BY <1>2, <1>3, <1>4

LEMMA GetOutcome ==
  ASSUME Inv, NEW c \in Clients, ExecuteGet(c)
  PROVE  Outcome(c)
<1> DEFINE req == call[c].req
           none == IfNoneMatch(req.ifNoneMatch, Current(c).version)
<1>1. /\ call[c].phase = "running" /\ req.method = "GET"
      /\ UNCHANGED <<weakETags, clock, view, received>>
  BY DEF ExecuteGet, running
<1>2. \/ refuse(c, 404)
      \/ refuse(c, 400)
      \/ /\ found(store, ScopeOf[c], req.key)
         /\ IF none = "refused" THEN respond(c, 304, Current(c)) ELSE show(c, 200, Current(c))
         /\ UNCHANGED <<store, secrets>>
  BY DEF ExecuteGet, Current
<1>3. CASE refuse(c, 404) \/ refuse(c, 400)
  BY <1>1, <1>3, RefuseOutcome
<1>4. CASE /\ found(store, ScopeOf[c], req.key)
           /\ IF none = "refused" THEN respond(c, 304, Current(c)) ELSE show(c, 200, Current(c))
           /\ UNCHANGED <<store, secrets>>
  <2>1. Read(c)
    BY <1>1, <1>4, ShowOutcome DEF Read, Answers
  <2> QED
    BY <2>1 DEF Outcome
<1> QED
  BY <1>2, <1>3, <1>4

\* Each handler's transaction has one of the outcomes, and so has a failed one.
LEMMA ExecuteOutcome ==
  ASSUME Inv, NEW c \in Clients, Execute(c) \/ Fail(c)
  PROVE  Outcome(c)
<1>1. CASE Fail(c)
  BY <1>1, RefuseOutcome DEF Fail
<1> QED
  BY <1>1, PostOutcome, PutOutcome, PatchOutcome, DeleteOutcome, GetOutcome DEF Execute

-----------------------------------------------------------------------------
(* The invariant *)

\* A server without resources and clients without requests satisfy it.
LEMMA InitInv == Init => Inv
<1> SUFFICES ASSUME Init PROVE Inv
  OBVIOUS
<1>1. StoreInv(store)
  BY EmptyStoreInv DEF Init
<1>2. \A c \in Clients : call[c].phase = "idle" /\ view[c] = None
  BY DEF Init, Idle
<1>3. weakETags \in BOOLEAN
  BY ServerAssumption DEF Init
<1>4. clock \in 1..MaxTime /\ received \in 0..MaxRequests
  BY ServerAssumption DEF Init
<1>5. TypeOK
  BY <1>1, <1>2, <1>3, <1>4 DEF Init, TypeOK, StoreInv
<1>6. CredentialsAgree
  BY DEF Init, CredentialsAgree, newMemoryState, EmptyMap
<1>7. call = [c \in Clients |-> call[c]] /\ view = [c \in Clients |-> view[c]]
  BY DEF Init
<1> QED
  BY <1>1, <1>2, <1>5, <1>6, <1>7 DEF Inv, ClientInv

\* What is known stays known while no key is forgotten.
LEMMA KnownStays ==
  ASSUME NEW s, NEW t, Assigned(s) \subseteq Assigned(t), NEW r, Known(s, r)
  PROVE  Known(t, r)
BY DEF Known

\* A received request keeps the invariant, refused or not.
LEMMA ReceiveInv ==
  ASSUME Inv, NEW c \in Clients, NEW req, NEW refused, receive(c, req, refused),
         IsRequest(req), Decoded(req)
  PROVE  Inv'
<1>1. /\ call' = [call EXCEPT ![c] = IF refused THEN answer(req, 400, None)
                                     ELSE [phase |-> "running", req |-> req]]
      /\ received < MaxRequests /\ received' = received + 1
      /\ UNCHANGED <<weakETags, store, secrets, clock, view>>
  BY DEF receive
<1>2. /\ call' = [d \in Clients |-> call'[d]]
      /\ \A d \in Clients \ {c} : call'[d] = call[d]
      /\ call'[c] = answer(req, 400, None) \/ call'[c] = [phase |-> "running", req |-> req]
  BY <1>1 DEF Inv
<1>3. /\ call'[c].phase \in {"running", "answered"}
      /\ call'[c].req = req
      /\ call'[c].phase = "answered" => call'[c].status = 400 /\ call'[c].record = None
  BY <1>2 DEF answer
<1>4. received' \in 0..MaxRequests
  BY <1>1, ServerAssumption DEF Inv, TypeOK
<1>5. TypeOK'
  BY <1>1, <1>2, <1>3, <1>4 DEF Inv, TypeOK
<1>6. ASSUME NEW d \in Clients PROVE ClientInv(d)'
  <2>1. CASE d # c
    BY <1>1, <1>2, <2>1 DEF Inv, ClientInv
  <2>2. CASE d = c
    BY <1>1, <1>3, <2>2 DEF Inv, ClientInv
  <2> QED
    BY <2>1, <2>2
<1>7. CredentialsAgree'
  BY <1>1 DEF Inv, CredentialsAgree
<1> QED
  BY <1>1, <1>2, <1>5, <1>6, <1>7 DEF Inv

\* A PUT or PATCH leaves its record under the key of the request, and every
\* other key as it was.
LEMMA WrittenEffect ==
  ASSUME Inv, NEW c \in Clients, admission(c) = 200, NEW r \in Record,
         recordKey(r.type, r.id) = call[c].req.key,
         \/ r = Current(c) /\ store' = store
         \/ /\ ReplaceError(store, r, Current(c).version) = "nil"
            /\ store' = Replace(store, r, Current(c).version)
  PROVE  /\ call[c].req.key \in DOMAIN store.records
         /\ DOMAIN store'.records = DOMAIN store.records
         /\ store'.records[call[c].req.key] = r
         /\ \A j \in DOMAIN store.records :
              j # call[c].req.key => store'.records[j] = store.records[j]
         /\ store'.tombstones = store.tombstones
<1>1. call[c].req.key \in DOMAIN store.records
  BY AdmissionType, CurrentRecord
<1>2. CASE r = Current(c) /\ store' = store
  BY <1>1, <1>2 DEF Current
<1>3. CASE /\ ReplaceError(store, r, Current(c).version) = "nil"
           /\ store' = Replace(store, r, Current(c).version)
  BY <1>3, ReplaceEffect DEF Inv
<1> QED
  BY <1>2, <1>3

\* A DELETE moves the key of the request to the tombstones.
LEMMA DeletedEffect ==
  ASSUME Inv, NEW c \in Clients, Deleted(c)
  PROVE  /\ call[c].req.key \in DOMAIN store.records
         /\ Current(c).scope = ScopeOf[c]
         /\ DOMAIN store'.records = DOMAIN store.records \ {call[c].req.key}
         /\ \A j \in DOMAIN store.records :
              j # call[c].req.key => store'.records[j] = store.records[j]
         /\ DOMAIN store'.tombstones = DOMAIN store.tombstones \cup {call[c].req.key}
         /\ StoreInv(store')
         /\ Follows(store, store')
<1> DEFINE key == call[c].req.key
           t == tombstoneOf(Current(c), call[c].req.now)
<1>1. /\ admission(c) = 200 /\ call[c].phase = "running"
      /\ DeleteError(store, ScopeOf[c], key, Current(c).version, t) = "nil"
      /\ store' = Delete(store, ScopeOf[c], key, Current(c).version, t)
  BY DEF Deleted, Answers
<1>2. /\ Current(c) \in Record
      /\ Current(c).scope = ScopeOf[c]
      /\ StoreInv(store)
      /\ call[c].req.now \in Time
  BY <1>1, AdmissionType, CurrentRecord DEF Inv, TypeOK, IsRequest
<1>3. t \in Tombstone
  BY <1>2, TombstoneOfType
<1> HIDE DEF t
<1>4. /\ key \in DOMAIN store.records
      /\ DOMAIN store'.records = DOMAIN store.records \ {key}
      /\ \A j \in DOMAIN store.records : j # key => store'.records[j] = store.records[j]
      /\ DOMAIN store'.tombstones = DOMAIN store.tombstones \cup {key}
  BY <1>1, <1>2, <1>3, DeleteEffect
<1>5. StoreInv(store') /\ Follows(store, store')
  BY <1>1, <1>2, <1>3, DeleteKeeps, DeleteFollows
<1> QED
  BY <1>2, <1>4, <1>5

\* The store and the credentials after a transaction: in good order, no key
\* forgotten, each live record's revision that of the adapter.
LEMMA OutcomeStore ==
  ASSUME Inv, NEW c \in Clients, Outcome(c)
  PROVE  /\ StoreInv(store')
         /\ Assigned(store) \subseteq Assigned(store')
         /\ Follows(store, store')
         /\ secrets' \in [Keys -> Credentials \cup {None}]
         /\ CredentialsAgree'
<1> DEFINE req == call[c].req
<1>1. call[c].phase = "running" /\ req.key \in Keys /\ req.now \in Time
      /\ req.password \in Credentials \cup {None}
  BY DEF Outcome, Refused, Created, Written, Deleted, Read, Shows, Answers, Inv, TypeOK, IsRequest
<1>2. StoreInv(store) /\ CredentialsAgree /\ secrets \in [Keys -> Credentials \cup {None}]
  BY DEF Inv, TypeOK
<1>3. ASSUME store' = store
      PROVE  StoreInv(store') /\ Assigned(store) \subseteq Assigned(store')
             /\ Follows(store, store')
  BY <1>2, <1>3 DEF Follows, Stages!Forward
<1>4. CASE UNCHANGED <<store, secrets>>
  BY <1>2, <1>3, <1>4 DEF CredentialsAgree
<1>5. CASE Created(c)
  <2>1. PICK r \in Record :
          /\ recordKey(r.type, r.id) = req.key
          /\ r.cred = req.password
          /\ CreateError(store, r) = "nil"
          /\ store' = Create(store, r)
          /\ secrets' = writeSecret(req.key, req.password)
    BY <1>5 DEF Created
  <2>2. /\ req.key \notin Assigned(store)
        /\ DOMAIN store'.records = DOMAIN store.records \cup {req.key}
        /\ store'.records[req.key] = r
        /\ \A j \in DOMAIN store.records : store'.records[j] = store.records[j]
        /\ store'.tombstones = store.tombstones
    BY <1>2, <2>1, CreateEffect DEF Assigned
  <2>3. StoreInv(store') /\ Follows(store, store')
    BY <1>2, <2>1, CreateKeeps, CreateFollows
  <2>4. secrets[req.key] = None
    BY <1>1, <1>2, <2>2 DEF CredentialsAgree, Assigned
  <2>5. /\ secrets' \in [Keys -> Credentials \cup {None}]
        /\ secrets'[req.key] = req.password
        /\ \A k \in Keys \ {req.key} : secrets'[k] = secrets[k]
    BY <1>1, <1>2, <2>1, <2>4 DEF writeSecret
  <2>6. DOMAIN store.records \subseteq Keys
    BY <1>2 DEF StoreInv, IsState, IsMap
  <2>7. CredentialsAgree'
    BY <1>1, <1>2, <2>1, <2>2, <2>5, <2>6 DEF CredentialsAgree, Assigned
  <2> QED
    BY <2>2, <2>3, <2>5, <2>7 DEF Assigned
<1>6. CASE Written(c)
  <2>1. PICK r \in Record :
          /\ admission(c) = 200
          /\ recordKey(r.type, r.id) = req.key
          /\ r.cred = IF req.password = None THEN Current(c).cred ELSE req.password
          /\ secrets' = writeSecret(req.key, req.password)
          /\ \/ r = Current(c) /\ store' = store
             \/ /\ ReplaceError(store, r, Current(c).version) = "nil"
                /\ store' = Replace(store, r, Current(c).version)
    BY <1>6 DEF Written
  <2>2. /\ req.key \in DOMAIN store.records
        /\ DOMAIN store'.records = DOMAIN store.records
        /\ store'.records[req.key] = r
        /\ \A j \in DOMAIN store.records : j # req.key => store'.records[j] = store.records[j]
        /\ store'.tombstones = store.tombstones
    BY <2>1, WrittenEffect
  <2>3. StoreInv(store') /\ Follows(store, store')
    BY <1>2, <1>3, <2>1, ReplaceKeeps, ReplaceFollows
  <2>4. Current(c).cred = secrets[req.key]
    BY <1>2, <2>2 DEF CredentialsAgree, Current
  <2>5. /\ secrets' \in [Keys -> Credentials \cup {None}]
        /\ secrets'[req.key] = r.cred
        /\ \A k \in Keys \ {req.key} : secrets'[k] = secrets[k]
    BY <1>1, <1>2, <2>1, <2>4 DEF writeSecret
  <2>6. DOMAIN store.records \subseteq Keys
    BY <1>2 DEF StoreInv, IsState, IsMap
  <2>7. CredentialsAgree'
    BY <1>1, <1>2, <2>1, <2>2, <2>5, <2>6 DEF CredentialsAgree, Assigned
  <2> QED
    BY <2>2, <2>3, <2>5, <2>7 DEF Assigned
<1>7. CASE Deleted(c)
  <2>1. secrets' = secrets
    BY <1>7 DEF Deleted
  <2>2. /\ DOMAIN store'.records = DOMAIN store.records \ {req.key}
        /\ \A j \in DOMAIN store.records : j # req.key => store'.records[j] = store.records[j]
        /\ DOMAIN store'.tombstones = DOMAIN store.tombstones \cup {req.key}
        /\ StoreInv(store')
        /\ Follows(store, store')
    BY <1>7, DeletedEffect
  <2>3. CredentialsAgree'
    BY <1>2, <2>1, <2>2 DEF CredentialsAgree
  <2> QED
    BY <1>2, <2>1, <2>2, <2>3 DEF Assigned
<1> QED
  BY <1>4, <1>5, <1>6, <1>7 DEF Outcome, Refused, Read

\* The record a handler answers with is the one under the key of the request
\* when the transaction commits.
LEMMA OutcomeAnswer ==
  ASSUME Inv, NEW c \in Clients, Outcome(c)
  PROVE  \E status \in {200, 201, 204, 304, 400, 404, 409, 412, 500} :
         \E record \in Record \cup {None} :
           /\ Answers(c, status, record)
           /\ \/ record = None /\ status # 304
              \/ /\ call[c].req.key \in DOMAIN store'.records
                 /\ record = store'.records[call[c].req.key]
           /\ status = 304 =>
                IfNoneMatch(call[c].req.ifNoneMatch, record.version) = "refused"
<1>1. CASE Refused(c)
  BY <1>1 DEF Refused
<1>2. CASE Created(c)
  <2>1. PICK r \in Record :
          /\ Shows(c, 201, r)
          /\ recordKey(r.type, r.id) = call[c].req.key
          /\ CreateError(store, r) = "nil"
          /\ store' = Create(store, r)
    BY <1>2 DEF Created
  <2>2. call[c].req.key \in DOMAIN store'.records /\ store'.records[call[c].req.key] = r
    BY <2>1, CreateEffect DEF Inv
  <2> QED
    BY <2>1, <2>2 DEF Shows
<1>3. CASE Written(c)
  <2>1. PICK r \in Record :
          /\ Shows(c, 200, r)
          /\ admission(c) = 200
          /\ recordKey(r.type, r.id) = call[c].req.key
          /\ \/ r = Current(c) /\ store' = store
             \/ /\ ReplaceError(store, r, Current(c).version) = "nil"
                /\ store' = Replace(store, r, Current(c).version)
    BY <1>3 DEF Written
  <2>2. call[c].req.key \in DOMAIN store'.records /\ store'.records[call[c].req.key] = r
    BY <2>1, WrittenEffect
  <2> QED
    BY <2>1, <2>2 DEF Shows
<1>4. CASE Deleted(c)
  BY <1>4, SMTT(30) DEF Deleted
<1>5. CASE Read(c)
  <2>1. /\ \/ Shows(c, 200, Current(c))
           \/ /\ Answers(c, 304, Current(c))
              /\ IfNoneMatch(call[c].req.ifNoneMatch, Current(c).version) = "refused"
        /\ found(store, ScopeOf[c], call[c].req.key)
        /\ store' = store
    BY <1>5 DEF Read
  <2>2. /\ call[c].req.key \in DOMAIN store'.records
        /\ Current(c) = store'.records[call[c].req.key]
        /\ Current(c) \in Record
    BY <2>1, CurrentRecord DEF Current
  <2> QED
    BY <2>1, <2>2 DEF Shows
<1> QED
  BY <1>1, <1>2, <1>3, <1>4, <1>5 DEF Outcome

\* A transaction moves what is stored forward.
LEMMA StillBehind ==
  ASSUME Inv, NEW c \in Clients, Outcome(c), NEW r, Known(store, r), Behind(store, r)
  PROVE  Behind(store', r)
<1> DEFINE k == recordKey(r.type, r.id)
           key == call[c].req.key
<1>1. k \in Assigned(store) /\ r.modified \in Nat
  BY DEF Known, Record, Time
<1>2. CASE store' = store
  BY <1>2 DEF Behind
<1>3. CASE Created(c)
  <2>1. PICK q \in Record :
          /\ recordKey(q.type, q.id) = key
          /\ CreateError(store, q) = "nil"
          /\ store' = Create(store, q)
    BY <1>3 DEF Created
  <2>2. /\ key \notin Assigned(store)
        /\ DOMAIN store'.records = DOMAIN store.records \cup {key}
        /\ \A j \in DOMAIN store.records : store'.records[j] = store.records[j]
    BY <2>1, CreateEffect DEF Inv, Assigned
  <2> QED
    BY <1>1, <2>2 DEF Behind
<1>4. CASE Written(c)
  <2>1. PICK q \in Record :
          /\ admission(c) = 200
          /\ recordKey(q.type, q.id) = key
          /\ \/ q = Current(c) /\ store' = store
             \/ /\ q.modified > Current(c).modified
                /\ ReplaceError(store, q, Current(c).version) = "nil"
                /\ store' = Replace(store, q, Current(c).version)
    BY <1>4 DEF Written
  <2>2. /\ DOMAIN store'.records = DOMAIN store.records
        /\ store'.records[key] = q
        /\ \A j \in DOMAIN store.records : j # key => store'.records[j] = store.records[j]
    BY <2>1, WrittenEffect
  <2>3. CASE store' # store /\ k = key /\ k \in DOMAIN store.records
    <3>1. q.modified > Current(c).modified /\ q.modified \in Nat
      BY <2>1, <2>3 DEF Record, Time
    <3>2. Current(c) \in Record /\ recordKey(Current(c).type, Current(c).id) = key
      BY <2>1, AdmissionType, CurrentRecord
    <3>3. Current(c) = r \/ Current(c).modified > r.modified
      BY <2>3, <3>2 DEF Behind, Later, Current
    <3>4. q.modified > r.modified
      BY <1>1, <3>1, <3>2, <3>3 DEF Record, Time
    <3> QED
      BY <2>2, <2>3, <3>4 DEF Behind, Later
  <2>4. CASE k # key \/ k \notin DOMAIN store.records
    BY <2>2, <2>4 DEF Behind
  <2> QED
    BY <1>2, <2>3, <2>4
<1>5. CASE Deleted(c)
  <2>1. /\ DOMAIN store'.records = DOMAIN store.records \ {key}
        /\ \A j \in DOMAIN store.records : j # key => store'.records[j] = store.records[j]
    BY <1>5, DeletedEffect
  <2> QED
    BY <2>1 DEF Behind
<1> QED
  BY <1>2, <1>3, <1>4, <1>5 DEF Outcome, Refused, Read

\* A transaction keeps the invariant.
LEMMA OutcomeInv ==
  ASSUME Inv, NEW c \in Clients, Outcome(c)
  PROVE  Inv'
<1>1. /\ StoreInv(store') /\ CredentialsAgree'
      /\ Assigned(store) \subseteq Assigned(store')
      /\ secrets' \in [Keys -> Credentials \cup {None}]
  BY OutcomeStore
<1>2. PICK status \in {200, 201, 204, 304, 400, 404, 409, 412, 500},
           record \in Record \cup {None} :
        /\ Answers(c, status, record)
        /\ \/ record = None /\ status # 304
           \/ /\ call[c].req.key \in DOMAIN store'.records
              /\ record = store'.records[call[c].req.key]
        /\ status = 304 =>
             IfNoneMatch(call[c].req.ifNoneMatch, record.version) = "refused"
  BY OutcomeAnswer
<1>3. record # None \/ status = 304 => Known(store', record)
  BY <1>1, <1>2 DEF Known, Assigned, StoreInv, IsState, IsMap, Keyed, RecordsValid
<1>4. /\ call[c].phase = "running"
      /\ call' = [call EXCEPT ![c] = answer(call[c].req, status, record)]
      /\ UNCHANGED <<weakETags, clock, view, received>>
  BY <1>2 DEF Answers, respond
<1>5. /\ call' = [d \in Clients |-> call'[d]]
      /\ \A d \in Clients \ {c} : call'[d] = call[d]
      /\ call'[c].phase = "answered"
      /\ call'[c].req = call[c].req
      /\ call'[c].status = status
      /\ call'[c].record = record
  BY <1>4 DEF Inv, answer
<1>6. TypeOK'
  BY <1>1, <1>4, <1>5 DEF Inv, TypeOK, StoreInv
<1>7. \A p : Known(store, p) => Known(store', p)
  BY <1>1, KnownStays
<1>8. \A p : Known(store, p) /\ Behind(store, p) => Behind(store', p)
  BY StillBehind
<1>9. record # None =>
        /\ Behind(store', record)
        /\ view[c] # None => Later(view[c], record)
  <2> SUFFICES ASSUME record # None
               PROVE  /\ Behind(store', record)
                      /\ view[c] # None => Later(view[c], record)
    OBVIOUS
  <2>1. /\ call[c].req.key \in DOMAIN store'.records
        /\ record = store'.records[call[c].req.key]
        /\ recordKey(record.type, record.id) = call[c].req.key
    BY <1>1, <1>2 DEF StoreInv, Keyed
  <2>2. Behind(store', record)
    BY <2>1 DEF Behind, Later
  <2>3. view[c] # None => Behind(store', view[c])
    BY <1>8 DEF Inv, ClientInv
  <2> QED
    BY <2>1, <2>2, <2>3 DEF Behind, Later
<1>10. ASSUME NEW d \in Clients PROVE ClientInv(d)'
  <2>1. (view[d] # None => Known(store, view[d]) /\ Behind(store, view[d]))'
    BY <1>4, <1>7, <1>8 DEF Inv, ClientInv
  <2>2. CASE d # c
    <3>1. call'[d] = call[d] /\ view'[d] = view[d] /\ ClientInv(d)
      BY <1>4, <1>5, <2>2 DEF Inv
    <3> QED
      BY <2>1, <3>1, <1>7, <1>8 DEF ClientInv
  <2>3. CASE d = c
    BY <1>2, <1>3, <1>4, <1>5, <1>9, <2>1, <2>3 DEF Inv, ClientInv
  <2> QED
    BY <2>2, <2>3
<1> QED
  BY <1>1, <1>4, <1>5, <1>6, <1>10 DEF Inv

\* An answer that arrives, or is lost, keeps the invariant: a delivered copy is
\* a record the answer knew.
LEMMA DeliverInv ==
  ASSUME Inv, NEW c \in Clients, Deliver(c) \/ Lose(c)
  PROVE  Inv'
<1>1. /\ call[c].phase = "answered"
      /\ call' = [call EXCEPT ![c] = Idle]
      /\ view' = view \/ view' = [view EXCEPT ![c] = call[c].record]
      /\ UNCHANGED <<weakETags, store, secrets, clock, received>>
  BY DEF Deliver, Lose, Inv
<1>2. /\ call' = [d \in Clients |-> call'[d]]
      /\ \A d \in Clients \ {c} : call'[d] = call[d] /\ view'[d] = view[d]
      /\ call'[c].phase = "idle"
      /\ view' = [d \in Clients |-> view'[d]]
      /\ view'[c] \in {view[c], call[c].record}
  BY <1>1 DEF Inv, Idle
<1>3. TypeOK'
  BY <1>1, <1>2 DEF Inv, TypeOK
<1>4. ASSUME NEW d \in Clients PROVE ClientInv(d)'
  <2>1. CASE d # c
    BY <1>1, <1>2, <2>1 DEF Inv, ClientInv
  <2>2. CASE d = c
    BY <1>1, <1>2, <2>2 DEF Inv, ClientInv
  <2> QED
    BY <2>1, <2>2
<1>5. CredentialsAgree'
  BY <1>1 DEF Inv, CredentialsAgree
<1> QED
  BY <1>1, <1>2, <1>3, <1>4, <1>5 DEF Inv

\* Every step keeps the invariant.
LEMMA NextInv == Inv /\ [Next]_vars => Inv'
<1> SUFFICES ASSUME Inv, [Next]_vars PROVE Inv'
  OBVIOUS
<1>1. CASE UNCHANGED vars
  BY <1>1 DEF vars, Inv, TypeOK, CredentialsAgree, ClientInv
<1>2. CASE Tick
  <2>1. /\ clock' = clock + 1 /\ clock < MaxTime
        /\ UNCHANGED <<weakETags, store, secrets, call, view, received>>
    BY <1>2 DEF Tick
  <2>2. clock' \in 1..MaxTime
    BY <2>1, ServerAssumption DEF Inv, TypeOK
  <2>3. TypeOK'
    BY <2>1, <2>2 DEF Inv, TypeOK
  <2> QED
    BY <2>1, <2>3 DEF Inv, CredentialsAgree, ClientInv
<1>3. ASSUME NEW c \in Clients, Serve(c) PROVE Inv'
  <2>1. clock \in Time
    BY ServerAssumption DEF Inv, TypeOK, Time
  <2>2. CASE ReceivePost(c)
    <3>1. PICK key \in Keys, doc \in SentDocuments, password \in SentPasswords,
               cond \in preconditionsOf(c) :
            receive(c, request("POST", key, doc, password, cond),
                    ~passwordAllowed(key[1], password) \/ ~prepareResource(doc))
      BY <2>2 DEF ReceivePost
    <3> DEFINE req == request("POST", key, doc, password, cond)
    <3>2. IsRequest(req) /\ Decoded(req)
      BY <2>1, ServerAssumption DEF request, IsRequest, Decoded
    <3> HIDE DEF req
    <3> QED
      BY <3>1, <3>2, ReceiveInv DEF req
  <2>3. CASE ReceivePut(c)
    <3>1. PICK key \in Keys, doc \in SentDocuments, password \in SentPasswords,
               cond \in preconditionsOf(c) :
            receive(c, request("PUT", key, doc, password, cond),
                    ~passwordAllowed(key[1], password))
      BY <2>3 DEF ReceivePut
    <3> DEFINE req == request("PUT", key, doc, password, cond)
    <3>2. IsRequest(req) /\ Decoded(req)
      BY <2>1, ServerAssumption DEF request, IsRequest, Decoded
    <3> HIDE DEF req
    <3> QED
      BY <3>1, <3>2, ReceiveInv DEF req
  <2>4. CASE ReceivePatch(c)
    <3>1. PICK key \in Keys, patch \in SentPatches, password \in SentPasswords,
               cond \in preconditionsOf(c) :
            receive(c, request("PATCH", key, patch, password, cond), FALSE)
      BY <2>4 DEF ReceivePatch
    <3> DEFINE req == request("PATCH", key, patch, password, cond)
    <3>2. IsRequest(req) /\ Decoded(req)
      BY <2>1, ServerAssumption DEF request, IsRequest, Decoded
    <3> HIDE DEF req
    <3> QED
      BY <3>1, <3>2, ReceiveInv DEF req
  <2>5. CASE ReceiveDelete(c)
    <3>1. PICK key \in Keys, cond \in preconditionsOf(c) :
            receive(c, request("DELETE", key, None, None, cond), FALSE)
      BY <2>5 DEF ReceiveDelete
    <3> DEFINE req == request("DELETE", key, None, None, cond)
    <3>2. IsRequest(req) /\ Decoded(req)
      BY <2>1 DEF request, IsRequest, Decoded
    <3> HIDE DEF req
    <3> QED
      BY <3>1, <3>2, ReceiveInv DEF req
  <2>6. CASE ReceiveGet(c)
    <3>1. PICK key \in Keys, header \in headersOf(c) :
            receive(c, request("GET", key, None, None, <<None, header>>), FALSE)
      BY <2>6 DEF ReceiveGet
    <3> DEFINE req == request("GET", key, None, None, <<None, header>>)
    <3>2. IsRequest(req) /\ Decoded(req)
      BY <2>1 DEF request, IsRequest, Decoded
    <3> HIDE DEF req
    <3> QED
      BY <3>1, <3>2, ReceiveInv DEF req
  <2>7. CASE Execute(c) \/ Fail(c)
    BY <2>7, ExecuteOutcome, OutcomeInv
  <2>8. CASE Deliver(c) \/ Lose(c)
    BY <2>8, DeliverInv
  <2> QED
    BY <1>3, <2>2, <2>3, <2>4, <2>5, <2>6, <2>7, <2>8 DEF Serve, Execute
<1> QED
  BY <1>1, <1>2, <1>3 DEF Next

-----------------------------------------------------------------------------
(* Invariants *)

\* Spec keeps the inductive invariant.
THEOREM Invariance == Spec => []Inv
<1>1. Init => Inv
  BY InitInv
<1>2. Inv /\ [Next]_vars => Inv'
  BY NextInv
<1> QED
  BY <1>1, <1>2, PTL DEF Spec

\* Every variable of the server has its type in every reachable state.
THEOREM TypeCorrect == Spec => []TypeOK
<1>1. Inv => TypeOK
  BY DEF Inv
<1> QED
  BY <1>1, Invariance, PTL

\* The adapter and the store never disagree on a credential, whichever requests
\* fail (credentials.go writePassword).
THEOREM CredentialsAlwaysAgree == Spec => []CredentialsAgree
<1>1. Inv => CredentialsAgree
  BY DEF Inv
<1> QED
  BY <1>1, Invariance, PTL

\* What a client was told exists is live or has a tombstone (server.go create,
\* remove).
THEOREM AcknowledgedNeverLost == Spec => []AcknowledgedSurvives
<1>1. Inv => AcknowledgedSurvives
  BY DEF Inv, ClientInv, Known, Assigned, AcknowledgedSurvives
<1> QED
  BY <1>1, Invariance, PTL

\* Two valid records with one version have one key, one document and one
\* credential.
LEMMA VersionDetermines ==
  ASSUME NEW p, NEW q, validateRecord(p), validateRecord(q), p.version = q.version
  PROVE  p.type = q.type /\ p.id = q.id /\ p.data = q.data /\ p.cred = q.cred
BY DEF validateRecord, calculateRecordVersion

\* The tag of a client's copy is a header that names a tag.
LEMMA TagHeader ==
  ASSUME Inv, NEW c \in Clients, view[c] # None
  PROVE  /\ {entityTag(view[c].version)} \notin {None, Star, Malformed}
         /\ validateRecord(view[c])
<1>1. view[c] \in Record /\ validateRecord(view[c])
  BY DEF Inv, ClientInv, Known
<1>2. view[c].version \in Versions /\ weakETags \in BOOLEAN
  BY <1>1 DEF Record, Inv, TypeOK
<1> QED
  BY <1>1, <1>2, HeaderAssumption DEF entityTag

\* A 304 on the tag of a client's copy is never answered for other data
\* (server.go getResource).
THEOREM NotModifiedIsTrue == Spec => []NotModifiedDataIsCurrent
<1>1. ASSUME Inv, NEW c \in Clients, revalidated(c)
      PROVE  call[c].record.data = view[c].data
  <2> DEFINE header == {entityTag(view[c].version)}
  <2>1. /\ call[c].phase = "answered"
        /\ call[c].status = 304
        /\ view[c] # None
        /\ call[c].req.ifNoneMatch = header
    BY <1>1 DEF revalidated
  <2>2. /\ validateRecord(call[c].record)
        /\ IfNoneMatch(header, call[c].record.version) = "refused"
    <3>1. ClientInv(c)
      BY <1>1 DEF Inv
    <3> HIDE DEF header
    <3> QED
      BY <2>1, <3>1 DEF ClientInv, Known
  <2>3. header \notin {None, Star, Malformed} /\ validateRecord(view[c])
    BY <1>1, <2>1, TagHeader
  <2>4. \E tag \in header : tag.opaque = call[c].record.version
    BY <2>2, <2>3 DEF IfNoneMatch
  <2>5. view[c].version = call[c].record.version
    BY <2>4 DEF entityTag
  <2> QED
    BY <2>2, <2>3, <2>5, VersionDetermines
<1>2. Inv => NotModifiedDataIsCurrent
  BY <1>1 DEF NotModifiedDataIsCurrent
<1> QED
  BY <1>2, Invariance, PTL

-----------------------------------------------------------------------------
(* What a step may not do *)

\* Only a transaction changes the store or takes a call from running to answered.
LEMMA StepCases ==
  ASSUME Inv, Next
  PROVE  \/ \E c \in Clients : Outcome(c)
         \/ /\ store' = store
            /\ \A c \in Clients : call[c].phase = "running" => call'[c].phase = "running"
<1>1. CASE Tick
  BY <1>1 DEF Tick
<1>2. ASSUME NEW c \in Clients, Execute(c) \/ Fail(c)
      PROVE  Outcome(c)
  BY <1>2, ExecuteOutcome
<1>3. ASSUME NEW c \in Clients, Deliver(c) \/ Lose(c)
      PROVE  /\ store' = store
             /\ \A d \in Clients : call[d].phase = "running" => call'[d].phase = "running"
  BY <1>3 DEF Deliver, Lose, Inv
<1>4. ASSUME NEW c \in Clients, NEW req, NEW refused, receive(c, req, refused)
      PROVE  /\ store' = store
             /\ \A d \in Clients : call[d].phase = "running" => call'[d].phase = "running"
  BY <1>4 DEF receive, Inv
<1>5. ASSUME NEW c \in Clients, Serve(c), ~(Execute(c) \/ Fail(c) \/ Deliver(c) \/ Lose(c))
      PROVE  \E req, refused : receive(c, req, refused)
  BY <1>5 DEF Serve, Execute, ReceivePost, ReceivePut, ReceivePatch, ReceiveDelete, ReceiveGet
<1> QED
  BY <1>1, <1>2, <1>3, <1>4, <1>5 DEF Next

\* The client whose transaction runs is the only one that is answered.
LEMMA OnlyOneAnswers ==
  ASSUME Inv, NEW c \in Clients, Outcome(c), NEW d \in Clients,
         call[d].phase = "running", call'[d].phase = "answered"
  PROVE  d = c
<1>1. PICK status, record : Answers(c, status, record)
  BY OutcomeAnswer
<1> QED
  BY <1>1 DEF Answers, respond, Inv

\* The creation time and the manager of a resource stay and its time moves
\* forward, however stale the clock reading (record.go replacementRecord).
THEOREM TimesMoveForward == Spec => ModifiedAdvances
<1> DEFINE Advances ==
      \A k \in DOMAIN store.records \cap DOMAIN store'.records :
        LET old == store.records[k]
            new == store'.records[k]
        IN  new # old => /\ new.modified > old.modified
                         /\ new.created = old.created
                         /\ new.manager = old.manager
<1>1. ASSUME Inv, [Next]_vars PROVE Advances
  <2>1. CASE store' = store
    BY <2>1
  <2>2. ASSUME NEW c \in Clients, Created(c) PROVE Advances
    <3>1. PICK r \in Record : CreateError(store, r) = "nil" /\ store' = Create(store, r)
      BY <2>2 DEF Created
    <3>2. \A k \in DOMAIN store.records : store'.records[k] = store.records[k]
      BY <1>1, <3>1, CreateEffect DEF Inv
    <3> QED
      BY <3>2
  <2>3. ASSUME NEW c \in Clients, Written(c) PROVE Advances
    <3>1. PICK r \in Record :
            /\ admission(c) = 200
            /\ recordKey(r.type, r.id) = call[c].req.key
            /\ r.created = Current(c).created
            /\ r.manager = Current(c).manager
            /\ \/ r = Current(c) /\ store' = store
               \/ /\ r.modified > Current(c).modified
                  /\ ReplaceError(store, r, Current(c).version) = "nil"
                  /\ store' = Replace(store, r, Current(c).version)
      BY <2>3 DEF Written
    <3>2. /\ store'.records[call[c].req.key] = r
          /\ \A j \in DOMAIN store.records :
               j # call[c].req.key => store'.records[j] = store.records[j]
      BY <1>1, <3>1, WrittenEffect
    <3> QED
      BY <3>1, <3>2 DEF Current
  <2>4. ASSUME NEW c \in Clients, Deleted(c) PROVE Advances
    <3>1. /\ DOMAIN store'.records = DOMAIN store.records \ {call[c].req.key}
          /\ \A j \in DOMAIN store.records :
               j # call[c].req.key => store'.records[j] = store.records[j]
      BY <1>1, <2>4, DeletedEffect
    <3> QED
      BY <3>1
  <2>5. CASE Next
    BY <1>1, <2>1, <2>2, <2>3, <2>4, <2>5, StepCases DEF Outcome, Refused, Read
  <2> QED
    BY <1>1, <2>1, <2>5 DEF vars
<1>2. Inv /\ [Next]_vars => [Advances]_vars
  BY <1>1
<1> QED
  BY <1>2, Invariance, PTL DEF Spec, ModifiedAdvances

\* The life of ids that the committed records and tombstones spell out.
LC == INSTANCE IdLifecycle WITH life <- [i \in Ids |-> LifeOf(store, i)]

\* The handlers implement IdLifecycle: no write resurrects, reassigns or forgets an id.
Lifecycle == LC!Spec

\* Whatever the clients send, an id goes from unused to live to dead and keeps
\* its type, scope and manager (server.go and memory.go Create, Replace, Delete).
THEOREM ImplementsLifecycle == Spec => Lifecycle
<1> DEFINE life == [i \in Ids |-> LifeOf(store, i)]
<1>1. Init => LC!Init
  <2>1. ASSUME NEW i \in Ids PROVE LifeOf(newMemoryState, i) = LC!Unused
    BY DEF LifeOf, LC!Unused, newMemoryState, EmptyMap
  <2> QED
    BY <2>1 DEF Init, LC!Init
<1>2. ASSUME Inv, [Next]_vars PROVE Follows(store, store')
  <2>1. CASE store' = store
    BY <2>1 DEF Follows, Stages!Forward
  <2>2. CASE Next
    BY <1>2, <2>1, <2>2, StepCases, OutcomeStore
  <2> QED
    BY <1>2, <2>1, <2>2 DEF vars
<1>3. Inv /\ Inv' /\ [Next]_vars => [LC!Advance]_life
  <2> SUFFICES ASSUME Inv, Inv', [Next]_vars PROVE LC!Advance
    OBVIOUS
  <2>1. Follows(store, store')
    BY <1>2
  <2>2. \A i \in Ids : LifeOf(store', i) \in LC!LifeStates
    BY LifeOfType DEF Inv, LC!LifeStates, LC!Unused, LC!Live, LC!Dead,
           Stages!LifeStates, Stages!Unused, Stages!Live, Stages!Dead
  <2> QED
    BY <2>1, <2>2
       DEF LC!Advance, Follows, LC!Forward, LC!Unused, LC!Live, LC!Dead,
           Stages!Forward, Stages!Unused, Stages!Live, Stages!Dead
<1> QED
  BY <1>1, <1>3, Invariance, PTL DEF Spec, LC!Spec, Lifecycle

\* The resources of another scope are out of a client's reach (memory.go Get,
\* Replace, Delete).
THEOREM TenantsAreIsolated == Spec => ScopesIsolated
<1> DEFINE Isolated(c) ==
      call[c].phase = "running" /\ call'[c].phase = "answered" =>
        /\ call'[c].record # None => call'[c].record.scope = ScopeOf[c]
        /\ \A k \in DOMAIN store.records :
             store.records[k].scope # ScopeOf[c] =>
               k \in DOMAIN store'.records /\ store'.records[k] = store.records[k]
<1>1. ASSUME Inv, NEW c \in Clients, Outcome(c) PROVE Isolated(c)
  <2>1. ASSUME NEW status, NEW record, Answers(c, status, record)
        PROVE  call'[c].record = record
    BY <1>1, <2>1 DEF Answers, respond, answer, Inv
  <2>2. CASE Refused(c)
    BY <2>1, <2>2 DEF Refused
  <2>3. CASE Created(c)
    <3>1. PICK r \in Record :
            /\ Shows(c, 201, r) /\ r.scope = ScopeOf[c]
            /\ CreateError(store, r) = "nil" /\ store' = Create(store, r)
      BY <2>3 DEF Created
    <3>2. /\ DOMAIN store.records \subseteq DOMAIN store'.records
          /\ \A k \in DOMAIN store.records : store'.records[k] = store.records[k]
      BY <1>1, <3>1, CreateEffect DEF Inv
    <3> QED
      BY <2>1, <3>1, <3>2 DEF Shows
  <2>4. CASE Written(c)
    <3>1. PICK r \in Record :
            /\ Shows(c, 200, r)
            /\ r.scope = ScopeOf[c]
            /\ admission(c) = 200
            /\ recordKey(r.type, r.id) = call[c].req.key
            /\ \/ r = Current(c) /\ store' = store
               \/ /\ ReplaceError(store, r, Current(c).version) = "nil"
                  /\ store' = Replace(store, r, Current(c).version)
      BY <2>4 DEF Written
    <3>2. /\ DOMAIN store'.records = DOMAIN store.records
          /\ \A j \in DOMAIN store.records :
               j # call[c].req.key => store'.records[j] = store.records[j]
      BY <1>1, <3>1, WrittenEffect
    <3>3. store.records[call[c].req.key].scope = ScopeOf[c]
      BY <1>1, <3>1, AdmissionType, CurrentRecord, SMTT(30) DEF Current
    <3> QED
      BY <2>1, <3>1, <3>2, <3>3 DEF Shows
  <2>5. CASE Deleted(c)
    <3>1. Answers(c, 204, None)
      BY <2>5 DEF Deleted
    <3>2. /\ store.records[call[c].req.key].scope = ScopeOf[c]
          /\ DOMAIN store'.records = DOMAIN store.records \ {call[c].req.key}
          /\ \A j \in DOMAIN store.records :
               j # call[c].req.key => store'.records[j] = store.records[j]
      BY <1>1, <2>5, DeletedEffect DEF Current
    <3> QED
      BY <2>1, <3>1, <3>2
  <2>6. CASE Read(c)
    <3>1. Shows(c, 200, Current(c)) \/ Answers(c, 304, Current(c))
      BY <2>6 DEF Read
    <3>2. found(store, ScopeOf[c], call[c].req.key) /\ store' = store
      BY <2>6 DEF Read
    <3>3. Current(c).scope = ScopeOf[c]
      BY <1>1, <3>2, CurrentRecord
    <3> QED
      BY <2>1, <3>1, <3>2, <3>3 DEF Shows
  <2> QED
    BY <1>1, <2>2, <2>3, <2>4, <2>5, <2>6 DEF Outcome
<1>2. ASSUME Inv, [Next]_vars, NEW d \in Clients PROVE Isolated(d)
  <2>1. CASE Next
    BY <1>1, <1>2, <2>1, StepCases, OnlyOneAnswers
  <2>2. CASE UNCHANGED vars
    BY <2>2 DEF vars
  <2> QED
    BY <1>2, <2>1, <2>2
<1>3. Inv /\ [Next]_vars => [\A c \in Clients : Isolated(c)]_vars
  BY <1>2
<1> QED
  BY <1>3, Invariance, PTL DEF Spec, ScopesIsolated

\* evaluateWritePreconditions compares the tag of the client's copy with that of
\* the stored record, in strong and in weak mode: it admits the write only when the
\* versions are equal, and refuses it for the tag only when they differ.
LEMMA TagComparison ==
  ASSUME Inv, NEW c \in Clients, call[c].phase = "running", view[c] # None,
         call[c].req.ifMatch = {entityTag(view[c].version)}
  PROVE  /\ admission(c) = 200 => Current(c).version = view[c].version
         /\ admission(c) = 412 /\ call[c].req.ifNoneMatch = None =>
              Current(c).version # view[c].version
<1> DEFINE header == {entityTag(view[c].version)}
           version == Current(c).version
<1>1. header \notin {None, Star, Malformed}
  BY TagHeader
<1>2. IfNoneMatch(None, version) = "allowed"
  BY DEF IfNoneMatch
<1>3. /\ view[c].version = version  => weakIfMatch(header, version) = "allowed"
      /\ view[c].version # version => weakIfMatch(header, version) = "refused"
  BY <1>1 DEF weakIfMatch, entityTag
<1>4. ~weakETags =>
        /\ view[c].version = version  => IfMatch(header, version) = "allowed"
        /\ view[c].version # version => IfMatch(header, version) = "refused"
  BY <1>1 DEF IfMatch, entityTag
<1> QED
  BY <1>2, <1>3, <1>4 DEF admission, evaluateWritePreconditions, Current

\* A conditional write that is accepted replaces what its client last saw, so that
\* no other client's update is lost (server.go replace, patch, remove).
THEOREM NoLostUpdates == Spec => ConditionalWritesLoseNothing
<1> DEFINE Kept(c) ==
      /\ accepts(c)
      /\ call[c].req.method \in {"PUT", "PATCH", "DELETE"}
      /\ view[c] # None
      /\ call[c].req.ifMatch = {entityTag(view[c].version)}
      => LET current == store.records[call[c].req.key] IN
         /\ call[c].req.key = recordKey(view[c].type, view[c].id)
         /\ current.data = view[c].data
         /\ current.cred = view[c].cred
<1>1. ASSUME Inv, NEW c \in Clients, Outcome(c) PROVE Kept(c)
  <2> SUFFICES ASSUME accepts(c),
                      call[c].req.method \in {"PUT", "PATCH", "DELETE"},
                      view[c] # None,
                      call[c].req.ifMatch = {entityTag(view[c].version)}
               PROVE  /\ call[c].req.key = recordKey(view[c].type, view[c].id)
                      /\ Current(c).data = view[c].data
                      /\ Current(c).cred = view[c].cred
    BY DEF Current
  <2>1. ASSUME NEW status, NEW record, Answers(c, status, record)
        PROVE  call'[c].status = status
    BY <1>1, <2>1 DEF Answers, respond, answer, Inv
  <2>2. ~Refused(c)
    BY <2>1 DEF Refused, answers, accepts
  <2>3. admission(c) = 200
    BY <1>1, <2>2 DEF Outcome, Created, Written, Deleted, Read
  <2>4. call[c].phase = "running"
    BY DEF answers, accepts
  <2>5. Current(c).version = view[c].version
    BY <1>1, <2>3, <2>4, TagComparison
  <2>6. /\ validateRecord(Current(c))
        /\ recordKey(Current(c).type, Current(c).id) = call[c].req.key
    BY <1>1, <2>3, AdmissionType, CurrentRecord
  <2>7. validateRecord(view[c])
    BY <1>1, TagHeader
  <2> QED
    BY <2>5, <2>6, <2>7, VersionDetermines
<1>2. ASSUME Inv, [Next]_vars, NEW d \in Clients PROVE Kept(d)
  <2>1. CASE Next
    BY <1>1, <1>2, <2>1, StepCases, OnlyOneAnswers DEF answers, accepts
  <2>2. CASE UNCHANGED vars
    BY <2>2 DEF vars, answers, accepts
  <2> QED
    BY <1>2, <2>1, <2>2
<1>3. Inv /\ [Next]_vars => [\A c \in Clients : Kept(c)]_vars
  BY <1>2
<1> QED
  BY <1>3, Invariance, PTL DEF Spec, ConditionalWritesLoseNothing

\* A write with the tag of the current representation is never refused with 412,
\* in weak mode either (server.go evaluateWritePreconditions).
THEOREM CurrentTagsAreAdmitted == Spec => CurrentTagAdmits
<1> DEFINE Admits(c) ==
      /\ answers(c, {412})
      /\ view[c] # None
      /\ call[c].req.ifMatch = {entityTag(view[c].version)}
      /\ call[c].req.ifNoneMatch = None
      => store.records[call[c].req.key].version # view[c].version
<1>1. ASSUME Inv, NEW c \in Clients, Outcome(c) PROVE Admits(c)
  <2> SUFFICES ASSUME answers(c, {412}), view[c] # None,
                      call[c].req.ifMatch = {entityTag(view[c].version)},
                      call[c].req.ifNoneMatch = None
               PROVE  Current(c).version # view[c].version
    BY DEF Current
  <2>1. ASSUME NEW status, NEW record, Answers(c, status, record)
        PROVE  status = 412
    BY <1>1, <2>1 DEF Answers, respond, answer, answers, Inv
  <2>2. Refused(c)
    BY <1>1, <2>1 DEF Outcome, Created, Written, Deleted, Read, Shows
  <2>3. admission(c) = 412
    BY <2>1, <2>2 DEF Refused
  <2>4. call[c].phase = "running"
    BY DEF answers
  <2> QED
    BY <1>1, <2>3, <2>4, TagComparison
<1>2. ASSUME Inv, [Next]_vars, NEW d \in Clients PROVE Admits(d)
  <2>1. CASE Next
    BY <1>1, <1>2, <2>1, StepCases, OnlyOneAnswers DEF answers
  <2>2. CASE UNCHANGED vars
    BY <2>2 DEF vars, answers
  <2> QED
    BY <1>2, <2>1, <2>2
<1>3. Inv /\ [Next]_vars => [\A c \in Clients : Admits(c)]_vars
  BY <1>2
<1> QED
  BY <1>3, Invariance, PTL DEF Spec, CurrentTagAdmits

\* A client's copy of a resource is never replaced by an older state of it, however
\* stale the clock readings of the writes are (server.go createResource, getResource,
\* replace; record.go replacementRecord; memory.go Create).
THEOREM CopiesNeverGoBack == Spec => CopiesMoveForward
<1> DEFINE Forward(c) ==
      /\ view[c] # None /\ view'[c] # None
      /\ recordKey(view'[c].type, view'[c].id) = recordKey(view[c].type, view[c].id)
      => view'[c] = view[c] \/ view'[c].modified > view[c].modified
<1>1. ASSUME Inv, Next PROVE view' = view \/ \E c \in Clients : Deliver(c)
  <2>1. ASSUME NEW c \in Clients, Execute(c) \/ Fail(c) PROVE view' = view
    BY <2>1 DEF Execute, ExecutePost, ExecutePut, ExecutePatch, ExecuteDelete, ExecuteGet, running, Fail
  <2>2. ASSUME NEW c \in Clients, Serve(c), ~(Execute(c) \/ Fail(c)), ~Deliver(c) PROVE view' = view
    BY <2>2 DEF Serve, Execute, Lose, receive, ReceivePost, ReceivePut, ReceivePatch, ReceiveDelete, ReceiveGet
  <2> QED
    BY <1>1, <2>1, <2>2 DEF Next, Tick
<1>2. ASSUME Inv, NEW c \in Clients, Deliver(c), NEW d \in Clients PROVE Forward(d)
  <2>1. CASE d # c
    BY <1>2, <2>1 DEF Deliver
  <2>2. CASE d = c
    <3>1. call[c].phase = "answered" /\ view'[c] \in {view[c], call[c].record}
      BY <1>2 DEF Deliver, Inv
    <3>2. call[c].record # None /\ view[c] # None => Later(view[c], call[c].record)
      BY <1>2, <3>1 DEF Inv, ClientInv
    <3> QED
      BY <2>2, <3>1, <3>2 DEF Later
  <2> QED
    BY <2>1, <2>2
<1>3. ASSUME Inv, [Next]_vars, NEW d \in Clients PROVE Forward(d)
  BY <1>1, <1>2, <1>3 DEF vars
<1>4. Inv /\ [Next]_vars => [\A c \in Clients : Forward(c)]_vars
  BY <1>3
<1> QED
  BY <1>4, Invariance, PTL DEF Spec, CopiesMoveForward
=============================================================================
