----------------------------- MODULE ScimServer -----------------------------
(***************************************************************************)
(* The HTTP resource handlers of Server: POST on a collection, GET, PUT,    *)
(* PATCH and DELETE on a resource, by concurrent clients.                   *)
(*                                                                          *)
(* A handler decodes the request and reads the clock, and for POST draws an *)
(* id, before it asks the store for a transaction (Receive).  The           *)
(* transaction is one step (Execute): MemoryStore shows that Transact is    *)
(* atomic and isolated.  Between the two the clock ticks and other requests *)
(* run, so the clock reading may be stale.  The transaction may fail as a   *)
(* whole (Fail), the committed record may be one that cannot be rendered    *)
(* (show), and the answer may be lost on the way to the client after the    *)
(* commit (Lose).                                                           *)
(***************************************************************************)
EXTENDS ScimStore

CONSTANTS
  Clients,
  ScopeOf,                  \* the scope ResolveScope gives to each client
  NoManager,                \* Manager of a resource written over HTTP
  UserType,                 \* the resource type that has passwords
  Star,                     \* the header value *
  Malformed,                \* a header that parseEntityTags refuses
  Keep,                     \* PATCH: leave the attribute as it is
  Merge,                    \* what the mutability rules make of <<current, sent>>
                            \* bodies, None where they refuse the change
  Unrenderable,             \* bodies that prepareResource lets into the store and
                            \* renderRecord refuses (ResourceDocument has some)
  ChangePasswordSupported,  \* ServerConfig
  WeakModes,                \* bound: values of ServerConfig.WeakETags
  SentDocuments,            \* bound: documents of POST and PUT requests
  SentPatches,              \* bound: PATCH requests
  SentPasswords,            \* bound: passwords in requests, None for no password
  SentHeaders,              \* bound: kinds of precondition headers in requests
  MaxTime,                  \* bound: clock readings
  MaxRequests               \* bound: requests received

ASSUME ServerAssumption ==
  /\ ScopeOf \in [Clients -> Scopes]
  /\ NoManager \in Managers
  /\ UserType \in ResourceTypes
  /\ None \notin Bodies
  /\ Merge \in [Bodies \X Bodies -> Bodies \cup {None}]
  /\ Unrenderable \subseteq Bodies
  /\ ChangePasswordSupported \in BOOLEAN
  /\ WeakModes \subseteq BOOLEAN
  /\ SentDocuments \subseteq Document
  /\ SentPatches \subseteq [name : Names \cup {None, Keep},
                           ext  : ExternalIds \cup {None, Keep},
                           body : Bodies \cup {Keep}]
  /\ SentPasswords \subseteq Credentials \cup {None}
  /\ SentHeaders \subseteq {"tag", "weak", "star", "malformed"}
  /\ MaxTime \in Nat \ {0}
  /\ MaxRequests \in Nat

\* A header that names a tag is neither absent, nor *, nor malformed.
ASSUME HeaderAssumption ==
  \A v \in Versions, b \in BOOLEAN :
    {[opaque |-> v, weak |-> b]} \notin {None, Star, Malformed}

VARIABLES
  weakETags, \* ServerConfig, fixed when the server is made
  store,     \* the committed state of the store
  secrets,   \* the password adapter's committed credential of each key
  clock,     \* server.clock()
  call,      \* the request each client has under way and its answer
  view,      \* the last representation each client received
  received   \* requests received so far

vars == <<weakETags, store, secrets, clock, call, view, received>>

Idle == [phase |-> "idle"]

-----------------------------------------------------------------------------
(* Entity tags (etag.go).  A header is absent, *, malformed or a set of tags. *)

entityTag(version) == [opaque |-> version, weak |-> weakETags]

IfMatch(header, current) ==
  IF header = None THEN "allowed"
  ELSE IF header = Malformed THEN "malformed"
  ELSE IF header = Star THEN "allowed"
  ELSE IF \E tag \in header : ~tag.weak /\ tag.opaque = current THEN "allowed"
  ELSE "refused"

\* Weak comparison is intentional.
IfNoneMatch(header, current) ==
  IF header = None THEN "allowed"
  ELSE IF header = Malformed THEN "malformed"
  ELSE IF header = Star THEN "refused"
  ELSE IF \E tag \in header : tag.opaque = current THEN "refused"
  ELSE "allowed"

\* Mutant: weak mode compares strongly.
StrongIfMatch(header, current) == IfMatch(header, current)

\* In weak mode If-Match compares opaque parts only.
weakIfMatch(header, current) ==
  IF header \in {None, Malformed, Star}
  THEN IfMatch(header, current)
  ELSE IF \E tag \in header : tag.opaque = current THEN "allowed" ELSE "refused"

\* Mutant: If-Match is not evaluated.
OnlyIfNoneMatch(ifMatch, ifNoneMatch, current) ==
  LET none == IfNoneMatch(ifNoneMatch, current) IN
  IF none = "malformed" THEN 400 ELSE IF none = "refused" THEN 412 ELSE 200

\* 400 for a malformed header, 412 for one that does not admit the write.
evaluateWritePreconditions(ifMatch, ifNoneMatch, current) ==
  LET match == IF weakETags THEN weakIfMatch(ifMatch, current) ELSE IfMatch(ifMatch, current)
      none  == IfNoneMatch(ifNoneMatch, current)
  IN  IF match = "malformed" THEN 400
      ELSE IF match = "refused" THEN 412
      ELSE IF none = "malformed" THEN 400
      ELSE IF none = "refused" THEN 412
      ELSE 200

-----------------------------------------------------------------------------
(* Requests *)

\* extractPassword: an absent password is fine, any other needs the capability.
passwordAllowed(type, password) ==
  password = None \/ (ChangePasswordSupported /\ type = UserType)

\* prepareResource: the unique attribute of the standard types is required.
prepareResource(doc) == doc.name # None

\* Read-only attributes, and immutable ones that the request leaves out, are put
\* back into the incoming document; a changed immutable one is refused (None).
enforceReplacementMutability(current, doc) ==
  [doc EXCEPT !.body = Merge[<<current.body, doc.body>>]]

\* applyPatchDocument: the attributes the operations name are replaced.
applyPatchDocument(current, patch) ==
  [f \in DOMAIN current |-> IF patch[f] = Keep THEN current[f] ELSE patch[f]]

\* A client that has seen a representation can name its tag, strong or weak.
headersOf(c) ==
  {None}
  \cup (IF "star" \in SentHeaders THEN {Star} ELSE {})
  \cup (IF "malformed" \in SentHeaders THEN {Malformed} ELSE {})
  \cup (IF view[c] # None /\ "tag" \in SentHeaders
        THEN {{entityTag(view[c].version)}} ELSE {})
  \cup (IF view[c] # None /\ "weak" \in SentHeaders
        THEN {{[opaque |-> view[c].version, weak |-> TRUE]}} ELSE {})

\* The values of If-Match and If-None-Match, which a request may carry together.
preconditionsOf(c) == headersOf(c) \X headersOf(c)

request(method, key, doc, password, cond) ==
  [method |-> method, key |-> key, doc |-> doc, password |-> password,
   ifMatch |-> cond[1], ifNoneMatch |-> cond[2], now |-> clock]

-----------------------------------------------------------------------------
(* Answers *)

\* writeStoreError
statusOf(err) ==
  CASE err = "ErrNotFound" -> 404
    [] err \in {"ErrConflict", "ErrTombstoned"} -> 409
    [] err = "ErrPrecondition" -> 412
    [] OTHER -> 500

answer(req, status, record) ==
  [phase |-> "answered", req |-> req, status |-> status, record |-> record]

\* The handler of c answers with this status and record.
respond(c, status, record) ==
  call' = [call EXCEPT ![c] = answer(call[c].req, status, record)]

\* writeRecordProjected: a record that cannot be rendered is answered with 500, after
\* its transaction has committed.
show(c, status, record) ==
  IF record.data.body \in Unrenderable
  THEN respond(c, 500, None)
  ELSE respond(c, status, record)

\* The handler of c answers an error; its transaction, if any, left no trace.
refuse(c, status) ==
  /\ respond(c, status, None)
  /\ UNCHANGED <<store, secrets>>

\* SetPassword inside the transaction returns the new revision, None without a
\* password.  Two writes of one password have one revision.
writeSecret(key, password) ==
  IF password = None THEN secrets ELSE [secrets EXCEPT ![key] = password]

-----------------------------------------------------------------------------
(* Handlers *)

Init ==
  /\ weakETags \in WeakModes
  /\ store = newMemoryState
  /\ secrets = [k \in Keys |-> None]
  /\ clock = 1
  /\ call = [c \in Clients |-> Idle]
  /\ view = [c \in Clients |-> None]
  /\ received = 0

\* The part of a handler before its transaction, with the clock read under
\* server.mu.  A body that decoding, extractPassword or prepareResource refuses
\* is answered here, without a transaction.
receive(c, req, refused) ==
  /\ call[c].phase = "idle"
  /\ received < MaxRequests
  /\ received' = received + 1
  /\ call' = [call EXCEPT ![c] = IF refused
                                 THEN answer(req, 400, None)
                                 ELSE [phase |-> "running", req |-> req]]
  /\ UNCHANGED <<weakETags, store, secrets, clock, view>>

\* create draws the id here too; createResource reads no precondition header.
ReceivePost(c) ==
  \E key \in Keys, doc \in SentDocuments, password \in SentPasswords,
     cond \in preconditionsOf(c) :
    receive(c, request("POST", key, doc, password, cond),
            ~passwordAllowed(key[1], password) \/ ~prepareResource(doc))

ReceivePut(c) ==
  \E key \in Keys, doc \in SentDocuments, password \in SentPasswords,
     cond \in preconditionsOf(c) :
    receive(c, request("PUT", key, doc, password, cond), ~passwordAllowed(key[1], password))

ReceivePatch(c) ==
  \E key \in Keys, patch \in SentPatches, password \in SentPasswords,
     cond \in preconditionsOf(c) :
    receive(c, request("PATCH", key, patch, password, cond), FALSE)

ReceiveDelete(c) ==
  \E key \in Keys, cond \in preconditionsOf(c) :
    receive(c, request("DELETE", key, None, None, cond), FALSE)

ReceiveGet(c) ==
  \E key \in Keys, header \in headersOf(c) :
    receive(c, request("GET", key, None, None, <<None, header>>), FALSE)

running(c, method) ==
  /\ call[c].phase = "running"
  /\ call[c].req.method = method
  /\ UNCHANGED <<weakETags, clock, view, received>>

ExecutePost(c) ==
  /\ running(c, "POST")
  /\ LET req == call[c].req
         r == newRecord(ScopeOf[c], NoManager, req.key[1], req.key[2], req.doc,
                        req.now, req.password)
         err == CreateError(store, r)
     IN  IF err # "nil"
         THEN refuse(c, statusOf(err))
         ELSE /\ store' = Create(store, r)
              /\ secrets' = writeSecret(req.key, req.password)
              /\ show(c, 201, r)

\* The transaction that PUT and PATCH share once the incoming document is known.
\* A replacement that changes nothing is not written.
write(c, incoming) ==
  LET req == call[c].req
      current == store.records[req.key]
      doc == enforceReplacementMutability(current.data, incoming)
      cred == IF req.password = None THEN current.cred ELSE req.password
      updated == replacementRecord(current, doc, req.now, cred)
      err == ReplaceError(store, updated, current.version)
  IN  IF doc.body = None \/ ~prepareResource(doc)
      THEN refuse(c, 400)
      ELSE IF ~recordChanges(current, doc, cred)
      THEN /\ show(c, 200, current)
           /\ secrets' = writeSecret(req.key, req.password)
           /\ UNCHANGED store
      ELSE IF err # "nil"
      THEN refuse(c, statusOf(err))
      ELSE /\ store' = Replace(store, updated, current.version)
           /\ secrets' = writeSecret(req.key, req.password)
           /\ show(c, 200, updated)

\* Get and evaluateWritePreconditions, with which PUT, PATCH and DELETE begin.
admission(c) ==
  LET req == call[c].req IN
  IF ~found(store, ScopeOf[c], req.key) THEN 404
  ELSE evaluateWritePreconditions(req.ifMatch, req.ifNoneMatch,
                                  store.records[req.key].version)

ExecutePut(c) ==
  /\ running(c, "PUT")
  /\ IF admission(c) # 200
     THEN refuse(c, admission(c))
     ELSE write(c, call[c].req.doc)

\* The password is extracted from the patched document, inside the transaction.
ExecutePatch(c) ==
  /\ running(c, "PATCH")
  /\ LET req == call[c].req IN
     IF admission(c) # 200
     THEN refuse(c, admission(c))
     ELSE IF ~passwordAllowed(req.key[1], req.password)
     THEN refuse(c, 400)
     ELSE write(c, applyPatchDocument(store.records[req.key].data, req.doc))

ExecuteDelete(c) ==
  /\ running(c, "DELETE")
  /\ LET req == call[c].req
         current == store.records[req.key]
         tombstone == tombstoneOf(current, req.now)
         err == DeleteError(store, ScopeOf[c], req.key, current.version, tombstone)
     IN  IF admission(c) # 200
         THEN refuse(c, admission(c))
         ELSE IF err # "nil"
         THEN refuse(c, statusOf(err))
         ELSE /\ store' = Delete(store, ScopeOf[c], req.key, current.version, tombstone)
              /\ respond(c, 204, None)
              /\ UNCHANGED secrets

\* A 304 carries the tag of the record and no body.
ExecuteGet(c) ==
  /\ running(c, "GET")
  /\ LET req == call[c].req
         current == store.records[req.key]
         none == IfNoneMatch(req.ifNoneMatch, current.version)
     IN  IF ~found(store, ScopeOf[c], req.key)
         THEN refuse(c, 404)
         ELSE IF none = "malformed"
         THEN refuse(c, 400)
         ELSE /\ IF none = "refused" THEN respond(c, 304, current) ELSE show(c, 200, current)
              /\ UNCHANGED <<store, secrets>>

\* Transact fails as a whole: the context is cancelled, the adapter refuses the
\* password, the store cannot commit.
Fail(c) ==
  /\ call[c].phase = "running"
  /\ refuse(c, 500)
  /\ UNCHANGED <<weakETags, clock, view, received>>

\* The answer reaches the client, which keeps the representation in a 200 or 201.
Deliver(c) ==
  /\ call[c].phase = "answered"
  /\ view' = [view EXCEPT ![c] = IF call[c].status \in {200, 201}
                                 THEN call[c].record ELSE view[c]]
  /\ call' = [call EXCEPT ![c] = Idle]
  /\ UNCHANGED <<weakETags, store, secrets, clock, received>>

\* The client is gone before the answer arrives; it may send the request again.
Lose(c) ==
  /\ call[c].phase = "answered"
  /\ call' = [call EXCEPT ![c] = Idle]
  /\ UNCHANGED <<weakETags, store, secrets, clock, view, received>>

Tick ==
  /\ clock < MaxTime
  /\ clock' = clock + 1
  /\ UNCHANGED <<weakETags, store, secrets, call, view, received>>

Serve(c) ==
  \/ ReceivePost(c) \/ ReceivePut(c) \/ ReceivePatch(c) \/ ReceiveDelete(c) \/ ReceiveGet(c)
  \/ ExecutePost(c) \/ ExecutePut(c) \/ ExecutePatch(c) \/ ExecuteDelete(c) \/ ExecuteGet(c)
  \/ Fail(c)
  \/ Deliver(c)
  \/ Lose(c)

Next == Tick \/ \E c \in Clients : Serve(c)

Spec == Init /\ [][Next]_vars

-----------------------------------------------------------------------------
(* Properties *)

\* A request under way, with what the handler holds of it.
IsRequest(req) ==
  /\ req.method \in {"POST", "PUT", "PATCH", "DELETE", "GET"}
  /\ req.key \in Keys
  /\ req.password \in Credentials \cup {None}
  /\ req.now \in Time

\* Every variable has its type.
TypeOK ==
  /\ weakETags \in BOOLEAN
  /\ IsState(store)
  /\ secrets \in [Keys -> Credentials \cup {None}]
  /\ clock \in 1..MaxTime
  /\ received \in 0..MaxRequests
  /\ \A c \in Clients :
       /\ call[c].phase \in {"idle", "running", "answered"}
       /\ call[c].phase # "idle" => IsRequest(call[c].req)
       /\ call[c].phase = "answered" => call[c].record \in Record \cup {None}
       /\ view[c] \in Record \cup {None}

\* The handler of c has just answered with one of these statuses.
answers(c, statuses) ==
  /\ call[c].phase = "running"
  /\ call'[c].phase = "answered"
  /\ call'[c].status \in statuses

\* The handler of c answers that it wrote, or it wrote and answers an error.
accepts(c) == answers(c, {200, 204}) \/ (answers(c, {500}) /\ store' # store)

\* A write that carries the tag of what its client last saw, and is accepted,
\* replaces exactly that state, the credential included: no update of another
\* client in between is lost, nor is one repeated whose answer was lost or an
\* error (server.go replace, patch, remove).
ConditionalWritesLoseNothing ==
  [][\A c \in Clients :
       /\ accepts(c)
       /\ call[c].req.method \in {"PUT", "PATCH", "DELETE"}
       /\ view[c] # None
       /\ call[c].req.ifMatch = {entityTag(view[c].version)}
       => LET current == store.records[call[c].req.key] IN
          /\ call[c].req.key = recordKey(view[c].type, view[c].id)
          /\ current.data = view[c].data
          /\ current.cred = view[c].cred]_vars

\* A write whose If-Match is the tag its client last received, as the server sent
\* it, is refused with 412 only if the resource has changed since; in weak mode
\* that tag is a weak one (server.go evaluateWritePreconditions).
CurrentTagAdmits ==
  [][\A c \in Clients :
       /\ answers(c, {412})
       /\ view[c] # None
       /\ call[c].req.ifMatch = {entityTag(view[c].version)}
       /\ call[c].req.ifNoneMatch = None
       => store.records[call[c].req.key].version # view[c].version]_vars

\* A client's copy of a resource is never replaced by an older state of it, nor by a
\* different one of the same time, whoever wrote, deleted or was refused in between and
\* however stale the clock readings are (server.go createResource, getResource, replace,
\* memory.go Create: the id of a deleted resource is not used again).
CopiesMoveForward ==
  [][\A c \in Clients :
       /\ view[c] # None /\ view'[c] # None
       /\ recordKey(view'[c].type, view'[c].id) = recordKey(view[c].type, view[c].id)
       => view'[c] = view[c] \/ view'[c].modified > view[c].modified]_vars

\* However stale the clock reading of a request is when its transaction runs,
\* meta.lastModified of a resource that changes moves forward, and its creation
\* time and manager stay (record.go replacementRecord).
ModifiedAdvances ==
  [][\A k \in DOMAIN store.records \cap DOMAIN store'.records :
       LET old == store.records[k]
           new == store'.records[k]
       IN  new # old => /\ new.modified > old.modified
                        /\ new.created = old.created
                        /\ new.manager = old.manager]_vars

\* The credential revision in a live record is the one the password adapter
\* holds, and a refused or failed request leaves no credential behind under an
\* id that was never assigned (credentials.go writePassword).
CredentialsAgree ==
  /\ \A k \in DOMAIN store.records : store.records[k].cred = secrets[k]
  /\ \A k \in Keys : secrets[k] # None => k \in DOMAIN store.records \cup DOMAIN store.tombstones

\* No client reads, changes or deletes a resource of another scope, even when it
\* knows the id (memory.go Get, Replace, Delete).
ScopesIsolated ==
  [][\A c \in Clients : call[c].phase = "running" /\ call'[c].phase = "answered" =>
       /\ call'[c].record # None => call'[c].record.scope = ScopeOf[c]
       /\ \A k \in DOMAIN store.records :
            store.records[k].scope # ScopeOf[c] =>
              k \in DOMAIN store'.records /\ store'.records[k] = store.records[k]]_vars

\* What a client was told exists is live or has a tombstone, whatever was
\* refused, failed or lost since (server.go create, remove).
AcknowledgedSurvives ==
  \A c \in Clients : view[c] # None =>
    LET k == recordKey(view[c].type, view[c].id) IN
    k \in DOMAIN store.records \cup DOMAIN store.tombstones

\* The request under way was answered 304 on the tag of the client's copy.
revalidated(c) ==
  /\ call[c].phase = "answered"
  /\ call[c].status = 304
  /\ view[c] # None
  /\ call[c].req.ifNoneMatch = {entityTag(view[c].version)}

\* A 304 on the tag of the client's copy means that the resource's data is that
\* of the copy (server.go getResource).
NotModifiedDataIsCurrent ==
  \A c \in Clients : revalidated(c) => call[c].record.data = view[c].data

\* etag.go calls the version a strong tag "for one canonical resource
\* representation": a 304 on it means that the representation the server would
\* render, meta.lastModified included, is that of the client's copy.
StrongTagNamesOneRepresentation ==
  \A c \in Clients : revalidated(c) /\ ~weakETags =>
    /\ call[c].record.data = view[c].data
    /\ call[c].record.modified = view[c].modified
=============================================================================
