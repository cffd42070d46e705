------------------------------- MODULE Search -------------------------------
(***************************************************************************)
(* A search (search.go) and a client that walks through its pages while     *)
(* others create, replace and delete resources.  Every page is a search of  *)
(* its own: executeSearch lists the searched types in one transaction,      *)
(* under a candidate limit they share, then filters, sorts and slices.      *)
(*                                                                          *)
(* A record has a type and the first value of the sort attribute, a number, *)
(* or None.  A filter is the set of sort values that satisfy it; its        *)
(* language is the subject of module Filter, projection that of module      *)
(* Projection.  Ids are numbers, and an id determines the resource's type.  *)
(* A record may be one that renderRecord refuses: validation lets some such *)
(* documents into the store (module ResourceDocument).                      *)
(***************************************************************************)
EXTENDS Integers, Sequences, FiniteSetsExt, SequencesExt

CONSTANTS
  None,
  Ids,                      \* ids that may be drawn
  TypeOf,                   \* the type of the resource with each id
  Keys,                     \* values of the sort attribute
  maximumSearchCandidates,
  maximumPageSize,
  Requests,                 \* bound: the searches a client may start
  MaxWrites                 \* bound: writes during a walk

ASSUME SearchAssumption ==
  /\ Ids \subseteq Nat /\ Keys \subseteq Nat
  /\ maximumSearchCandidates \in Nat \ {0}
  /\ maximumPageSize \in Nat \ {0}
  /\ MaxWrites \in Nat
  /\ None # "descending"

\* What decodeSearchRequest and the registry let through: a resource type is searched
\* once, and start and count are integers.
ASSUME RequestAssumption ==
  \A request \in Requests :
    /\ DOMAIN request = {"types", "filter", "sorted", "order", "start", "count"}
    /\ request.types \in Seq(Range(request.types)) /\ IsInjective(request.types)
    /\ request.sorted \in BOOLEAN
    /\ request.order \in {None, "ascending", "descending"}
    /\ request.start \in Int
    /\ request.count = None \/ request.count \in Int

VARIABLES
  records,  \* live records: the key of each id
  broken,   \* ids of the live records that renderRecord refuses
  deleted,  \* ids with a tombstone, which are never drawn again
  walk      \* the client's walk, None before it starts

vars == <<records, broken, deleted, walk>>

-----------------------------------------------------------------------------
(* The search *)

\* The standard library's stable sort, for a relation before: each element in turn goes
\* in front of the first one that it comes before.
inserted(s, x, before) ==
  InsertAt(s, Cardinality({i \in DOMAIN s : <<x, s[i]>> \notin before}) + 1, x)

stableSort(s, before) ==
  LET done[n \in 0 .. Len(s)] == IF n = 0 THEN <<>> ELSE inserted(done[n - 1], s[n], before)
  IN  done[Len(s)]

byId(S) == {pair \in S \X S : pair[1] < pair[2]}

\* Transaction.List: the ids of a type in order; more than limit is an error, and so
\* is a limit below one.
List(type, limit) ==
  LET found == {i \in DOMAIN records : TypeOf[i] = type} IN
  [error |-> IF limit < 1 THEN "invalid"
             ELSE IF Cardinality(found) > limit THEN "tooMany" ELSE "none",
   ids |-> stableSort(SetToSeq(found), byId(found))]

\* Mutant: the limit is not shared, each type may use all of it.
CollectPerType(found, type) ==
  IF found.status # 200 THEN found
  ELSE LET listed == List(type, maximumSearchCandidates) IN
       IF listed.error = "tooMany" THEN [found EXCEPT !.status = 413]
       ELSE [found EXCEPT !.ids = @ \o listed.ids]

\* Mutant: the list is asked for with a limit of zero.
CollectWithZero(found, type) ==
  IF found.status # 200 THEN found
  ELSE LET listed == List(type, found.remaining) IN
       CASE listed.error = "invalid" -> [found EXCEPT !.status = 500]
         [] listed.error = "tooMany" -> [found EXCEPT !.status = 413]
         [] OTHER -> [found EXCEPT !.ids = @ \o listed.ids, !.remaining = @ - Len(listed.ids)]

\* One type of executeSearch's transaction.
collect(found, type) ==
  IF found.status # 200 THEN found
  ELSE LET limit == IF found.remaining = 0 THEN 1 ELSE found.remaining
           listed == List(type, limit)
       IN  CASE listed.error = "invalid" -> [found EXCEPT !.status = 500]
             [] listed.error = "tooMany" \/ (found.remaining = 0 /\ listed.ids # <<>>)
                  -> [found EXCEPT !.status = 413]
             [] OTHER -> [status |-> 200, remaining |-> found.remaining - Len(listed.ids),
                          ids |-> found.ids \o listed.ids]

candidates(types) ==
  LET found[n \in 0 .. Len(types)] ==
        IF n = 0 THEN [status |-> 200, remaining |-> maximumSearchCandidates, ids |-> <<>>]
        ELSE collect(found[n - 1], types[n])
  IN  found[Len(types)]

\* The candidates that match the filter, in the order they were listed.
satisfying(ids, filter) ==
  LET kept[n \in 0 .. Len(ids)] ==
        IF n = 0 THEN <<>>
        ELSE IF records[ids[n]] \in filter THEN Append(kept[n - 1], ids[n]) ELSE kept[n - 1]
  IN  kept[Len(ids)]

\* compareSortValues: below zero, zero or above; no value comes after every value.
compareSortValues(i, j) ==
  LET left == records[i]  right == records[j] IN
  CASE left = None /\ right = None -> 0
    [] left = None /\ right # None -> 1
    [] left # None /\ right = None -> -1
    [] OTHER -> left - right

\* Mutant: ties stay in the order of the candidates.
ComesBeforeUntied(order, i, j) ==
  IF order = "descending" THEN compareSortValues(i, j) > 0 ELSE compareSortValues(i, j) < 0

\* The comparison applySearch sorts with: equal values are ordered by id.
comesBefore(order, i, j) ==
  LET comparison == IF compareSortValues(i, j) = 0 THEN i - j ELSE compareSortValues(i, j) IN
  IF order = "descending" THEN comparison > 0 ELSE comparison < 0

\* A count is any integer literal; a negative one counts as zero.
parseSearchCount(count) == Max({count, 0})

\* compileSearch, on the parts of a request that matter here.
compileSearch(request) ==
  [start |-> IF request.start < 1 THEN 1 ELSE request.start,
   count |-> IF request.count = None THEN maximumPageSize
             ELSE Min({parseSearchCount(request.count), maximumPageSize})]

refused(request) == request.order # None /\ ~request.sorted

\* applySearch: filter, sort, slice.
applySearch(request, plan, ids) ==
  LET filtered == satisfying(ids, request.filter)
      before == {pair \in Range(filtered) \X Range(filtered) :
                   comesBefore(request.order, pair[1], pair[2])}
      ordered == IF request.sorted THEN stableSort(filtered, before) ELSE filtered
      total == Len(filtered)
      begin == Min({plan.start - 1, total})
      end == Min({begin + plan.count, total})
  IN  [status |-> 200, total |-> total, resources |-> SubSeq(ordered, begin + 1, end)]

\* Every candidate is rendered before the filter sees it, so that one that cannot be
\* rendered fails the search.  The filter and the projection of a compiled plan do not fail.
executeSearch(request) ==
  LET found == candidates(request.types)
      error(status) == [status |-> status, total |-> 0, resources |-> <<>>]
  IN  IF refused(request) THEN error(400)
      ELSE IF found.status # 200 THEN error(found.status)
      ELSE IF Range(found.ids) \cap broken # {} THEN error(500)
      ELSE applySearch(request, compileSearch(request), found.ids)

-----------------------------------------------------------------------------
(* The walk and the other clients *)

matching(db, request) ==
  {i \in DOMAIN db : TypeOf[i] \in Range(request.types) /\ db[i] \in request.filter}

Init ==
  /\ records \in UNION {[S -> Keys \cup {None}] : S \in {T \in SUBSET Ids : IsFiniteSet(T)}}
  /\ broken = {} /\ deleted = {}
  /\ walk = None

Begin ==
  /\ walk = None
  /\ \E request \in Requests :
       walk' = [request |-> request, status |-> 200, ended |-> FALSE, seen |-> <<>>,
                first |-> matching(records, request), writes |-> {}, made |-> 0]
  /\ UNCHANGED <<records, broken, deleted>>

\* The client asks for the page after the resources it has, until a page is empty or
\* ends at the total it is told.
Page ==
  /\ walk # None /\ ~walk.ended
  /\ LET start == compileSearch(walk.request).start + Len(walk.seen)
         sent == [walk.request EXCEPT !.start = IF walk.seen = <<>> THEN @ ELSE start]
         answer == executeSearch(sent)
     IN  walk' = [walk EXCEPT
           !.status = answer.status,
           !.seen = @ \o answer.resources,
           !.ended = \/ answer.resources = <<>>
                     \/ start - 1 + Len(answer.resources) >= answer.total]
  /\ UNCHANGED <<records, broken, deleted>>

\* The store's transaction fails, because of the adapter or because the request was
\* cancelled: whatever the error, but for ErrTooMany, the page is answered 500.
StoreFails ==
  /\ walk # None /\ ~walk.ended /\ ~refused(walk.request)
  /\ walk' = [walk EXCEPT !.status = 500, !.ended = TRUE]
  /\ UNCHANGED <<records, broken, deleted>>

\* A write of another client during the walk.
during(kind) ==
  /\ walk # None /\ ~walk.ended /\ walk.made < MaxWrites
  /\ walk' = [walk EXCEPT !.writes = @ \cup {kind}, !.made = @ + 1]

\* The written record can be rendered or not.
writes(i) == \E unreadable \in SUBSET {i} : broken' = (broken \ {i}) \cup unreadable

\* Mutant: an id may be used again after its resource was deleted.
CreateAgain ==
  /\ during("create")
  /\ \E i \in Ids \ DOMAIN records, k \in Keys \cup {None} :
       /\ records' = [j \in DOMAIN records \cup {i} |-> IF j = i THEN k ELSE records[j]]
       /\ writes(i)
  /\ UNCHANGED deleted

Create ==
  /\ during("create")
  /\ \E i \in Ids \ (DOMAIN records \cup deleted), k \in Keys \cup {None} :
       /\ records' = [j \in DOMAIN records \cup {i} |-> IF j = i THEN k ELSE records[j]]
       /\ writes(i)
  /\ UNCHANGED deleted

Replace ==
  /\ during("replace")
  /\ \E i \in DOMAIN records, k \in Keys \cup {None} :
       /\ records' = [records EXCEPT ![i] = k]
       /\ writes(i)
  /\ UNCHANGED deleted

Delete ==
  /\ during("delete")
  /\ \E i \in DOMAIN records :
       /\ records' = [j \in DOMAIN records \ {i} |-> records[j]]
       /\ broken' = broken \ {i}
       /\ deleted' = deleted \cup {i}

Next == Begin \/ Page \/ StoreFails \/ Create \/ Replace \/ Delete

Spec == Init /\ [][Next]_vars

-----------------------------------------------------------------------------
(* Properties *)

\* Records are live or deleted, never both, and a search is answered with a page or with
\* one of the three errors of executeSearch.
TypeOK ==
  /\ DOMAIN records \subseteq Ids /\ deleted \subseteq Ids \ DOMAIN records
  /\ broken \subseteq DOMAIN records
  /\ \A i \in DOMAIN records : records[i] \in Keys \cup {None}
  /\ walk # None => /\ walk.status \in {200, 400, 413, 500}
                    /\ walk.seen \in Seq(Ids)

\* A page is refused with 413 exactly when the searched types together have more live
\* resources than maximumSearchCandidates, however few the filter or the page would
\* keep and wherever between two types the limit is used up (docs/compatibility-v1.md:37).
BoundaryIsExact ==
  [][Page => LET live == {i \in DOMAIN records : TypeOf[i] \in Range(walk.request.types)} IN
             ~refused(walk.request) =>
               (walk'.status = 413 <=> Cardinality(live) > maximumSearchCandidates)]_vars

\* While the store works, a page is answered 500 exactly when a resource that cannot be
\* rendered is among those of the searched types and the limit does not hide it, whether
\* or not the filter or the page would keep it; above all, no limit of zero reaches List
\* when one type has used the limit up (executeSearch's limit and remaining).
ServerErrorsAreExact ==
  [][Page => LET live == {i \in DOMAIN records : TypeOf[i] \in Range(walk.request.types)} IN
             ~refused(walk.request) =>
               (walk'.status = 500 <=> /\ Cardinality(live) <= maximumSearchCandidates
                                       /\ live \cap broken # {})]_vars

\* i comes before j by definition of the order: type by type and by id, or by value with
\* missing ones last and by id.
precedes(db, request, i, j) ==
  LET rank(k) == CHOOSE n \in DOMAIN request.types : request.types[n] = TypeOf[k]
      unset(k) == IF db[k] = None THEN 1 ELSE 0
      value(k) == IF db[k] = None THEN 0 ELSE db[k]
      key(k) == IF request.sorted THEN <<unset(k), value(k), k>> ELSE <<rank(k), k, 0>>
      below(a, b) == \/ a[1] < b[1]
                     \/ a[1] = b[1] /\ a[2] < b[2]
                     \/ a[1] = b[1] /\ a[2] = b[2] /\ a[3] < b[3]
  IN  below(key(i), key(j))

\* The place of i among the matches of a request, in that order or in the reverse of it.
position(db, request, i) ==
  LET smaller == Cardinality({j \in matching(db, request) : precedes(db, request, j, i)})
  IN  IF request.order = "descending" THEN Cardinality(matching(db, request)) - smaller ELSE smaller + 1

inOrder(db, request) ==
  [p \in 1 .. Cardinality(matching(db, request)) |->
     CHOOSE i \in matching(db, request) : position(db, request, i) = p]

\* What a walk that nothing disturbs ends with: the matches from the requested start on.
reference(db, request) ==
  IF request.count # None /\ request.count <= 0 THEN <<>>
  ELSE SubSeq(inOrder(db, request), Max({request.start, 1}), Cardinality(matching(db, request)))

\* Every walk that ends with a page, whatever the page size: undisturbed it sees each
\* match once and in order, with only creations in between it misses no resource that was
\* there, and with only deletions it sees none twice.
WalksAreSound ==
  walk # None /\ walk.ended /\ walk.status = 200 =>
    /\ walk.writes = {} => walk.seen = reference(records, walk.request)
    /\ /\ walk.writes = {"create"}
       /\ walk.request.start <= 1
       /\ walk.request.count = None \/ walk.request.count > 0
       => walk.first \subseteq Range(walk.seen)
    /\ walk.writes = {"delete"} => IsInjective(walk.seen)
=============================================================================
