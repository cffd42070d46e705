-------------------------- MODULE ResourceDocument --------------------------
(***************************************************************************)
(* What POST, PUT and PATCH make of one resource's document under its       *)
(* schema: prepareResource, the mutability rules and the PATCH operations,  *)
(* applied to the stored document again and again.                          *)
(*                                                                          *)
(* A value is simple (a member of Values, or Null for null and the empty    *)
(* string), an object (sub-attribute names to simple values) or a list of   *)
(* values.  A document is its top-level object and the set of extension     *)
(* schemas it lists beside its base schema.  An extension's object is an    *)
(* attribute of type "extension".  Names are canonical, except that a       *)
(* client may spell an extension's schema in another case (FoldName).       *)
(* Types of simple values, sizes, characters and the required userName,     *)
(* which PRECIS prepares, are left out; two levels of attributes are        *)
(* modelled.  The definitions are ones for User and Group, with the         *)
(* contracts an application may give their attributes: other resource types *)
(* have a Validate callback of their own.                                   *)
(***************************************************************************)
EXTENDS Naturals, Sequences, FiniteSetsExt, SequencesExt

CONSTANTS
  None, Null,
  True, False,      \* values of the sub-attribute primary
  Values,           \* assigned simple values, True and False among them
  FoldName,         \* the canonical spelling of each attribute name
  Definitions,      \* the resource definitions considered
  MaximumValues,    \* maximumValues of a multi-valued attribute
  SentDocuments(_), \* bound: documents of POST and PUT, for a definition
  SentPatches(_)    \* bound: operation sequences of PATCH, for a definition

ASSUME DocumentAssumption ==
  /\ Null \notin Values
  /\ {True, False} \subseteq Values
  /\ True # False
  /\ MaximumValues \in Nat

VARIABLES
  definition,  \* the ResourceDefinition of the resource
  stored,      \* its document in the store, None before it is created
  status       \* the status of the last answer

vars == <<definition, stored, status>>

-----------------------------------------------------------------------------
(* Values *)

Simple == Values \cup {Null}

Object(f) == [object |-> f]
List(s)   == [list |-> s]

isObject(v) == v \notin Simple /\ "object" \in DOMAIN v
isList(v)   == v \notin Simple /\ "list" \in DOMAIN v

NoFields == [a \in {} |-> Null]

\* object[a] = v, and delete(object, a) for every a in A.
set(object, a, v) == [b \in DOMAIN object \cup {a} |-> IF b = a THEN v ELSE object[b]]
drop(object, A)   == [b \in DOMAIN object \ A |-> object[b]]

\* What Op makes of a complex value: of the object, or of each object in the list.
overObjects(v, Op(_)) ==
  IF isObject(v) THEN Object(Op(v.object))
  ELSE IF isList(v)
  THEN List([i \in DOMAIN v.list |->
               IF isObject(v.list[i]) THEN Object(Op(v.list[i].object)) ELSE v.list[i]])
  ELSE v

\* The names with this mutability among attributes (names to contracts).
having(attributes, mutability) ==
  {a \in DOMAIN attributes : attributes[a].mutability = mutability}

extensions(def) == {a \in DOMAIN def : def[a].type = "extension"}

\* An Extension has neither a mutability of its own nor more than one value.
ASSUME DefinitionAssumption ==
  \A def \in Definitions : \A e \in extensions(def) :
    def[e].mutability = "readWrite" /\ ~def[e].multi

\* The lists among the attributes of an object are sequences.
sequences(object) ==
  \A a \in DOMAIN object : isList(object[a]) => object[a].list \in Seq(Range(object[a].list))

\* What the decoder lets through: a document has two parts, an operation without a path
\* sets something, and JSON arrays are sequences.
ASSUME RequestAssumption ==
  \A def \in Definitions :
    /\ \A doc \in SentDocuments(def) :
         DOMAIN doc = {"schemas", "object"} /\ sequences(doc.object)
    /\ \A ops \in SentPatches(def) :
         /\ ops \in Seq(Range(ops))
         /\ \A n \in DOMAIN ops :
              LET v == ops[n].value IN
              IF ops[n].op = "remove" THEN ops[n].attr # None
              ELSE /\ isList(v) => v.list \in Seq(Range(v.list))
                   /\ isObject(v) => sequences(v.object)

canonicalNames(object) == \A a \in DOMAIN object : FoldName[a] = a

\* Clients spell the extensions' schemas as the definitions do.
CanonicalSpelling ==
  \A def \in Definitions :
    /\ canonicalNames(def)
    /\ \A doc \in SentDocuments(def) : canonicalNames(doc.object)
    /\ \A ops \in SentPatches(def) : \A n \in DOMAIN ops :
         ops[n].attr = None /\ isObject(ops[n].value) => canonicalNames(ops[n].value.object)

Invalid == [error |-> "invalidValue"]
Refused == [error |-> "mutability"]
failed(result) == "error" \in DOMAIN result

\* Failures are told from results: no attribute is called error, and Refused is no value.
FailuresTold ==
  /\ Refused \notin Values
  /\ \A def \in Definitions : \A a \in DOMAIN def : "error" \notin {a} \cup DOMAIN def[a].sub

-----------------------------------------------------------------------------
(* prepareResource (resource.go) *)

\* DecodeDocument, through cloneDocument: no two names differ only in case.
decodes(object) ==
  \A a, b \in DOMAIN object : FoldName[a] = FoldName[b] => a = b

\* Mutant: only top-level read-only attributes are removed.
StripTopLevel(def, object) == drop(object, having(def, "readOnly"))

\* The names that are removed from the objects of the value v of attribute a: an
\* extension's value is gone into only when it is an object.
readOnlyParts(def, a, v) ==
  IF a \in extensions(def) /\ ~isObject(v) THEN {} ELSE having(def[a].sub, "readOnly")

stripReadOnly(def, object) ==
  LET kept == drop(object, having(def, "readOnly")) IN
  [a \in DOMAIN kept |->
     IF a \notin DOMAIN def THEN kept[a]
     ELSE overObjects(kept[a], LAMBDA o : drop(o, readOnlyParts(def, a, kept[a])))]

\* A list without the elements at the indexes out: the others are kept in turn.
without(s, out) ==
  LET kept[n \in 0 .. Len(s)] ==
        IF n = 0 THEN <<>>
        ELSE IF n \in out THEN kept[n - 1] ELSE Append(kept[n - 1], s[n])
  IN  kept[Len(s)]

\* A value without its null sub-attributes and elements.
assigned(v) ==
  LET w == overObjects(v, LAMBDA o : drop(o, {a \in DOMAIN o : o[a] = Null})) IN
  IF isList(w) THEN List(without(w.list, {i \in DOMAIN w.list : w.list[i] = Null})) ELSE w

\* Mutant: a list is found empty only if it was sent empty.
DropEmptyFirst(object) ==
  LET kept == drop(object, {a \in DOMAIN object : object[a] \in {Null, List(<<>>)}})
  IN  [a \in DOMAIN kept |-> assigned(kept[a])]

\* Null attributes, sub-attributes and elements go, and lists they leave empty.
removeUnassigned(object) ==
  LET cleaned == [a \in DOMAIN object |-> assigned(object[a])]
  IN  drop(cleaned, {a \in DOMAIN object : cleaned[a] \in {Null, List(<<>>)}})

isPrimary(e)  == isObject(e) /\ "primary" \in DOMAIN e.object /\ e.object.primary = True

\* Mutant: the last primary element is found, the others keep their mark.
KeepPrimaries(object) == object

\* The last primary element of a list stays the only one.
normalizePrimaryValues(object) ==
  LET demote(e) == IF isObject(e) /\ "primary" \in DOMAIN e.object
                   THEN Object(set(e.object, "primary", False)) ELSE e
      normalize(s) ==
        LET primaries == {i \in DOMAIN s : isPrimary(s[i])} IN
        IF primaries = {} THEN s
        ELSE [i \in DOMAIN s |-> IF i = Max(primaries) THEN s[i] ELSE demote(s[i])]
  IN  [a \in DOMAIN object |->
         IF isList(object[a]) THEN List(normalize(object[a].list)) ELSE object[a]]

\* validateSchemaSet: the object of a listed extension is found under any spelling
\* of its schema and gets the canonical one.
canonicalExtensions(doc) ==
  LET variant(e) == {b \in DOMAIN doc.object : b # e /\ FoldName[b] = e}
      moved == {e \in doc.schemas : e \notin DOMAIN doc.object /\ variant(e) # {}}
      gone == UNION {variant(e) : e \in moved}
  IN  [b \in (DOMAIN doc.object \ gone) \cup moved |->
         IF b \in moved THEN doc.object[CHOOSE k \in variant(b) : TRUE] ELSE doc.object[b]]

\* validateAttributeValue of a complex value: exactly sub-attributes, all required
\* ones, and each of them simple.
validObject(v, sub) ==
  /\ isObject(v)
  /\ DOMAIN v.object \subseteq DOMAIN sub
  /\ \A b \in DOMAIN sub : sub[b].required => b \in DOMAIN v.object
  /\ \A b \in DOMAIN v.object : v.object[b] \in Values

validValue(v, contract) ==
  IF contract.type = "simple" THEN v \in Values ELSE validObject(v, contract.sub)

\* validateAttributeValues: required attributes and the shape of each.
validAttribute(object, a, contract) ==
  /\ contract.required => a \in DOMAIN object
  /\ a \in DOMAIN object =>
       IF contract.multi
       THEN /\ isList(object[a])
            /\ Len(object[a].list) <= MaximumValues
            /\ \A i \in DOMAIN object[a].list : validValue(object[a].list[i], contract)
       ELSE validValue(object[a], contract)

\* validateTopLevel, validateSchemaSet and the extension loop of prepareResource: an
\* extension that is listed is an object, and an object conforms to its schema.
validResource(def, doc, object) ==
  /\ \A a \in DOMAIN object : a \in DOMAIN def \/ FoldName[a] \in extensions(def)
  /\ \A a \in DOMAIN def \ extensions(def) : validAttribute(object, a, def[a])
  /\ \A e \in extensions(def) :
       /\ def[e].required => e \in doc.schemas
       /\ e \in doc.schemas => e \in DOMAIN object /\ isObject(object[e])
       /\ e \in DOMAIN object /\ isObject(object[e]) => validObject(object[e], def[e].sub)

prepareResource(def, doc) ==
  LET cleaned == normalizePrimaryValues(removeUnassigned(stripReadOnly(def, doc.object)))
      object == canonicalExtensions([doc EXCEPT !.object = cleaned])
  IN  IF decodes(doc.object) /\ validResource(def, doc, object)
      THEN [doc EXCEPT !.object = object]
      ELSE Invalid

-----------------------------------------------------------------------------
(* Mutability (mutability.go) *)

\* enforceAttributeMutability without its descent into complex attributes.
keepProtected(before, after, attributes) ==
  LET immutable == having(attributes, "immutable")
      readOnly == having(attributes, "readOnly")
      kept == DOMAIN before \cap (readOnly \cup (immutable \ DOMAIN after))
  IN  IF \E a \in immutable \cap DOMAIN before \cap DOMAIN after : before[a] # after[a]
      THEN Refused
      ELSE [a \in (DOMAIN after \ readOnly) \cup kept |->
              IF a \in kept THEN before[a] ELSE after[a]]

hasValue(e, v) == isObject(e) /\ "value" \in DOMAIN e.object /\ e.object.value = v

\* Mutant: elements are paired by their position alone.
PairByIndex(before, after, i) ==
  IF i \in DOMAIN before /\ isObject(before[i]) THEN before[i].object ELSE NoFields

\* The element that enforceMultiValueMutability compares after[i] with: the last one
\* with the same value, or else the one at the same index.  The code leaves an element
\* without a predecessor alone; comparing it with an empty one takes its read-only
\* parts away, which the stripReadOnly of prepareResource does next.
previous(before, after, i) ==
  LET same == {j \in DOMAIN before :
                 /\ "value" \in DOMAIN after[i].object
                 /\ after[i].object.value # Null
                 /\ hasValue(before[j], after[i].object.value)}
  IN  IF same # {} THEN before[Max(same)].object
      ELSE IF i \in DOMAIN before /\ isObject(before[i]) THEN before[i].object
      ELSE NoFields

\* The value of a complex attribute once its sub-attributes are enforced: the code goes
\* into an object unless the attribute is multi-valued, and into a list only if it is.
enforceComplex(before, after, contract) ==
  IF isObject(after) /\ ~contract.multi
  THEN LET result == keepProtected(IF isObject(before) THEN before.object ELSE NoFields,
                                   after.object, contract.sub)
       IN  IF failed(result) THEN Refused ELSE Object(result)
  ELSE IF isList(after) /\ contract.multi
  THEN LET old == IF isList(before) THEN before.list ELSE <<>>
           new == [i \in DOMAIN after.list |->
                     IF ~isObject(after.list[i]) THEN after.list[i]
                     ELSE LET result == keepProtected(previous(old, after.list, i),
                                                      after.list[i].object, contract.sub)
                          IN  IF failed(result) THEN Refused ELSE Object(result)]
       IN  IF \E i \in DOMAIN new : new[i] = Refused THEN Refused ELSE List(new)
  ELSE after

\* Mutant: complex attributes are not descended into.
EnforceTopLevel(def, current, incoming) ==
  LET top == keepProtected(current.object, incoming.object, def) IN
  IF failed(top) THEN Refused ELSE [incoming EXCEPT !.object = top]

\* The incoming document with what it may not change put back, or Refused.
enforceReplacementMutability(def, current, incoming) ==
  LET top == keepProtected(current.object, incoming.object, def)
      old(a) == IF a \in DOMAIN current.object THEN current.object[a] ELSE Null
      descends(a) == /\ a \in DOMAIN def /\ a \in DOMAIN incoming.object
                     /\ def[a].type # "simple" /\ def[a].mutability # "readOnly"
      result == [a \in DOMAIN top |->
                   IF descends(a) THEN enforceComplex(old(a), top[a], def[a]) ELSE top[a]]
  IN  IF failed(top) THEN Refused
      ELSE IF \E a \in DOMAIN result : result[a] = Refused THEN Refused
      ELSE [incoming EXCEPT !.object = result]

-----------------------------------------------------------------------------
(* PATCH (patch_apply.go).  An operation has op, attr, sub, filter and value;  *)
(* attr is None without a path, a filter is None or <sub> eq <value>.          *)

noTarget    == [error |-> "noTarget"]
invalidPath == [error |-> "invalidPath"]

\* Mutant: an element that is already there is added again.
AppendAlways(values, v) == Append(values, v)

appendNew(values, v) == IF Contains(values, v) THEN values ELSE Append(values, v)

appendAll(values, added) ==
  LET grown[n \in 0 .. Len(added)] ==
        IF n = 0 THEN values ELSE appendNew(grown[n - 1], added[n])
  IN  grown[Len(added)]

addValue(object, a, v) ==
  IF a \notin DOMAIN object \/ ~isList(object[a]) THEN set(object, a, v)
  ELSE IF isList(v) THEN set(object, a, List(appendAll(object[a].list, v.list)))
  ELSE set(object, a, List(appendNew(object[a].list, v)))

\* applyDirectPatch without a sub-attribute.
patchAttribute(object, a, op, v) ==
  IF op = "add" THEN addValue(object, a, v)
  ELSE IF a \notin DOMAIN object THEN noTarget
  ELSE IF op = "remove" THEN drop(object, {a}) ELSE set(object, a, v)

applyDirectPatch(object, o) ==
  IF o.sub = None THEN patchAttribute(object, o.attr, o.op, o.value)
  ELSE IF o.attr \notin DOMAIN object
  THEN IF o.op = "add" THEN set(object, o.attr, Object([b \in {o.sub} |-> o.value])) ELSE noTarget
  ELSE IF ~isObject(object[o.attr]) THEN invalidPath
  ELSE LET result == patchAttribute(object[o.attr].object, o.sub, o.op, o.value) IN
       IF failed(result) THEN result ELSE set(object, o.attr, Object(result))

\* The elements a value path selects, with a filter <sub> eq <value>.
satisfies(e, filter) ==
  isObject(e) /\ filter.sub \in DOMAIN e.object /\ e.object[filter.sub] = filter.value

selected(values, filter) == {i \in DOMAIN values : satisfies(values[i], filter)}

\* An element the value path selects, with the operation applied.
patchElement(e, o) ==
  IF o.sub # None THEN patchAttribute(e.object, o.sub, o.op, o.value)
  ELSE IF ~isObject(o.value) THEN Invalid
  ELSE [b \in DOMAIN e.object \cup DOMAIN o.value.object |->
          IF b \in DOMAIN o.value.object THEN o.value.object[b] ELSE e.object[b]]

applyFilteredPatch(def, object, o) ==
  IF o.attr \notin DOMAIN object \/ ~isList(object[o.attr]) THEN noTarget
  ELSE IF ~def[o.attr].multi \/ def[o.attr].type # "complex" THEN invalidPath
  ELSE LET values == object[o.attr].list
           matches == selected(values, o.filter)
           patched == [i \in matches |-> patchElement(values[i], o)]
       IN  IF matches = {} THEN IF o.op = "remove" THEN object ELSE noTarget
           ELSE IF o.op = "remove" /\ o.sub = None
           THEN set(object, o.attr, List(without(values, matches)))
           ELSE IF \E i \in matches : failed(patched[i])
           THEN CHOOSE e \in {patched[i] : i \in matches} : failed(e)
           ELSE set(object, o.attr, List([i \in DOMAIN values |->
                  IF i \in matches THEN Object(patched[i]) ELSE values[i]]))

\* parsePatchPath: the path names an attribute of the schema; an extension is
\* reached only through one of its attributes.
validPath(def, o) ==
  /\ o.attr \in DOMAIN def
  /\ o.sub # None => o.sub \in DOMAIN def[o.attr].sub
  /\ def[o.attr].type = "extension" => o.sub # None

\* The pathless form goes through the attributes of its value.
patchPathless(object, o) ==
  IF ~isObject(o.value) THEN Invalid
  ELSE [a \in DOMAIN object \cup DOMAIN o.value.object |->
          IF a \notin DOMAIN o.value.object THEN object[a]
          ELSE IF o.op = "add" THEN addValue(object, a, o.value.object[a])[a]
          ELSE o.value.object[a]]

applyPatchOperation(def, object, o) ==
  IF o.attr = None THEN patchPathless(object, o)
  ELSE IF ~validPath(def, o) THEN invalidPath
  ELSE IF o.filter = None THEN applyDirectPatch(object, o)
  ELSE applyFilteredPatch(def, object, o)

\* All operations in turn, up to the first that fails; extensions that are present
\* afterwards are listed (ensureSchema).
applyPatchDocument(def, current, ops) ==
  LET after[n \in 0 .. Len(ops)] ==
        IF n = 0 THEN current.object
        ELSE IF failed(after[n - 1]) THEN after[n - 1]
        ELSE applyPatchOperation(def, after[n - 1], ops[n])
      object == after[Len(ops)]
  IN  IF failed(object) THEN object
      ELSE [schemas |-> current.schemas \cup (extensions(def) \cap DOMAIN object),
            object |-> object]

-----------------------------------------------------------------------------
(* Requests *)

\* What PUT and PATCH store in the end, or why they are refused.
replacement(def, current, incoming) ==
  IF failed(incoming) THEN incoming
  ELSE LET enforced == enforceReplacementMutability(def, current, incoming) IN
       IF failed(enforced) THEN enforced ELSE prepareResource(def, enforced)

Init ==
  /\ definition \in Definitions
  /\ stored = None
  /\ status = 0

\* A refused request leaves the stored document as it is.
conclude(result, success) ==
  /\ IF failed(result)
     THEN stored' = stored /\ status' = 400
     ELSE stored' = result /\ status' = success
  /\ UNCHANGED definition

Post ==
  /\ stored = None
  /\ \E doc \in SentDocuments(definition) : conclude(prepareResource(definition, doc), 201)

Put ==
  /\ stored # None
  /\ \E doc \in SentDocuments(definition) : conclude(replacement(definition, stored, doc), 200)

Patch ==
  /\ stored # None
  /\ \E ops \in SentPatches(definition) :
       conclude(replacement(definition, stored, applyPatchDocument(definition, stored, ops)), 200)

Next == Post \/ Put \/ Patch

Spec == Init /\ [][Next]_vars

-----------------------------------------------------------------------------
(* Properties *)

\* Whatever sequence of POST, PUT and PATCH led to it, the stored document is what
\* prepareResource makes of it: otherwise renderRecord (server.go:669) answers 500 to
\* every GET of the resource and to every search that meets it.
StoredIsCanonical ==
  stored # None => prepareResource(definition, stored) = stored

\* No request, PATCH of a single sub-attribute included, leaves a multi-valued
\* attribute with two primary elements (normalizePrimaryValues).
AtMostOnePrimary ==
  stored # None =>
    \A a \in DOMAIN stored.object :
      isList(stored.object[a]) =>
        Cardinality({i \in DOMAIN stored.object[a].list : isPrimary(stored.object[a].list[i])}) <= 1

\* The objects of a stored attribute: its own, or its elements'.
objectsOf(v) ==
  IF isObject(v) THEN {v.object}
  ELSE IF isList(v) THEN {v.list[i].object : i \in {j \in DOMAIN v.list : isObject(v.list[j])}}
  ELSE {}

\* No client request gets a read-only attribute or sub-attribute into the store, by
\* whichever path it is written (stripReadOnly inside prepareResource), except inside
\* an extension that is stored without being listed and is no object.
ReadOnlyNeverStored ==
  stored # None =>
    \A a \in DOMAIN stored.object :
      /\ definition[a].mutability # "readOnly"
      /\ \/ \A o \in objectsOf(stored.object[a]) :
              DOMAIN o \cap having(definition[a].sub, "readOnly") = {}
         \/ a \in extensions(definition) \ stored.schemas /\ ~isObject(stored.object[a])

\* The extensions of a stored resource are validated: what is stored under an extension's
\* schema is an object that conforms to it (the extension loop of prepareResource).
ExtensionsConform ==
  stored # None =>
    \A e \in extensions(definition) \cap DOMAIN stored.object :
      validObject(stored.object[e], definition[e].sub)

\* The extensions that are present are listed, and the values of the elements tell the
\* elements of each list apart.
distinctive(def, doc) ==
  /\ extensions(def) \cap DOMAIN doc.object \subseteq doc.schemas
  /\ \A a \in DOMAIN doc.object : isList(doc.object[a]) =>
       LET list == doc.object[a].list IN
       \A i, j \in DOMAIN list :
         /\ isObject(list[i]) /\ "value" \in DOMAIN list[i].object
         /\ hasValue(list[j], list[i].object.value)
         => i = j

\* A client may always take elements out of a multi-valued attribute, first ones too:
\* PUT of the stored document without them stores just that.  Elements are then matched
\* with their predecessors by value, not by position (enforceMultiValueMutability).
ElementsCanBeRemoved ==
  stored # None /\ distinctive(definition, stored) =>
    \A a \in DOMAIN stored.object :
      LET list == stored.object[a].list IN
      /\ isList(stored.object[a]) /\ a \notin having(definition, "immutable")
      /\ \A i \in DOMAIN list : isObject(list[i]) => "value" \in DOMAIN list[i].object
      => \A K \in SUBSET DOMAIN list :
           LET rest == without(list, K)
               sent == [stored EXCEPT !.object = set(@, a, List(rest))]
               kept == IF rest = <<>> THEN [stored EXCEPT !.object = drop(@, {a})] ELSE sent
           IN  rest # <<>> \/ ~definition[a].required => replacement(definition, stored, sent) = kept

\* Every element an add sent is in the document as it was sent.
holdsAdded(doc, o) ==
  LET sent == IF isList(o.value) THEN o.value.list ELSE <<o.value>> IN
  o.attr \in DOMAIN doc.object /\ isList(doc.object[o.attr])
    /\ \A i \in DOMAIN sent : Contains(doc.object[o.attr].list, sent[i])

\* A PATCH that adds elements can be retried: once the document holds what was sent, the
\* same request changes nothing (containsPatchValue, after the store has normalised the
\* elements, moved the primary mark and put immutable sub-attributes back), as long as
\* the elements' values tell them apart.  A value path is another matter: add then merges
\* what is sent into the elements it selects.
AddCanBeRetried ==
  stored # None /\ distinctive(definition, stored) =>
    \A ops \in SentPatches(definition) :
      LET again == replacement(definition, stored, applyPatchDocument(definition, stored, ops)) IN
      /\ Len(ops) = 1
      /\ ops[1].op = "add" /\ ops[1].attr # None /\ ops[1].sub = None /\ ops[1].filter = None
      /\ holdsAdded(stored, ops[1])
      => again = stored

\* before's immutable members are in after, unchanged.
keepsImmutable(before, after, attributes) ==
  \A b \in having(attributes, "immutable") \cap DOMAIN before :
    b \in DOMAIN after /\ after[b] = before[b]

\* Contracts under which immutability can be kept: the mark primary, which moves, is not
\* immutable, and an immutable list leaves nothing to protect inside its elements, which
\* are compared with the last element of the same value.
ImmutableContracts ==
  \A def \in Definitions : \A a \in DOMAIN def :
    /\ "primary" \notin having(def[a].sub, "immutable")
    /\ a \in having(def, "immutable") /\ def[a].multi => having(def[a].sub, "immutable") = {}

\* The element of list with this value, if there is just one.
withValue(list, v) == {i \in DOMAIN list : hasValue(list[i], v)}

\* An object keeps its immutable members while it stays an object, and so does, in the
\* list of a multi-valued attribute, the one element with a value, wherever it moves.  An
\* extension's value may be stored as a list too, but that is neither validated nor
\* protected.
attributeKeeps(old, new, contract) ==
  /\ ~contract.multi /\ isObject(old) /\ isObject(new) =>
       keepsImmutable(old.object, new.object, contract.sub)
  /\ contract.multi /\ isList(old) /\ isList(new) =>
       \A v \in Values :
         LET was == withValue(old.list, v)  is == withValue(new.list, v) IN
         Cardinality(was) = 1 /\ Cardinality(is) = 1 =>
           \A i \in was, j \in is :
             keepsImmutable(old.list[i].object, new.list[j].object, contract.sub)

documentKeeps(def, old, new) ==
  /\ keepsImmutable(old, new, def)
  /\ \A a \in DOMAIN old \cap DOMAIN new : attributeKeeps(old[a], new[a], def[a])

\* PUT and PATCH change no immutable attribute once it has a value, nor an immutable
\* sub-attribute while its parent stays (enforceAttributeMutability).
ImmutableChangesOnlyThroughAbsence ==
  [][stored # None => documentKeeps(definition, stored.object, stored'.object)]_vars
=============================================================================
