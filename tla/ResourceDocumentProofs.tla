----------------------- MODULE ResourceDocumentProofs -----------------------
(***************************************************************************)
(* Theorems about ResourceDocument and Projection, for every schema, every  *)
(* sequence of requests and documents of any size.                          *)
(***************************************************************************)
EXTENDS Projection, Induction, FiniteSetTheorems, TLAPS

\* A decoded document has these two parts.
Parts(doc) == DOMAIN doc = {"schemas", "object"}

\* No list among the attributes of an object has two primary elements.
OnePrimary(object) ==
  \A a \in DOMAIN object : isList(object[a]) =>
    \A i, j \in DOMAIN object[a].list :
      isPrimary(object[a].list[i]) /\ isPrimary(object[a].list[j]) => i = j

\* The inductive invariant.
Inv ==
  /\ definition \in Definitions
  /\ stored # None => Parts(stored) /\ OnePrimary(stored.object)

-----------------------------------------------------------------------------

\* normalizePrimaryValues leaves one primary element in each list, the last one.
LEMMA NormalizedOnePrimary ==
  ASSUME NEW object
  PROVE  OnePrimary(normalizePrimaryValues(object))
<1> DEFINE demote(e) == IF isObject(e) /\ "primary" \in DOMAIN e.object
                        THEN Object(set(e.object, "primary", False)) ELSE e
           primaries(s) == {i \in DOMAIN s : isPrimary(s[i])}
           normalize(s) ==
             IF primaries(s) = {} THEN s
             ELSE [i \in DOMAIN s |-> IF i = Max(primaries(s)) THEN s[i] ELSE demote(s[i])]
           value(v) == IF isList(v) THEN List(normalize(v.list)) ELSE v
           normal == [a \in DOMAIN object |-> value(object[a])]
<1>1. normalizePrimaryValues(object) = normal
  BY DEF normalizePrimaryValues
<1>2. ASSUME NEW e PROVE ~isPrimary(demote(e))
  <2>1. CASE isObject(e) /\ "primary" \in DOMAIN e.object
    <3> DEFINE f == set(e.object, "primary", False)
    <3>1. f["primary"] = False
      BY DEF set
    <3> HIDE DEF f
    <3>2. Object(f).object = f
      BY DEF Object
    <3>3. demote(e) = Object(f)
      BY <2>1 DEF f
    <3> QED
      BY <3>1, <3>2, <3>3, DocumentAssumption DEF isPrimary
  <2>2. CASE ~(isObject(e) /\ "primary" \in DOMAIN e.object)
    BY <2>2 DEF isPrimary
  <2> QED
    BY <2>1, <2>2
<1> HIDE DEF demote
<1>3. ASSUME NEW s, NEW i \in DOMAIN normalize(s), NEW j \in DOMAIN normalize(s),
             isPrimary(normalize(s)[i]), isPrimary(normalize(s)[j])
      PROVE  i = j
  <2>1. CASE primaries(s) = {}
    BY <1>3, <2>1
  <2>2. CASE primaries(s) # {}
    <3> DEFINE last == Max(primaries(s))
    <3> HIDE DEF last
    <3>1. normalize(s) = [k \in DOMAIN s |-> IF k = last THEN s[k] ELSE demote(s[k])]
      BY <2>2 DEF last
    <3>2. i = last /\ j = last
      BY <1>2, <1>3, <3>1
    <3> QED
      BY <3>2
  <2> QED
    BY <2>1, <2>2
<1> HIDE DEF normalize
<1>4. ASSUME NEW a \in DOMAIN normal, isList(normal[a])
      PROVE  \E s : normal[a].list = normalize(s)
  <2>1. CASE isList(object[a])
    BY <2>1 DEF List
  <2>2. CASE ~isList(object[a])
    BY <1>4, <2>2
  <2> QED
    BY <2>1, <2>2
<1> HIDE DEF normal
<1>5. OnePrimary(normal)
  BY <1>3, <1>4 DEF OnePrimary
<1> QED
  BY <1>1, <1>5

\* canonicalExtensions moves values to other names and changes none.
LEMMA CanonicalOnePrimary ==
  ASSUME NEW doc, OnePrimary(doc.object)
  PROVE  OnePrimary(canonicalExtensions(doc))
<1> DEFINE variant(e) == {b \in DOMAIN doc.object : b # e /\ FoldName[b] = e}
           moved == {e \in doc.schemas : e \notin DOMAIN doc.object /\ variant(e) # {}}
           gone == UNION {variant(e) : e \in moved}
           names == (DOMAIN doc.object \ gone) \cup moved
           from(b) == IF b \in moved THEN CHOOSE k \in variant(b) : TRUE ELSE b
<1>1. \A b \in names : from(b) \in DOMAIN doc.object
  <2>1. ASSUME NEW b \in moved PROVE (CHOOSE k \in variant(b) : TRUE) \in variant(b)
    OBVIOUS
  <2> HIDE DEF variant, gone, moved
  <2>2. ASSUME NEW b \in moved PROVE from(b) \in DOMAIN doc.object
    BY <2>1, <2>2 DEF variant
  <2> QED
    BY <2>2
<1>2. canonicalExtensions(doc) = [b \in names |-> doc.object[from(b)]]
  BY DEF canonicalExtensions
<1> HIDE DEF names, from
<1> QED
  BY <1>1, <1>2 DEF OnePrimary

\* prepareResource returns an error, or a document whose lists have one primary
\* element at most.
LEMMA PreparedOnePrimary ==
  ASSUME NEW def, NEW doc, Parts(doc), ~failed(prepareResource(def, doc))
  PROVE  /\ Parts(prepareResource(def, doc))
         /\ OnePrimary(prepareResource(def, doc).object)
<1> DEFINE cleaned == normalizePrimaryValues(removeUnassigned(stripReadOnly(def, doc.object)))
           object == canonicalExtensions([doc EXCEPT !.object = cleaned])
<1>1. prepareResource(def, doc) = [doc EXCEPT !.object = object]
  <2>1. failed(Invalid)
    BY DEF failed, Invalid
  <2> QED
    BY <2>1 DEF prepareResource
<1>2. OnePrimary(cleaned)
  BY NormalizedOnePrimary
<1> HIDE DEF cleaned
<1>3. [doc EXCEPT !.object = cleaned].object = cleaned
  BY DEF Parts
<1>4. OnePrimary(object)
  BY <1>2, <1>3, CanonicalOnePrimary
<1> HIDE DEF object
<1> QED
  BY <1>1, <1>4 DEF Parts

\* Whatever PUT and PATCH ask for, what they store was prepared.
LEMMA ReplacementPrepared ==
  ASSUME NEW def, NEW current, NEW incoming, failed(incoming) \/ Parts(incoming),
         ~failed(replacement(def, current, incoming))
  PROVE  \E doc : Parts(doc) /\ replacement(def, current, incoming) = prepareResource(def, doc)
<1> DEFINE enforced == enforceReplacementMutability(def, current, incoming)
<1>1. ~failed(incoming) /\ Parts(incoming)
  BY DEF replacement
<1>2. ~failed(enforced) /\ replacement(def, current, incoming) = prepareResource(def, enforced)
  BY <1>1 DEF replacement
<1>3. \E o : enforced = [incoming EXCEPT !.object = o]
  <2>1. failed(Refused)
    BY DEF failed, Refused
  <2> QED
    BY <1>2, <2>1 DEF enforceReplacementMutability
<1>4. Parts(enforced)
  BY <1>1, <1>3 DEF Parts
<1> QED
  BY <1>2, <1>4

\* The operations of a PATCH give an error or a document.
LEMMA PatchedParts ==
  ASSUME NEW def, NEW current, NEW ops
  PROVE  LET doc == applyPatchDocument(def, current, ops) IN failed(doc) \/ Parts(doc)
<1>1. ASSUME NEW S, NEW o PROVE Parts([schemas |-> S, object |-> o])
  BY DEF Parts
<1> QED
  BY <1>1 DEF applyPatchDocument

\* Every request keeps the invariant.
LEMMA NextInv == Inv /\ [Next]_vars => Inv'
<1> SUFFICES ASSUME Inv, [Next]_vars PROVE Inv'
  OBVIOUS
<1>1. ASSUME NEW doc, Parts(doc), NEW code, conclude(prepareResource(definition, doc), code)
      PROVE  Inv'
  BY <1>1, PreparedOnePrimary DEF conclude, Inv
<1>2. ASSUME NEW doc, failed(doc) \/ Parts(doc), NEW code,
             conclude(replacement(definition, stored, doc), code)
      PROVE  Inv'
  <2>1. CASE failed(replacement(definition, stored, doc))
    BY <1>2, <2>1 DEF conclude, Inv
  <2>2. CASE ~failed(replacement(definition, stored, doc))
    BY <1>1, <1>2, <2>2, ReplacementPrepared
  <2> QED
    BY <2>1, <2>2
<1>3. CASE Post
  BY <1>1, <1>3, RequestAssumption DEF Post, Inv, Parts
<1>4. CASE Put
  BY <1>2, <1>4, RequestAssumption DEF Put, Inv, Parts
<1>5. CASE Patch
  BY <1>2, <1>5, PatchedParts DEF Patch
<1>6. CASE UNCHANGED vars
  BY <1>6 DEF vars, Inv
<1> QED
  BY <1>3, <1>4, <1>5, <1>6 DEF Next

-----------------------------------------------------------------------------
(* Lists and their loops *)

\* A list, as a sequence of whatever it holds.
IsSequence(s) == s \in Seq(Range(s))

LEMMA SequenceFacts ==
  ASSUME NEW s, IsSequence(s)
  PROVE  /\ Len(s) \in Nat /\ DOMAIN s = 1 .. Len(s)
         /\ s = [i \in 1 .. Len(s) |-> s[i]]
         /\ \A S : (\A i \in DOMAIN s : s[i] \in S) => s \in Seq(S)
  BY DEF IsSequence, Range

LEMMA MapIsSequence ==
  ASSUME NEW s, IsSequence(s), NEW f, DOMAIN f = DOMAIN s, f = [i \in DOMAIN f |-> f[i]]
  PROVE  IsSequence(f) /\ Len(f) = Len(s)
<1>1. Len(s) \in Nat /\ f = [i \in 1 .. Len(s) |-> f[i]]
  BY SequenceFacts
<1> QED
  BY <1>1, FunctionIsSequence DEF IsSequence, Range

LEMMA SequenceWithin ==
  ASSUME NEW S, NEW s \in Seq(S)
  PROVE  IsSequence(s)
  BY DEF IsSequence, Range

\* The loop of without, step by step.
LEMMA WithoutLoop ==
  ASSUME NEW s, NEW out, Len(s) \in Nat
  PROVE  \E kept : /\ kept[0] = <<>>
                   /\ \A n \in 1 .. Len(s) :
                        kept[n] = IF n \in out THEN kept[n - 1] ELSE Append(kept[n - 1], s[n])
                   /\ without(s, out) = kept[Len(s)]
<1> DEFINE step(p, n) == IF n \in out THEN p ELSE Append(p, s[n])
           Fits(f, m) == f = [n \in 0 .. m |-> IF n = 0 THEN <<>> ELSE step(f[n - 1], n)]
           Good == {m \in Nat : \E f : Fits(f, m)}
           loop == CHOOSE f : Fits(f, Len(s))
<1> HIDE DEF step
<1>1. 0 \in Good
  <2>1. Fits([n \in 0 .. 0 |-> <<>>], 0)
    OBVIOUS
  <2> QED
    BY <2>1
<1>2. ASSUME NEW m \in Nat, m \in Good PROVE m + 1 \in Good
  <2>1. PICK f : Fits(f, m)
    BY <1>2
  <2> DEFINE g == [n \in 0 .. m + 1 |-> IF n = m + 1 THEN step(f[m], n) ELSE f[n]]
  <2>2. \A n \in 0 .. m + 1 : g[n] = IF n = 0 THEN <<>> ELSE step(g[n - 1], n)
    BY <2>1
  <2>3. Fits(g, m + 1)
    BY <2>2
  <2> HIDE DEF g
  <2> QED
    BY <2>3
<1>3. \E f : Fits(f, Len(s))
  BY <1>1, <1>2, NatSetInduction
<1>4. Fits(loop, Len(s))
  BY <1>3
<1>5. without(s, out) = loop[Len(s)]
  BY DEF without, step
<1> HIDE DEF loop
<1>6. loop[0] = <<>> /\ \A n \in 1 .. Len(s) : loop[n] = step(loop[n - 1], n)
  BY <1>4
<1> QED
  BY <1>5, <1>6 DEF step

\* What is kept are elements that are not out.
LEMMA WithoutElements ==
  ASSUME NEW s, NEW out, IsSequence(s)
  PROVE  without(s, out) \in Seq({s[i] : i \in DOMAIN s \ out})
<1> DEFINE S == {s[i] : i \in DOMAIN s \ out}
<1>1. Len(s) \in Nat /\ DOMAIN s = 1 .. Len(s)
  BY SequenceFacts
<1>2. PICK kept : /\ kept[0] = <<>>
                  /\ \A n \in 1 .. Len(s) :
                       kept[n] = IF n \in out THEN kept[n - 1] ELSE Append(kept[n - 1], s[n])
                  /\ without(s, out) = kept[Len(s)]
  BY <1>1, WithoutLoop
<1> DEFINE Good == {n \in Nat : n <= Len(s) => kept[n] \in Seq(S)}
<1>3. 0 \in Good
  <2> HIDE DEF S
  <2>1. <<>> \in Seq(S)
    OBVIOUS
  <2> QED
    BY <1>2, <2>1
<1>4. ASSUME NEW n \in Nat, n \in Good PROVE n + 1 \in Good
  <2> SUFFICES ASSUME n + 1 <= Len(s) PROVE kept[n + 1] \in Seq(S)
    OBVIOUS
  <2>1. n + 1 \in 1 .. Len(s) /\ (n + 1) - 1 = n /\ kept[n] \in Seq(S)
    BY <1>1, <1>4
  <2>2. kept[n + 1] = IF n + 1 \in out THEN kept[n] ELSE Append(kept[n], s[n + 1])
    BY <1>2, <2>1
  <2>3. n + 1 \notin out => s[n + 1] \in S
    BY <1>1, <2>1
  <2> HIDE DEF S
  <2> QED
    BY <2>1, <2>2, <2>3
<1> HIDE DEF S
<1>5. Len(s) \in Good
  BY <1>1, <1>3, <1>4, NatSetInduction
<1>6. kept[Len(s)] \in Seq(S)
  BY <1>1, <1>5
<1> QED
  BY <1>2, <1>6 DEF S

\* With nothing to leave out, the list stays as it is.
LEMMA WithoutNothing ==
  ASSUME NEW s, NEW out, IsSequence(s), DOMAIN s \cap out = {}
  PROVE  without(s, out) = s
<1>1. Len(s) \in Nat /\ DOMAIN s = 1 .. Len(s)
  BY SequenceFacts
<1>2. PICK kept : /\ kept[0] = <<>>
                  /\ \A n \in 1 .. Len(s) :
                       kept[n] = IF n \in out THEN kept[n - 1] ELSE Append(kept[n - 1], s[n])
                  /\ without(s, out) = kept[Len(s)]
  BY <1>1, WithoutLoop
<1> DEFINE Good == {n \in Nat : n <= Len(s) => kept[n] = [i \in 1 .. n |-> s[i]]}
<1>3. 0 \in Good
  <2>1. [i \in 1 .. 0 |-> s[i]] = <<>>
    OBVIOUS
  <2> QED
    BY <1>2, <2>1
<1>4. ASSUME NEW n \in Nat, n \in Good PROVE n + 1 \in Good
  <2> SUFFICES ASSUME n + 1 <= Len(s) PROVE kept[n + 1] = [i \in 1 .. n + 1 |-> s[i]]
    OBVIOUS
  <2>1. n + 1 \in 1 .. Len(s) /\ (n + 1) - 1 = n /\ kept[n] = [i \in 1 .. n |-> s[i]]
    BY <1>1, <1>4
  <2>2. kept[n + 1] = Append([i \in 1 .. n |-> s[i]], s[n + 1])
    BY <1>1, <1>2, <2>1
  <2> QED
    BY <2>2
<1>5. Len(s) \in Good
  BY <1>1, <1>3, <1>4, NatSetInduction
<1>6. kept[Len(s)] = s
  BY <1>1, <1>5, SequenceFacts
<1> QED
  BY <1>2, <1>6

-----------------------------------------------------------------------------
(* What prepareResource makes of one value *)

\* Null and the simple values are neither objects nor lists.
AtomicValues == \A f : Object(f) \notin Simple /\ List(f) \notin Simple

\* The steps of prepareResource, on the value of one attribute.
stripValue(v, R) == overObjects(v, LAMBDA o : drop(o, R))

dropNulls(v) == overObjects(v, LAMBDA o : drop(o, {a \in DOMAIN o : o[a] = Null}))

demoted(e) ==
  IF isObject(e) /\ "primary" \in DOMAIN e.object
  THEN Object(set(e.object, "primary", False)) ELSE e

primariesOf(s) == {i \in DOMAIN s : isPrimary(s[i])}

normalList(s) ==
  IF primariesOf(s) = {} THEN s
  ELSE [i \in DOMAIN s |-> IF i = Max(primariesOf(s)) THEN s[i] ELSE demoted(s[i])]

normalValue(v) == IF isList(v) THEN List(normalList(v.list)) ELSE v

\* A map from names to values, as decoded objects are.
IsMap(f) == f = [b \in DOMAIN f |-> f[b]]

\* An object without the names in R; without nulls, too; a value made of such objects.
StrippedObject(e, R) ==
  /\ e = Object(e.object)
  /\ IsMap(e.object)
  /\ DOMAIN e.object \cap R = {}

AssignedObject(e, R) == StrippedObject(e, R) /\ \A b \in DOMAIN e.object : e.object[b] # Null

Stripped(v, R) ==
  /\ isObject(v) => StrippedObject(v, R)
  /\ isList(v) => /\ v = List(v.list) /\ IsSequence(v.list)
                  /\ \A i \in DOMAIN v.list : isObject(v.list[i]) => StrippedObject(v.list[i], R)

Assigned(v, R) ==
  /\ isObject(v) => AssignedObject(v, R)
  /\ isList(v) => /\ v = List(v.list) /\ IsSequence(v.list)
                  /\ \A i \in DOMAIN v.list :
                       v.list[i] # Null /\ (isObject(v.list[i]) => AssignedObject(v.list[i], R))

\* Beside a primary element, the others say that they are not.
PrimaryDecided(v) ==
  isList(v) => \A i, j \in DOMAIN v.list :
    isPrimary(v.list[i]) /\ i # j /\ isObject(v.list[j]) /\ "primary" \in DOMAIN v.list[j].object
      => v.list[j].object.primary = False

\* What the steps leave of a value: they leave it alone when they meet it again.
Tidy(v, R) ==
  /\ v \notin {Null, List(<<>>)}
  /\ Assigned(v, R)
  /\ PrimaryDecided(v)

LEMMA Shapes ==
  ASSUME AtomicValues, NEW f
  PROVE  /\ isObject(Object(f)) /\ ~isList(Object(f)) /\ Object(f).object = f
         /\ isList(List(f)) /\ ~isObject(List(f)) /\ List(f).list = f
         /\ Object(f) # Null /\ List(f) # Null
<1>1. Object(f) \notin Simple /\ List(f) \notin Simple
  BY DEF AtomicValues
<1>2. DOMAIN Object(f) = {"object"} /\ DOMAIN List(f) = {"list"}
  BY DEF Object, List
<1>3. Object(f).object = f /\ List(f).list = f
  BY DEF Object, List
<1> QED
  BY <1>1, <1>2, <1>3 DEF isObject, isList, Simple

LEMMA ObjectOf ==
  ASSUME AtomicValues, NEW f, NEW R, IsMap(f), DOMAIN f \cap R = {}
  PROVE  StrippedObject(Object(f), R)
<1>1. Object(f).object = f
  BY Shapes
<1>2. Object(f) = Object(Object(f).object)
  BY <1>1
<1>3. IsMap(Object(f).object)
  BY <1>1
<1> QED
  BY <1>1, <1>2, <1>3 DEF StrippedObject

LEMMA DropNothing ==
  ASSUME NEW f, IsMap(f), NEW A, DOMAIN f \cap A = {}
  PROVE  drop(f, A) = f
<1>1. DOMAIN f \ A = DOMAIN f
  OBVIOUS
<1> QED
  BY <1>1 DEF drop, IsMap

\* stripReadOnly's part.
LEMMA StripValue ==
  ASSUME AtomicValues, NEW v, NEW R, isList(v) => IsSequence(v.list)
  PROVE  Stripped(stripValue(v, R), R)
<1>1. ASSUME NEW o PROVE StrippedObject(Object(drop(o, R)), R)
  <2> DEFINE f == drop(o, R)
  <2>1. DOMAIN f = DOMAIN o \ R /\ IsMap(f)
    BY DEF drop, IsMap
  <2> HIDE DEF f
  <2>2. DOMAIN f \cap R = {}
    BY <2>1
  <2>3. StrippedObject(Object(f), R)
    BY <2>1, <2>2, ObjectOf
  <2> QED
    BY <2>3 DEF f
<1>2. CASE isObject(v)
  <2>1. stripValue(v, R) = Object(drop(v.object, R))
    BY <1>2 DEF stripValue, overObjects
  <2> QED
    BY <1>1, <2>1, Shapes DEF Stripped
<1>3. CASE ~isObject(v) /\ isList(v)
  <2> DEFINE s == [i \in DOMAIN v.list |->
                     IF isObject(v.list[i]) THEN Object(drop(v.list[i].object, R)) ELSE v.list[i]]
  <2>1. stripValue(v, R) = List(s)
    BY <1>3 DEF stripValue, overObjects
  <2>2. IsSequence(s)
    BY <1>3, MapIsSequence
  <2>3. ASSUME NEW i \in DOMAIN s, isObject(s[i]) PROVE StrippedObject(s[i], R)
    BY <1>1, <2>3
  <2> HIDE DEF s
  <2> QED
    BY <2>1, <2>2, <2>3, Shapes DEF Stripped
<1>4. CASE ~isObject(v) /\ ~isList(v)
  <2>1. stripValue(v, R) = v
    BY <1>4 DEF stripValue, overObjects
  <2> QED
    BY <1>4, <2>1 DEF Stripped
<1> QED
  BY <1>2, <1>3, <1>4

\* removeUnassigned's part.
LEMMA AssignValue ==
  ASSUME AtomicValues, NEW v, NEW R, Stripped(v, R)
  PROVE  Assigned(assigned(v), R)
<1> DEFINE full(o) == drop(o, {a \in DOMAIN o : o[a] = Null})
<1>1. ASSUME NEW e, StrippedObject(e, R) PROVE AssignedObject(Object(full(e.object)), R)
  <2> DEFINE f == full(e.object)
  <2>1. /\ IsMap(f)
        /\ DOMAIN f \subseteq DOMAIN e.object
        /\ \A b \in DOMAIN f : f[b] # Null
    BY DEF drop, IsMap
  <2>2. Object(f).object = f
    BY Shapes
  <2> HIDE DEF f
  <2>3. DOMAIN f \cap R = {}
    BY <1>1, <2>1 DEF StrippedObject
  <2>4. StrippedObject(Object(f), R)
    BY <2>1, <2>3, ObjectOf
  <2>5. AssignedObject(Object(f), R)
    BY <2>1, <2>2, <2>4 DEF AssignedObject
  <2> QED
    BY <2>5 DEF f
<1>2. CASE isObject(v)
  <2>1. dropNulls(v) = Object(full(v.object))
    BY <1>2 DEF dropNulls, overObjects
  <2>2. assigned(v) = Object(full(v.object))
    BY <2>1, Shapes DEF assigned, dropNulls
  <2>3. AssignedObject(Object(full(v.object)), R)
    BY <1>1, <1>2 DEF Stripped
  <2> HIDE DEF full
  <2> QED
    BY <2>2, <2>3, Shapes DEF Assigned
<1>3. CASE ~isObject(v) /\ isList(v)
  <2> DEFINE s == [i \in DOMAIN v.list |->
                     IF isObject(v.list[i]) THEN Object(full(v.list[i].object)) ELSE v.list[i]]
             out == {i \in DOMAIN s : s[i] = Null}
             kept == without(s, out)
  <2>1. dropNulls(v) = List(s)
    BY <1>3 DEF dropNulls, overObjects
  <2>2. assigned(v) = List(kept)
    BY <2>1, Shapes DEF assigned, dropNulls
  <2>3. IsSequence(s)
    BY <1>3, MapIsSequence DEF Stripped
  <2>4. ASSUME NEW i \in DOMAIN s, isObject(s[i]) PROVE AssignedObject(s[i], R)
    BY <1>1, <1>3, <2>4 DEF Stripped
  <2> HIDE DEF s, full
  <2>5. kept \in Seq({s[i] : i \in DOMAIN s \ out})
    BY <2>3, WithoutElements
  <2>6. ASSUME NEW i \in DOMAIN kept PROVE \E j \in DOMAIN s \ out : kept[i] = s[j]
    <3>1. kept[i] \in {s[j] : j \in DOMAIN s \ out}
      <4> HIDE DEF kept, out
      <4> QED
        BY <2>5
    <3> QED
      BY <3>1
  <2>7. IsSequence(kept)
    BY <2>5, SequenceWithin
  <2>8. ASSUME NEW i \in DOMAIN kept
        PROVE  kept[i] # Null /\ (isObject(kept[i]) => AssignedObject(kept[i], R))
    BY <2>4, <2>6
  <2> HIDE DEF kept
  <2> QED
    BY <2>2, <2>7, <2>8, Shapes DEF Assigned
<1>4. CASE ~isObject(v) /\ ~isList(v)
  <2>1. dropNulls(v) = v
    BY <1>4 DEF dropNulls, overObjects
  <2>2. assigned(v) = v
    BY <1>4, <2>1 DEF assigned, dropNulls
  <2> QED
    BY <1>4, <2>2 DEF Assigned
<1> QED
  BY <1>2, <1>3, <1>4

\* A demoted element says that it is not primary, and keeps the rest.
LEMMA DemoteElement ==
  ASSUME AtomicValues, NEW e, NEW R, e # Null, isObject(e) => AssignedObject(e, R)
  PROVE  /\ demoted(e) # Null
         /\ isObject(demoted(e)) => AssignedObject(demoted(e), R)
         /\ ~isPrimary(demoted(e))
         /\ isObject(demoted(e)) /\ "primary" \in DOMAIN demoted(e).object
              => demoted(e).object.primary = False
<1>1. CASE isObject(e) /\ "primary" \in DOMAIN e.object
  <2> DEFINE f == set(e.object, "primary", False)
  <2>1. demoted(e) = Object(f)
    BY <1>1 DEF demoted
  <2>2. /\ DOMAIN f = DOMAIN e.object
        /\ IsMap(f)
        /\ f["primary"] = False
        /\ \A b \in DOMAIN f : f[b] = False \/ f[b] = e.object[b]
    BY <1>1 DEF set, IsMap
  <2>3. Object(f) # Null /\ Object(f).object = f
    BY Shapes
  <2> HIDE DEF f
  <2>4. AssignedObject(Object(f), R)
    BY <1>1, <2>2, <2>3, DocumentAssumption DEF AssignedObject, StrippedObject
  <2> QED
    BY <2>1, <2>2, <2>3, <2>4, DocumentAssumption DEF isPrimary
<1>2. CASE ~(isObject(e) /\ "primary" \in DOMAIN e.object)
  <2>1. demoted(e) = e
    BY <1>2 DEF demoted
  <2> QED
    BY <1>2, <2>1 DEF isPrimary
<1> QED
  BY <1>1, <1>2

\* normalizePrimaryValues' part, after which the value is tidy.
LEMMA NormalizeValue ==
  ASSUME AtomicValues, NEW v, NEW R, Assigned(v, R), v \notin {Null, List(<<>>)}
  PROVE  Tidy(normalValue(v), R)
<1>1. CASE ~isList(v)
  BY <1>1 DEF normalValue, Tidy, PrimaryDecided
<1>2. CASE isList(v)
  <2> DEFINE s == v.list
             n == normalList(s)
  <2>1. normalValue(v) = List(n) /\ v = List(s) /\ IsSequence(s)
    BY <1>2 DEF normalValue, Assigned
  <2>2. \A i \in DOMAIN s : s[i] # Null /\ (isObject(s[i]) => AssignedObject(s[i], R))
    BY <1>2 DEF Assigned
  <2> HIDE DEF s
  <2>3. n # <<>> /\ IsSequence(n)
    <3>1. CASE primariesOf(s) = {}
      BY <2>1, <3>1 DEF normalList
    <3>2. CASE primariesOf(s) # {}
      <4>1. DOMAIN n = DOMAIN s /\ n = [i \in DOMAIN n |-> n[i]]
        BY <3>2 DEF normalList
      <4>2. DOMAIN s # {}
        BY <3>2 DEF primariesOf
      <4> HIDE DEF n
      <4>3. IsSequence(n)
        BY <2>1, <4>1, MapIsSequence
      <4> QED
        BY <4>1, <4>2, <4>3
    <3> QED
      BY <3>1, <3>2
  <2>4. /\ \A i \in DOMAIN n : n[i] # Null /\ (isObject(n[i]) => AssignedObject(n[i], R))
        /\ \A i, j \in DOMAIN n :
             isPrimary(n[i]) /\ i # j /\ isObject(n[j]) /\ "primary" \in DOMAIN n[j].object
               => n[j].object.primary = False
    <3>1. CASE primariesOf(s) = {}
      BY <2>2, <3>1 DEF normalList, primariesOf
    <3>2. CASE primariesOf(s) # {}
      <4> DEFINE last == Max(primariesOf(s))
      <4> HIDE DEF last
      <4>1. n = [i \in DOMAIN s |-> IF i = last THEN s[i] ELSE demoted(s[i])]
        BY <3>2 DEF normalList, last
      <4> HIDE DEF n
      <4>2. ASSUME NEW i \in DOMAIN n
            PROVE  /\ n[i] # Null
                   /\ isObject(n[i]) => AssignedObject(n[i], R)
                   /\ i # last => /\ ~isPrimary(n[i])
                                  /\ isObject(n[i]) /\ "primary" \in DOMAIN n[i].object
                                       => n[i].object.primary = False
        <5>1. CASE i = last
          BY <2>2, <4>1, <5>1
        <5>2. CASE i # last
          BY <2>2, <4>1, <5>2, DemoteElement
        <5> QED
          BY <5>1, <5>2
      <4> QED
        BY <4>2
    <3> QED
      BY <3>1, <3>2
  <2> HIDE DEF n
  <2>5. Assigned(List(n), R)
    BY <2>3, <2>4, Shapes DEF Assigned
  <2>6. PrimaryDecided(List(n))
    BY <2>4, Shapes DEF PrimaryDecided
  <2>7. List(n) \notin {Null, List(<<>>)}
    BY <2>3, Shapes
  <2> QED
    BY <2>1, <2>5, <2>6, <2>7 DEF Tidy
<1> QED
  BY <1>1, <1>2

\* The steps leave a tidy value alone.
LEMMA TidyStays ==
  ASSUME AtomicValues, NEW v, NEW R, Tidy(v, R)
  PROVE  stripValue(v, R) = v /\ assigned(v) = v /\ normalValue(v) = v
<1> DEFINE full(o) == drop(o, {a \in DOMAIN o : o[a] = Null})
<1>1. ASSUME NEW e, AssignedObject(e, R)
      PROVE  Object(drop(e.object, R)) = e /\ Object(full(e.object)) = e
  <2>1. drop(e.object, R) = e.object
    BY <1>1, DropNothing DEF AssignedObject, StrippedObject
  <2>2. full(e.object) = e.object
    BY <1>1, DropNothing DEF AssignedObject, StrippedObject
  <2> HIDE DEF full
  <2> QED
    BY <1>1, <2>1, <2>2 DEF AssignedObject, StrippedObject
<1>2. CASE isObject(v)
  <2>1. AssignedObject(v, R)
    BY <1>2 DEF Tidy, Assigned
  <2>2. stripValue(v, R) = v
    BY <1>1, <1>2, <2>1 DEF stripValue, overObjects
  <2>3. dropNulls(v) = v
    BY <1>1, <1>2, <2>1 DEF dropNulls, overObjects
  <2>4. ~isList(v)
    BY <2>1, Shapes DEF AssignedObject, StrippedObject
  <2>5. assigned(v) = v
    BY <2>3, <2>4 DEF assigned, dropNulls
  <2> QED
    BY <2>2, <2>4, <2>5 DEF normalValue
<1>3. CASE ~isObject(v) /\ isList(v)
  <2> DEFINE s == v.list
  <2>1. /\ v = List(s) /\ IsSequence(s)
        /\ \A i \in DOMAIN s : s[i] # Null /\ (isObject(s[i]) => AssignedObject(s[i], R))
    BY <1>3 DEF Tidy, Assigned
  <2>2. s = [i \in DOMAIN s |-> s[i]]
    BY <2>1, SequenceFacts
  <2>3. [i \in DOMAIN s |-> IF isObject(s[i]) THEN Object(drop(s[i].object, R)) ELSE s[i]] = s
    BY <1>1, <2>1, <2>2
  <2>4. [i \in DOMAIN s |-> IF isObject(s[i]) THEN Object(full(s[i].object)) ELSE s[i]] = s
    <3> HIDE DEF full
    <3> QED
      BY <1>1, <2>1, <2>2
  <2>5. stripValue(v, R) = v
    BY <1>3, <2>1, <2>3 DEF stripValue, overObjects
  <2>6. dropNulls(v) = v
    BY <1>3, <2>1, <2>4 DEF dropNulls, overObjects
  <2>7. without(s, {i \in DOMAIN s : s[i] = Null}) = s
    BY <2>1, WithoutNothing
  <2>8. assigned(v) = v
    BY <1>3, <2>1, <2>6, <2>7 DEF assigned, dropNulls
  <2>9. normalList(s) = s
    <3>1. CASE primariesOf(s) = {}
      BY <3>1 DEF normalList
    <3>2. CASE primariesOf(s) # {}
      <4> DEFINE last == Max(primariesOf(s))
      <4>1. last \in primariesOf(s)
        <5>1. PICK k \in primariesOf(s) : \A i \in primariesOf(s) : i = k
          BY <3>2, <1>3, DocumentAssumption DEF primariesOf, Tidy, PrimaryDecided, isPrimary
        <5>2. k \in Nat
          BY <2>1, SequenceFacts DEF primariesOf
        <5>3. k >= k
          BY <5>2
        <5> QED
          BY <5>1, <5>3 DEF Max
      <4> HIDE DEF last
      <4>2. ASSUME NEW i \in DOMAIN s, i # last PROVE demoted(s[i]) = s[i]
        <5>1. CASE isObject(s[i]) /\ "primary" \in DOMAIN s[i].object
          <6> DEFINE f == s[i].object
          <6>1. f["primary"] = False
            BY <1>3, <4>1, <4>2, <5>1 DEF primariesOf, Tidy, PrimaryDecided
          <6>2. IsMap(f) /\ s[i] = Object(f)
            BY <2>1, <5>1 DEF AssignedObject, StrippedObject
          <6>3. demoted(s[i]) = Object(set(f, "primary", False))
            BY <5>1 DEF demoted
          <6> HIDE DEF f
          <6>4. DOMAIN f \cup {"primary"} = DOMAIN f
            BY <5>1 DEF f
          <6>5. set(f, "primary", False) = f
            BY <6>1, <6>2, <6>4 DEF set, IsMap
          <6> QED
            BY <6>2, <6>3, <6>5
        <5>2. CASE ~(isObject(s[i]) /\ "primary" \in DOMAIN s[i].object)
          BY <5>2 DEF demoted
        <5> QED
          BY <5>1, <5>2
      <4>3. normalList(s) = [i \in DOMAIN s |-> IF i = last THEN s[i] ELSE demoted(s[i])]
        BY <3>2 DEF normalList, last
      <4> QED
        BY <2>2, <4>2, <4>3
    <3> QED
      BY <3>1, <3>2
  <2> QED
    BY <1>3, <2>1, <2>5, <2>8, <2>9 DEF normalValue
<1>4. CASE ~isObject(v) /\ ~isList(v)
  BY <1>4 DEF stripValue, assigned, overObjects, normalValue
<1> QED
  BY <1>2, <1>3, <1>4

-----------------------------------------------------------------------------
(* What prepareResource makes of a document *)

clean(def, object) == normalizePrimaryValues(removeUnassigned(stripReadOnly(def, object)))

\* An attribute's value once it is stripped and assigned, and the attributes that stay.
slot(def, object, a) ==
  assigned(IF a \notin DOMAIN def THEN object[a]
           ELSE stripValue(object[a], readOnlyParts(def, a, object[a])))

stays(def, object) ==
  {a \in DOMAIN object \ having(def, "readOnly") :
     slot(def, object, a) \notin {Null, List(<<>>)}}

\* An object that prepareResource has nothing to do with.
TidyDocument(def, object) ==
  /\ IsMap(object)
  /\ canonicalNames(object)
  /\ DOMAIN object \subseteq DOMAIN def
  /\ \A a \in DOMAIN object : /\ def[a].mutability # "readOnly"
                              /\ Tidy(object[a], readOnlyParts(def, a, object[a]))

\* An object, and the value of a multi-valued attribute, is stripped of what is read-only.
LEMMA PartsOf ==
  ASSUME NEW def \in Definitions, NEW a \in DOMAIN def, NEW v, isObject(v) \/ def[a].multi
  PROVE  readOnlyParts(def, a, v) = having(def[a].sub, "readOnly")
  BY DefinitionAssumption DEF readOnlyParts, extensions

\* Stripping, assigning and deciding on a primary element make an object of an object
\* and of nothing else.
LEMMA ObjectsStay ==
  ASSUME AtomicValues, NEW v, NEW R
  PROVE  isObject(normalValue(assigned(stripValue(v, R)))) <=> isObject(v)
<1>1. ASSUME NEW w PROVE isObject(stripValue(w, R)) <=> isObject(w)
  <2>1. CASE isObject(w)
    <3>1. \E f : stripValue(w, R) = Object(f)
      BY <2>1 DEF stripValue, overObjects
    <3> QED
      BY <2>1, <3>1, Shapes
  <2>2. CASE ~isObject(w) /\ isList(w)
    <3>1. \E f : stripValue(w, R) = List(f)
      BY <2>2 DEF stripValue, overObjects
    <3> QED
      BY <2>2, <3>1, Shapes
  <2>3. CASE ~isObject(w) /\ ~isList(w)
    BY <2>3 DEF stripValue, overObjects
  <2> QED
    BY <2>1, <2>2, <2>3
<1>2. ASSUME NEW w PROVE isObject(assigned(w)) <=> isObject(w)
  <2> DEFINE u == dropNulls(w)
  <2>1. assigned(w) = IF isList(u) THEN List(without(u.list, {i \in DOMAIN u.list : u.list[i] = Null}))
                      ELSE u
    BY DEF assigned, dropNulls
  <2>2. CASE isObject(w)
    <3>1. \E f : u = Object(f)
      BY <2>2 DEF dropNulls, overObjects
    <3> HIDE DEF u
    <3> QED
      BY <2>1, <2>2, <3>1, Shapes
  <2>3. CASE ~isObject(w) /\ isList(w)
    <3>1. \E f : u = List(f)
      BY <2>3 DEF dropNulls, overObjects
    <3> HIDE DEF u
    <3> QED
      BY <2>1, <2>3, <3>1, Shapes
  <2>4. CASE ~isObject(w) /\ ~isList(w)
    <3>1. u = w
      BY <2>4 DEF dropNulls, overObjects
    <3> HIDE DEF u
    <3> QED
      BY <2>1, <2>4, <3>1
  <2> QED
    BY <2>2, <2>3, <2>4
<1>3. ASSUME NEW w, isObject(w) => ~isList(w) PROVE isObject(normalValue(w)) <=> isObject(w)
  BY <1>3, Shapes DEF normalValue
<1>4. isObject(assigned(stripValue(v, R))) => ~isList(assigned(stripValue(v, R)))
  <2> DEFINE u == stripValue(v, R)
             w == dropNulls(u)
  <2>1. assigned(u) = IF isList(w) THEN List(without(w.list, {i \in DOMAIN w.list : w.list[i] = Null}))
                      ELSE w
    BY DEF assigned, dropNulls
  <2> HIDE DEF w
  <2> QED
    BY <2>1, Shapes
<1> QED
  BY <1>1, <1>2, <1>3, <1>4

\* The three steps work on each attribute by itself.
LEMMA CleanByAttribute ==
  ASSUME NEW def, NEW object
  PROVE  clean(def, object) =
           [a \in stays(def, object) |-> normalValue(slot(def, object, a))]
<1> DEFINE names == DOMAIN object \ having(def, "readOnly")
           stripped(a) == IF a \notin DOMAIN def THEN object[a]
                          ELSE stripValue(object[a], readOnlyParts(def, a, object[a]))
           one == [a \in names |-> stripped(a)]
           two == [a \in stays(def, object) |-> slot(def, object, a)]
<1>1. stripReadOnly(def, object) = one
  <2> DEFINE kept == drop(object, having(def, "readOnly"))
  <2>1. kept = [a \in names |-> object[a]]
    BY DEF drop
  <2>2. stripReadOnly(def, object) =
          [a \in DOMAIN kept |-> IF a \notin DOMAIN def THEN kept[a]
                                ELSE stripValue(kept[a], readOnlyParts(def, a, kept[a]))]
    BY DEF stripReadOnly, stripValue
  <2> HIDE DEF kept
  <2> QED
    BY <2>1, <2>2
<1>2. \A a \in names : slot(def, object, a) = assigned(stripped(a))
  BY DEF slot
<1> HIDE DEF stripped
<1>3. removeUnassigned(one) = two
  <2> DEFINE cleaned == [a \in names |-> assigned(stripped(a))]
             gone == {a \in names : cleaned[a] \in {Null, List(<<>>)}}
  <2>1. removeUnassigned(one) = drop(cleaned, gone)
    BY DEF removeUnassigned
  <2>2. names \ gone = stays(def, object)
    BY <1>2 DEF stays
  <2>3. drop(cleaned, gone) = [a \in names \ gone |-> cleaned[a]]
    BY DEF drop
  <2> QED
    BY <1>2, <2>1, <2>2, <2>3
<1> HIDE DEF one
<1>4. normalizePrimaryValues(two) = [a \in stays(def, object) |-> normalValue(slot(def, object, a))]
  BY DEF normalizePrimaryValues, normalValue, normalList, primariesOf, demoted
<1> QED
  BY <1>1, <1>3, <1>4 DEF clean

\* With canonical names no extension is spelled otherwise.
LEMMA ExtensionsStay ==
  ASSUME NEW doc, canonicalNames(doc.object), IsMap(doc.object)
  PROVE  canonicalExtensions(doc) = doc.object
<1> DEFINE variant(e) == {b \in DOMAIN doc.object : b # e /\ FoldName[b] = e}
           moved == {e \in doc.schemas : e \notin DOMAIN doc.object /\ variant(e) # {}}
           gone == UNION {variant(e) : e \in moved}
<1>1. moved = {}
  BY DEF canonicalNames
<1>2. gone = {}
  <2> HIDE DEF variant
  <2> QED
    BY <1>1
<1>3. (DOMAIN doc.object \ gone) \cup moved = DOMAIN doc.object
  <2> HIDE DEF moved, gone
  <2> QED
    BY <1>1, <1>2
<1>4. canonicalExtensions(doc) = [b \in DOMAIN doc.object |-> doc.object[b]]
  <2>1. canonicalExtensions(doc) =
          [b \in (DOMAIN doc.object \ gone) \cup moved |->
             IF b \in moved THEN doc.object[CHOOSE k \in variant(b) : TRUE] ELSE doc.object[b]]
    BY DEF canonicalExtensions
  <2> HIDE DEF variant, moved, gone
  <2> QED
    BY <1>1, <1>3, <2>1
<1> QED
  BY <1>4 DEF IsMap

LEMMA ValidBySchemas ==
  ASSUME NEW def, NEW doc, NEW other, other.schemas = doc.schemas, NEW object,
         validResource(def, doc, object)
  PROVE  validResource(def, other, object)
  BY DEF validResource

\* What prepareResource returns is tidy and valid.
LEMMA PreparedTidy ==
  ASSUME AtomicValues, NEW def, NEW doc, Parts(doc),
         canonicalNames(doc.object), sequences(doc.object),
         ~failed(prepareResource(def, doc))
  PROVE  LET result == prepareResource(def, doc) IN
         /\ Parts(result) /\ IsMap(result)
         /\ TidyDocument(def, result.object)
         /\ validResource(def, result, result.object)
         /\ DOMAIN result.object \subseteq DOMAIN doc.object
         /\ result.object = clean(def, doc.object)
<1> DEFINE cleaned == clean(def, doc.object)
           between == [doc EXCEPT !.object = cleaned]
           object == canonicalExtensions(between)
           result == [doc EXCEPT !.object = object]
<1>1. prepareResource(def, doc) = result /\ validResource(def, doc, object)
  <2>1. failed(Invalid)
    BY DEF failed, Invalid
  <2> QED
    BY <2>1 DEF prepareResource, clean
<1>2. /\ IsMap(cleaned)
      /\ DOMAIN cleaned = stays(def, doc.object)
      /\ \A a \in DOMAIN cleaned : cleaned[a] = normalValue(slot(def, doc.object, a))
  BY CleanByAttribute DEF IsMap
<1> HIDE DEF cleaned
<1>3. between.object = cleaned
  BY DEF Parts
<1>4. canonicalNames(cleaned)
  BY <1>2 DEF canonicalNames, stays
<1> HIDE DEF between
<1>5. object = cleaned
  BY <1>2, <1>3, <1>4, ExtensionsStay
<1> HIDE DEF object
<1>6. Parts(result) /\ IsMap(result) /\ result.object = cleaned /\ result.schemas = doc.schemas
  BY <1>5 DEF Parts, IsMap
<1> HIDE DEF result
<1>7. validResource(def, result, cleaned)
  BY <1>1, <1>5, <1>6, ValidBySchemas
<1>8. ASSUME NEW a \in DOMAIN cleaned PROVE a \in DOMAIN def
  BY <1>1, <1>4, <1>5 DEF validResource, canonicalNames, extensions
<1>9. ASSUME NEW a \in DOMAIN cleaned
      PROVE  def[a].mutability # "readOnly" /\ Tidy(cleaned[a], readOnlyParts(def, a, cleaned[a]))
  <2> DEFINE R == readOnlyParts(def, a, doc.object[a])
             w == slot(def, doc.object, a)
  <2>1. a \in DOMAIN def /\ a \in DOMAIN doc.object /\ a \notin having(def, "readOnly")
    BY <1>2, <1>8 DEF stays
  <2>2. w \notin {Null, List(<<>>)}
    BY <1>2 DEF stays
  <2>3. w = assigned(stripValue(doc.object[a], R))
    BY <2>1 DEF slot
  <2> HIDE DEF w, R
  <2>4. Stripped(stripValue(doc.object[a], R), R)
    BY <2>1, StripValue DEF sequences, IsSequence
  <2>5. Assigned(w, R)
    BY <2>3, <2>4, AssignValue
  <2>6. Tidy(normalValue(w), R)
    BY <2>2, <2>5, NormalizeValue
  <2>7. cleaned[a] = normalValue(w)
    BY <1>2 DEF w
  <2>8. def[a].mutability # "readOnly"
    BY <2>1 DEF having
  <2>9. isObject(cleaned[a]) <=> isObject(doc.object[a])
    BY <2>3, <2>7, ObjectsStay
  <2>10. readOnlyParts(def, a, cleaned[a]) = R
    BY <2>9 DEF readOnlyParts, R
  <2> QED
    BY <2>6, <2>7, <2>8, <2>10
<1>10. TidyDocument(def, cleaned)
  BY <1>2, <1>4, <1>8, <1>9 DEF TidyDocument
<1>11. DOMAIN cleaned \subseteq DOMAIN doc.object
  BY <1>2 DEF stays
<1> QED
  BY <1>1, <1>6, <1>7, <1>10, <1>11 DEF cleaned

\* prepareResource returns a tidy and valid document as it is.
LEMMA TidyDocumentStays ==
  ASSUME AtomicValues, NEW def, NEW doc, Parts(doc), IsMap(doc),
         TidyDocument(def, doc.object), validResource(def, doc, doc.object)
  PROVE  prepareResource(def, doc) = doc
<1> DEFINE object == doc.object
<1>1. ASSUME NEW a \in DOMAIN object
      PROVE  slot(def, object, a) = object[a] /\ normalValue(object[a]) = object[a]
  <2>1. a \in DOMAIN def /\ Tidy(object[a], readOnlyParts(def, a, object[a]))
    BY DEF TidyDocument
  <2> QED
    BY <2>1, TidyStays DEF slot
<1>2. stays(def, object) = DOMAIN object
  <2>1. ASSUME NEW a \in DOMAIN object PROVE a \in stays(def, object)
    BY <1>1 DEF stays, TidyDocument, Tidy, having
  <2> QED
    BY <2>1 DEF stays
<1>3. clean(def, object) = object
  <2>1. clean(def, object) = [a \in DOMAIN object |-> object[a]]
    BY <1>1, <1>2, CleanByAttribute
  <2> QED
    BY <2>1 DEF TidyDocument, IsMap
<1>4. [doc EXCEPT !.object = object] = doc
  BY DEF Parts, IsMap
<1>5. canonicalExtensions(doc) = object
  BY ExtensionsStay DEF TidyDocument
<1>6. decodes(object)
  BY DEF decodes, TidyDocument, canonicalNames
<1> QED
  BY <1>3, <1>4, <1>5, <1>6 DEF prepareResource, clean

-----------------------------------------------------------------------------
(* What PUT and PATCH hand to prepareResource *)

\* An attribute has its canonical name and, if it has a list, a sequence.
Fit(a, v) == FoldName[a] = a /\ (isList(v) => IsSequence(v.list))

FitObject(object) == \A a \in DOMAIN object : Fit(a, object[a])

LEMMA FitParts ==
  ASSUME NEW object
  PROVE  FitObject(object) <=> canonicalNames(object) /\ sequences(object)
  BY DEF FitObject, Fit, canonicalNames, sequences, IsSequence

LEMMA FitSet ==
  ASSUME NEW object, NEW a, NEW v, FitObject(object), Fit(a, v)
  PROVE  FitObject(set(object, a, v)) /\ a \in DOMAIN set(object, a, v)
  BY DEF FitObject, set

LEMMA FitDrop ==
  ASSUME NEW object, NEW A, FitObject(object)
  PROVE  FitObject(drop(object, A))
  BY DEF FitObject, drop

\* Each value of an enforced object was in one of the two.
LEMMA ProtectedValues ==
  ASSUME NEW before, NEW after, NEW attributes,
         ~failed(keepProtected(before, after, attributes))
  PROVE  LET result == keepProtected(before, after, attributes) IN
         /\ IsMap(result)
         /\ \A a \in DOMAIN result : \/ a \in DOMAIN before /\ result[a] = before[a]
                                     \/ a \in DOMAIN after /\ result[a] = after[a]
<1>1. failed(Refused)
  BY DEF failed, Refused
<1> QED
  BY <1>1 DEF keepProtected, IsMap

\* A complex attribute's list keeps its length.
LEMMA ComplexFits ==
  ASSUME AtomicValues, NEW a, NEW before, NEW after, NEW contract, Fit(a, after),
         enforceComplex(before, after, contract) # Refused
  PROVE  Fit(a, enforceComplex(before, after, contract))
<1> DEFINE result == enforceComplex(before, after, contract)
<1>1. CASE isObject(after) /\ ~contract.multi
  <2>1. \E f : result = Object(f)
    BY <1>1 DEF enforceComplex
  <2> HIDE DEF result
  <2>2. ~isList(result)
    BY <2>1, Shapes
  <2> QED
    BY <2>2 DEF Fit, result
<1>2. CASE isList(after) /\ contract.multi
  <2>1. \E s : result = List(s) /\ DOMAIN s = DOMAIN after.list /\ s = [i \in DOMAIN s |-> s[i]]
    <3> DEFINE old == IF isList(before) THEN before.list ELSE <<>>
               element(i) == IF ~isObject(after.list[i]) THEN after.list[i]
                             ELSE LET kept == keepProtected(previous(old, after.list, i),
                                                            after.list[i].object, contract.sub)
                                  IN  IF failed(kept) THEN Refused ELSE Object(kept)
               new == [i \in DOMAIN after.list |-> element(i)]
    <3>1. result = IF \E i \in DOMAIN new : new[i] = Refused THEN Refused ELSE List(new)
      BY <1>2 DEF enforceComplex
    <3> HIDE DEF element, result
    <3>2. DOMAIN new = DOMAIN after.list /\ new = [i \in DOMAIN new |-> new[i]]
      OBVIOUS
    <3> HIDE DEF new
    <3>3. result = List(new)
      BY <3>1 DEF result
    <3> QED
      BY <3>2, <3>3
  <2> HIDE DEF result
  <2>2. PICK s : result = List(s) /\ DOMAIN s = DOMAIN after.list /\ s = [i \in DOMAIN s |-> s[i]]
    BY <2>1
  <2>3. IsSequence(s)
    BY <1>2, <2>2, MapIsSequence DEF Fit
  <2>4. result.list = s
    BY <2>2, Shapes
  <2> QED
    BY <2>3, <2>4 DEF Fit, result
<1>3. CASE /\ ~(isObject(after) /\ ~contract.multi)
           /\ ~(isList(after) /\ contract.multi)
  BY <1>3 DEF enforceComplex
<1> QED
  BY <1>1, <1>2, <1>3

\* What PUT and PATCH are allowed of the incoming document fits if both documents do.
LEMMA EnforcedFits ==
  ASSUME AtomicValues, NEW def, NEW current, NEW incoming, Parts(incoming),
         FitObject(current.object), FitObject(incoming.object),
         ~failed(enforceReplacementMutability(def, current, incoming))
  PROVE  LET enforced == enforceReplacementMutability(def, current, incoming) IN
         Parts(enforced) /\ FitObject(enforced.object)
<1> DEFINE top == keepProtected(current.object, incoming.object, def)
           old(a) == IF a \in DOMAIN current.object THEN current.object[a] ELSE Null
           descends(a) == /\ a \in DOMAIN def /\ a \in DOMAIN incoming.object
                          /\ def[a].type # "simple" /\ def[a].mutability # "readOnly"
           value(a) == IF descends(a) THEN enforceComplex(old(a), top[a], def[a]) ELSE top[a]
           result == [a \in DOMAIN top |-> value(a)]
<1>1. /\ ~failed(top)
      /\ \A a \in DOMAIN result : result[a] # Refused
      /\ enforceReplacementMutability(def, current, incoming) = [incoming EXCEPT !.object = result]
  <2>1. failed(Refused)
    BY DEF failed, Refused
  <2> QED
    BY <2>1 DEF enforceReplacementMutability
<1>2. FitObject(top)
  BY <1>1, ProtectedValues DEF FitObject
<1> HIDE DEF top
<1>3. ASSUME NEW a \in DOMAIN result PROVE Fit(a, result[a])
  <2>1. Fit(a, top[a])
    BY <1>2 DEF FitObject
  <2>2. CASE descends(a)
    <3>1. result[a] = enforceComplex(old(a), top[a], def[a]) /\ result[a] # Refused
      BY <1>1, <2>2
    <3> HIDE DEF result, old
    <3> QED
      BY <2>1, <3>1, ComplexFits
  <2>3. CASE ~descends(a)
    BY <2>1, <2>3
  <2> QED
    BY <2>2, <2>3
<1> HIDE DEF result
<1>4. Parts([incoming EXCEPT !.object = result]) /\ [incoming EXCEPT !.object = result].object = result
  BY DEF Parts
<1> QED
  BY <1>1, <1>3, <1>4 DEF FitObject

-----------------------------------------------------------------------------
(* PATCH *)

LEMMA Errors == failed(noTarget) /\ failed(invalidPath) /\ failed(Invalid) /\ failed(Refused)
  BY DEF failed, noTarget, invalidPath, Invalid, Refused

LEMMA AppendIsSequence ==
  ASSUME NEW s, NEW v, IsSequence(s)
  PROVE  IsSequence(Append(s, v))
<1> DEFINE S == Range(s) \cup {v}
<1>1. s \in Seq(S) /\ v \in S
  BY SequenceFacts DEF IsSequence, Range
<1> HIDE DEF S
<1>2. Append(s, v) \in Seq(S)
  BY <1>1
<1> QED
  BY <1>2, SequenceWithin

\* The loop of addValue over the elements that are sent.
LEMMA AppendAllLoop ==
  ASSUME NEW values, NEW added, Len(added) \in Nat
  PROVE  \E grown : /\ grown[0] = values
                    /\ \A n \in 1 .. Len(added) : grown[n] = appendNew(grown[n - 1], added[n])
                    /\ appendAll(values, added) = grown[Len(added)]
<1> DEFINE step(p, n) == appendNew(p, added[n])
           Fits(f, m) == f = [n \in 0 .. m |-> IF n = 0 THEN values ELSE step(f[n - 1], n)]
           Good == {m \in Nat : \E f : Fits(f, m)}
           loop == CHOOSE f : Fits(f, Len(added))
<1> HIDE DEF step
<1>1. 0 \in Good
  <2>1. Fits([n \in 0 .. 0 |-> values], 0)
    OBVIOUS
  <2> QED
    BY <2>1
<1>2. ASSUME NEW m \in Nat, m \in Good PROVE m + 1 \in Good
  <2>1. PICK f : Fits(f, m)
    BY <1>2
  <2> DEFINE g == [n \in 0 .. m + 1 |-> IF n = m + 1 THEN step(f[m], n) ELSE f[n]]
  <2>2. \A n \in 0 .. m + 1 : g[n] = IF n = 0 THEN values ELSE step(g[n - 1], n)
    BY <2>1
  <2>3. Fits(g, m + 1)
    BY <2>2
  <2> HIDE DEF g
  <2> QED
    BY <2>3
<1>3. \E f : Fits(f, Len(added))
  BY <1>1, <1>2, NatSetInduction
<1>4. Fits(loop, Len(added))
  BY <1>3
<1>5. appendAll(values, added) = loop[Len(added)]
  BY DEF appendAll, step
<1> HIDE DEF loop, Good
<1>6. loop[0] = values /\ \A n \in 1 .. Len(added) : loop[n] = step(loop[n - 1], n)
  BY <1>4
<1> QED
  BY <1>5, <1>6 DEF step

\* Appending keeps a list a sequence.
LEMMA AppendAllIsSequence ==
  ASSUME NEW values, NEW added, IsSequence(values), IsSequence(added)
  PROVE  IsSequence(appendAll(values, added))
<1>0. Len(added) \in Nat
  BY SequenceFacts
<1>1. PICK loop : /\ loop[0] = values
                  /\ \A n \in 1 .. Len(added) : loop[n] = appendNew(loop[n - 1], added[n])
                  /\ appendAll(values, added) = loop[Len(added)]
  BY <1>0, AppendAllLoop
<1> DEFINE Sequential == {n \in Nat : n <= Len(added) => IsSequence(loop[n])}
<1>7. 0 \in Sequential
  BY <1>1
<1>8. ASSUME NEW n \in Nat, n \in Sequential PROVE n + 1 \in Sequential
  <2> SUFFICES ASSUME n + 1 <= Len(added) PROVE IsSequence(loop[n + 1])
    OBVIOUS
  <2>1. n + 1 \in 1 .. Len(added) /\ (n + 1) - 1 = n /\ IsSequence(loop[n])
    BY <1>0, <1>8
  <2>2. loop[n + 1] = appendNew(loop[n], added[n + 1])
    BY <1>1, <2>1
  <2> QED
    BY <2>1, <2>2, AppendIsSequence DEF appendNew
<1>9. Len(added) \in Sequential
  BY <1>0, <1>7, <1>8, NatSetInduction
<1> QED
  BY <1>0, <1>1, <1>9

\* Nothing is appended that is there already.
LEMMA AppendNothing ==
  ASSUME NEW values, NEW added, IsSequence(added),
         \A i \in DOMAIN added : Contains(values, added[i])
  PROVE  appendAll(values, added) = values
<1>0. Len(added) \in Nat /\ DOMAIN added = 1 .. Len(added)
  BY SequenceFacts
<1>1. PICK loop : /\ loop[0] = values
                  /\ \A n \in 1 .. Len(added) : loop[n] = appendNew(loop[n - 1], added[n])
                  /\ appendAll(values, added) = loop[Len(added)]
  BY <1>0, AppendAllLoop
<1> DEFINE Same == {n \in Nat : n <= Len(added) => loop[n] = values}
<1>2. 0 \in Same
  BY <1>1
<1>3. ASSUME NEW n \in Nat, n \in Same PROVE n + 1 \in Same
  <2> SUFFICES ASSUME n + 1 <= Len(added) PROVE loop[n + 1] = values
    OBVIOUS
  <2>1. n + 1 \in 1 .. Len(added) /\ (n + 1) - 1 = n /\ loop[n] = values
    BY <1>0, <1>3
  <2>2. loop[n + 1] = appendNew(values, added[n + 1])
    BY <1>1, <2>1
  <2> QED
    BY <1>0, <2>1, <2>2 DEF appendNew
<1>4. Len(added) \in Same
  BY <1>0, <1>2, <1>3, NatSetInduction
<1> QED
  BY <1>0, <1>1, <1>4

LEMMA AddFits ==
  ASSUME AtomicValues, NEW object, NEW a, NEW v, FitObject(object), Fit(a, v)
  PROVE  FitObject(addValue(object, a, v)) /\ a \in DOMAIN addValue(object, a, v)
<1>1. CASE a \notin DOMAIN object \/ ~isList(object[a])
  <2>1. addValue(object, a, v) = set(object, a, v)
    BY <1>1 DEF addValue
  <2> QED
    BY <2>1, FitSet
<1>2. CASE a \in DOMAIN object /\ isList(object[a])
  <2>1. FoldName[a] = a /\ IsSequence(object[a].list)
    BY <1>2 DEF FitObject, Fit
  <2>2. PICK s : IsSequence(s) /\ addValue(object, a, v) = set(object, a, List(s))
    <3>1. CASE isList(v)
      <4>1. IsSequence(appendAll(object[a].list, v.list))
        BY <2>1, <3>1, AppendAllIsSequence DEF Fit
      <4> QED
        BY <1>2, <3>1, <4>1 DEF addValue
    <3>2. CASE ~isList(v)
      <4>1. IsSequence(appendNew(object[a].list, v))
        BY <2>1, AppendIsSequence DEF appendNew
      <4> QED
        BY <1>2, <3>2, <4>1 DEF addValue
    <3> QED
      BY <3>1, <3>2
  <2>3. Fit(a, List(s))
    BY <2>1, <2>2, Shapes DEF Fit
  <2> QED
    BY <2>2, <2>3, FitSet
<1> QED
  BY <1>1, <1>2

\* An operation as the decoder lets it through, under canonical names.
FitOperation(o) ==
  /\ o.op = "remove" => o.attr # None
  /\ o.op # "remove" => /\ isList(o.value) => IsSequence(o.value.list)
                        /\ isObject(o.value) => sequences(o.value.object)
  /\ o.attr = None /\ isObject(o.value) => canonicalNames(o.value.object)

LEMMA DirectFits ==
  ASSUME AtomicValues, NEW object, NEW o, FitObject(object), FitOperation(o),
         FoldName[o.attr] = o.attr, ~failed(applyDirectPatch(object, o))
  PROVE  FitObject(applyDirectPatch(object, o))
<1>1. ASSUME NEW f PROVE Fit(o.attr, Object(f))
  BY Shapes DEF Fit
<1>2. CASE o.sub = None
  <2>1. applyDirectPatch(object, o) = patchAttribute(object, o.attr, o.op, o.value)
    BY <1>2 DEF applyDirectPatch
  <2>2. CASE o.op = "add"
    <3>1. Fit(o.attr, o.value)
      BY <2>2 DEF FitOperation, Fit
    <3> QED
      BY <2>1, <2>2, <3>1, AddFits DEF patchAttribute
  <2>3. CASE o.op = "remove"
    BY <2>1, <2>3, FitDrop, Errors DEF patchAttribute
  <2>4. CASE o.op \notin {"add", "remove"}
    <3>1. Fit(o.attr, o.value)
      BY <2>4 DEF FitOperation, Fit
    <3> QED
      BY <2>1, <2>4, <3>1, FitSet, Errors DEF patchAttribute
  <2> QED
    BY <2>2, <2>3, <2>4
<1>3. CASE o.sub # None
  <2>1. \E f : applyDirectPatch(object, o) = set(object, o.attr, Object(f))
    BY <1>3, Errors DEF applyDirectPatch
  <2> QED
    BY <1>1, <2>1, FitSet
<1> QED
  BY <1>2, <1>3

LEMMA FilteredFits ==
  ASSUME AtomicValues, NEW def, NEW object, NEW o, FitObject(object),
         ~failed(applyFilteredPatch(def, object, o))
  PROVE  FitObject(applyFilteredPatch(def, object, o))
<1> DEFINE values == object[o.attr].list
           chosen == selected(values, o.filter)
           patched == [i \in chosen |-> patchElement(values[i], o)]
           result == applyFilteredPatch(def, object, o)
           element(i) == IF i \in chosen THEN Object(patched[i]) ELSE values[i]
<1>1. /\ o.attr \in DOMAIN object /\ isList(object[o.attr])
      /\ def[o.attr].multi /\ def[o.attr].type = "complex"
  BY Errors DEF applyFilteredPatch
<1>2. FoldName[o.attr] = o.attr /\ IsSequence(values)
  BY <1>1 DEF FitObject, Fit
<1>3. ASSUME NEW s, IsSequence(s) PROVE FitObject(set(object, o.attr, List(s)))
  <2>1. Fit(o.attr, List(s))
    BY <1>2, <1>3, Shapes DEF Fit
  <2> QED
    BY <2>1, FitSet
<1>4. \/ result = object
      \/ result = set(object, o.attr, List(without(values, chosen)))
      \/ /\ \E i \in chosen : failed(patched[i])
         /\ result = CHOOSE e \in {patched[i] : i \in chosen} : failed(e)
      \/ result = set(object, o.attr, List([i \in DOMAIN values |-> element(i)]))
  <2>1. result = IF chosen = {} THEN IF o.op = "remove" THEN object ELSE noTarget
                 ELSE IF o.op = "remove" /\ o.sub = None
                 THEN set(object, o.attr, List(without(values, chosen)))
                 ELSE IF \E i \in chosen : failed(patched[i])
                 THEN CHOOSE e \in {patched[i] : i \in chosen} : failed(e)
                 ELSE set(object, o.attr, List([i \in DOMAIN values |-> element(i)]))
    BY <1>1 DEF applyFilteredPatch
  <2>2. result # noTarget
    BY Errors
  <2> HIDE DEF result, chosen, patched, element, values
  <2> QED
    BY <2>1, <2>2
<1> HIDE DEF chosen, patched, element, values
<1>5. CASE result = set(object, o.attr, List(without(values, chosen)))
  <2>1. IsSequence(without(values, chosen))
    BY <1>2, WithoutElements, SequenceWithin
  <2> QED
    BY <1>3, <1>5, <2>1
<1>6. CASE /\ \E i \in chosen : failed(patched[i])
           /\ result = CHOOSE e \in {patched[i] : i \in chosen} : failed(e)
  <2>1. \E e \in {patched[i] : i \in chosen} : failed(e)
    BY <1>6
  <2>2. failed(CHOOSE e \in {patched[i] : i \in chosen} : failed(e))
    BY <2>1
  <2> QED
    BY <1>6, <2>2
<1>7. CASE result = set(object, o.attr, List([i \in DOMAIN values |-> element(i)]))
  <2>1. IsSequence([i \in DOMAIN values |-> element(i)])
    BY <1>2, MapIsSequence
  <2> QED
    BY <1>3, <1>7, <2>1
<1> QED
  BY <1>4, <1>5, <1>6, <1>7

LEMMA OperationFits ==
  ASSUME AtomicValues, NEW def, canonicalNames(def), NEW object, NEW o, FitObject(object),
         FitOperation(o), ~failed(applyPatchOperation(def, object, o))
  PROVE  FitObject(applyPatchOperation(def, object, o))
<1>1. CASE o.attr = None
  <2> DEFINE sent == o.value.object
             result == patchPathless(object, o)
  <2>1. isObject(o.value) /\ applyPatchOperation(def, object, o) = result
    BY <1>1, Errors DEF applyPatchOperation, patchPathless
  <2>2. FitObject(sent)
    BY <1>1, <2>1, FitParts DEF FitOperation
  <2>3. result = [a \in DOMAIN object \cup DOMAIN sent |->
                    IF a \notin DOMAIN sent THEN object[a]
                    ELSE IF o.op = "add" THEN addValue(object, a, sent[a])[a]
                    ELSE sent[a]]
    BY <2>1 DEF patchPathless
  <2> HIDE DEF result, sent
  <2>4. ASSUME NEW a \in DOMAIN sent PROVE Fit(a, addValue(object, a, sent[a])[a])
    <3>1. Fit(a, sent[a])
      BY <2>2 DEF FitObject
    <3>2. FitObject(addValue(object, a, sent[a])) /\ a \in DOMAIN addValue(object, a, sent[a])
      BY <3>1, AddFits
    <3> QED
      BY <3>2 DEF FitObject
  <2>5. ASSUME NEW a \in DOMAIN result PROVE Fit(a, result[a])
    <3>1. CASE a \notin DOMAIN sent
      BY <2>3, <3>1 DEF FitObject
    <3>2. CASE a \in DOMAIN sent
      BY <2>2, <2>3, <2>4, <3>2 DEF FitObject
    <3> QED
      BY <3>1, <3>2
  <2> QED
    BY <2>1, <2>5 DEF FitObject
<1>2. CASE o.attr # None
  <2>1. validPath(def, o)
    BY <1>2, Errors DEF applyPatchOperation
  <2>2. FoldName[o.attr] = o.attr
    BY <2>1 DEF validPath, canonicalNames
  <2>3. CASE o.filter = None
    <3>1. applyPatchOperation(def, object, o) = applyDirectPatch(object, o)
      BY <1>2, <2>1, <2>3 DEF applyPatchOperation
    <3> QED
      BY <2>2, <3>1, DirectFits
  <2>4. CASE o.filter # None
    <3>1. applyPatchOperation(def, object, o) = applyFilteredPatch(def, object, o)
      BY <1>2, <2>1, <2>4 DEF applyPatchOperation
    <3> QED
      BY <3>1, FilteredFits
  <2> QED
    BY <2>3, <2>4
<1> QED
  BY <1>1, <1>2

\* The operations of a PATCH, one after the other.
LEMMA PatchLoop ==
  ASSUME NEW def, NEW current, NEW ops, Len(ops) \in Nat
  PROVE  \E after :
           /\ after[0] = current.object
           /\ \A n \in 1 .. Len(ops) :
                after[n] = IF failed(after[n - 1]) THEN after[n - 1]
                           ELSE applyPatchOperation(def, after[n - 1], ops[n])
           /\ applyPatchDocument(def, current, ops) =
                LET object == after[Len(ops)] IN
                IF failed(object) THEN object
                ELSE [schemas |-> current.schemas \cup (extensions(def) \cap DOMAIN object),
                      object |-> object]
<1> DEFINE step(p, n) == IF failed(p) THEN p ELSE applyPatchOperation(def, p, ops[n])
           Fits(f, m) == f = [n \in 0 .. m |-> IF n = 0 THEN current.object ELSE step(f[n - 1], n)]
           Good == {m \in Nat : \E f : Fits(f, m)}
           loop == CHOOSE f : Fits(f, Len(ops))
           object == loop[Len(ops)]
           result == [schemas |-> current.schemas \cup (extensions(def) \cap DOMAIN object),
                      object |-> object]
<1> HIDE DEF step
<1>1. 0 \in Good
  <2>1. Fits([n \in 0 .. 0 |-> current.object], 0)
    OBVIOUS
  <2> QED
    BY <2>1
<1>2. ASSUME NEW m \in Nat, m \in Good PROVE m + 1 \in Good
  <2>1. PICK f : Fits(f, m)
    BY <1>2
  <2> DEFINE g == [n \in 0 .. m + 1 |-> IF n = m + 1 THEN step(f[m], n) ELSE f[n]]
  <2>2. \A n \in 0 .. m + 1 : g[n] = IF n = 0 THEN current.object ELSE step(g[n - 1], n)
    BY <2>1
  <2>3. Fits(g, m + 1)
    BY <2>2
  <2> HIDE DEF g
  <2> QED
    BY <2>3
<1>3. \E f : Fits(f, Len(ops))
  BY <1>1, <1>2, NatSetInduction
<1>4. Fits(loop, Len(ops))
  BY <1>3
<1>5. applyPatchDocument(def, current, ops) = IF failed(object) THEN object ELSE result
  BY DEF applyPatchDocument, step
<1> HIDE DEF loop, Good
<1>6. loop[0] = current.object /\ \A n \in 1 .. Len(ops) : loop[n] = step(loop[n - 1], n)
  BY <1>4
<1> QED
  BY <1>5, <1>6 DEF step

\* A PATCH keeps names and lists as they have to be.
LEMMA PatchedFits ==
  ASSUME AtomicValues, NEW def, canonicalNames(def), NEW current, FitObject(current.object),
         NEW ops, IsSequence(ops), \A n \in DOMAIN ops : FitOperation(ops[n]),
         ~failed(applyPatchDocument(def, current, ops))
  PROVE  FitObject(applyPatchDocument(def, current, ops).object)
<1>0. Len(ops) \in Nat /\ DOMAIN ops = 1 .. Len(ops)
  BY SequenceFacts
<1>1. PICK loop :
        /\ loop[0] = current.object
        /\ \A n \in 1 .. Len(ops) :
             loop[n] = IF failed(loop[n - 1]) THEN loop[n - 1]
                       ELSE applyPatchOperation(def, loop[n - 1], ops[n])
        /\ applyPatchDocument(def, current, ops) =
             LET object == loop[Len(ops)] IN
             IF failed(object) THEN object
             ELSE [schemas |-> current.schemas \cup (extensions(def) \cap DOMAIN object),
                   object |-> object]
  BY <1>0, PatchLoop
<1> DEFINE object == loop[Len(ops)]
           result == [schemas |-> current.schemas \cup (extensions(def) \cap DOMAIN object),
                      object |-> object]
<1> DEFINE Kept == {n \in Nat : n <= Len(ops) => failed(loop[n]) \/ FitObject(loop[n])}
<1>7. 0 \in Kept
  BY <1>1
<1>8. ASSUME NEW n \in Nat, n \in Kept PROVE n + 1 \in Kept
  <2> SUFFICES ASSUME n + 1 <= Len(ops) PROVE failed(loop[n + 1]) \/ FitObject(loop[n + 1])
    OBVIOUS
  <2>1. n + 1 \in 1 .. Len(ops) /\ (n + 1) - 1 = n /\ (failed(loop[n]) \/ FitObject(loop[n]))
    BY <1>0, <1>8
  <2>2. loop[n + 1] = IF failed(loop[n]) THEN loop[n] ELSE applyPatchOperation(def, loop[n], ops[n + 1])
    BY <1>1, <2>1
  <2>3. FitOperation(ops[n + 1])
    BY <1>0, <2>1
  <2> QED
    BY <2>1, <2>2, <2>3, OperationFits
<1>9. Len(ops) \in Kept
  BY <1>0, <1>7, <1>8, NatSetInduction
<1>10. ~failed(object) /\ applyPatchDocument(def, current, ops) = result
  BY <1>1
<1>11. FitObject(object)
  BY <1>0, <1>9, <1>10
<1> HIDE DEF object
<1> QED
  BY <1>10, <1>11

-----------------------------------------------------------------------------
(* The stored document *)

\* The invariant under canonical spelling: prepareResource is done with what is stored.
CanonicalInv ==
  /\ definition \in Definitions
  /\ stored # None => /\ Parts(stored) /\ IsMap(stored)
                      /\ TidyDocument(definition, stored.object)
                      /\ validResource(definition, stored, stored.object)

LEMMA StoredFits ==
  ASSUME NEW def, NEW object, TidyDocument(def, object)
  PROVE  FitObject(object)
  BY DEF TidyDocument, Tidy, Assigned, FitObject, Fit, canonicalNames

\* What a request leads to once its document has the right names and lists: an error or
\* the prepared form of a document that fits.
LEMMA ReplacementFits ==
  ASSUME AtomicValues, NEW def, NEW current, NEW incoming, FitObject(current.object),
         ~failed(incoming) => Parts(incoming) /\ FitObject(incoming.object),
         ~failed(replacement(def, current, incoming))
  PROVE  LET enforced == enforceReplacementMutability(def, current, incoming) IN
         /\ ~failed(incoming) /\ ~failed(enforced)
         /\ Parts(enforced) /\ FitObject(enforced.object)
         /\ replacement(def, current, incoming) = prepareResource(def, enforced)
<1> DEFINE enforced == enforceReplacementMutability(def, current, incoming)
<1>1. ~failed(incoming)
  BY DEF replacement
<1>2. ~failed(enforced) /\ replacement(def, current, incoming) = prepareResource(def, enforced)
  BY <1>1 DEF replacement
<1>3. Parts(enforced) /\ FitObject(enforced.object)
  BY <1>1, <1>2, EnforcedFits
<1> QED
  BY <1>1, <1>2, <1>3

\* The documents and operations that clients send.
LEMMA SentFits ==
  ASSUME CanonicalSpelling, NEW def \in Definitions
  PROVE  /\ canonicalNames(def)
         /\ \A doc \in SentDocuments(def) : Parts(doc) /\ FitObject(doc.object) /\ ~failed(doc)
         /\ \A ops \in SentPatches(def) :
              IsSequence(ops) /\ \A n \in DOMAIN ops : FitOperation(ops[n])
<1>1. canonicalNames(def)
  BY DEF CanonicalSpelling
<1>2. ASSUME NEW doc \in SentDocuments(def) PROVE Parts(doc) /\ FitObject(doc.object)
  BY FitParts, RequestAssumption DEF CanonicalSpelling, Parts
<1>3. ASSUME NEW doc, Parts(doc) PROVE ~failed(doc)
  BY <1>3 DEF Parts, failed
<1>4. ASSUME NEW ops \in SentPatches(def)
      PROVE  IsSequence(ops) /\ \A n \in DOMAIN ops : FitOperation(ops[n])
  <2>1. IsSequence(ops)
    BY RequestAssumption DEF IsSequence
  <2>2. ASSUME NEW n \in DOMAIN ops PROVE FitOperation(ops[n])
    BY RequestAssumption DEF CanonicalSpelling, FitOperation, IsSequence
  <2> QED
    BY <2>1, <2>2
<1> QED
  BY <1>1, <1>2, <1>3, <1>4

\* PUT and PATCH of a stored document hand documents that fit to replacement.
LEMMA IncomingFits ==
  ASSUME AtomicValues, CanonicalSpelling, CanonicalInv, stored # None
  PROVE  /\ FitObject(stored.object)
         /\ \A doc \in SentDocuments(definition) : Parts(doc) /\ FitObject(doc.object)
         /\ \A ops \in SentPatches(definition) :
              LET doc == applyPatchDocument(definition, stored, ops) IN
              ~failed(doc) => Parts(doc) /\ FitObject(doc.object)
<1>1. definition \in Definitions /\ FitObject(stored.object)
  BY StoredFits DEF CanonicalInv
<1>2. \A doc \in SentDocuments(definition) : Parts(doc) /\ FitObject(doc.object)
  BY <1>1, SentFits
<1>3. ASSUME NEW ops \in SentPatches(definition),
             ~failed(applyPatchDocument(definition, stored, ops))
      PROVE  /\ Parts(applyPatchDocument(definition, stored, ops))
             /\ FitObject(applyPatchDocument(definition, stored, ops).object)
  <2>1. /\ canonicalNames(definition) /\ IsSequence(ops)
        /\ \A n \in DOMAIN ops : FitOperation(ops[n])
    BY <1>1, SentFits
  <2> QED
    BY <1>1, <1>3, <2>1, PatchedFits, PatchedParts
<1> QED
  BY <1>1, <1>2, <1>3

\* Every request keeps the invariant.
LEMMA NextCanonicalInv ==
  ASSUME AtomicValues, CanonicalSpelling, CanonicalInv, [Next]_vars
  PROVE  CanonicalInv'
<1>1. ASSUME NEW doc, Parts(doc), FitObject(doc.object), NEW code,
             conclude(prepareResource(definition, doc), code)
      PROVE  CanonicalInv'
  <2>1. CASE failed(prepareResource(definition, doc))
    BY <1>1, <2>1 DEF conclude, CanonicalInv
  <2>2. CASE ~failed(prepareResource(definition, doc))
    <3> DEFINE result == prepareResource(definition, doc)
    <3>1. /\ Parts(result) /\ IsMap(result)
          /\ TidyDocument(definition, result.object)
          /\ validResource(definition, result, result.object)
      BY <1>1, <2>2, FitParts, PreparedTidy
    <3>2. stored' = result /\ definition' = definition
      BY <1>1, <2>2 DEF conclude
    <3> HIDE DEF result
    <3> QED
      BY <3>1, <3>2 DEF CanonicalInv
  <2> QED
    BY <2>1, <2>2
<1>2. ASSUME stored # None, NEW doc, ~failed(doc) => Parts(doc) /\ FitObject(doc.object), NEW code,
             conclude(replacement(definition, stored, doc), code)
      PROVE  CanonicalInv'
  <2>1. CASE failed(replacement(definition, stored, doc))
    BY <1>2, <2>1 DEF conclude, CanonicalInv
  <2>2. CASE ~failed(replacement(definition, stored, doc))
    <3> DEFINE enforced == enforceReplacementMutability(definition, stored, doc)
    <3>1. /\ Parts(enforced) /\ FitObject(enforced.object)
          /\ replacement(definition, stored, doc) = prepareResource(definition, enforced)
      BY <1>2, <2>2, IncomingFits, ReplacementFits
    <3> HIDE DEF enforced
    <3> QED
      BY <1>1, <1>2, <3>1
  <2> QED
    BY <2>1, <2>2
<1>3. CASE Post
  BY <1>1, <1>3, SentFits DEF Post, CanonicalInv
<1>4. CASE Put
  BY <1>2, <1>4, IncomingFits DEF Put
<1>5. CASE Patch
  BY <1>2, <1>5, IncomingFits DEF Patch
<1>6. CASE UNCHANGED vars
  BY <1>6 DEF vars, CanonicalInv
<1> QED
  BY <1>3, <1>4, <1>5, <1>6 DEF Next

-----------------------------------------------------------------------------
(* What becomes of the values of an enforced document, and with them of what may *)
(* not change.                                                                   *)

prepared(v, R) == normalValue(assigned(stripValue(v, R)))

\* f is what is left of the object e: the assigned names outside R.
LeftOf(f, e, R) ==
  /\ DOMAIN f = {b \in DOMAIN e \ R : e[b] # Null}
  /\ \A b \in DOMAIN f : f[b] = e[b]

LEMMA ObjectPrepared ==
  ASSUME AtomicValues, NEW v, NEW R, isObject(v)
  PROVE  \E f : prepared(v, R) = Object(f) /\ LeftOf(f, v.object, R)
<1> DEFINE one == drop(v.object, R)
           two == drop(one, {a \in DOMAIN one : one[a] = Null})
<1>1. stripValue(v, R) = Object(one)
  BY DEF stripValue, overObjects
<1>2. LeftOf(two, v.object, R)
  BY DEF LeftOf, drop
<1>3. dropNulls(Object(one)) = Object(two)
  <2> HIDE DEF one
  <2> QED
    BY Shapes DEF dropNulls, overObjects
<1> HIDE DEF one, two
<1>4. assigned(Object(one)) = Object(two)
  BY <1>3, Shapes DEF assigned, dropNulls
<1>5. prepared(v, R) = Object(two)
  BY <1>1, <1>4, Shapes DEF prepared, normalValue
<1> QED
  BY <1>2, <1>5

LEMMA OtherPrepared ==
  ASSUME NEW v, NEW R, ~isObject(v), ~isList(v)
  PROVE  prepared(v, R) = v
  BY DEF prepared, stripValue, assigned, overObjects, normalValue

\* The object e is what is left of one in the list, except that it may have lost the
\* primary mark.
LeftIn(e, list, R) ==
  \E k \in DOMAIN list :
    /\ isObject(list[k])
    /\ \E f : /\ LeftOf(f, list[k].object, R)
              /\ DOMAIN e.object = DOMAIN f
              /\ \A b \in DOMAIN f \ {"primary"} : e.object[b] = f[b]

\* Each object in a prepared list comes from one in the list.
LEMMA ListPrepared ==
  ASSUME AtomicValues, NEW v, NEW R, ~isObject(v), isList(v), IsSequence(v.list)
  PROVE  \E s : /\ prepared(v, R) = List(s)
                /\ \A j \in DOMAIN s : isObject(s[j]) => LeftIn(s[j], v.list, R)
<1> DEFINE full(o) == drop(o, {a \in DOMAIN o : o[a] = Null})
           one == [i \in DOMAIN v.list |->
                     IF isObject(v.list[i]) THEN Object(drop(v.list[i].object, R)) ELSE v.list[i]]
           two == [i \in DOMAIN one |->
                     IF isObject(one[i]) THEN Object(full(one[i].object)) ELSE one[i]]
           kept == without(two, {i \in DOMAIN two : two[i] = Null})
           s == normalList(kept)
           From(e, k) == /\ isObject(v.list[k])
                         /\ \E f : /\ LeftOf(f, v.list[k].object, R)
                                   /\ DOMAIN e.object = DOMAIN f
                                   /\ \A b \in DOMAIN f \ {"primary"} : e.object[b] = f[b]
<1>1. stripValue(v, R) = List(one)
  BY DEF stripValue, overObjects
<1>2. ASSUME NEW k \in DOMAIN two, isObject(two[k]) PROVE From(two[k], k)
  <2>1. k \in DOMAIN one /\ k \in DOMAIN v.list
    OBVIOUS
  <2>2. isObject(one[k])
    BY <1>2, <2>1
  <2>3. isObject(v.list[k])
    BY <2>1, <2>2
  <2> DEFINE e == v.list[k].object
             f == full(drop(e, R))
  <2>4. one[k] = Object(drop(e, R))
    BY <2>1, <2>3
  <2>5. two[k] = Object(full(one[k].object))
    <3> HIDE DEF one, full
    <3> QED
      BY <2>1, <2>2
  <2>6. two[k].object = f
    <3> HIDE DEF one, two, full
    <3> QED
      BY <2>4, <2>5, Shapes
  <2>7. LeftOf(f, e, R)
    BY DEF LeftOf, drop
  <2> HIDE DEF f, two, one, full
  <2>8. DOMAIN two[k].object = DOMAIN f /\ \A b \in DOMAIN f \ {"primary"} : two[k].object[b] = f[b]
    BY <2>6
  <2> QED
    BY <2>3, <2>7, <2>8
<1>3. dropNulls(List(one)) = List(two)
  <2> HIDE DEF one
  <2> QED
    BY Shapes DEF dropNulls, overObjects
<1>4. IsSequence(two) /\ DOMAIN two = DOMAIN v.list
  <2>1. IsSequence(one) /\ DOMAIN one = DOMAIN v.list
    BY MapIsSequence
  <2> HIDE DEF one, full
  <2> QED
    BY <2>1, MapIsSequence
<1> HIDE DEF one, two, From
<1>5. assigned(List(one)) = List(kept)
  BY <1>3, Shapes DEF assigned, dropNulls
<1>6. ASSUME NEW i \in DOMAIN kept PROVE \E k \in DOMAIN two : kept[i] = two[k]
  <2> DEFINE out == {k \in DOMAIN two : two[k] = Null}
  <2>1. kept \in Seq({two[k] : k \in DOMAIN two \ out})
    BY <1>4, WithoutElements
  <2> HIDE DEF kept, out
  <2>2. kept[i] \in {two[k] : k \in DOMAIN two \ out}
    BY <2>1
  <2> QED
    BY <2>2
<1> HIDE DEF kept
<1>7. prepared(v, R) = List(s)
  BY <1>1, <1>5, Shapes DEF prepared, normalValue
<1>8. ASSUME NEW j \in DOMAIN s, isObject(s[j]) PROVE \E k \in DOMAIN v.list : From(s[j], k)
  <2>1. j \in DOMAIN kept /\ (s[j] = kept[j] \/ s[j] = demoted(kept[j]))
    BY <1>8 DEF normalList
  <2> HIDE DEF s
  <2>2. PICK k \in DOMAIN two : kept[j] = two[k]
    BY <1>6, <2>1
  <2>3. isObject(kept[j])
    BY <1>8, <2>1 DEF demoted
  <2>4. From(kept[j], k)
    BY <1>2, <2>2, <2>3
  <2>5. CASE s[j] = kept[j]
    BY <1>4, <2>4, <2>5
  <2>6. CASE s[j] = demoted(kept[j]) /\ s[j] # kept[j]
    <3> DEFINE e == kept[j].object
               g == set(e, "primary", False)
    <3>1. "primary" \in DOMAIN e /\ s[j] = Object(g)
      BY <2>6 DEF demoted
    <3>2. DOMAIN g = DOMAIN e /\ \A b \in DOMAIN e \ {"primary"} : g[b] = e[b]
      BY <3>1 DEF set
    <3>3. s[j].object = g
      BY <3>1, Shapes
    <3> HIDE DEF g
    <3>4. From(s[j], k)
      BY <2>4, <3>2, <3>3 DEF From
    <3> QED
      BY <1>4, <3>4
  <2> QED
    BY <2>1, <2>5, <2>6
<1> HIDE DEF s
<1>9. \A j \in DOMAIN s : isObject(s[j]) => LeftIn(s[j], v.list, R)
  BY <1>8 DEF From, LeftIn
<1> QED
  BY <1>7, <1>9

\* Protected members stay, or the replacement is refused.
LEMMA ProtectedKeep ==
  ASSUME NEW before, NEW after, NEW attributes,
         ~failed(keepProtected(before, after, attributes))
  PROVE  keepsImmutable(before, keepProtected(before, after, attributes), attributes)
<1> DEFINE result == keepProtected(before, after, attributes)
<1>1. ASSUME NEW b \in having(attributes, "immutable") \cap DOMAIN before
      PROVE  b \in DOMAIN result /\ result[b] = before[b]
  <2>1. b \notin having(attributes, "readOnly")
    BY <1>1 DEF having
  <2> QED
    BY <1>1, <2>1, Errors DEF keepProtected
<1> QED
  BY <1>1 DEF keepsImmutable

\* Against itself, an object without read-only members stays as it is.
LEMMA ProtectedSame ==
  ASSUME NEW f, NEW attributes, IsMap(f), DOMAIN f \cap having(attributes, "readOnly") = {}
  PROVE  keepProtected(f, f, attributes) = f
<1> DEFINE immutable == having(attributes, "immutable")
           readOnly == having(attributes, "readOnly")
           kept == DOMAIN f \cap (readOnly \cup (immutable \ DOMAIN f))
<1>1. kept = {} /\ (DOMAIN f \ readOnly) \cup kept = DOMAIN f
  OBVIOUS
<1>2. keepProtected(f, f, attributes) =
        [a \in (DOMAIN f \ readOnly) \cup kept |-> IF a \in kept THEN f[a] ELSE f[a]]
  BY DEF keepProtected
<1> HIDE DEF kept, readOnly
<1> QED
  BY <1>1, <1>2 DEF IsMap

\* Without anything to protect, an object without read-only members stays as it is.
LEMMA ProtectedNothing ==
  ASSUME NEW before, NEW f, NEW attributes, IsMap(f), having(attributes, "immutable") = {},
         DOMAIN before \cap having(attributes, "readOnly") = {},
         DOMAIN f \cap having(attributes, "readOnly") = {}
  PROVE  keepProtected(before, f, attributes) = f
<1> DEFINE immutable == having(attributes, "immutable")
           readOnly == having(attributes, "readOnly")
           kept == DOMAIN before \cap (readOnly \cup (immutable \ DOMAIN f))
<1>1. kept = {} /\ (DOMAIN f \ readOnly) \cup kept = DOMAIN f
  OBVIOUS
<1>2. keepProtected(before, f, attributes) =
        [a \in (DOMAIN f \ readOnly) \cup kept |-> IF a \in kept THEN before[a] ELSE f[a]]
  BY DEF keepProtected
<1> HIDE DEF kept, readOnly
<1> QED
  BY <1>1, <1>2 DEF IsMap

\* A set of numbers up to n has a largest one.
LEMMA MaxOfSome ==
  ASSUME NEW n \in Nat, NEW S, S \subseteq 1 .. n, S # {}
  PROVE  Max(S) \in S
<1> DEFINE Good == {m \in Nat : \A T \in SUBSET (1 .. m) :
                                  T # {} => \E x \in T : \A y \in T : x >= y}
<1>1. 0 \in Good
  <2>1. 1 .. 0 = {}
    OBVIOUS
  <2> QED
    BY <2>1
<1>2. ASSUME NEW m \in Nat, m \in Good PROVE m + 1 \in Good
  <2> SUFFICES ASSUME NEW T \in SUBSET (1 .. m + 1), T # {}
               PROVE  \E x \in T : \A y \in T : x >= y
    OBVIOUS
  <2>1. CASE m + 1 \in T
    BY <2>1
  <2>2. CASE m + 1 \notin T
    <3>1. T \in SUBSET (1 .. m)
      BY <2>2
    <3> QED
      BY <1>2, <3>1
  <2> QED
    BY <2>1, <2>2
<1>3. n \in Good
  BY <1>1, <1>2, NatSetInduction
<1>4. \E x \in S : \A y \in S : x >= y
  BY <1>3
<1> QED
  BY <1>4 DEF Max

\* The element that a list's element is compared with is in the old list, or there is none.
LEMMA PreviousIsOld ==
  ASSUME NEW before, IsSequence(before), NEW after, NEW i
  PROVE  \/ \E j \in DOMAIN before : /\ isObject(before[j])
                                     /\ previous(before, after, i) = before[j].object
         \/ previous(before, after, i) = NoFields
<1> DEFINE same == {j \in DOMAIN before :
                      /\ "value" \in DOMAIN after[i].object
                      /\ after[i].object.value # Null
                      /\ hasValue(before[j], after[i].object.value)}
<1>1. CASE same # {}
  <2>1. Max(same) \in same
    BY <1>1, MaxOfSome, SequenceFacts
  <2>2. previous(before, after, i) = before[Max(same)].object
    BY <1>1 DEF previous
  <2> QED
    BY <2>1, <2>2 DEF hasValue
<1>2. CASE same = {}
  BY <1>2 DEF previous
<1> QED
  BY <1>1, <1>2

\* A tidy value, enforced against itself, stays as it is.
LEMMA ComplexSame ==
  ASSUME AtomicValues, NEW v, NEW contract, NEW R, Tidy(v, R),
         isObject(v) \/ contract.multi => R = having(contract.sub, "readOnly"),
         isList(v) /\ contract.multi => having(contract.sub, "immutable") = {}
  PROVE  enforceComplex(v, v, contract) = v \/ enforceComplex(v, v, contract) = Refused
<1> DEFINE sub == contract.sub
<1>1. CASE isObject(v) /\ ~contract.multi
  <2>1. v = Object(v.object) /\ IsMap(v.object) /\ DOMAIN v.object \cap R = {}
    BY <1>1 DEF Tidy, Assigned, AssignedObject, StrippedObject
  <2>2. keepProtected(v.object, v.object, sub) = v.object
    BY <1>1, <2>1, ProtectedSame
  <2> QED
    BY <1>1, <2>1, <2>2 DEF enforceComplex
<1>2. CASE isList(v) /\ contract.multi
  <2> DEFINE s == v.list
             element(i) == IF ~isObject(s[i]) THEN s[i]
                           ELSE LET result == keepProtected(previous(s, s, i), s[i].object, sub)
                                IN  IF failed(result) THEN Refused ELSE Object(result)
             new == [i \in DOMAIN s |-> element(i)]
  <2>1. v = List(s) /\ IsSequence(s)
    BY <1>2 DEF Tidy, Assigned
  <2>2. ASSUME NEW i \in DOMAIN s, isObject(s[i])
        PROVE  /\ s[i] = Object(s[i].object) /\ IsMap(s[i].object)
               /\ DOMAIN s[i].object \cap R = {}
    BY <1>2, <2>2 DEF Tidy, Assigned, AssignedObject, StrippedObject
  <2>3. enforceComplex(v, v, contract) = IF \E i \in DOMAIN new : new[i] = Refused THEN Refused
                                    ELSE List(new)
    BY <1>2 DEF enforceComplex
  <2>4. ASSUME NEW i \in DOMAIN s PROVE element(i) = s[i] \/ element(i) = Refused
    <3>1. CASE isObject(s[i])
      <4>1. DOMAIN previous(s, s, i) \cap R = {}
        <5>1. DOMAIN NoFields = {}
          BY DEF NoFields
        <5> HIDE DEF s
        <5> QED
          BY <2>1, <2>2, <5>1, PreviousIsOld
      <4>2. keepProtected(previous(s, s, i), s[i].object, sub) = s[i].object
        BY <1>2, <2>2, <3>1, <4>1, ProtectedNothing
      <4> QED
        BY <2>2, <3>1, <4>2
    <3>2. CASE ~isObject(s[i])
      BY <3>2
    <3> QED
      BY <3>1, <3>2
  <2> HIDE DEF element
  <2>5. (\A i \in DOMAIN new : new[i] # Refused) => new = s
    <3>1. s = [i \in DOMAIN s |-> s[i]]
      BY <2>1, SequenceFacts
    <3> HIDE DEF s
    <3> QED
      BY <2>4, <3>1
  <2> HIDE DEF new
  <2> QED
    BY <2>1, <2>3, <2>5
<1>3. CASE ~(isObject(v) /\ ~contract.multi) /\ ~(isList(v) /\ contract.multi)
  BY <1>3 DEF enforceComplex
<1> QED
  BY <1>1, <1>2, <1>3

\* What enforceReplacementMutability makes of an attribute of the current document.
LEMMA EnforcedValues ==
  ASSUME NEW def, NEW current, NEW incoming, Parts(incoming),
         ~failed(enforceReplacementMutability(def, current, incoming))
  PROVE  LET old == current.object
             new == enforceReplacementMutability(def, current, incoming).object
             complex(a, after) == /\ new[a] = enforceComplex(old[a], after, def[a])
                                  /\ new[a] # Refused
         IN  /\ \A a \in having(def, "immutable") \cap DOMAIN old :
                  a \in DOMAIN new /\ (new[a] = old[a] \/ complex(a, old[a]))
             /\ \A a \in DOMAIN old \cap DOMAIN new \cap DOMAIN def :
                  def[a].mutability # "readOnly" =>
                    \/ new[a] = old[a]
                    \/ def[a].type = "simple"
                    \/ \E after : complex(a, after)
<1> DEFINE top == keepProtected(current.object, incoming.object, def)
           old(a) == IF a \in DOMAIN current.object THEN current.object[a] ELSE Null
           descends(a) == /\ a \in DOMAIN def /\ a \in DOMAIN incoming.object
                          /\ def[a].type # "simple" /\ def[a].mutability # "readOnly"
           value(a) == IF descends(a) THEN enforceComplex(old(a), top[a], def[a]) ELSE top[a]
           result == [a \in DOMAIN top |-> value(a)]
           enforced == enforceReplacementMutability(def, current, incoming)
           complex(a, after) == /\ result[a] = enforceComplex(current.object[a], after, def[a])
                                /\ result[a] # Refused
<1>1. /\ ~failed(top)
      /\ \A a \in DOMAIN result : result[a] # Refused
      /\ enforced = [incoming EXCEPT !.object = result]
  BY Errors DEF enforceReplacementMutability
<1>2. keepsImmutable(current.object, top, def)
  BY <1>1, ProtectedKeep
<1>3. \A a \in DOMAIN top \ DOMAIN incoming.object : a \in DOMAIN current.object /\ top[a] = current.object[a]
  BY <1>1, ProtectedValues
<1> HIDE DEF top
<1>4. enforced.object = result
  BY <1>1 DEF Parts
<1>5. ASSUME NEW a \in having(def, "immutable") \cap DOMAIN current.object
      PROVE  a \in DOMAIN result /\ (result[a] = current.object[a] \/ complex(a, current.object[a]))
  BY <1>1, <1>2, <1>5 DEF keepsImmutable
<1>6. ASSUME NEW a \in DOMAIN current.object \cap DOMAIN result \cap DOMAIN def,
             def[a].mutability # "readOnly"
      PROVE  \/ result[a] = current.object[a]
             \/ def[a].type = "simple"
             \/ \E after : complex(a, after)
  <2>1. CASE a \notin DOMAIN incoming.object
    BY <1>3, <1>6, <2>1
  <2>2. CASE a \in DOMAIN incoming.object /\ def[a].type # "simple"
    <3>1. complex(a, top[a])
      BY <1>1, <1>6, <2>2
    <3> QED
      BY <3>1
  <2> QED
    BY <2>1, <2>2
<1> HIDE DEF result, enforced
<1> QED
  BY <1>4, <1>5, <1>6 DEF enforced

\* The immutable members of an object stay while it stays an object.
LEMMA ObjectKeeps ==
  ASSUME AtomicValues, NEW before, NEW after, NEW contract, ~contract.multi, isObject(before),
         enforceComplex(before, after, contract) # Refused,
         isObject(enforceComplex(before, after, contract))
  PROVE  keepsImmutable(before.object, enforceComplex(before, after, contract).object, contract.sub)
<1> DEFINE result == enforceComplex(before, after, contract)
<1>1. CASE isObject(after)
  <2> DEFINE kept == keepProtected(before.object, after.object, contract.sub)
  <2>1. ~failed(kept) /\ result = Object(kept)
    BY <1>1 DEF enforceComplex
  <2>2. keepsImmutable(before.object, kept, contract.sub)
    BY <2>1, ProtectedKeep
  <2> HIDE DEF kept, result
  <2>3. result.object = kept
    BY <2>1, Shapes
  <2> QED
    BY <2>2, <2>3 DEF result
<1>2. CASE ~isObject(after)
  BY <1>2 DEF enforceComplex
<1> QED
  BY <1>1, <1>2

\* So do those of the one element with a value, wherever it is in the new list.
LEMMA ElementKeeps ==
  ASSUME AtomicValues, NEW before, NEW after, NEW contract, contract.multi,
         isList(before), IsSequence(before.list),
         enforceComplex(before, after, contract) # Refused,
         NEW list, enforceComplex(before, after, contract) = List(list),
         NEW k \in DOMAIN list, NEW v, v # Null, hasValue(list[k], v),
         NEW i \in DOMAIN before.list, hasValue(before.list[i], v),
         \A j \in DOMAIN before.list : hasValue(before.list[j], v) => j = i
  PROVE  keepsImmutable(before.list[i].object, list[k].object, contract.sub)
<1> DEFINE old == before.list
           new == after.list
           p == previous(old, new, k)
           kept(j) == keepProtected(previous(old, new, j), new[j].object, contract.sub)
           element(j) == IF ~isObject(new[j]) THEN new[j]
                         ELSE IF failed(kept(j)) THEN Refused ELSE Object(kept(j))
           same == {j \in DOMAIN old : /\ "value" \in DOMAIN new[k].object
                                       /\ new[k].object.value # Null
                                       /\ hasValue(old[j], new[k].object.value)}
<1>1. isList(after)
  <2>1. CASE ~isList(after)
    <3>1. after = List(list)
      BY <2>1 DEF enforceComplex
    <3> QED
      BY <2>1, <3>1, Shapes
  <2> QED
    BY <2>1
<1>2. list = [j \in DOMAIN new |-> element(j)] /\ \A j \in DOMAIN list : list[j] # Refused
  <2> DEFINE elements == [j \in DOMAIN new |-> element(j)]
  <2>1. List(list) = IF \E j \in DOMAIN elements : elements[j] = Refused THEN Refused ELSE List(elements)
    BY <1>1 DEF enforceComplex
  <2> HIDE DEF element
  <2>2. List(list).list = list /\ List(elements).list = elements
    BY Shapes
  <2> HIDE DEF elements
  <2>3. list = elements /\ \A j \in DOMAIN elements : elements[j] # Refused
    BY <2>1, <2>2
  <2> QED
    BY <2>3 DEF elements
<1>3. k \in DOMAIN new /\ list[k] = element(k) /\ list[k] # Refused
  <2> HIDE DEF element
  <2> QED
    BY <1>2
<1>4. isObject(new[k]) /\ ~failed(kept(k)) /\ list[k] = Object(kept(k))
  <2>1. isObject(list[k])
    BY DEF hasValue
  <2> HIDE DEF kept
  <2> QED
    BY <1>3, <2>1
<1> DEFINE result == kept(k)
<1>5. list[k].object = result
  BY <1>4, Shapes
<1>6. "value" \in DOMAIN result /\ result["value"] = v
  BY <1>5 DEF hasValue
<1>7. \/ "value" \in DOMAIN p /\ p["value"] = v
      \/ "value" \in DOMAIN new[k].object /\ new[k].object["value"] = v
  BY <1>4, <1>6, ProtectedValues
<1>8. p = old[i].object
  <2>1. CASE same # {}
    <3>1. Max(same) \in same
      BY <2>1, MaxOfSome, SequenceFacts
    <3>2. p = old[Max(same)].object
      BY <2>1 DEF previous
    <3>3. p["value"] = new[k].object["value"] /\ hasValue(old[Max(same)], new[k].object["value"])
      BY <3>1, <3>2 DEF hasValue
    <3>4. new[k].object["value"] = v
      BY <1>7, <3>3
    <3>5. Max(same) = i
      BY <3>1, <3>3, <3>4
    <3> QED
      BY <3>2, <3>5
  <2>2. CASE same = {}
    <3>1. ~("value" \in DOMAIN new[k].object /\ new[k].object["value"] = v)
      BY <2>2
    <3>2. "value" \in DOMAIN p /\ p["value"] = v
      BY <1>7, <3>1
    <3>3. p = IF k \in DOMAIN old /\ isObject(old[k]) THEN old[k].object ELSE NoFields
      BY <2>2 DEF previous
    <3>4. DOMAIN NoFields = {}
      BY DEF NoFields
    <3> HIDE DEF p, old
    <3>5. k \in DOMAIN old /\ isObject(old[k]) /\ p = old[k].object
      BY <3>2, <3>3, <3>4
    <3>6. hasValue(old[k], v)
      BY <3>2, <3>5 DEF hasValue
    <3>7. k = i
      BY <3>5, <3>6 DEF old
    <3> QED
      BY <3>5, <3>7
  <2> QED
    BY <2>1, <2>2
<1>9. keepsImmutable(p, result, contract.sub)
  BY <1>4, ProtectedKeep
<1> HIDE DEF p, result, kept
<1> QED
  BY <1>5, <1>8, <1>9

\* prepareResource leaves the immutable members that were stored in an object.
LEMMA LeftKeeps ==
  ASSUME NEW f, NEW e, NEW sub, LeftOf(f, e, having(sub, "readOnly")),
         NEW old, \A b \in DOMAIN old : old[b] # Null, keepsImmutable(old, e, sub)
  PROVE  keepsImmutable(old, f, sub)
  BY DEF LeftOf, keepsImmutable, having

LEMMA OneWithValue ==
  ASSUME NEW list, IsSequence(list), NEW v, Cardinality(withValue(list, v)) = 1,
         NEW i \in withValue(list, v)
  PROVE  \A j \in DOMAIN list : hasValue(list[j], v) => j = i
<1>1. IsFiniteSet(1 .. Len(list)) /\ withValue(list, v) \subseteq 1 .. Len(list)
  <2>1. 1 \in Int /\ Len(list) \in Int /\ DOMAIN list = 1 .. Len(list)
    BY SequenceFacts
  <2> QED
    BY <2>1, FS_Interval DEF withValue
<1>2. IsFiniteSet(withValue(list, v))
  BY <1>1, FS_Subset
<1>3. \E x : withValue(list, v) = {x}
  BY <1>2, FS_Singleton
<1> QED
  BY <1>3 DEF withValue

LEMMA SameKeeps ==
  ASSUME NEW old, NEW contract, isList(old) => IsSequence(old.list)
  PROVE  attributeKeeps(old, old, contract)
<1>1. ASSUME NEW f PROVE keepsImmutable(f, f, contract.sub)
  BY DEF keepsImmutable
<1>2. ASSUME isList(old), NEW v \in Values, Cardinality(withValue(old.list, v)) = 1,
             NEW i \in withValue(old.list, v), NEW j \in withValue(old.list, v)
      PROVE  i = j
  BY <1>2, OneWithValue DEF withValue
<1> QED
  BY <1>1, <1>2 DEF attributeKeeps

LEMMA ComplexKeeps ==
  ASSUME AtomicValues, NEW old, NEW after, NEW contract, NEW S, Tidy(old, S),
         "primary" \notin having(contract.sub, "immutable"),
         NEW w, w = enforceComplex(old, after, contract), w # Refused,
         isList(w) => IsSequence(w.list),
         NEW R, isObject(w) \/ contract.multi => R = having(contract.sub, "readOnly")
  PROVE  attributeKeeps(old, prepared(w, R), contract)
<1> DEFINE sub == contract.sub
           new == prepared(w, R)
<1>1. CASE isObject(w)
  <2>1. PICK f : new = Object(f) /\ LeftOf(f, w.object, R)
    BY <1>1, ObjectPrepared
  <2>2. new.object = f /\ ~isList(new)
    BY <2>1, Shapes
  <2>3. ASSUME isObject(old), ~contract.multi PROVE keepsImmutable(old.object, new.object, sub)
    <3>1. keepsImmutable(old.object, w.object, sub)
      BY <1>1, <2>3, ObjectKeeps
    <3>2. \A b \in DOMAIN old.object : old.object[b] # Null
      BY <2>3 DEF Tidy, Assigned, AssignedObject
    <3> QED
      BY <1>1, <2>1, <2>2, <3>1, <3>2, LeftKeeps
  <2> HIDE DEF new
  <2> QED
    BY <2>2, <2>3 DEF attributeKeeps, new
<1>2. CASE ~isObject(w) /\ isList(w)
  <2>1. PICK s : /\ new = List(s)
                 /\ \A j \in DOMAIN s : isObject(s[j]) => LeftIn(s[j], w.list, R)
    <3>1. IsSequence(w.list)
      BY <1>2
    <3> QED
      BY <1>2, <3>1, ListPrepared
  <2>2. new.list = s /\ ~isObject(new)
    BY <2>1, Shapes
  <2>3. ASSUME isList(old), contract.multi, NEW v \in Values, Cardinality(withValue(old.list, v)) = 1,
               NEW i \in withValue(old.list, v), NEW j \in withValue(s, v)
        PROVE  keepsImmutable(old.list[i].object, s[j].object, sub)
    <3>1. /\ IsSequence(old.list) /\ i \in DOMAIN old.list
          /\ \A b \in DOMAIN old.list[i].object : old.list[i].object[b] # Null
      BY <2>3 DEF Tidy, Assigned, AssignedObject, withValue, hasValue
    <3>2. \A n \in DOMAIN old.list : hasValue(old.list[n], v) => n = i
      BY <2>3, <3>1, OneWithValue
    <3>3. j \in DOMAIN s /\ hasValue(s[j], v)
      BY <2>3 DEF withValue
    <3>4. PICK k \in DOMAIN w.list :
            /\ isObject(w.list[k])
            /\ \E f : /\ LeftOf(f, w.list[k].object, R)
                      /\ DOMAIN s[j].object = DOMAIN f
                      /\ \A b \in DOMAIN f \ {"primary"} : s[j].object[b] = f[b]
      BY <2>1, <3>3 DEF hasValue, LeftIn
    <3>5. PICK f : /\ LeftOf(f, w.list[k].object, R)
                   /\ DOMAIN s[j].object = DOMAIN f
                   /\ \A b \in DOMAIN f \ {"primary"} : s[j].object[b] = f[b]
      BY <3>4
    <3>6. hasValue(w.list[k], v)
      BY <3>3, <3>4, <3>5 DEF hasValue, LeftOf
    <3>7. w = List(w.list)
      <4>1. isList(after)
        BY <1>2, <2>3 DEF enforceComplex
      <4>2. \E list : w = List(list)
        BY <2>3, <4>1 DEF enforceComplex
      <4> QED
        BY <4>2, Shapes
    <3>8. v # Null
      BY DocumentAssumption
    <3>9. keepsImmutable(old.list[i].object, w.list[k].object, sub)
      <4>1. hasValue(old.list[i], v)
        BY <2>3 DEF withValue
      <4>2. enforceComplex(old, after, contract) = List(w.list) /\ enforceComplex(old, after, contract) # Refused
        BY <3>7
      <4> QED
        BY <2>3, <3>1, <3>2, <3>4, <3>6, <3>8, <4>1, <4>2, ElementKeeps
    <3>10. keepsImmutable(old.list[i].object, f, sub)
      BY <2>3, <3>1, <3>5, <3>9, LeftKeeps
    <3> QED
      BY <3>5, <3>10 DEF keepsImmutable
  <2> HIDE DEF new
  <2> QED
    BY <2>2, <2>3 DEF attributeKeeps, new
<1>3. CASE ~isObject(w) /\ ~isList(w)
  BY <1>3, OtherPrepared DEF attributeKeeps
<1> QED
  BY <1>1, <1>2, <1>3

\* A valid simple attribute has no objects.
LEMMA ValidShapes ==
  ASSUME AtomicValues, NEW def, NEW doc, NEW object, validResource(def, doc, object),
         NEW a \in DOMAIN object, a \in DOMAIN def, NEW R, Tidy(object[a], R)
  PROVE  def[a].type = "simple" =>
              /\ ~isObject(object[a])
              /\ isList(object[a]) => \A i \in DOMAIN object[a].list : ~isObject(object[a].list[i])
<1>1. isObject(object[a]) => ~isList(object[a])
  BY Shapes DEF Tidy, Assigned, AssignedObject, StrippedObject
<1>2. CASE def[a].type = "extension"
  BY <1>2
<1>3. CASE def[a].type # "extension"
  <2>1. validAttribute(object, a, def[a])
    BY <1>3 DEF validResource, extensions
  <2>2. ASSUME NEW v \in Values PROVE ~isObject(v) /\ ~isList(v)
    BY DEF isObject, isList, Simple
  <2> QED
    BY <1>1, <1>3, <2>1, <2>2 DEF validAttribute, validValue, validObject
<1> QED
  BY <1>2, <1>3

\* What PUT and PATCH store keeps what may not change.
LEMMA ReplacementKeeps ==
  ASSUME AtomicValues, ImmutableContracts, NEW def \in Definitions, NEW current,
         TidyDocument(def, current.object), validResource(def, current, current.object),
         NEW incoming, ~failed(incoming) => Parts(incoming) /\ FitObject(incoming.object),
         ~failed(replacement(def, current, incoming))
  PROVE  documentKeeps(def, current.object, replacement(def, current, incoming).object)
<1> DEFINE enforced == enforceReplacementMutability(def, current, incoming)
           old == current.object
           mid == enforced.object
           new == replacement(def, current, incoming).object
           R(a) == readOnlyParts(def, a, old[a])
           Q(a) == readOnlyParts(def, a, mid[a])
<1>1. /\ ~failed(incoming) /\ ~failed(enforced)
      /\ Parts(enforced) /\ FitObject(mid)
      /\ replacement(def, current, incoming) = prepareResource(def, enforced)
  BY StoredFits, ReplacementFits
<1>2. TidyDocument(def, new) /\ new = clean(def, mid)
  BY <1>1, FitParts, PreparedTidy
<1>3. /\ \A a \in having(def, "immutable") \cap DOMAIN old :
           /\ a \in DOMAIN mid
           /\ \/ mid[a] = old[a]
              \/ mid[a] = enforceComplex(old[a], old[a], def[a]) /\ mid[a] # Refused
      /\ \A a \in DOMAIN old \cap DOMAIN mid \cap DOMAIN def :
           def[a].mutability # "readOnly" =>
             \/ mid[a] = old[a]
             \/ def[a].type = "simple"
             \/ \E after : mid[a] = enforceComplex(old[a], after, def[a]) /\ mid[a] # Refused
  BY <1>1, EnforcedValues
<1> HIDE DEF mid, new, enforced, old
<1>4. /\ DOMAIN new = stays(def, mid)
      /\ \A a \in DOMAIN new : new[a] = normalValue(slot(def, mid, a))
  BY <1>2, CleanByAttribute
<1>5. ASSUME NEW a \in DOMAIN mid, a \in DOMAIN def
      PROVE  slot(def, mid, a) = assigned(stripValue(mid[a], Q(a)))
  BY <1>5 DEF slot
<1>6. \A a \in DOMAIN new :
        /\ a \in DOMAIN mid /\ a \in DOMAIN def /\ def[a].mutability # "readOnly"
        /\ new[a] = prepared(mid[a], Q(a))
  BY <1>2, <1>4, <1>5 DEF stays, TidyDocument, prepared
<1>7. \A a \in DOMAIN old : a \in DOMAIN def /\ Tidy(old[a], R(a))
  BY DEF TidyDocument, old
<1>7a. \A a \in DOMAIN mid : mid[a] = old[a] => Q(a) = R(a)
  OBVIOUS
<1>7b. \A a \in DOMAIN def :
         /\ isObject(old[a]) \/ def[a].multi => R(a) = having(def[a].sub, "readOnly")
         /\ isObject(mid[a]) \/ def[a].multi => Q(a) = having(def[a].sub, "readOnly")
  BY PartsOf
<1> HIDE DEF R, Q
<1>8. ASSUME NEW a \in having(def, "immutable") \cap DOMAIN old
      PROVE  a \in DOMAIN new /\ new[a] = old[a]
  <2>1. a \in DOMAIN def /\ a \in DOMAIN mid /\ a \notin having(def, "readOnly") /\ Tidy(old[a], R(a))
    BY <1>3, <1>7, <1>8 DEF having
  <2>2. def[a].multi => having(def[a].sub, "immutable") = {}
    BY <1>8, <2>1 DEF ImmutableContracts
  <2>3. mid[a] = old[a]
    BY <1>3, <1>8, <1>7b, <2>1, <2>2, ComplexSame
  <2>4. stripValue(old[a], R(a)) = old[a] /\ assigned(old[a]) = old[a] /\ normalValue(old[a]) = old[a]
    BY <2>1, TidyStays
  <2>5. slot(def, mid, a) = old[a]
    BY <1>5, <1>7a, <2>1, <2>3, <2>4
  <2>6. a \in stays(def, mid)
    BY <2>1, <2>5 DEF stays, Tidy
  <2> QED
    BY <1>4, <2>4, <2>5, <2>6
<1>9. ASSUME NEW a \in DOMAIN old \cap DOMAIN new PROVE attributeKeeps(old[a], new[a], def[a])
  <2>1. /\ a \in DOMAIN def /\ a \in DOMAIN mid /\ def[a].mutability # "readOnly"
        /\ Tidy(old[a], R(a)) /\ new[a] = prepared(mid[a], Q(a))
    BY <1>6, <1>7, <1>9
  <2>2. CASE mid[a] = old[a]
    <3>1. new[a] = old[a]
      BY <1>7a, <2>1, <2>2, TidyStays DEF prepared
    <3>2. isList(old[a]) => IsSequence(old[a].list)
      BY <2>1 DEF Tidy, Assigned
    <3> QED
      BY <3>1, <3>2, SameKeeps
  <2>3. CASE def[a].type = "simple"
    <3>1. /\ ~isObject(old[a])
          /\ isList(old[a]) => \A i \in DOMAIN old[a].list : ~isObject(old[a].list[i])
      BY <1>9, <2>1, <2>3, ValidShapes DEF old
    <3> QED
      BY <3>1 DEF attributeKeeps, withValue, hasValue
  <2>4. ASSUME NEW after, mid[a] = enforceComplex(old[a], after, def[a]), mid[a] # Refused
        PROVE  attributeKeeps(old[a], new[a], def[a])
    <3>1. isList(mid[a]) => IsSequence(mid[a].list)
      BY <1>1, <2>1 DEF FitObject, Fit
    <3>2. "primary" \notin having(def[a].sub, "immutable")
      BY <2>1 DEF ImmutableContracts
    <3> QED
      BY <1>7b, <2>1, <2>4, <3>1, <3>2, ComplexKeeps
  <2> QED
    BY <1>3, <1>9, <2>1, <2>2, <2>3, <2>4
<1> QED
  BY <1>8, <1>9 DEF documentKeeps, keepsImmutable, old, new

-----------------------------------------------------------------------------
(* Theorems *)

\* The inductive invariant holds in every reachable state.
THEOREM Invariance == Spec => []Inv
<1>1. Init => Inv
  BY DEF Init, Inv
<1> QED
  BY <1>1, NextInv, PTL DEF Spec

\* No sequence of requests leaves a list with two primary elements
\* (normalizePrimaryValues, in prepareResource of every write).
THEOREM OnePrimaryStored == Spec => []AtMostOnePrimary
<1>1. ASSUME NEW S, \A i, j \in S : i = j PROVE Cardinality(S) <= 1
  <2>1. CASE S = {}
    BY <2>1, FS_EmptySet
  <2>2. CASE S # {}
    <3>1. PICK i : S = {i}
      BY <1>1, <2>2
    <3>2. Cardinality({i}) = 1
      BY FS_Singleton
    <3> QED
      BY <3>1, <3>2
  <2> QED
    BY <2>1, <2>2
<1>2. ASSUME Inv PROVE AtMostOnePrimary
  <2> SUFFICES ASSUME stored # None, NEW a \in DOMAIN stored.object, isList(stored.object[a])
               PROVE  Cardinality({i \in DOMAIN stored.object[a].list :
                                     isPrimary(stored.object[a].list[i])}) <= 1
    BY DEF AtMostOnePrimary
  <2> DEFINE S == {i \in DOMAIN stored.object[a].list : isPrimary(stored.object[a].list[i])}
  <2>1. \A i, j \in S : i = j
    BY <1>2 DEF Inv, OnePrimary
  <2> HIDE DEF S
  <2>2. Cardinality(S) <= 1
    BY <1>1, <2>1
  <2> QED
    BY <2>2 DEF S
<1> QED
  BY <1>2, Invariance, PTL

\* With canonical names, prepareResource is done with the stored document in every
\* reachable state.
THEOREM CanonicalInvariance ==
  ASSUME AtomicValues, CanonicalSpelling
  PROVE  Spec => []CanonicalInv
<1>1. Init => CanonicalInv
  BY DEF Init, CanonicalInv
<1>2. CanonicalInv /\ [Next]_vars => CanonicalInv'
  BY NextCanonicalInv
<1> QED
  BY <1>1, <1>2, PTL DEF Spec

\* Whatever is stored, renderRecord can prepare it again and gets the same (server.go:669),
\* for every schema and every sequence of requests that spell extensions canonically.
THEOREM StoredCanonical ==
  ASSUME AtomicValues, CanonicalSpelling
  PROVE  Spec => []StoredIsCanonical
<1>1. ASSUME CanonicalInv PROVE StoredIsCanonical
  BY <1>1, TidyDocumentStays DEF CanonicalInv, StoredIsCanonical
<1> QED
  BY <1>1, CanonicalInvariance, PTL

\* No request stores a read-only attribute or sub-attribute, whichever path writes it,
\* but inside an extension that is stored unlisted and is no object (stripReadOnly).
THEOREM ReadOnlyStaysOut ==
  ASSUME AtomicValues, CanonicalSpelling
  PROVE  Spec => []ReadOnlyNeverStored
<1>1. ASSUME CanonicalInv PROVE ReadOnlyNeverStored
  <2> SUFFICES ASSUME stored # None, NEW a \in DOMAIN stored.object
               PROVE  /\ definition[a].mutability # "readOnly"
                      /\ \/ \A o \in objectsOf(stored.object[a]) :
                              DOMAIN o \cap having(definition[a].sub, "readOnly") = {}
                         \/ a \in extensions(definition) \ stored.schemas /\ ~isObject(stored.object[a])
    BY DEF ReadOnlyNeverStored
  <2> DEFINE v == stored.object[a]
             R == readOnlyParts(definition, a, v)
  <2>1. definition[a].mutability # "readOnly" /\ Tidy(v, R)
    BY <1>1 DEF CanonicalInv, TidyDocument
  <2> HIDE DEF v, R
  <2>2. ASSUME NEW o \in objectsOf(v) PROVE DOMAIN o \cap R = {}
    BY <2>1 DEF objectsOf, Tidy, Assigned, AssignedObject, StrippedObject
  <2>3. CASE a \in extensions(definition) /\ ~isObject(v)
    <3>1. a \notin stored.schemas
      BY <1>1, <2>3 DEF CanonicalInv, validResource, v
    <3> QED
      BY <2>1, <2>3, <3>1 DEF v
  <2>4. CASE ~(a \in extensions(definition) /\ ~isObject(v))
    <3>1. R = having(definition[a].sub, "readOnly")
      BY <2>4 DEF R, readOnlyParts
    <3> QED
      BY <2>1, <2>2, <3>1 DEF v
  <2> QED
    BY <2>3, <2>4
<1> QED
  BY <1>1, CanonicalInvariance, PTL

\* PUT and PATCH change no immutable attribute once it has a value, and no immutable
\* sub-attribute of an object that stays or of a multi-valued attribute's one element
\* with its value
\* (enforceAttributeMutability, enforceMultiValueMutability, then prepareResource).
THEOREM ImmutableKept ==
  ASSUME AtomicValues, CanonicalSpelling, ImmutableContracts
  PROVE  Spec => ImmutableChangesOnlyThroughAbsence
<1> DEFINE Keeps == stored # None => documentKeeps(definition, stored.object, stored'.object)
<1>1. ASSUME CanonicalInv, [Next]_vars PROVE Keeps
  <2> SUFFICES ASSUME stored # None
               PROVE  documentKeeps(definition, stored.object, stored'.object)
    OBVIOUS
  <2>1. ASSUME stored' = stored PROVE documentKeeps(definition, stored.object, stored'.object)
    <3>1. \A a \in DOMAIN stored.object :
            isList(stored.object[a]) => IsSequence(stored.object[a].list)
      BY <1>1 DEF CanonicalInv, TidyDocument, Tidy, Assigned
    <3> QED
      BY <2>1, <3>1, SameKeeps DEF documentKeeps, keepsImmutable
  <2>2. ASSUME NEW doc, ~failed(doc) => Parts(doc) /\ FitObject(doc.object), NEW code,
               conclude(replacement(definition, stored, doc), code)
        PROVE  documentKeeps(definition, stored.object, stored'.object)
    <3>1. CASE failed(replacement(definition, stored, doc))
      BY <2>1, <2>2, <3>1 DEF conclude
    <3>2. CASE ~failed(replacement(definition, stored, doc))
      <4>1. stored' = replacement(definition, stored, doc)
        BY <2>2, <3>2 DEF conclude
      <4> QED
        BY <1>1, <2>2, <3>2, <4>1, ReplacementKeeps DEF CanonicalInv
    <3> QED
      BY <3>1, <3>2
  <2>3. CASE Post
    BY <2>3 DEF Post
  <2>4. CASE Put
    BY <1>1, <2>2, <2>4, IncomingFits DEF Put
  <2>5. CASE Patch
    BY <1>1, <2>2, <2>5, IncomingFits DEF Patch
  <2>6. CASE UNCHANGED vars
    BY <2>1, <2>6 DEF vars
  <2> QED
    BY <1>1, <2>3, <2>4, <2>5, <2>6 DEF Next
<1>2. CanonicalInv /\ [Next]_vars => [Keeps]_vars
  BY <1>1
<1> QED
  BY <1>2, CanonicalInvariance, PTL DEF Spec, ImmutableChangesOnlyThroughAbsence

-----------------------------------------------------------------------------
(* A stored document sent back, as it is or with elements taken out *)

\* without keeps elements at different indexes.
LEMMA WithoutFrom ==
  ASSUME NEW s, NEW out, IsSequence(s)
  PROVE  /\ IsSequence(without(s, out)) /\ Len(without(s, out)) <= Len(s)
         /\ \E g : /\ \A i \in DOMAIN without(s, out) :
                        g[i] \in DOMAIN s \ out /\ without(s, out)[i] = s[g[i]]
                   /\ \A i, j \in DOMAIN without(s, out) : g[i] = g[j] => i = j
<1> DEFINE T == Range(s)
<1>0. Len(s) \in Nat /\ DOMAIN s = 1 .. Len(s) /\ \A n \in 1 .. Len(s) : s[n] \in T
  BY SequenceFacts DEF Range
<1> HIDE DEF T
<1>1. PICK kept : /\ kept[0] = <<>>
                  /\ \A n \in 1 .. Len(s) :
                       kept[n] = IF n \in out THEN kept[n - 1] ELSE Append(kept[n - 1], s[n])
                  /\ without(s, out) = kept[Len(s)]
  <2>1. Len(s) \in Nat
    BY <1>0
  <2> QED
    BY <2>1, WithoutLoop
<1> DEFINE Drawn(r, n, g) ==
             /\ \A i \in 1 .. Len(r) : g[i] \in (1 .. n) \ out /\ r[i] = s[g[i]]
             /\ \A i, j \in 1 .. Len(r) : g[i] = g[j] => i = j
           Fine(n) == kept[n] \in Seq(T) /\ Len(kept[n]) <= n /\ \E g : Drawn(kept[n], n, g)
           Good == {n \in Nat : n <= Len(s) => Fine(n)}
<1> HIDE DEF Fine
<1>2. 0 \in Good
  <2>1. kept[0] \in Seq(T) /\ Len(kept[0]) = 0
    BY <1>1
  <2>2. Drawn(kept[0], 0, <<>>)
    BY <2>1
  <2> QED
    BY <2>1, <2>2 DEF Fine
<1>3. ASSUME NEW n \in Nat, n \in Good PROVE n + 1 \in Good
  <2> SUFFICES ASSUME n + 1 <= Len(s) PROVE Fine(n + 1)
    OBVIOUS
  <2>1. n + 1 \in 1 .. Len(s) /\ (n + 1) - 1 = n /\ Fine(n)
    BY <1>0, <1>3
  <2>2. PICK g : Drawn(kept[n], n, g)
    BY <2>1 DEF Fine
  <2> DEFINE r == kept[n]
             l == Len(r)
  <2>3. r \in Seq(T) /\ l \in Nat /\ l <= n
    BY <2>1 DEF Fine
  <2>4. kept[n + 1] = IF n + 1 \in out THEN r ELSE Append(r, s[n + 1])
    BY <1>1, <2>1
  <2> HIDE DEF r
  <2>5. CASE n + 1 \in out
    <3>1. kept[n + 1] = r /\ Drawn(r, n, g)
      BY <2>2, <2>4, <2>5 DEF r
    <3>2. Drawn(r, n + 1, g)
      BY <3>1
    <3> HIDE DEF Drawn
    <3> QED
      BY <3>1, <3>2, <2>3 DEF Fine
  <2>6. CASE n + 1 \notin out
    <3> DEFINE q == Append(r, s[n + 1])
               h == [i \in 1 .. l + 1 |-> IF i = l + 1 THEN n + 1 ELSE g[i]]
    <3>1. /\ kept[n + 1] = q /\ q \in Seq(T) /\ Len(q) = l + 1
          /\ q[l + 1] = s[n + 1]
          /\ \A i \in 1 .. l : q[i] = r[i]
      BY <1>0, <2>1, <2>3, <2>4, <2>6
    <3> HIDE DEF q
    <3>2. Drawn(r, n, g)
      BY <2>2 DEF r
    <3>3. /\ h[l + 1] = n + 1
          /\ \A i \in 1 .. l : h[i] = g[i] /\ g[i] \in (1 .. n) \ out
      BY <2>3, <3>2
    <3> HIDE DEF h
    <3>4. ASSUME NEW i \in 1 .. l + 1 PROVE h[i] \in (1 .. n + 1) \ out /\ q[i] = s[h[i]]
      <4>1. CASE i = l + 1
        BY <4>1, <3>1, <3>3, <2>6
      <4>2. CASE i # l + 1
        <5>1. i \in 1 .. l
          BY <4>2, <2>3
        <5> QED
          BY <5>1, <3>1, <3>2, <3>3
      <4> QED
        BY <4>1, <4>2
    <3>5. ASSUME NEW i \in 1 .. l + 1, NEW j \in 1 .. l + 1, h[i] = h[j] PROVE i = j
      <4>1. CASE i \in 1 .. l /\ j \in 1 .. l
        BY <4>1, <3>2, <3>3, <3>5
      <4>2. CASE i = l + 1 /\ j \in 1 .. l
        BY <4>2, <3>3, <3>5
      <4>3. CASE j = l + 1 /\ i \in 1 .. l
        BY <4>3, <3>3, <3>5
      <4> QED
        BY <4>1, <4>2, <4>3, <2>3
    <3>6. Drawn(q, n + 1, h)
      BY <3>1, <3>4, <3>5
    <3> HIDE DEF Drawn
    <3> QED
      BY <3>1, <3>6, <2>3 DEF Fine
  <2> QED
    BY <2>5, <2>6
<1>4. Fine(Len(s))
  <2>1. Len(s) \in Good
    BY <1>0, <1>2, <1>3, NatSetInduction
  <2> QED
    BY <2>1, <1>0
<1> DEFINE w == without(s, out)
<1>5. w \in Seq(T) /\ Len(w) <= Len(s) /\ \E g : Drawn(w, Len(s), g)
  BY <1>1, <1>4 DEF Fine
<1> HIDE DEF w
<1>6. IsSequence(w) /\ DOMAIN w = 1 .. Len(w)
  BY <1>5, SequenceWithin, SequenceFacts
<1> QED
  BY <1>0, <1>5, <1>6 DEF w

\* No failure: neither the value nor what is in it could be taken for one.
Told(v) ==
  /\ v # Refused
  /\ isObject(v) => "error" \notin DOMAIN v.object
  /\ isList(v) =>
       \A i \in DOMAIN v.list :
         v.list[i] # Refused /\ (isObject(v.list[i]) => "error" \notin DOMAIN v.list[i].object)

\* Objects and lists are no failures.
LEMMA NotRefused ==
  ASSUME NEW f
  PROVE  Object(f) # Refused /\ List(f) # Refused
<1>1. DOMAIN Object(f) = {"object"} /\ DOMAIN List(f) = {"list"} /\ DOMAIN Refused = {"error"}
  BY DEF Object, List, Refused
<1> QED
  BY <1>1

\* What conforms to a contract is no failure.
LEMMA ValidTold ==
  ASSUME FailuresTold, NEW v, NEW contract, "error" \notin DOMAIN contract.sub,
         validValue(v, contract), isObject(v) => v = Object(v.object)
  PROVE  v # Refused /\ (isObject(v) => "error" \notin DOMAIN v.object)
<1>1. CASE contract.type = "simple"
  <2>1. v \in Values
    BY <1>1 DEF validValue
  <2> QED
    BY <2>1 DEF isObject, Simple, FailuresTold
<1>2. CASE contract.type # "simple"
  <2>1. isObject(v) /\ DOMAIN v.object \subseteq DOMAIN contract.sub
    BY <1>2 DEF validValue, validObject
  <2> QED
    BY <2>1, NotRefused
<1> QED
  BY <1>1, <1>2

\* Nor is what is stored.
LEMMA StoredTold ==
  ASSUME AtomicValues, FailuresTold, NEW def \in Definitions, NEW doc,
         TidyDocument(def, doc.object), validResource(def, doc, doc.object),
         distinctive(def, doc), NEW a \in DOMAIN doc.object
  PROVE  Told(doc.object[a])
<1> DEFINE v == doc.object[a]
           R == readOnlyParts(def, a, v)
<1>1. a \in DOMAIN def /\ Assigned(v, R)
  BY DEF TidyDocument, Tidy
<1>2. "error" \notin DOMAIN def[a].sub
  BY <1>1 DEF FailuresTold
<1>3. CASE a \in extensions(def)
  <2>1. isObject(v) /\ DOMAIN v.object \subseteq DOMAIN def[a].sub
    BY <1>3 DEF distinctive, validResource, validObject
  <2>2. v = Object(v.object)
    BY <1>1, <2>1 DEF Assigned, AssignedObject, StrippedObject
  <2> HIDE DEF v, R
  <2>3. v # Refused /\ ~isList(v)
    BY <2>2, NotRefused, Shapes
  <2> QED
    BY <2>1, <2>3, <1>2 DEF Told, v
<1>4. CASE a \notin extensions(def)
  <2>1. validAttribute(doc.object, a, def[a])
    BY <1>1, <1>4 DEF validResource
  <2>2. CASE def[a].multi
    <3>1. isList(v) /\ \A i \in DOMAIN v.list : validValue(v.list[i], def[a])
      BY <2>1, <2>2 DEF validAttribute
    <3>2. /\ v = List(v.list)
          /\ \A i \in DOMAIN v.list : isObject(v.list[i]) => v.list[i] = Object(v.list[i].object)
      BY <3>1, <1>1 DEF Assigned, AssignedObject, StrippedObject
    <3> HIDE DEF v, R
    <3>3. v # Refused /\ ~isObject(v)
      BY <3>2, NotRefused, Shapes
    <3>4. \A i \in DOMAIN v.list :
            v.list[i] # Refused /\ (isObject(v.list[i]) => "error" \notin DOMAIN v.list[i].object)
      BY <3>1, <3>2, <1>2, ValidTold
    <3> QED
      BY <3>3, <3>4 DEF Told, v
  <2>3. CASE ~def[a].multi
    <3>1. validValue(v, def[a])
      BY <2>1, <2>3 DEF validAttribute
    <3>2. isObject(v) => v = Object(v.object)
      BY <1>1 DEF Assigned, AssignedObject, StrippedObject
    <3>3. ~isList(v)
      <4>1. CASE def[a].type = "simple"
        BY <3>1, <4>1 DEF validValue, isList, Simple
      <4>2. CASE def[a].type # "simple"
        <5>1. isObject(v)
          BY <3>1, <4>2 DEF validValue, validObject
        <5> HIDE DEF v
        <5> QED
          BY <5>1, <3>2, Shapes
      <4> QED
        BY <4>1, <4>2
    <3> HIDE DEF v, R
    <3>4. v # Refused /\ (isObject(v) => "error" \notin DOMAIN v.object)
      BY <3>1, <3>2, <1>2, ValidTold
    <3> QED
      BY <3>3, <3>4 DEF Told, v
  <2> QED
    BY <2>2, <2>3
<1> QED
  BY <1>3, <1>4

\* The element that previous finds for one that was there before is that element.
LEMMA PreviousSelf ==
  ASSUME NEW old, IsSequence(old), NEW s, NEW i \in DOMAIN s, NEW k \in DOMAIN old,
         s[i] = old[k], isObject(s[i]),
         "value" \in DOMAIN s[i].object => s[i].object.value # Null,
         "value" \in DOMAIN s[i].object =>
           \A j \in DOMAIN old : hasValue(old[j], s[i].object.value) => j = k,
         "value" \notin DOMAIN s[i].object => i = k
  PROVE  previous(old, s, i) = s[i].object
<1> DEFINE same == {j \in DOMAIN old :
                      /\ "value" \in DOMAIN s[i].object
                      /\ s[i].object.value # Null
                      /\ hasValue(old[j], s[i].object.value)}
<1>1. previous(old, s, i) =
        IF same # {} THEN old[Max(same)].object
        ELSE IF i \in DOMAIN old /\ isObject(old[i]) THEN old[i].object
        ELSE NoFields
  BY DEF previous
<1>2. CASE "value" \in DOMAIN s[i].object
  <2>1. same = {k}
    BY <1>2 DEF hasValue
  <2>2. k \in Nat
    BY SequenceFacts
  <2>3. Max({k}) = k
    BY <2>2 DEF Max
  <2> HIDE DEF same
  <2> QED
    BY <1>1, <2>1, <2>3
<1>3. CASE "value" \notin DOMAIN s[i].object
  <2>1. same = {}
    BY <1>3
  <2> HIDE DEF same
  <2> QED
    BY <1>1, <1>3, <2>1
<1> QED
  BY <1>2, <1>3

\* A complex value whose objects are compared with themselves stays as it is.
LEMMA ComplexStays ==
  ASSUME AtomicValues, NEW v, NEW w, NEW contract, NEW R, Told(w), Assigned(w, R),
         isObject(w) \/ contract.multi => R = having(contract.sub, "readOnly"),
         isObject(w) => w = v,
         isList(w) => /\ isList(v)
                      /\ \A i \in DOMAIN w.list :
                           isObject(w.list[i]) => previous(v.list, w.list, i) = w.list[i].object
  PROVE  enforceComplex(v, w, contract) = w
<1> DEFINE sub == contract.sub
<1>1. CASE isObject(w) /\ ~contract.multi
  <2>1. w = v /\ w = Object(w.object) /\ IsMap(w.object) /\ DOMAIN w.object \cap R = {}
    BY <1>1 DEF Assigned, AssignedObject, StrippedObject
  <2>2. keepProtected(w.object, w.object, sub) = w.object
    BY <1>1, <2>1, ProtectedSame
  <2>3. ~failed(w.object)
    BY <1>1 DEF Told, failed
  <2> QED
    BY <1>1, <2>1, <2>2, <2>3 DEF enforceComplex
<1>2. CASE isList(w) /\ contract.multi
  <2> DEFINE s == w.list
             element(i) == IF ~isObject(s[i]) THEN s[i]
                           ELSE LET result == keepProtected(previous(v.list, s, i), s[i].object, sub)
                                IN  IF failed(result) THEN Refused ELSE Object(result)
             new == [i \in DOMAIN s |-> element(i)]
  <2>1. w = List(s) /\ IsSequence(s)
    BY <1>2 DEF Assigned
  <2>2. ~isObject(w)
    BY <2>1, Shapes
  <2>3. ASSUME NEW i \in DOMAIN s PROVE element(i) = s[i] /\ s[i] # Refused
    <3>1. CASE isObject(s[i])
      <4>1. /\ s[i] = Object(s[i].object) /\ IsMap(s[i].object) /\ DOMAIN s[i].object \cap R = {}
            /\ "error" \notin DOMAIN s[i].object
            /\ previous(v.list, s, i) = s[i].object
        BY <1>2, <3>1 DEF Assigned, AssignedObject, StrippedObject, Told
      <4>2. keepProtected(s[i].object, s[i].object, sub) = s[i].object
        BY <1>2, <4>1, ProtectedSame
      <4>3. ~failed(s[i].object) /\ Object(s[i].object) # Refused
        BY <4>1, NotRefused DEF failed
      <4> QED
        BY <3>1, <4>1, <4>2, <4>3
    <3>2. CASE ~isObject(s[i])
      BY <1>2, <3>2 DEF Told
    <3> QED
      BY <3>1, <3>2
  <2> HIDE DEF element
  <2>4. new = s
    <3>1. s = [i \in DOMAIN s |-> s[i]]
      BY <2>1, SequenceFacts
    <3> QED
      BY <2>3, <3>1
  <2>5. enforceComplex(v, w, contract) = IF \E i \in DOMAIN new : new[i] = Refused THEN Refused ELSE List(new)
    BY <1>2, <2>2 DEF enforceComplex, element
  <2> HIDE DEF new, s
  <2> QED
    BY <2>1, <2>3, <2>4, <2>5
<1>3. CASE ~(isObject(w) /\ ~contract.multi) /\ ~(isList(w) /\ contract.multi)
  BY <1>3 DEF enforceComplex
<1> QED
  BY <1>1, <1>2, <1>3

\* A document whose protected parts are those of the current one is let through.
LEMMA EnforcedStays ==
  ASSUME NEW def, NEW current, NEW incoming, Parts(incoming), IsMap(incoming),
         IsMap(incoming.object), DOMAIN incoming.object = DOMAIN current.object,
         "error" \notin DOMAIN incoming.object,
         \A b \in DOMAIN incoming.object :
           /\ b \notin having(def, "readOnly")
           /\ b \in having(def, "immutable") => incoming.object[b] = current.object[b]
           /\ incoming.object[b] # Refused
           /\ b \in DOMAIN def =>
                enforceComplex(current.object[b], incoming.object[b], def[b]) = incoming.object[b]
  PROVE  enforceReplacementMutability(def, current, incoming) = incoming
<1> DEFINE before == current.object
           after == incoming.object
           immutable == having(def, "immutable")
           readOnly == having(def, "readOnly")
           kept == DOMAIN before \cap (readOnly \cup (immutable \ DOMAIN after))
           top == keepProtected(before, after, def)
           old(a) == IF a \in DOMAIN before THEN before[a] ELSE Null
           descends(a) == /\ a \in DOMAIN def /\ a \in DOMAIN after
                          /\ def[a].type # "simple" /\ def[a].mutability # "readOnly"
           value(a) == IF descends(a) THEN enforceComplex(old(a), top[a], def[a]) ELSE top[a]
           result == [a \in DOMAIN top |-> value(a)]
<1>1. top = after
  <2>1. kept = {} /\ (DOMAIN after \ readOnly) \cup kept = DOMAIN after
    OBVIOUS
  <2>2. ~\E a \in immutable \cap DOMAIN before \cap DOMAIN after : before[a] # after[a]
    OBVIOUS
  <2>3. top = [a \in (DOMAIN after \ readOnly) \cup kept |-> IF a \in kept THEN before[a] ELSE after[a]]
    BY <2>2 DEF keepProtected
  <2> HIDE DEF kept, readOnly, immutable, top
  <2> QED
    BY <2>1, <2>3 DEF IsMap
<1>2. enforceReplacementMutability(def, current, incoming) =
        IF failed(top) THEN Refused
        ELSE IF \E a \in DOMAIN result : result[a] = Refused THEN Refused
        ELSE [incoming EXCEPT !.object = result]
  BY DEF enforceReplacementMutability
<1>3. \A a \in DOMAIN after : old(a) = before[a]
  OBVIOUS
<1> HIDE DEF top, old
<1>4. ASSUME NEW a \in DOMAIN after PROVE value(a) = after[a] /\ after[a] # Refused
  BY <1>1, <1>3
<1> HIDE DEF value
<1>5. result = after
  BY <1>1, <1>4 DEF IsMap
<1> HIDE DEF result
<1>6. ~failed(top) /\ ~\E a \in DOMAIN result : result[a] = Refused
  BY <1>1, <1>4, <1>5 DEF failed
<1>7. [incoming EXCEPT !.object = incoming.object] = incoming
  BY DEF Parts, IsMap
<1> QED
  BY <1>2, <1>5, <1>6, <1>7

\* An attribute of a stored document, sent back as it is.
LEMMA AttributeStays ==
  ASSUME AtomicValues, FailuresTold, NEW def \in Definitions, NEW doc,
         TidyDocument(def, doc.object), validResource(def, doc, doc.object),
         distinctive(def, doc), NEW b \in DOMAIN doc.object
  PROVE  enforceComplex(doc.object[b], doc.object[b], def[b]) = doc.object[b]
<1> DEFINE v == doc.object[b]
           R == readOnlyParts(def, b, v)
<1>1. Told(v) /\ Assigned(v, R)
  BY StoredTold DEF TidyDocument, Tidy
<1>1a. isObject(v) \/ def[b].multi => R = having(def[b].sub, "readOnly")
  BY PartsOf DEF TidyDocument
<1>2. isList(v) => \A i, j \in DOMAIN v.list :
                     /\ isObject(v.list[i]) /\ "value" \in DOMAIN v.list[i].object
                     /\ hasValue(v.list[j], v.list[i].object.value)
                     => i = j
  BY DEF distinctive
<1> HIDE DEF v
<1>3. ASSUME isList(v), NEW i \in DOMAIN v.list, isObject(v.list[i])
      PROVE  previous(v.list, v.list, i) = v.list[i].object
  <2>1. IsSequence(v.list)
    BY <1>1, <1>3 DEF Assigned
  <2>2. "value" \in DOMAIN v.list[i].object => v.list[i].object.value # Null
    BY <1>1, <1>3 DEF Assigned, AssignedObject
  <2>3. "value" \in DOMAIN v.list[i].object =>
          \A j \in DOMAIN v.list : hasValue(v.list[j], v.list[i].object.value) => j = i
    BY <1>2, <1>3
  <2> QED
    BY <1>3, <2>1, <2>2, <2>3, PreviousSelf
<1>4. enforceComplex(v, v, def[b]) = v
  BY <1>1, <1>3, <1>1a, ComplexStays
<1> QED
  BY <1>4 DEF v

\* A stored document that is sent back whole is stored as it is.
LEMMA ReplacementStays ==
  ASSUME AtomicValues, FailuresTold, NEW def \in Definitions, NEW doc, Parts(doc), IsMap(doc),
         TidyDocument(def, doc.object), validResource(def, doc, doc.object),
         distinctive(def, doc)
  PROVE  replacement(def, doc, doc) = doc
<1>1. ~failed(doc)
  BY DEF Parts, failed
<1>2. IsMap(doc.object) /\ DOMAIN doc.object \subseteq DOMAIN def /\ "error" \notin DOMAIN doc.object
  BY DEF TidyDocument, FailuresTold
<1>3. ASSUME NEW b \in DOMAIN doc.object
      PROVE  /\ b \notin having(def, "readOnly")
             /\ doc.object[b] # Refused
             /\ enforceComplex(doc.object[b], doc.object[b], def[b]) = doc.object[b]
  <2>1. b \notin having(def, "readOnly")
    BY DEF TidyDocument, having
  <2>2. doc.object[b] # Refused
    BY StoredTold DEF Told
  <2> QED
    BY <2>1, <2>2, AttributeStays
<1>4. enforceReplacementMutability(def, doc, doc) = doc
  BY <1>2, <1>3, EnforcedStays
<1>5. prepareResource(def, doc) = doc
  BY TidyDocumentStays
<1> QED
  BY <1>1, <1>4, <1>5 DEF replacement

\* An add of what is there leaves the document as it is.
LEMMA AddedAgain ==
  ASSUME AtomicValues, FailuresTold, NEW def \in Definitions, NEW doc, Parts(doc), IsMap(doc),
         TidyDocument(def, doc.object), validResource(def, doc, doc.object),
         distinctive(def, doc),
         NEW ops, IsSequence(ops), Len(ops) = 1, FitOperation(ops[1]),
         ops[1].op = "add", ops[1].attr # None, ops[1].sub = None, ops[1].filter = None,
         holdsAdded(doc, ops[1])
  PROVE  applyPatchDocument(def, doc, ops) = doc
<1> DEFINE o == ops[1]
           a == o.attr
           object == doc.object
           list == object[a].list
<1>1. a \in DOMAIN object /\ isList(object[a]) /\ object[a] = List(list) /\ IsMap(object)
  BY DEF holdsAdded, TidyDocument, Tidy, Assigned
<1>2. addValue(object, a, o.value) = object
  <2>1. set(object, a, List(list)) = object
    BY <1>1 DEF set, IsMap
  <2>2. CASE isList(o.value)
    <3>1. IsSequence(o.value.list) /\ \A i \in DOMAIN o.value.list : Contains(list, o.value.list[i])
      BY <2>2 DEF FitOperation, holdsAdded
    <3>2. appendAll(list, o.value.list) = list
      BY <3>1, AppendNothing
    <3> QED
      BY <1>1, <2>1, <2>2, <3>2 DEF addValue
  <2>3. CASE ~isList(o.value)
    <3>1. Contains(list, o.value)
      <4>1. DOMAIN <<o.value>> = {1} /\ <<o.value>>[1] = o.value
        OBVIOUS
      <4> QED
        BY <2>3, <4>1 DEF holdsAdded
    <3> QED
      BY <1>1, <2>1, <2>3, <3>1 DEF addValue, appendNew
  <2> QED
    BY <2>2, <2>3
<1>3. applyPatchOperation(def, object, o) = object
  <2>1. applyDirectPatch(object, o) = object
    BY <1>2 DEF applyDirectPatch, patchAttribute
  <2>2. a \notin extensions(def)
    <3>1. ~isObject(object[a])
      BY <1>1, Shapes
    <3> QED
      BY <1>1, <3>1 DEF distinctive, validResource
  <2>3. validPath(def, o)
    BY <1>1, <2>2 DEF validPath, TidyDocument, extensions
  <2> QED
    BY <2>1, <2>3 DEF applyPatchOperation
<1>4. PICK after :
        /\ after[0] = object
        /\ \A n \in 1 .. Len(ops) :
             after[n] = IF failed(after[n - 1]) THEN after[n - 1]
                        ELSE applyPatchOperation(def, after[n - 1], ops[n])
        /\ applyPatchDocument(def, doc, ops) =
             LET new == after[Len(ops)] IN
             IF failed(new) THEN new
             ELSE [schemas |-> doc.schemas \cup (extensions(def) \cap DOMAIN new), object |-> new]
  <2>1. Len(ops) \in Nat
    BY SequenceFacts
  <2> QED
    BY <2>1, PatchLoop
<1>5. after[1] = IF failed(after[0]) THEN after[0] ELSE applyPatchOperation(def, after[0], o)
  <2>1. 1 \in 1 .. Len(ops) /\ 1 - 1 = 0
    OBVIOUS
  <2> QED
    BY <1>4, <2>1
<1>6. after[1] = object /\ ~failed(object)
  <2>1. ~failed(object)
    BY DEF TidyDocument, FailuresTold, failed
  <2> QED
    BY <1>3, <1>4, <1>5, <2>1
<1>7. applyPatchDocument(def, doc, ops) =
        [schemas |-> doc.schemas \cup (extensions(def) \cap DOMAIN object), object |-> object]
  BY <1>4, <1>6
<1>8. doc.schemas \cup (extensions(def) \cap DOMAIN object) = doc.schemas
  BY DEF distinctive
<1>9. doc = [schemas |-> doc.schemas, object |-> doc.object]
  BY DEF Parts, IsMap
<1> QED
  BY <1>7, <1>8, <1>9

\* What is left of a tidy list is tidy, unless nothing is left.
LEMMA RestTidy ==
  ASSUME AtomicValues, NEW v, NEW R, Tidy(v, R), Told(v), isList(v), NEW K
  PROVE  LET rest == without(v.list, K) IN
         /\ IsSequence(rest)
         /\ Assigned(List(rest), R) /\ PrimaryDecided(List(rest)) /\ Told(List(rest))
<1> DEFINE list == v.list
           rest == without(list, K)
<1>1. /\ IsSequence(list)
      /\ \A i \in DOMAIN list : /\ list[i] # Null /\ list[i] # Refused
                                /\ isObject(list[i]) => AssignedObject(list[i], R)
                                /\ isObject(list[i]) => "error" \notin DOMAIN list[i].object
      /\ \A i, j \in DOMAIN list :
           isPrimary(list[i]) /\ i # j /\ isObject(list[j]) /\ "primary" \in DOMAIN list[j].object
             => list[j].object.primary = False
  BY DEF Tidy, Assigned, Told, PrimaryDecided
<1>2. IsSequence(rest)
  BY <1>1, WithoutFrom
<1>3. PICK g : /\ \A i \in DOMAIN rest : g[i] \in DOMAIN list \ K /\ rest[i] = list[g[i]]
               /\ \A i, j \in DOMAIN rest : g[i] = g[j] => i = j
  BY <1>1, WithoutFrom
<1>4. isList(List(rest)) /\ ~isObject(List(rest)) /\ List(rest).list = rest /\ List(rest) # Refused
  BY Shapes, NotRefused
<1> HIDE DEF rest, list
<1>5. Assigned(List(rest), R)
  BY <1>1, <1>2, <1>3, <1>4 DEF Assigned
<1>6. PrimaryDecided(List(rest))
  BY <1>1, <1>3, <1>4 DEF PrimaryDecided
<1>7. Told(List(rest))
  BY <1>1, <1>3, <1>4 DEF Told
<1> QED
  BY <1>2, <1>5, <1>6, <1>7 DEF rest, list

\* A resource stays valid with elements taken out of a list, or all of it if it may go.
LEMMA RestValid ==
  ASSUME AtomicValues, NEW def, NEW doc, NEW a \in DOMAIN doc.object \ extensions(def),
         a \in DOMAIN def, isList(doc.object[a]), IsSequence(doc.object[a].list),
         ~isObject(doc.object[a]), validResource(def, doc, doc.object), NEW K, NEW other,
         LET rest == without(doc.object[a].list, K) IN
         \/ other = set(doc.object, a, List(rest))
         \/ other = drop(doc.object, {a}) /\ ~def[a].required
  PROVE  validResource(def, doc, other)
<1> DEFINE object == doc.object
           list == object[a].list
           rest == without(list, K)
<1>1. \A b \in DOMAIN other : b \in DOMAIN object
  BY DEF set, drop
<1>2. \A b \in DOMAIN object : b # a => b \in DOMAIN other /\ other[b] = object[b]
  BY DEF set, drop
<1>3. \A b \in DOMAIN object : b \in DOMAIN def \/ FoldName[b] \in extensions(def)
  BY DEF validResource
<1>4. ASSUME NEW b \in DOMAIN def \ extensions(def), b # a PROVE validAttribute(other, b, def[b])
  <2>1. validAttribute(object, b, def[b])
    BY DEF validResource
  <2>2. b \in DOMAIN other <=> b \in DOMAIN object
    BY <1>1, <1>2, <1>4
  <2>3. b \in DOMAIN object => other[b] = object[b]
    BY <1>2, <1>4
  <2> QED
    BY <2>1, <2>2, <2>3 DEF validAttribute
<1>5. validAttribute(other, a, def[a])
  <2>1. validAttribute(object, a, def[a])
    BY DEF validResource
  <2>2. def[a].multi
    BY <2>1 DEF validAttribute, validValue, validObject, isList, Simple
  <2>3. /\ Len(list) <= MaximumValues
        /\ \A i \in DOMAIN list : validValue(list[i], def[a])
    BY <2>1, <2>2 DEF validAttribute
  <2>4. CASE other = set(object, a, List(rest))
    <3>1. a \in DOMAIN other /\ other[a] = List(rest)
      BY <2>4 DEF set
    <3>2. isList(List(rest)) /\ List(rest).list = rest
      BY Shapes
    <3>3. Len(rest) <= MaximumValues
      <4>1. Len(rest) <= Len(list) /\ IsSequence(rest)
        BY WithoutFrom
      <4>2. Len(rest) \in Nat /\ Len(list) \in Nat /\ MaximumValues \in Nat
        BY <4>1, SequenceFacts, DocumentAssumption
      <4> HIDE DEF rest, list
      <4> QED
        BY <4>1, <4>2, <2>3
    <3>4. \A i \in DOMAIN rest : validValue(rest[i], def[a])
      <4>1. PICK g : \A i \in DOMAIN rest : g[i] \in DOMAIN list \ K /\ rest[i] = list[g[i]]
        BY WithoutFrom
      <4> QED
        BY <4>1, <2>3
    <3> HIDE DEF rest, list
    <3> QED
      BY <2>2, <3>1, <3>2, <3>3, <3>4 DEF validAttribute
  <2>5. CASE other = drop(object, {a}) /\ ~def[a].required
    <3>1. a \notin DOMAIN other
      BY <2>5 DEF drop
    <3> QED
      BY <2>5, <3>1 DEF validAttribute
  <2> QED
    BY <2>4, <2>5
<1>6. ASSUME NEW e \in extensions(def)
      PROVE  /\ def[e].required => e \in doc.schemas
             /\ e \in doc.schemas => e \in DOMAIN other /\ isObject(other[e])
             /\ e \in DOMAIN other /\ isObject(other[e]) => validObject(other[e], def[e].sub)
  <2>1. e # a
    OBVIOUS
  <2> QED
    BY <1>1, <1>2, <2>1 DEF validResource
<1> QED
  BY <1>1, <1>3, <1>4, <1>5, <1>6 DEF validResource

\* A document that lists what doc lists, with this object.
Holding(other, doc, object) ==
  Parts(other) /\ IsMap(other) /\ other.schemas = doc.schemas /\ other.object = object

\* There is just one.
LEMMA HoldingSame ==
  ASSUME NEW doc, NEW object, NEW other, NEW another,
         Holding(other, doc, object), Holding(another, doc, object)
  PROVE  other = another
  BY DEF Holding, Parts, IsMap

\* It is what EXCEPT gives.
LEMMA HoldingExcept ==
  ASSUME NEW doc, Parts(doc), NEW object
  PROVE  Holding([doc EXCEPT !.object = object], doc, object)
  BY DEF Holding, Parts, IsMap

\* prepareResource drops an attribute that is sent with an empty list.
LEMMA EmptyListGoes ==
  ASSUME AtomicValues, NEW def, NEW doc, Parts(doc), IsMap(doc),
         TidyDocument(def, doc.object), NEW a \in DOMAIN doc.object,
         validResource(def, doc, drop(doc.object, {a})),
         NEW sent, Holding(sent, doc, set(doc.object, a, List(<<>>)))
  PROVE  Holding(prepareResource(def, sent), doc, drop(doc.object, {a}))
<1> DEFINE object == doc.object
           other == set(object, a, List(<<>>))
           R == readOnlyParts(def, a, List(<<>>))
           left == drop(object, {a})
<1>1. /\ DOMAIN other = DOMAIN object /\ other[a] = List(<<>>)
      /\ \A b \in DOMAIN object : b # a => other[b] = object[b]
  BY DEF set
<1>2. /\ DOMAIN left = DOMAIN object \ {a} /\ IsMap(left)
      /\ \A b \in DOMAIN left : left[b] = object[b]
  BY DEF drop, IsMap
<1>3. Parts(sent) /\ sent.object = other /\ sent.schemas = doc.schemas
  BY DEF Holding
<1> HIDE DEF other, left
<1>4. slot(def, other, a) = List(<<>>)
  <2> DEFINE empty == List(<<>>)
  <2>1. isList(empty) /\ ~isObject(empty) /\ empty.list = <<>>
    BY Shapes
  <2>3. stripValue(empty, R) = empty
    BY <2>1 DEF stripValue, overObjects
  <2>4. assigned(empty) = empty
    <3> DEFINE w == overObjects(empty, LAMBDA o : drop(o, {c \in DOMAIN o : o[c] = Null}))
    <3>1. w = empty
      BY <2>1 DEF overObjects
    <3>2. without(<<>>, {}) = <<>>
      <4>1. IsSequence(<<>>)
        BY DEF IsSequence
      <4> QED
        BY <4>1, WithoutNothing
    <3>3. {i \in DOMAIN empty.list : empty.list[i] = Null} = {}
      BY <2>1
    <3>4. assigned(empty) =
            IF isList(w) THEN List(without(w.list, {i \in DOMAIN w.list : w.list[i] = Null})) ELSE w
      BY DEF assigned
    <3> HIDE DEF w, empty
    <3> QED
      BY <2>1, <3>1, <3>2, <3>3, <3>4 DEF empty
  <2>5. a \in DOMAIN def
    BY DEF TidyDocument
  <2>6. other[a] = empty
    BY <1>1
  <2> HIDE DEF empty, R
  <2> QED
    BY <2>3, <2>4, <2>5, <2>6 DEF slot, empty, R
<1>5. ASSUME NEW b \in DOMAIN object, b # a
      PROVE  slot(def, other, b) = object[b] /\ normalValue(object[b]) = object[b]
  <2>1. b \in DOMAIN def /\ Tidy(object[b], readOnlyParts(def, b, object[b])) /\ other[b] = object[b]
    BY <1>1, <1>5 DEF TidyDocument
  <2> QED
    BY <2>1, TidyStays DEF slot
<1>6. stays(def, other) = DOMAIN left
  <2>1. a \notin stays(def, other)
    BY <1>4 DEF stays
  <2>2. ASSUME NEW b \in DOMAIN object, b # a PROVE b \in stays(def, other)
    BY <1>1, <1>5, <2>2 DEF stays, TidyDocument, Tidy, having
  <2> QED
    BY <1>1, <1>2, <2>1, <2>2 DEF stays
<1>7. clean(def, other) = left
  <2>1. \A b \in DOMAIN left : normalValue(slot(def, other, b)) = left[b]
    BY <1>2, <1>5
  <2>2. clean(def, other) = [b \in DOMAIN left |-> left[b]]
    BY <1>6, <2>1, CleanByAttribute
  <2> QED
    BY <1>2, <2>2 DEF IsMap
<1> DEFINE between == [sent EXCEPT !.object = left]
<1>8. between.object = left /\ Holding(between, doc, left)
  <2>1. Holding(between, sent, left)
    BY <1>3, HoldingExcept
  <2> QED
    BY <1>3, <2>1 DEF Holding
<1>9. canonicalExtensions(between) = left
  <2>1. canonicalNames(left)
    BY <1>2 DEF TidyDocument, canonicalNames
  <2> HIDE DEF between
  <2> QED
    BY <1>2, <1>8, <2>1, ExtensionsStay
<1>10. decodes(other)
  BY <1>1 DEF decodes, TidyDocument, canonicalNames
<1>11. validResource(def, sent, left)
  BY <1>3, ValidBySchemas DEF left
<1>12. prepareResource(def, sent) =
         IF decodes(sent.object) /\ validResource(def, sent, canonicalExtensions([sent EXCEPT !.object = clean(def, sent.object)]))
         THEN [sent EXCEPT !.object = canonicalExtensions([sent EXCEPT !.object = clean(def, sent.object)])]
         ELSE Invalid
  BY DEF prepareResource, clean
<1>13. prepareResource(def, sent) = between
  BY <1>3, <1>7, <1>9, <1>10, <1>11, <1>12
<1> QED
  BY <1>8, <1>13 DEF left

\* PUT of a stored document without some elements of a list stores just that.
LEMMA RemovalStores ==
  ASSUME AtomicValues, FailuresTold, NEW def \in Definitions, NEW doc, Parts(doc), IsMap(doc),
         TidyDocument(def, doc.object), validResource(def, doc, doc.object),
         distinctive(def, doc),
         NEW a \in DOMAIN doc.object, isList(doc.object[a]), a \notin having(def, "immutable"),
         \A i \in DOMAIN doc.object[a].list :
           isObject(doc.object[a].list[i]) => "value" \in DOMAIN doc.object[a].list[i].object,
         NEW K, NEW sent, NEW kept,
         LET rest == without(doc.object[a].list, K) IN
         /\ rest # <<>> \/ ~def[a].required
         /\ Holding(sent, doc, set(doc.object, a, List(rest)))
         /\ rest = <<>> => Holding(kept, doc, drop(doc.object, {a}))
         /\ rest # <<>> => kept = sent
  PROVE  replacement(def, doc, sent) = kept
<1> DEFINE object == doc.object
           v == object[a]
           list == v.list
           rest == without(list, K)
           R == readOnlyParts(def, a, v)
           other == set(object, a, List(rest))
<1>1. Tidy(v, R) /\ Told(v) /\ IsSequence(list) /\ v = List(list) /\ a \in DOMAIN def
  BY StoredTold DEF TidyDocument, Tidy, Assigned
<1>2. IsSequence(rest) /\ Assigned(List(rest), R) /\ PrimaryDecided(List(rest)) /\ Told(List(rest))
  BY <1>1, RestTidy
<1>3. ~isObject(v) /\ a \notin extensions(def)
  <2>1. ~isObject(v)
    BY <1>1, Shapes
  <2> QED
    BY <2>1 DEF distinctive, validResource
<1>4. isList(List(rest)) /\ ~isObject(List(rest)) /\ List(rest).list = rest
  BY Shapes
<1>4a. R = having(def[a].sub, "readOnly") /\ readOnlyParts(def, a, List(rest)) = R
  BY <1>3 DEF readOnlyParts
<1>5. enforceComplex(v, List(rest), def[a]) = List(rest)
  <2>1. PICK g : \A i \in DOMAIN rest : g[i] \in DOMAIN list \ K /\ rest[i] = list[g[i]]
    BY <1>1, WithoutFrom
  <2>2. \A i, j \in DOMAIN list :
          /\ isObject(list[i]) /\ "value" \in DOMAIN list[i].object
          /\ hasValue(list[j], list[i].object.value)
          => i = j
    BY DEF distinctive
  <2>3. \A i \in DOMAIN list : isObject(list[i]) => AssignedObject(list[i], R)
    BY <1>1 DEF Tidy, Assigned
  <2> HIDE DEF rest
  <2>4. ASSUME NEW i \in DOMAIN rest, isObject(rest[i]) PROVE previous(list, rest, i) = rest[i].object
    <3> DEFINE k == g[i]
    <3>1. k \in DOMAIN list /\ rest[i] = list[k] /\ "value" \in DOMAIN rest[i].object
      BY <2>1, <2>4
    <3>2. rest[i].object.value # Null
      BY <2>3, <2>4, <3>1 DEF AssignedObject
    <3>3. \A j \in DOMAIN list : hasValue(list[j], rest[i].object.value) => j = k
      BY <2>2, <2>4, <3>1
    <3> HIDE DEF k, list
    <3> QED
      BY <1>1, <2>4, <3>1, <3>2, <3>3, PreviousSelf
  <2> HIDE DEF v, R
  <2>5. isList(v)
    BY DEF v
  <2> QED
    BY <1>1, <1>2, <1>4, <1>4a, <2>4, <2>5, ComplexStays DEF list
<1>6. /\ DOMAIN other = DOMAIN object /\ IsMap(other) /\ other[a] = List(rest)
      /\ \A b \in DOMAIN object : b # a => other[b] = object[b]
  BY DEF set, IsMap
<1>7. Parts(sent) /\ IsMap(sent) /\ sent.object = other /\ sent.schemas = doc.schemas /\ ~failed(sent)
  BY DEF Holding, Parts, failed
<1>8. DOMAIN object \subseteq DOMAIN def /\ "error" \notin DOMAIN object
  BY DEF TidyDocument, FailuresTold
<1>9. ASSUME NEW b \in DOMAIN object
      PROVE  /\ b \notin having(def, "readOnly")
             /\ b \in having(def, "immutable") => other[b] = object[b]
             /\ other[b] # Refused
             /\ enforceComplex(object[b], other[b], def[b]) = other[b]
  <2>1. b \notin having(def, "readOnly")
    BY DEF TidyDocument, having
  <2>2. CASE b = a
    <3>1. other[a] # Refused
      BY <1>2, <1>6 DEF Told
    <3> QED
      BY <1>5, <1>6, <2>1, <2>2, <3>1
  <2>3. CASE b # a
    <3>1. other[b] = object[b]
      BY <1>6, <2>3
    <3>2. object[b] # Refused
      BY StoredTold DEF Told
    <3>3. enforceComplex(object[b], object[b], def[b]) = object[b]
      BY AttributeStays
    <3> HIDE DEF other
    <3> QED
      BY <2>1, <3>1, <3>2, <3>3
  <2> QED
    BY <2>2, <2>3
<1> HIDE DEF other
<1>10. enforceReplacementMutability(def, doc, sent) = sent
  BY <1>6, <1>7, <1>8, <1>9, EnforcedStays
<1>11. replacement(def, doc, sent) = prepareResource(def, sent)
  BY <1>7, <1>10 DEF replacement
<1>12. CASE rest # <<>>
  <2>1. Tidy(List(rest), R)
    <3>1. List(rest) # Null /\ List(rest) # List(<<>>)
      BY <1>12, <1>4, Shapes
    <3> QED
      BY <1>2, <3>1 DEF Tidy
  <2>2. TidyDocument(def, other)
    BY <1>6, <1>9, <1>4a, <2>1 DEF TidyDocument, canonicalNames
  <2>3. validResource(def, doc, other)
    BY <1>1, <1>3, RestValid DEF other
  <2>4. validResource(def, sent, other)
    BY <1>7, <2>3, ValidBySchemas
  <2>5. prepareResource(def, sent) = sent
    BY <1>7, <2>2, <2>4, TidyDocumentStays
  <2> QED
    BY <1>11, <1>12, <2>5
<1>13. CASE rest = <<>>
  <2>1. validResource(def, doc, drop(object, {a}))
    BY <1>1, <1>3, <1>13, RestValid
  <2>2. Holding(sent, doc, set(object, a, List(<<>>)))
    BY <1>13
  <2>3. Holding(prepareResource(def, sent), doc, drop(object, {a}))
    BY <2>1, <2>2, EmptyListGoes
  <2>4. Holding(kept, doc, drop(object, {a}))
    BY <1>13
  <2> QED
    BY <1>11, <2>3, <2>4, HoldingSame
<1> QED
  BY <1>12, <1>13

\* From every stored document, under any schema, elements can be taken out of a list with
\* PUT: they are matched by value (enforceMultiValueMutability, then prepareResource).
THEOREM RemovalAlwaysPossible ==
  ASSUME AtomicValues, CanonicalSpelling, FailuresTold
  PROVE  Spec => []ElementsCanBeRemoved
<1>1. ASSUME CanonicalInv PROVE ElementsCanBeRemoved
  <2> SUFFICES ASSUME stored # None, distinctive(definition, stored), NEW a \in DOMAIN stored.object,
                      isList(stored.object[a]), a \notin having(definition, "immutable"),
                      \A i \in DOMAIN stored.object[a].list :
                        isObject(stored.object[a].list[i])
                          => "value" \in DOMAIN stored.object[a].list[i].object,
                      NEW K \in SUBSET DOMAIN stored.object[a].list
               PROVE  LET rest == without(stored.object[a].list, K)
                          sent == [stored EXCEPT !.object = set(stored.object, a, List(rest))]
                          kept == IF rest = <<>> THEN [stored EXCEPT !.object = drop(stored.object, {a})]
                                  ELSE sent
                      IN  rest # <<>> \/ ~definition[a].required
                            => replacement(definition, stored, sent) = kept
    BY DEF ElementsCanBeRemoved
  <2>1. /\ definition \in Definitions /\ Parts(stored) /\ IsMap(stored)
        /\ TidyDocument(definition, stored.object)
        /\ validResource(definition, stored, stored.object)
    BY <1>1 DEF CanonicalInv
  <2> DEFINE rest == without(stored.object[a].list, K)
             sent == [stored EXCEPT !.object = set(stored.object, a, List(rest))]
             without_a == [stored EXCEPT !.object = drop(stored.object, {a})]
             kept == IF rest = <<>> THEN without_a ELSE sent
  <2>2. /\ Holding(sent, stored, set(stored.object, a, List(rest)))
        /\ Holding(without_a, stored, drop(stored.object, {a}))
    BY <2>1, HoldingExcept
  <2> HIDE DEF sent, without_a
  <2>3. rest # <<>> \/ ~definition[a].required => replacement(definition, stored, sent) = kept
    BY <2>1, <2>2, RemovalStores
  <2> QED
    BY <2>3 DEF sent, without_a
<1> QED
  BY <1>1, CanonicalInvariance, PTL

\* From every stored document, under any schema, a PATCH that adds what is there changes
\* nothing (addValue's containsPatchValue, then enforcement and prepareResource).
THEOREM AddsAreRetriable ==
  ASSUME AtomicValues, CanonicalSpelling, FailuresTold
  PROVE  Spec => []AddCanBeRetried
<1>1. ASSUME CanonicalInv PROVE AddCanBeRetried
  <2> SUFFICES ASSUME stored # None, distinctive(definition, stored),
                      NEW ops \in SentPatches(definition), Len(ops) = 1,
                      ops[1].op = "add", ops[1].attr # None, ops[1].sub = None, ops[1].filter = None,
                      holdsAdded(stored, ops[1])
               PROVE  replacement(definition, stored, applyPatchDocument(definition, stored, ops)) = stored
    BY DEF AddCanBeRetried
  <2>1. IsSequence(ops) /\ \A n \in DOMAIN ops : FitOperation(ops[n])
    BY <1>1, SentFits DEF CanonicalInv
  <2>2. FitOperation(ops[1])
    BY <2>1, SequenceFacts
  <2>3. applyPatchDocument(definition, stored, ops) = stored
    BY <1>1, <2>1, <2>2, AddedAgain DEF CanonicalInv
  <2>4. replacement(definition, stored, stored) = stored
    BY <1>1, ReplacementStays DEF CanonicalInv
  <2> QED
    BY <2>3, <2>4
<1> QED
  BY <1>1, CanonicalInvariance, PTL
-----------------------------------------------------------------------------
(* What a response shows (Projection) *)

\* A path has one name or two.
LEMMA PathShapes ==
  ASSUME NEW def, NEW p \in projectionPaths(def)
  PROVE  (\E a : p = <<a>>) \/ (\E a, b : p = <<a, b>>)
  BY DEF projectionPaths, attributePaths, subPaths

\* Which paths match which.
LEMMA Matching ==
  ASSUME NEW a, NEW b, NEW c, NEW d
  PROVE  /\ matches(<<a>>, <<c>>) <=> a = c
         /\ matches(<<a>>, <<c, d>>) <=> a = c
         /\ ~matches(<<a, b>>, <<c>>)
         /\ matches(<<a, b>>, <<c, d>>) <=> a = c /\ b = d
  BY DEF matches

\* A value's path is its attribute's, or one below it.
LEMMA ValuePaths ==
  ASSUME NEW a, NEW v, NEW l \in valuesAt(a, v)
  PROVE  l[1] = <<a>> \/ \E b : l[1] = <<a, b>>
<1>1. ASSUME NEW i, NEW e, l \in valuesIn(a, i, e)
      PROVE  l[1] = <<a>> \/ \E b : l[1] = <<a, b>>
  BY <1>1 DEF valuesIn
<1> QED
  BY <1>1 DEF valuesAt

LEMMA LeafOf ==
  ASSUME NEW object, NEW l
  PROVE  l \in leaves(object) <=> \E a \in DOMAIN object : l \in valuesAt(a, object[a])
  BY DEF leaves

\* The values at an attribute are those its path matches.
LEMMA ValueMatches ==
  ASSUME NEW a, NEW v, NEW l \in valuesAt(a, v), NEW c, NEW d
  PROVE  /\ matches(<<c>>, l[1]) <=> c = a
         /\ matches(<<c, d>>, l[1]) => c = a
<1>1. CASE l[1] = <<a>>
  <2>1. (matches(<<c>>, <<a>>) <=> c = a) /\ ~matches(<<c, d>>, <<a>>)
    BY Matching
  <2> QED
    BY <1>1, <2>1
<1>2. CASE \E b : l[1] = <<a, b>>
  <2>1. PICK b : l[1] = <<a, b>>
    BY <1>2
  <2>2. (matches(<<c>>, <<a, b>>) <=> c = a) /\ (matches(<<c, d>>, <<a, b>>) <=> c = a /\ d = b)
    BY Matching
  <2> QED
    BY <2>1, <2>2
<1> QED
  BY <1>1, <1>2, ValuePaths

\* A parent of a path matches whatever the path matches.
LEMMA MatchesThrough ==
  ASSUME NEW def, NEW p \in projectionPaths(def), NEW q \in projectionPaths(def),
         NEW object, NEW l \in leaves(object), matches(q, p), matches(p, l[1])
  PROVE  matches(q, l[1])
<1>1. PICK a \in DOMAIN object : l \in valuesAt(a, object[a])
  BY LeafOf
<1>3. CASE \E c : q = <<c>>
  <2>1. PICK c : q = <<c>>
    BY <1>3
  <2>2. ASSUME NEW d, NEW e, p = <<d>> \/ p = <<d, e>> PROVE d = c /\ d = a
    <3>1. (matches(<<c>>, <<d>>) <=> c = d) /\ (matches(<<c>>, <<d, e>>) <=> c = d)
      BY Matching
    <3>2. (matches(<<d>>, l[1]) => d = a) /\ (matches(<<d, e>>, l[1]) => d = a)
      BY <1>1, ValueMatches
    <3> QED
      BY <2>1, <2>2, <3>1, <3>2
  <2>3. c = a
    BY <2>2, PathShapes
  <2> QED
    BY <1>1, <2>1, <2>3, ValueMatches
<1>4. CASE \E c, d : q = <<c, d>>
  <2>1. PICK c, d : q = <<c, d>>
    BY <1>4
  <2>2. ASSUME NEW e PROVE p # <<e>>
    <3>1. ~matches(<<c, d>>, <<e>>)
      BY Matching
    <3> QED
      BY <2>1, <3>1
  <2>3. PICK e, f : p = <<e, f>>
    BY <2>2, PathShapes
  <2>4. matches(<<c, d>>, <<e, f>>) <=> c = e /\ d = f
    BY Matching
  <2>5. q = p
    BY <2>1, <2>3, <2>4
  <2> QED
    BY <2>5
<1> QED
  BY <1>3, <1>4, PathShapes

\* The values below a set or a dropped attribute.
LEMMA LeavesSet ==
  ASSUME NEW T, NEW a, NEW v, NEW l
  PROVE  /\ l \in leaves(set(T, a, v)) <=>
              l \in valuesAt(a, v) \/ (l \in leaves(T) /\ ~matches(<<a>>, l[1]))
         /\ l \in leaves(drop(T, {a})) <=> l \in leaves(T) /\ ~matches(<<a>>, l[1])
         /\ l \in leaves(T) /\ matches(<<a>>, l[1]) <=> a \in DOMAIN T /\ l \in valuesAt(a, T[a])
<1> DEFINE S == set(T, a, v)
           D == drop(T, {a})
<1>1. DOMAIN S = DOMAIN T \cup {a} /\ S[a] = v /\ \A b \in DOMAIN T \ {a} : S[b] = T[b]
  BY DEF set
<1>2. DOMAIN D = DOMAIN T \ {a} /\ \A b \in DOMAIN D : D[b] = T[b]
  BY DEF drop
<1> HIDE DEF S, D
<1>3. ASSUME NEW b, NEW w, l \in valuesAt(b, w) PROVE matches(<<a>>, l[1]) <=> a = b
  BY <1>3, ValueMatches
<1>4. l \in leaves(S) <=> l \in valuesAt(a, v) \/ (l \in leaves(T) /\ ~matches(<<a>>, l[1]))
  BY <1>1, <1>3, LeafOf
<1>5. l \in leaves(D) <=> l \in leaves(T) /\ ~matches(<<a>>, l[1])
  BY <1>2, <1>3, LeafOf
<1>6. l \in leaves(T) /\ matches(<<a>>, l[1]) <=> a \in DOMAIN T /\ l \in valuesAt(a, T[a])
  BY <1>3, LeafOf
<1> QED
  BY <1>4, <1>5, <1>6 DEF S, D

\* deleteProjectedPath takes away the values its path matches, first below an attribute.
LEMMA StripLeaves ==
  ASSUME AtomicValues, NEW a, NEW b, NEW v, NEW l
  PROVE  l \in valuesAt(a, stripValue(v, {b})) <=> l \in valuesAt(a, v) /\ ~matches(<<a, b>>, l[1])
<1>1. ASSUME NEW i, NEW e, isObject(e)
      PROVE  l \in valuesIn(a, i, Object(drop(e.object, {b}))) <=>
               l \in valuesIn(a, i, e) /\ ~matches(<<a, b>>, l[1])
  <2> DEFINE f == drop(e.object, {b})
  <2>1. DOMAIN f = DOMAIN e.object \ {b} /\ \A c \in DOMAIN f : f[c] = e.object[c]
    BY DEF drop
  <2> HIDE DEF f
  <2>2. isObject(Object(f)) /\ Object(f).object = f
    BY Shapes
  <2>3. l \in valuesIn(a, i, Object(f)) <=> \E c \in DOMAIN f : l = <<<<a, c>>, i, f[c]>>
    BY <2>2 DEF valuesIn
  <2>4. l \in valuesIn(a, i, e) <=> \E c \in DOMAIN e.object : l = <<<<a, c>>, i, e.object[c]>>
    BY <1>1 DEF valuesIn
  <2>5. ASSUME NEW c, NEW w, l = <<<<a, c>>, i, w>> PROVE matches(<<a, b>>, l[1]) <=> b = c
    BY <2>5, Matching
  <2>6. l \in valuesIn(a, i, Object(f)) <=> l \in valuesIn(a, i, e) /\ ~matches(<<a, b>>, l[1])
    BY <2>1, <2>3, <2>4, <2>5
  <2> QED
    BY <2>6 DEF f
<1>2. ASSUME NEW i, NEW e, ~isObject(e), l \in valuesIn(a, i, e) PROVE ~matches(<<a, b>>, l[1])
  BY <1>2, Matching DEF valuesIn
<1>3. CASE isObject(v)
  <2>1. stripValue(v, {b}) = Object(drop(v.object, {b}))
    BY <1>3 DEF stripValue, overObjects
  <2> QED
    BY <1>1, <1>3, <2>1, Shapes DEF valuesAt
<1>4. CASE ~isObject(v) /\ isList(v)
  <2> DEFINE s == [i \in DOMAIN v.list |->
                     IF isObject(v.list[i]) THEN Object(drop(v.list[i].object, {b})) ELSE v.list[i]]
  <2>1. stripValue(v, {b}) = List(s)
    BY <1>4 DEF stripValue, overObjects
  <2>2. ASSUME NEW i \in DOMAIN v.list
        PROVE  l \in valuesIn(a, i, s[i]) <=> l \in valuesIn(a, i, v.list[i]) /\ ~matches(<<a, b>>, l[1])
    BY <1>1, <1>2
  <2>3. DOMAIN s = DOMAIN v.list
    OBVIOUS
  <2> HIDE DEF s
  <2>4. ~isObject(List(s)) /\ isList(List(s)) /\ List(s).list = s
    BY Shapes
  <2>5. l \in valuesAt(a, List(s)) <=> \E i \in DOMAIN s : l \in valuesIn(a, i, s[i])
    BY <2>4 DEF valuesAt
  <2>6. l \in valuesAt(a, v) <=> \E i \in DOMAIN v.list : l \in valuesIn(a, i, v.list[i])
    BY <1>4 DEF valuesAt
  <2> QED
    BY <2>1, <2>2, <2>3, <2>5, <2>6
<1>5. CASE ~isObject(v) /\ ~isList(v)
  BY <1>2, <1>5 DEF stripValue, overObjects, valuesAt
<1> QED
  BY <1>3, <1>4, <1>5

LEMMA DeleteLeaves ==
  ASSUME AtomicValues, NEW def, NEW p \in projectionPaths(def), NEW T, NEW l
  PROVE  l \in leaves(deleteProjectedPath(p, T)) <=> l \in leaves(T) /\ ~matches(p, l[1])
<1> DEFINE D == deleteProjectedPath(p, T)
<1>1. ASSUME NEW c, NEW d, p = <<c>> \/ p = <<c, d>>, c \notin DOMAIN T, l \in leaves(T)
      PROVE  ~matches(p, l[1])
  <2>1. PICK a \in DOMAIN T : l \in valuesAt(a, T[a])
    BY <1>1, LeafOf
  <2>2. ~matches(<<c>>, l[1]) /\ ~matches(<<c, d>>, l[1])
    BY <1>1, <2>1, ValueMatches
  <2> QED
    BY <1>1, <2>2
<1>2. CASE \E a : p = <<a>>
  <2>1. PICK a : p = <<a>>
    BY <1>2
  <2>2. Len(p) = 1 /\ p[1] = a
    BY <2>1
  <2>3. CASE a \notin DOMAIN T
    <3>1. D = T
      BY <2>2, <2>3 DEF deleteProjectedPath
    <3> QED
      BY <1>1, <2>1, <2>3, <3>1
  <2>4. CASE a \in DOMAIN T
    <3>1. D = drop(T, {a})
      BY <2>2, <2>4 DEF deleteProjectedPath
    <3> QED
      BY <2>1, <3>1, LeavesSet
  <2> QED
    BY <2>3, <2>4
<1>3. CASE \E a, b : p = <<a, b>>
  <2>1. PICK a, b : p = <<a, b>>
    BY <1>3
  <2>2. Len(p) # 1 /\ p[1] = a /\ p[2] = b
    BY <2>1
  <2>3. CASE a \notin DOMAIN T
    <3>1. D = T
      BY <2>2, <2>3 DEF deleteProjectedPath
    <3> QED
      BY <1>1, <2>1, <2>3, <3>1
  <2>4. CASE a \in DOMAIN T
    <3> DEFINE rest == stripValue(T[a], {b})
    <3>1. D = IF isObject(rest) /\ DOMAIN rest.object = {} THEN drop(T, {a}) ELSE set(T, a, rest)
      BY <2>2, <2>4 DEF deleteProjectedPath, stripValue
    <3>2. l \in valuesAt(a, rest) <=> l \in valuesAt(a, T[a]) /\ ~matches(p, l[1])
      BY <2>1, StripLeaves
    <3> HIDE DEF rest
    <3>3. isObject(rest) /\ DOMAIN rest.object = {} => l \notin valuesAt(a, rest)
      BY DEF valuesAt, valuesIn
    <3>4. l \in leaves(D) <=> l \in valuesAt(a, rest) \/ (l \in leaves(T) /\ ~matches(<<a>>, l[1]))
      BY <3>1, <3>3, LeavesSet
    <3>5. ASSUME l \in leaves(T), matches(p, l[1]) PROVE matches(<<a>>, l[1])
      BY <2>1, <3>5, LeafOf, ValueMatches
    <3> QED
      BY <2>4, <3>2, <3>4, <3>5, LeavesSet
  <2> QED
    BY <2>3, <2>4
<1> QED
  BY <1>2, <1>3, PathShapes

\* Objects and values of which something was taken away, places kept.
SubMap(f, g) == DOMAIN f \subseteq DOMAIN g /\ \A b \in DOMAIN f : f[b] = g[b]

ElementPart(e, whole) ==
  IF isObject(whole) THEN isObject(e) /\ SubMap(e.object, whole.object)
  ELSE e = whole \/ (isObject(e) /\ DOMAIN e.object = {})

ValuePart(v, whole) ==
  IF isObject(whole) THEN isObject(v) /\ SubMap(v.object, whole.object)
  ELSE IF isList(whole)
  THEN /\ ~isObject(v) /\ isList(v)
       /\ IsSequence(v.list) /\ IsSequence(whole.list) /\ Len(v.list) = Len(whole.list)
       /\ \A i \in DOMAIN whole.list : ElementPart(v.list[i], whole.list[i])
  ELSE v = whole

Within(T, S) == DOMAIN T \subseteq DOMAIN S /\ \A a \in DOMAIN T : ValuePart(T[a], S[a])

ListsFit(S) == \A a \in DOMAIN S : ~isObject(S[a]) /\ isList(S[a]) => IsSequence(S[a].list)

LEMMA WithinItself ==
  ASSUME NEW S, ListsFit(S)
  PROVE  Within(S, S)
  BY DEF Within, ListsFit, ValuePart, ElementPart, SubMap

LEMMA WithinFits ==
  ASSUME NEW T, NEW S, Within(T, S)
  PROVE  ListsFit(T)
<1>1. ASSUME NEW a \in DOMAIN T, ~isObject(T[a]), isList(T[a]) PROVE IsSequence(T[a].list)
  <2>1. ValuePart(T[a], S[a])
    BY DEF Within
  <2> QED
    BY <1>1, <2>1 DEF ValuePart
<1> QED
  BY <1>1 DEF ListsFit

\* What is shown of a part is shown of the whole.
LEMMA PartLeaves ==
  ASSUME NEW a, NEW v, NEW whole, ValuePart(v, whole), NEW l \in valuesAt(a, v)
  PROVE  l \in valuesAt(a, whole)
<1>1. ASSUME NEW i, NEW e, NEW f, ElementPart(e, f), l \in valuesIn(a, i, e)
      PROVE  l \in valuesIn(a, i, f)
  BY <1>1 DEF ElementPart, valuesIn, SubMap
<1>2. CASE isObject(whole)
  BY <1>1, <1>2 DEF ValuePart, ElementPart, valuesAt
<1>3. CASE ~isObject(whole) /\ isList(whole)
  <2>1. DOMAIN v.list = DOMAIN whole.list
    BY <1>3, SequenceFacts DEF ValuePart
  <2>2. PICK i \in DOMAIN v.list : l \in valuesIn(a, i, v.list[i])
    BY <1>3 DEF ValuePart, valuesAt
  <2>3. l \in valuesIn(a, i, whole.list[i])
    BY <1>1, <1>3, <2>1, <2>2 DEF ValuePart
  <2> QED
    BY <1>3, <2>1, <2>3 DEF valuesAt
<1>4. CASE ~isObject(whole) /\ ~isList(whole)
  BY <1>4 DEF ValuePart
<1> QED
  BY <1>2, <1>3, <1>4

\* Deleting leaves a part.
LEMMA StripPart ==
  ASSUME AtomicValues, NEW v, NEW whole, ValuePart(v, whole), NEW b
  PROVE  ValuePart(stripValue(v, {b}), whole)
<1>1. ASSUME NEW e, isObject(e)
      PROVE  /\ isObject(Object(drop(e.object, {b})))
             /\ SubMap(Object(drop(e.object, {b})).object, e.object)
  <2> DEFINE f == drop(e.object, {b})
  <2>1. SubMap(f, e.object)
    BY DEF drop, SubMap
  <2> HIDE DEF f
  <2>2. isObject(Object(f)) /\ Object(f).object = f
    BY Shapes
  <2> QED
    BY <2>1, <2>2 DEF f
<1>2. CASE isObject(whole)
  <2>1. isObject(v) /\ SubMap(v.object, whole.object)
    BY <1>2 DEF ValuePart
  <2>2. stripValue(v, {b}) = Object(drop(v.object, {b}))
    BY <2>1 DEF stripValue, overObjects
  <2>3. SubMap(Object(drop(v.object, {b})).object, whole.object)
    BY <1>1, <2>1 DEF SubMap
  <2> QED
    BY <1>1, <1>2, <2>1, <2>2, <2>3 DEF ValuePart
<1>3. CASE ~isObject(whole) /\ isList(whole)
  <2> DEFINE strip(e) == IF isObject(e) THEN Object(drop(e.object, {b})) ELSE e
             s == [i \in DOMAIN v.list |-> strip(v.list[i])]
  <2>1. /\ ~isObject(v) /\ isList(v)
        /\ IsSequence(v.list) /\ IsSequence(whole.list) /\ Len(v.list) = Len(whole.list)
        /\ \A i \in DOMAIN whole.list : ElementPart(v.list[i], whole.list[i])
    BY <1>3 DEF ValuePart
  <2>2. stripValue(v, {b}) = List(s)
    BY <2>1 DEF stripValue, overObjects
  <2>3. ASSUME NEW e, NEW f, ElementPart(e, f) PROVE ElementPart(strip(e), f)
    BY <1>1, <2>3 DEF ElementPart, SubMap
  <2>4. DOMAIN v.list = DOMAIN whole.list
    BY <2>1, SequenceFacts
  <2> HIDE DEF strip
  <2>5. IsSequence(s) /\ Len(s) = Len(v.list)
    BY <2>1, MapIsSequence
  <2>6. \A i \in DOMAIN whole.list : ElementPart(s[i], whole.list[i])
    BY <2>1, <2>3, <2>4
  <2> HIDE DEF s
  <2>7. ~isObject(List(s)) /\ isList(List(s)) /\ List(s).list = s
    BY Shapes
  <2> QED
    BY <1>3, <2>1, <2>2, <2>5, <2>6, <2>7 DEF ValuePart
<1>4. CASE ~isObject(whole) /\ ~isList(whole)
  BY <1>4 DEF ValuePart, stripValue, overObjects
<1> QED
  BY <1>2, <1>3, <1>4

LEMMA WithinSet ==
  ASSUME NEW T, NEW S, Within(T, S), NEW a \in DOMAIN S, NEW v, ValuePart(v, S[a])
  PROVE  Within(set(T, a, v), S)
  BY DEF Within, set

LEMMA WithinDrop ==
  ASSUME NEW T, NEW S, Within(T, S), NEW A
  PROVE  Within(drop(T, A), S)
  BY DEF Within, drop

LEMMA DeleteWithin ==
  ASSUME AtomicValues, NEW def, NEW p \in projectionPaths(def), NEW T, NEW S, Within(T, S)
  PROVE  Within(deleteProjectedPath(p, T), S)
<1>1. CASE p[1] \notin DOMAIN T
  BY <1>1 DEF deleteProjectedPath
<1>2. CASE p[1] \in DOMAIN T
  <2> DEFINE rest == stripValue(T[p[1]], {p[2]})
  <2>1. \/ deleteProjectedPath(p, T) = drop(T, {p[1]})
        \/ deleteProjectedPath(p, T) = set(T, p[1], rest)
    BY <1>2 DEF deleteProjectedPath, stripValue
  <2>2. p[1] \in DOMAIN S /\ ValuePart(T[p[1]], S[p[1]])
    BY <1>2 DEF Within
  <2>3. ValuePart(rest, S[p[1]])
    BY <2>2, StripPart
  <2> HIDE DEF rest
  <2> QED
    BY <2>1, <2>2, <2>3, WithinSet, WithinDrop
<1> QED
  BY <1>1, <1>2

\* What copyProjectedPath makes of an object, and of the value of an attribute, of which
\* a part is there already.
child(from, into, b) == IF b \in DOMAIN from THEN set(into, b, from[b]) ELSE into

elementCopy(whole, e, b) ==
  IF isObject(whole) /\ isObject(e) THEN Object(child(whole.object, e.object, b)) ELSE e

listCopy(from, into, b) == [i \in DOMAIN from |-> elementCopy(from[i], into[i], b)]

LEMMA ElementCopied ==
  ASSUME AtomicValues, NEW a, NEW b, NEW whole, NEW e, ElementPart(e, whole), isObject(e)
  PROVE  LET c == elementCopy(whole, e, b) IN
         /\ ElementPart(c, whole) /\ isObject(c)
         /\ \A i, l : l \in valuesIn(a, i, c) <=>
              l \in valuesIn(a, i, e) \/ (l \in valuesIn(a, i, whole) /\ matches(<<a, b>>, l[1]))
<1> DEFINE c == elementCopy(whole, e, b)
<1>1. CASE isObject(whole)
  <2> DEFINE f == child(whole.object, e.object, b)
  <2>1. SubMap(e.object, whole.object)
    BY <1>1 DEF ElementPart
  <2>2. /\ DOMAIN f = DOMAIN e.object \cup ({b} \cap DOMAIN whole.object)
        /\ \A n \in DOMAIN f : f[n] = whole.object[n]
    BY <2>1 DEF child, set, SubMap
  <2>3. c = Object(f)
    BY <1>1 DEF elementCopy
  <2> HIDE DEF f, c
  <2>4. isObject(c) /\ c.object = f
    BY <2>3, Shapes
  <2>5. SubMap(f, whole.object)
    BY <2>1, <2>2 DEF SubMap
  <2>6. ASSUME NEW i, NEW l
        PROVE  l \in valuesIn(a, i, c) <=>
                 l \in valuesIn(a, i, e) \/ (l \in valuesIn(a, i, whole) /\ matches(<<a, b>>, l[1]))
    <3>1. l \in valuesIn(a, i, c) <=> \E n \in DOMAIN f : l = <<<<a, n>>, i, whole.object[n]>>
      BY <2>2, <2>4 DEF valuesIn
    <3>2. l \in valuesIn(a, i, e) <=> \E n \in DOMAIN e.object : l = <<<<a, n>>, i, whole.object[n]>>
      BY <2>1 DEF valuesIn, SubMap
    <3>3. l \in valuesIn(a, i, whole) <=>
            \E n \in DOMAIN whole.object : l = <<<<a, n>>, i, whole.object[n]>>
      BY <1>1 DEF valuesIn
    <3>4. ASSUME NEW n, l = <<<<a, n>>, i, whole.object[n]>> PROVE matches(<<a, b>>, l[1]) <=> b = n
      BY <3>4, Matching
    <3> QED
      BY <2>1, <2>2, <3>1, <3>2, <3>3, <3>4 DEF SubMap
  <2> QED
    BY <1>1, <2>4, <2>5, <2>6 DEF ElementPart, c
<1>2. CASE ~isObject(whole)
  <2>1. c = e
    BY <1>2 DEF elementCopy
  <2>2. ASSUME NEW i, NEW l, l \in valuesIn(a, i, whole) PROVE ~matches(<<a, b>>, l[1])
    BY <1>2, <2>2, Matching DEF valuesIn
  <2> HIDE DEF c
  <2> QED
    BY <2>1, <2>2 DEF c
<1> QED
  BY <1>1, <1>2

\* The same for an element that is there whole.
LEMMA WholeCopied ==
  ASSUME AtomicValues, NEW a, NEW b, NEW whole, ~isObject(whole)
  PROVE  /\ elementCopy(whole, whole, b) = whole
         /\ \A i, l : l \in valuesIn(a, i, whole) => ~matches(<<a, b>>, l[1])
<1>1. ASSUME NEW i, NEW l, l \in valuesIn(a, i, whole) PROVE ~matches(<<a, b>>, l[1])
  BY <1>1, Matching DEF valuesIn
<1> QED
  BY <1>1 DEF elementCopy

\* The value a copy leaves at its attribute: v is what was there, or nothing was.
LEMMA ListCopied ==
  ASSUME AtomicValues, NEW a, NEW b, NEW from, NEW into, IsSequence(from), IsSequence(into),
         Len(into) = Len(from), \A i \in DOMAIN from : ElementPart(into[i], from[i])
  PROVE  LET s == listCopy(from, into, b) IN
         /\ IsSequence(s) /\ Len(s) = Len(from)
         /\ \A i \in DOMAIN from : ElementPart(s[i], from[i])
         /\ \A i \in DOMAIN from : \A l : l \in valuesIn(a, i, s[i]) <=>
              l \in valuesIn(a, i, into[i]) \/ (l \in valuesIn(a, i, from[i]) /\ matches(<<a, b>>, l[1]))
<1> DEFINE s == listCopy(from, into, b)
<1>1. IsSequence(s) /\ Len(s) = Len(from)
  BY MapIsSequence DEF listCopy
<1>2. ASSUME NEW i \in DOMAIN from
      PROVE  /\ ElementPart(s[i], from[i])
             /\ \A l : l \in valuesIn(a, i, s[i]) <=>
                  l \in valuesIn(a, i, into[i]) \/ (l \in valuesIn(a, i, from[i]) /\ matches(<<a, b>>, l[1]))
  <2>1. s[i] = elementCopy(from[i], into[i], b)
    BY DEF listCopy
  <2> HIDE DEF s
  <2>2. CASE isObject(into[i])
    BY <2>1, <2>2, ElementCopied
  <2>3. CASE ~isObject(into[i])
    <3>1. into[i] = from[i]
      BY <2>3 DEF ElementPart
    <3>2. s[i] = from[i]
      BY <2>1, <2>3, <3>1, WholeCopied
    <3> QED
      BY <2>3, <3>1, <3>2, WholeCopied
  <2> QED
    BY <2>2, <2>3
<1> HIDE DEF s
<1>3. /\ IsSequence(s) /\ Len(s) = Len(from)
      /\ \A i \in DOMAIN from : ElementPart(s[i], from[i])
      /\ \A i \in DOMAIN from : \A l : l \in valuesIn(a, i, s[i]) <=>
              l \in valuesIn(a, i, into[i]) \/ (l \in valuesIn(a, i, from[i]) /\ matches(<<a, b>>, l[1]))
  BY <1>1, <1>2
<1> QED
  BY <1>3 DEF s

\* copyProjectedPath below an attribute adds the values its path matches.
LEMMA CopyBelow ==
  ASSUME AtomicValues, NEW T, NEW S, Within(T, S), ListsFit(S), NEW a \in DOMAIN S, NEW b,
         isObject(S[a]) \/ isList(S[a])
  PROVE  \E c : /\ copyProjectedPath(S, <<a, b>>, T) = set(T, a, c)
                /\ ValuePart(c, S[a])
                /\ \A l : l \in valuesAt(a, c) <=>
                     \/ a \in DOMAIN T /\ l \in valuesAt(a, T[a])
                     \/ l \in valuesAt(a, S[a]) /\ matches(<<a, b>>, l[1])
<1>0. DOMAIN NoFields = {}
  BY DEF NoFields
<1>1. CASE isObject(S[a])
  <2> DEFINE into == IF a \in DOMAIN T /\ isObject(T[a]) THEN T[a].object ELSE NoFields
             e == Object(into)
             c == elementCopy(S[a], e, b)
  <2>1. isObject(e) /\ e.object = into
    BY Shapes
  <2>2. copyProjectedPath(S, <<a, b>>, T) = set(T, a, Object(child(S[a].object, into, b)))
    BY <1>1 DEF copyProjectedPath, child
  <2>3. copyProjectedPath(S, <<a, b>>, T) = set(T, a, c)
    BY <1>1, <2>1, <2>2 DEF elementCopy
  <2>4. a \in DOMAIN T => isObject(T[a]) /\ SubMap(T[a].object, S[a].object)
    BY <1>1 DEF Within, ValuePart
  <2>5. SubMap(into, S[a].object)
    BY <1>0, <2>4 DEF SubMap
  <2>6. ASSUME NEW l
        PROVE  l \in valuesIn(a, 0, e) <=> a \in DOMAIN T /\ l \in valuesAt(a, T[a])
    <3>1. l \in valuesIn(a, 0, e) <=> \E n \in DOMAIN into : l = <<<<a, n>>, 0, into[n]>>
      BY <2>1 DEF valuesIn
    <3>2. CASE a \in DOMAIN T
      BY <2>4, <3>1, <3>2 DEF valuesAt, valuesIn
    <3>3. CASE a \notin DOMAIN T
      BY <1>0, <3>1, <3>3
    <3> QED
      BY <3>2, <3>3
  <2> HIDE DEF into, e
  <2>7. ElementPart(e, S[a])
    BY <1>1, <2>1, <2>5 DEF ElementPart
  <2>8. /\ ElementPart(c, S[a]) /\ isObject(c)
        /\ \A l : l \in valuesIn(a, 0, c) <=>
             l \in valuesIn(a, 0, e) \/ (l \in valuesIn(a, 0, S[a]) /\ matches(<<a, b>>, l[1]))
    BY <2>1, <2>7, ElementCopied
  <2> HIDE DEF c
  <2>9. ValuePart(c, S[a])
    BY <1>1, <2>8 DEF ElementPart, ValuePart
  <2>10. valuesAt(a, c) = valuesIn(a, 0, c) /\ valuesAt(a, S[a]) = valuesIn(a, 0, S[a])
    BY <1>1, <2>8 DEF valuesAt
  <2> QED
    BY <2>3, <2>6, <2>8, <2>9, <2>10
<1>2. CASE ~isObject(S[a]) /\ isList(S[a])
  <2> DEFINE from == S[a].list
             blank == [i \in DOMAIN from |-> Object(NoFields)]
             into == IF a \in DOMAIN T /\ isList(T[a]) /\ Len(T[a].list) = Len(from)
                     THEN T[a].list ELSE blank
             s == listCopy(from, into, b)
  <2>1. IsSequence(from)
    BY <1>2 DEF ListsFit
  <2>2. copyProjectedPath(S, <<a, b>>, T) = set(T, a, List(s))
    BY <1>2 DEF copyProjectedPath, child, listCopy, elementCopy
  <2>3. isObject(Object(NoFields)) /\ Object(NoFields).object = NoFields
    BY Shapes
  <2>4. IsSequence(blank) /\ Len(blank) = Len(from)
    BY <2>1, MapIsSequence
  <2>5. \A i \in DOMAIN from : ElementPart(blank[i], from[i])
    BY <1>0, <2>3 DEF ElementPart, SubMap
  <2>6. ASSUME NEW i \in DOMAIN from, NEW l PROVE l \notin valuesIn(a, i, blank[i])
    BY <1>0, <2>3 DEF valuesIn
  <2>7. a \in DOMAIN T =>
          /\ ~isObject(T[a]) /\ isList(T[a]) /\ IsSequence(T[a].list) /\ Len(T[a].list) = Len(from)
          /\ \A i \in DOMAIN from : ElementPart(T[a].list[i], from[i])
    BY <1>2 DEF Within, ValuePart
  <2> HIDE DEF blank, from
  <2>8. /\ a \in DOMAIN T => into = T[a].list
        /\ a \notin DOMAIN T => into = blank
    BY <2>7
  <2> HIDE DEF into
  <2>9. /\ IsSequence(into) /\ Len(into) = Len(from)
        /\ \A i \in DOMAIN from : ElementPart(into[i], from[i])
    BY <2>4, <2>5, <2>7, <2>8
  <2>10. /\ IsSequence(s) /\ Len(s) = Len(from)
         /\ \A i \in DOMAIN from : ElementPart(s[i], from[i])
         /\ \A i \in DOMAIN from : \A l : l \in valuesIn(a, i, s[i]) <=>
              l \in valuesIn(a, i, into[i]) \/ (l \in valuesIn(a, i, from[i]) /\ matches(<<a, b>>, l[1]))
    BY <2>1, <2>9, ListCopied
  <2> HIDE DEF s
  <2>11. DOMAIN s = DOMAIN from /\ DOMAIN into = DOMAIN from
    BY <2>1, <2>9, <2>10, SequenceFacts
  <2>12. ~isObject(List(s)) /\ isList(List(s)) /\ List(s).list = s
    BY Shapes
  <2>13. ValuePart(List(s), S[a])
    BY <1>2, <2>1, <2>10, <2>12 DEF ValuePart, from
  <2>14. ASSUME NEW l
         PROVE  l \in valuesAt(a, List(s)) <=>
                  \/ a \in DOMAIN T /\ l \in valuesAt(a, T[a])
                  \/ l \in valuesAt(a, S[a]) /\ matches(<<a, b>>, l[1])
    <3>1. l \in valuesAt(a, List(s)) <=> \E i \in DOMAIN from : l \in valuesIn(a, i, s[i])
      BY <2>11, <2>12 DEF valuesAt
    <3>2. l \in valuesAt(a, S[a]) <=> \E i \in DOMAIN from : l \in valuesIn(a, i, from[i])
      BY <1>2 DEF valuesAt, from
    <3>3. a \in DOMAIN T /\ l \in valuesAt(a, T[a]) <=>
            \E i \in DOMAIN from : l \in valuesIn(a, i, into[i])
      <4>1. CASE a \in DOMAIN T
        BY <2>7, <2>8, <2>11, <4>1 DEF valuesAt
      <4>2. CASE a \notin DOMAIN T
        BY <2>6, <2>8, <4>2
      <4> QED
        BY <4>1, <4>2
    <3> QED
      BY <2>10, <3>1, <3>2, <3>3
  <2> QED
    BY <2>2, <2>13, <2>14
<1> QED
  BY <1>1, <1>2

LEMMA CopyLeaves ==
  ASSUME AtomicValues, NEW def, NEW p \in projectionPaths(def),
         NEW T, NEW S, Within(T, S), ListsFit(S)
  PROVE  /\ Within(copyProjectedPath(S, p, T), S)
         /\ \A l : l \in leaves(copyProjectedPath(S, p, T)) <=>
              l \in leaves(T) \/ (l \in leaves(S) /\ matches(p, l[1]))
<1> DEFINE C == copyProjectedPath(S, p, T)
           Goal == /\ Within(C, S)
                   /\ \A l : l \in leaves(C) <=> l \in leaves(T) \/ (l \in leaves(S) /\ matches(p, l[1]))
<1> SUFFICES Goal
  OBVIOUS
<1>1. ASSUME C = T, \A l \in leaves(S) : ~matches(p, l[1]) PROVE Goal
  BY <1>1
<1>2. ASSUME NEW a \in DOMAIN S, NEW c, C = set(T, a, c), ValuePart(c, S[a]),
             \A l \in leaves(S) : matches(p, l[1]) => matches(<<a>>, l[1]),
             \A l : l \in valuesAt(a, c) <=>
               \/ a \in DOMAIN T /\ l \in valuesAt(a, T[a])
               \/ l \in valuesAt(a, S[a]) /\ matches(p, l[1])
      PROVE  Goal
  <2>1. Within(C, S)
    BY <1>2, WithinSet
  <2>2. ASSUME NEW l PROVE l \in leaves(C) <=> l \in leaves(T) \/ (l \in leaves(S) /\ matches(p, l[1]))
    <3>1. l \in leaves(C) <=> l \in valuesAt(a, c) \/ (l \in leaves(T) /\ ~matches(<<a>>, l[1]))
      BY <1>2, LeavesSet
    <3>2. l \in leaves(T) /\ matches(<<a>>, l[1]) <=> a \in DOMAIN T /\ l \in valuesAt(a, T[a])
      BY LeavesSet
    <3>3. l \in leaves(S) /\ matches(<<a>>, l[1]) <=> l \in valuesAt(a, S[a])
      BY LeavesSet
    <3> HIDE DEF C
    <3> QED
      BY <1>2, <3>1, <3>2, <3>3
  <2> HIDE DEF C
  <2> QED
    BY <2>1, <2>2
<1>3. CASE \E a : p = <<a>>
  <2>1. PICK a : p = <<a>>
    BY <1>3
  <2>2. Len(p) = 1 /\ p[1] = a
    BY <2>1
  <2>3. CASE a \notin DOMAIN S
    <3>1. C = T
      BY <2>2, <2>3 DEF copyProjectedPath
    <3>2. ASSUME NEW l \in leaves(S) PROVE ~matches(p, l[1])
      BY <2>1, <2>3, LeavesSet
    <3> HIDE DEF C, Goal
    <3> QED
      BY <1>1, <3>1, <3>2
  <2>4. CASE a \in DOMAIN S
    <3>1. C = set(T, a, S[a])
      BY <2>2, <2>4 DEF copyProjectedPath
    <3>2. ValuePart(S[a], S[a])
      BY <2>4, WithinItself DEF Within
    <3>3. ASSUME NEW l, a \in DOMAIN T, l \in valuesAt(a, T[a]) PROVE l \in valuesAt(a, S[a])
      <4>1. ValuePart(T[a], S[a])
        BY <3>3 DEF Within
      <4> QED
        BY <3>3, <4>1, PartLeaves
    <3>4. ASSUME NEW l \in valuesAt(a, S[a]) PROVE matches(p, l[1])
      BY <2>1, ValueMatches
    <3> HIDE DEF C, Goal
    <3> QED
      BY <1>2, <2>1, <2>4, <3>1, <3>2, <3>3, <3>4
  <2> QED
    BY <2>3, <2>4
<1>4. CASE \E a, b : p = <<a, b>>
  <2>1. PICK a, b : p = <<a, b>>
    BY <1>4
  <2>2. Len(p) # 1 /\ p[1] = a /\ p[2] = b
    BY <2>1
  <2>3. ASSUME NEW l \in leaves(S), matches(p, l[1])
        PROVE  a \in DOMAIN S /\ l \in valuesAt(a, S[a]) /\ matches(<<a>>, l[1])
    <3>1. PICK k \in DOMAIN S : l \in valuesAt(k, S[k])
      BY LeafOf
    <3>2. a = k /\ matches(<<k>>, l[1])
      BY <2>1, <2>3, <3>1, ValueMatches
    <3> QED
      BY <3>1, <3>2
  <2>4. CASE a \notin DOMAIN S
    <3>1. C = T
      BY <2>2, <2>4 DEF copyProjectedPath
    <3> HIDE DEF C, Goal
    <3> QED
      BY <1>1, <2>3, <2>4, <3>1
  <2>5. CASE a \in DOMAIN S /\ (isObject(S[a]) \/ isList(S[a]))
    <3>1. PICK c : /\ C = set(T, a, c)
                   /\ ValuePart(c, S[a])
                   /\ \A l : l \in valuesAt(a, c) <=>
                        \/ a \in DOMAIN T /\ l \in valuesAt(a, T[a])
                        \/ l \in valuesAt(a, S[a]) /\ matches(p, l[1])
      BY <2>1, <2>5, CopyBelow
    <3> HIDE DEF C, Goal
    <3> QED
      BY <1>2, <2>3, <2>5, <3>1
  <2>6. CASE a \in DOMAIN S /\ ~isObject(S[a]) /\ ~isList(S[a])
    <3>1. C = T
      BY <2>2, <2>6 DEF copyProjectedPath
    <3>2. ASSUME NEW l \in valuesAt(a, S[a]) PROVE ~matches(<<a, b>>, l[1])
      BY <2>6, Matching DEF valuesAt, valuesIn
    <3> HIDE DEF C, Goal
    <3> QED
      BY <1>1, <2>1, <2>3, <3>1, <3>2
  <2> QED
    BY <2>4, <2>5, <2>6
<1> QED
  BY <1>3, <1>4, PathShapes

\* The deletions of projectDocument, one after the other.
LEMMA DeleteAllLoop ==
  ASSUME NEW target, NEW paths, NEW spared, Len(paths) \in Nat
  PROVE  \E left : /\ left[0] = target
                   /\ \A n \in 1 .. Len(paths) :
                        left[n] = IF pathRequested(paths[n], spared) THEN left[n - 1]
                                  ELSE deleteProjectedPath(paths[n], left[n - 1])
                   /\ deleteAll(target, paths, spared) = left[Len(paths)]
<1> DEFINE step(p, n) == IF pathRequested(paths[n], spared) THEN p ELSE deleteProjectedPath(paths[n], p)
           Fits(f, m) == f = [n \in 0 .. m |-> IF n = 0 THEN target ELSE step(f[n - 1], n)]
           Good == {m \in Nat : \E f : Fits(f, m)}
           loop == CHOOSE f : Fits(f, Len(paths))
<1> HIDE DEF step
<1>1. 0 \in Good
  <2>1. Fits([n \in 0 .. 0 |-> target], 0)
    OBVIOUS
  <2> QED
    BY <2>1
<1>2. ASSUME NEW m \in Nat, m \in Good PROVE m + 1 \in Good
  <2>1. PICK f : Fits(f, m)
    BY <1>2
  <2> DEFINE g == [n \in 0 .. m + 1 |-> IF n = m + 1 THEN step(f[m], n) ELSE f[n]]
  <2>2. \A n \in 0 .. m + 1 : g[n] = IF n = 0 THEN target ELSE step(g[n - 1], n)
    BY <2>1
  <2>3. Fits(g, m + 1)
    BY <2>2
  <2> HIDE DEF g
  <2> QED
    BY <2>3
<1>3. \E f : Fits(f, Len(paths))
  BY <1>1, <1>2, NatSetInduction
<1>4. Fits(loop, Len(paths))
  BY <1>3
<1>5. deleteAll(target, paths, spared) = loop[Len(paths)]
  BY DEF deleteAll, step
<1> HIDE DEF loop, Good
<1>6. loop[0] = target /\ \A n \in 1 .. Len(paths) : loop[n] = step(loop[n - 1], n)
  BY <1>4
<1> QED
  BY <1>5, <1>6 DEF step

LEMMA DeleteAllLeaves ==
  ASSUME AtomicValues, NEW def, NEW paths \in Seq(projectionPaths(def)), NEW spared,
         NEW T, NEW S, Within(T, S)
  PROVE  /\ Within(deleteAll(T, paths, spared), S)
         /\ \A l : l \in leaves(deleteAll(T, paths, spared)) <=>
              /\ l \in leaves(T)
              /\ \A p \in Range(paths) : matches(p, l[1]) => pathRequested(p, spared)
<1>0. Len(paths) \in Nat /\ \A n \in 1 .. Len(paths) : paths[n] \in projectionPaths(def)
  OBVIOUS
<1>1. PICK left : /\ left[0] = T
                  /\ \A n \in 1 .. Len(paths) :
                       left[n] = IF pathRequested(paths[n], spared) THEN left[n - 1]
                                  ELSE deleteProjectedPath(paths[n], left[n - 1])
                  /\ deleteAll(T, paths, spared) = left[Len(paths)]
  BY <1>0, DeleteAllLoop
<1> DEFINE Gone(n, l) == \E k \in 1 .. n : matches(paths[k], l[1]) /\ ~pathRequested(paths[k], spared)
           Good(n) == /\ Within(left[n], S)
                      /\ \A l : l \in leaves(left[n]) <=> l \in leaves(T) /\ ~Gone(n, l)
           Reached == {n \in Nat : n <= Len(paths) => Good(n)}
<1>2. 0 \in Reached
  BY <1>1
<1>3. ASSUME NEW n \in Nat, n \in Reached PROVE n + 1 \in Reached
  <2> SUFFICES ASSUME n + 1 <= Len(paths) PROVE Good(n + 1)
    OBVIOUS
  <2>1. n + 1 \in 1 .. Len(paths) /\ (n + 1) - 1 = n /\ Good(n)
    BY <1>0, <1>3
  <2> DEFINE p == paths[n + 1]
             U == left[n]
  <2>2. p \in projectionPaths(def)
    BY <1>0, <2>1
  <2>3. left[n + 1] = IF pathRequested(p, spared) THEN U ELSE deleteProjectedPath(p, U)
    BY <1>1, <2>1
  <2>4. ASSUME NEW l
        PROVE  Gone(n + 1, l) <=> Gone(n, l) \/ (matches(p, l[1]) /\ ~pathRequested(p, spared))
    <3>1. 1 .. n + 1 = (1 .. n) \cup {n + 1}
      OBVIOUS
    <3> QED
      BY <3>1
  <2>5. Within(U, S) /\ \A l : l \in leaves(U) <=> l \in leaves(T) /\ ~Gone(n, l)
    BY <2>1
  <2> HIDE DEF Gone, p, U
  <2>6. CASE pathRequested(p, spared)
    BY <2>3, <2>4, <2>5, <2>6
  <2>7. CASE ~pathRequested(p, spared)
    <3>1. Within(left[n + 1], S)
      BY <2>2, <2>3, <2>5, <2>7, DeleteWithin
    <3>2. ASSUME NEW l PROVE l \in leaves(left[n + 1]) <=> l \in leaves(U) /\ ~matches(p, l[1])
      BY <2>2, <2>3, <2>7, DeleteLeaves
    <3> QED
      BY <2>4, <2>5, <2>7, <3>1, <3>2
  <2> QED
    BY <2>6, <2>7
<1>4. Good(Len(paths))
  <2> HIDE DEF Good
  <2>1. Len(paths) \in Reached
    <3> HIDE DEF Reached
    <3> QED
      BY <1>0, <1>2, <1>3, NatSetInduction
  <2> QED
    BY <1>0, <2>1
<1>5. ASSUME NEW l
      PROVE  Gone(Len(paths), l) <=> \E p \in Range(paths) : matches(p, l[1]) /\ ~pathRequested(p, spared)
  BY <1>0 DEF Range
<1> HIDE DEF Gone
<1> QED
  BY <1>1, <1>4, <1>5

\* The copies of projectDocument, one after the other.
LEMMA CopyAllLoop ==
  ASSUME NEW source, NEW target, NEW paths, Len(paths) \in Nat
  PROVE  \E copied : /\ copied[0] = target
                     /\ \A n \in 1 .. Len(paths) :
                          copied[n] = copyProjectedPath(source, paths[n], copied[n - 1])
                     /\ copyAll(source, target, paths) = copied[Len(paths)]
<1> DEFINE step(p, n) == copyProjectedPath(source, paths[n], p)
           Fits(f, m) == f = [n \in 0 .. m |-> IF n = 0 THEN target ELSE step(f[n - 1], n)]
           Good == {m \in Nat : \E f : Fits(f, m)}
           loop == CHOOSE f : Fits(f, Len(paths))
<1> HIDE DEF step
<1>1. 0 \in Good
  <2>1. Fits([n \in 0 .. 0 |-> target], 0)
    OBVIOUS
  <2> QED
    BY <2>1
<1>2. ASSUME NEW m \in Nat, m \in Good PROVE m + 1 \in Good
  <2>1. PICK f : Fits(f, m)
    BY <1>2
  <2> DEFINE g == [n \in 0 .. m + 1 |-> IF n = m + 1 THEN step(f[m], n) ELSE f[n]]
  <2>2. \A n \in 0 .. m + 1 : g[n] = IF n = 0 THEN target ELSE step(g[n - 1], n)
    BY <2>1
  <2>3. Fits(g, m + 1)
    BY <2>2
  <2> HIDE DEF g
  <2> QED
    BY <2>3
<1>3. \E f : Fits(f, Len(paths))
  BY <1>1, <1>2, NatSetInduction
<1>4. Fits(loop, Len(paths))
  BY <1>3
<1>5. copyAll(source, target, paths) = loop[Len(paths)]
  BY DEF copyAll, step
<1> HIDE DEF loop, Good
<1>6. loop[0] = target /\ \A n \in 1 .. Len(paths) : loop[n] = step(loop[n - 1], n)
  BY <1>4
<1> QED
  BY <1>5, <1>6 DEF step

LEMMA CopyAllLeaves ==
  ASSUME AtomicValues, NEW def, NEW paths \in Seq(projectionPaths(def)),
         NEW T, NEW S, Within(T, S), ListsFit(S)
  PROVE  /\ Within(copyAll(S, T, paths), S)
         /\ \A l : l \in leaves(copyAll(S, T, paths)) <=>
              l \in leaves(T) \/ (l \in leaves(S) /\ pathRequested(l[1], Range(paths)))
<1>0. Len(paths) \in Nat /\ \A n \in 1 .. Len(paths) : paths[n] \in projectionPaths(def)
  OBVIOUS
<1>1. PICK copied : /\ copied[0] = T
                    /\ \A n \in 1 .. Len(paths) :
                         copied[n] = copyProjectedPath(S, paths[n], copied[n - 1])
                    /\ copyAll(S, T, paths) = copied[Len(paths)]
  BY <1>0, CopyAllLoop
<1> DEFINE Named(n, l) == \E k \in 1 .. n : matches(paths[k], l[1])
           Good(n) == /\ Within(copied[n], S)
                      /\ \A l : l \in leaves(copied[n]) <=>
                           l \in leaves(T) \/ (l \in leaves(S) /\ Named(n, l))
           Reached == {n \in Nat : n <= Len(paths) => Good(n)}
<1>2. 0 \in Reached
  BY <1>1
<1>3. ASSUME NEW n \in Nat, n \in Reached PROVE n + 1 \in Reached
  <2> SUFFICES ASSUME n + 1 <= Len(paths) PROVE Good(n + 1)
    OBVIOUS
  <2>1. n + 1 \in 1 .. Len(paths) /\ (n + 1) - 1 = n /\ Good(n)
    BY <1>0, <1>3
  <2> DEFINE p == paths[n + 1]
             U == copied[n]
  <2>2. p \in projectionPaths(def)
    BY <1>0, <2>1
  <2>3. copied[n + 1] = copyProjectedPath(S, p, U)
    BY <1>1, <2>1
  <2>4. ASSUME NEW l PROVE Named(n + 1, l) <=> Named(n, l) \/ matches(p, l[1])
    <3>1. 1 .. n + 1 = (1 .. n) \cup {n + 1}
      OBVIOUS
    <3> QED
      BY <3>1
  <2>5. Within(U, S) /\ \A l : l \in leaves(U) <=> l \in leaves(T) \/ (l \in leaves(S) /\ Named(n, l))
    BY <2>1
  <2> HIDE DEF Named, p, U
  <2>6. /\ Within(copied[n + 1], S)
        /\ \A l : l \in leaves(copied[n + 1]) <=> l \in leaves(U) \/ (l \in leaves(S) /\ matches(p, l[1]))
    BY <2>2, <2>3, <2>5, CopyLeaves
  <2> QED
    BY <2>4, <2>5, <2>6
<1>4. Good(Len(paths))
  <2> HIDE DEF Good
  <2>1. Len(paths) \in Reached
    <3> HIDE DEF Reached
    <3> QED
      BY <1>0, <1>2, <1>3, NatSetInduction
  <2> QED
    BY <1>0, <2>1
<1>5. ASSUME NEW l PROVE Named(Len(paths), l) <=> pathRequested(l[1], Range(paths))
  BY <1>0 DEF Range, pathRequested
<1> HIDE DEF Named
<1> QED
  BY <1>1, <1>4, <1>5

\* What projectDocument leaves of any object, for any two lists of paths of which one is
\* empty.
LEMMA ProjectedLeaves ==
  ASSUME AtomicValues, NEW def \in Definitions, NEW object, ListsFit(object),
         NEW include \in Seq(projectionPaths(def)), NEW exclude \in Seq(projectionPaths(def)),
         include = <<>> \/ exclude = <<>>
  PROVE  leaves(projectDocument(def, object, include, exclude)) =
           {l \in leaves(object) : shown(def, l[1], Range(include), Range(exclude))}
<1> DEFINE kind(k) == returnabilityPaths(def, k)
           always == SetToSeq(kind("always"))
           inner == deleteAll(object, SetToSeq(kind("never")), {})
           source == returnSource(def, object, include)
           result == projectDocument(def, object, include, exclude)
<1>1. ASSUME NEW k
      PROVE  SetToSeq(kind(k)) \in Seq(projectionPaths(def)) /\ Range(SetToSeq(kind(k))) = kind(k)
  <2>1. kind(k) \subseteq projectionPaths(def) /\ IsFiniteSet(projectionPaths(def))
    BY SelectionAssumption DEF returnabilityPaths
  <2> HIDE DEF kind
  <2>2. IsFiniteSet(kind(k))
    BY <2>1, FS_Subset
  <2>3. Enumerates(SetToSeq(kind(k)), kind(k))
    BY <2>2, SetToSeqEnumerates
  <2> QED
    BY <2>1, <2>3 DEF Enumerates
<1>2. source = deleteAll(inner, SetToSeq(kind("request")), Range(include))
  BY DEF returnSource
<1>3. result = IF include # <<>> THEN copyAll(source, copyAll(source, NoFields, always), include)
               ELSE copyAll(source, deleteAll(source, exclude, Range(always)), always)
  BY DEF projectDocument
<1>4. \A l : l \in leaves(object) =>
        (shown(def, l[1], Range(include), Range(exclude)) <=>
           /\ ~pathRequested(l[1], kind("never"))
           /\ \A p \in kind("request") : matches(p, l[1]) => pathRequested(p, Range(include))
           /\ Range(include) # {} =>
                pathRequested(l[1], Range(include)) \/ pathRequested(l[1], kind("always"))
           /\ pathRequested(l[1], Range(exclude)) => pathRequested(l[1], kind("always")))
  BY DEF shown, returnabilityPaths, pathRequested
<1>5. \A p : ~pathRequested(p, {})
  BY DEF pathRequested
<1>6. kind("always") \subseteq projectionPaths(def)
  BY DEF returnabilityPaths
<1> HIDE DEF kind, inner, source, result
<1>7. /\ Within(inner, object)
      /\ \A l : l \in leaves(inner) <=> l \in leaves(object) /\ ~pathRequested(l[1], kind("never"))
  <2>1. /\ Within(inner, object)
        /\ \A l : l \in leaves(inner) <=>
             l \in leaves(object) /\ \A p \in kind("never") : matches(p, l[1]) => pathRequested(p, {})
    BY <1>1, WithinItself, DeleteAllLeaves DEF inner
  <2> QED
    BY <1>5, <2>1 DEF pathRequested
<1>8. /\ Within(source, object)
      /\ \A l : l \in leaves(source) <=>
           /\ l \in leaves(inner)
           /\ \A p \in kind("request") : matches(p, l[1]) => pathRequested(p, Range(include))
  BY <1>1, <1>2, <1>7, DeleteAllLeaves
<1>9. ListsFit(source) /\ Within(source, source)
  BY <1>8, WithinFits, WithinItself
<1>10. always \in Seq(projectionPaths(def)) /\ Range(always) = kind("always")
  BY <1>1
<1> HIDE DEF always
<1>11. CASE include # <<>>
  <2> DEFINE first == copyAll(source, NoFields, always)
  <2>1. Within(NoFields, source) /\ leaves(NoFields) = {}
    BY DEF Within, NoFields, leaves
  <2>2. /\ Within(first, source)
        /\ \A l : l \in leaves(first) <=>
             l \in leaves(NoFields) \/ (l \in leaves(source) /\ pathRequested(l[1], kind("always")))
    BY <1>9, <1>10, <2>1, CopyAllLeaves
  <2> HIDE DEF first
  <2>3. \A l : l \in leaves(copyAll(source, first, include)) <=>
          l \in leaves(first) \/ (l \in leaves(source) /\ pathRequested(l[1], Range(include)))
    BY <1>9, <2>2, CopyAllLeaves
  <2>4. result = copyAll(source, first, include)
    BY <1>3, <1>11 DEF first
  <2>5. exclude = <<>> /\ Range(exclude) = {} /\ Range(include) # {}
    BY <1>11 DEF Range
  <2> QED
    BY <1>4, <1>5, <1>7, <1>8, <2>1, <2>2, <2>3, <2>4, <2>5 DEF result
<1>12. CASE include = <<>>
  <2> DEFINE rest == deleteAll(source, exclude, kind("always"))
  <2>1. /\ Within(rest, source)
        /\ \A l : l \in leaves(rest) <=>
             /\ l \in leaves(source)
             /\ \A p \in Range(exclude) : matches(p, l[1]) => pathRequested(p, kind("always"))
    BY <1>9, DeleteAllLeaves
  <2>2. result = copyAll(source, rest, always)
    BY <1>3, <1>10, <1>12
  <2> HIDE DEF rest
  <2>3. \A l : l \in leaves(result) <=>
          l \in leaves(rest) \/ (l \in leaves(source) /\ pathRequested(l[1], kind("always")))
    BY <1>9, <1>10, <2>1, <2>2, CopyAllLeaves
  <2>4. Range(include) = {} /\ Range(exclude) \subseteq projectionPaths(def)
    BY <1>12 DEF Range
  <2>5. ASSUME NEW l \in leaves(object), NEW p \in Range(exclude),
               matches(p, l[1]), pathRequested(p, kind("always"))
        PROVE  pathRequested(l[1], kind("always"))
    <3>1. PICK q \in kind("always") : matches(q, p)
      BY <2>5 DEF pathRequested
    <3>2. matches(q, l[1])
      BY <1>6, <2>4, <2>5, <3>1, MatchesThrough
    <3> QED
      BY <3>2 DEF pathRequested
  <2>6. \A l \in leaves(object) :
          (\/ \A p \in Range(exclude) : matches(p, l[1]) => pathRequested(p, kind("always"))
           \/ pathRequested(l[1], kind("always")))
          <=> (pathRequested(l[1], Range(exclude)) => pathRequested(l[1], kind("always")))
    BY <2>5 DEF pathRequested
  <2> QED
    BY <1>4, <1>7, <1>8, <2>1, <2>3, <2>4, <2>6 DEF result
<1> QED
  BY <1>11, <1>12

\* For every schema, every stored document and every list of attributes to return or to
\* leave out, a response has each value that is to be shown, in its place, and no other
\* (projectDocument).
THEOREM ProjectionExact ==
  ASSUME AtomicValues, CanonicalSpelling
  PROVE  Spec => []ProjectionIsExact
<1>1. ASSUME CanonicalInv PROVE ProjectionIsExact
  <2> SUFFICES ASSUME stored # None, NEW few \in Selections(definition),
                      NEW request \in {<<few, <<>>>>, <<<<>>, few>>}
               PROVE  leaves(projectDocument(definition, stored.object, request[1], request[2])) =
                        {l \in leaves(stored.object) :
                           shown(definition, l[1], Range(request[1]), Range(request[2]))}
    BY DEF ProjectionIsExact
  <2>1. definition \in Definitions /\ ListsFit(stored.object)
    BY <1>1, StoredFits DEF CanonicalInv, FitObject, Fit, ListsFit
  <2>2. few \in Seq(projectionPaths(definition)) /\ <<>> \in Seq(projectionPaths(definition))
    BY <2>1, SelectionAssumption
  <2>3. /\ request[1] \in Seq(projectionPaths(definition))
        /\ request[2] \in Seq(projectionPaths(definition))
        /\ request[1] = <<>> \/ request[2] = <<>>
    <3>1. CASE request = <<few, <<>>>>
      <4>1. request[1] = few /\ request[2] = <<>>
        BY <3>1
      <4> QED
        BY <2>2, <4>1
    <3>2. CASE request = <<<<>>, few>>
      <4>1. request[1] = <<>> /\ request[2] = few
        BY <3>2
      <4> QED
        BY <2>2, <4>1
    <3> QED
      BY <3>1, <3>2
  <2> QED
    BY <2>1, <2>3, ProjectedLeaves
<1> QED
  BY <1>1, CanonicalInvariance, PTL
=============================================================================
