----------------------------- MODULE Projection -----------------------------
(***************************************************************************)
(* What a response shows of a stored document (search.go): the attributes   *)
(* and excludedAttributes parameters against the returned characteristic    *)
(* of each attribute, "always", "never", "request" or "default".            *)
(* A path is <<attribute>> or <<attribute, sub-attribute>>; an extension's  *)
(* attributes are reached below its schema.  The common attributes, of      *)
(* which schemas and id are always kept, are left out.                      *)
(***************************************************************************)
EXTENDS ResourceDocument

CONSTANT
  Selections(_)  \* bound: the lists of paths in attributes or excludedAttributes

attributePaths(def) == {<<a>> : a \in DOMAIN def \ extensions(def)}
subPaths(def) ==
  UNION {{<<a, b>> : b \in DOMAIN def[a].sub} : a \in {c \in DOMAIN def : def[c].type # "simple"}}

contractAt(def, path) == IF Len(path) = 1 THEN def[path[1]] ELSE def[path[1]].sub[path[2]]

\* The paths a request may name (compileProjectionPaths).
projectionPaths(def) == attributePaths(def) \cup subPaths(def)

ASSUME SelectionAssumption ==
  \A def \in Definitions :
    /\ IsFiniteSet(projectionPaths(def))
    /\ Selections(def) \subseteq Seq(projectionPaths(def))

returnabilityPaths(def, returned) ==
  {p \in projectionPaths(def) : contractAt(def, p).returned = returned}

\* A path is requested by itself or by its parent.
matches(candidate, path) ==
  Len(candidate) <= Len(path) /\ \A i \in DOMAIN candidate : candidate[i] = path[i]

pathRequested(path, requested) == \E p \in requested : matches(p, path)

deleteProjectedPath(path, target) ==
  IF path[1] \notin DOMAIN target THEN target
  ELSE IF Len(path) = 1 THEN drop(target, {path[1]})
  ELSE LET rest == overObjects(target[path[1]], LAMBDA o : drop(o, {path[2]})) IN
       IF isObject(rest) /\ DOMAIN rest.object = {} THEN drop(target, {path[1]})
       ELSE set(target, path[1], rest)

\* target with source's value at path, below the object or the elements already there.
copyProjectedPath(source, path, target) ==
  LET a == path[1]
      child(from, into) == IF path[2] \in DOMAIN from THEN set(into, path[2], from[path[2]]) ELSE into
  IN  IF a \notin DOMAIN source THEN target
      ELSE IF Len(path) = 1 THEN set(target, a, source[a])
      ELSE IF isObject(source[a])
      THEN LET into == IF a \in DOMAIN target /\ isObject(target[a]) THEN target[a].object ELSE NoFields
           IN  set(target, a, Object(child(source[a].object, into)))
      ELSE IF isList(source[a])
      THEN LET from == source[a].list
               into == IF a \in DOMAIN target /\ isList(target[a]) /\ Len(target[a].list) = Len(from)
                       THEN target[a].list ELSE [i \in DOMAIN from |-> Object(NoFields)]
           IN  set(target, a, List([i \in DOMAIN from |->
                 IF isObject(from[i]) /\ isObject(into[i])
                 THEN Object(child(from[i].object, into[i].object)) ELSE into[i]]))
      ELSE target

\* target after the deletion of each path that is not spared, in turn.
deleteAll(target, paths, spared) ==
  LET left[n \in 0 .. Len(paths)] ==
        IF n = 0 THEN target
        ELSE IF pathRequested(paths[n], spared) THEN left[n - 1]
        ELSE deleteProjectedPath(paths[n], left[n - 1])
  IN  left[Len(paths)]

\* target after the copy of each path from source, in turn.
copyAll(source, target, paths) ==
  LET copied[n \in 0 .. Len(paths)] ==
        IF n = 0 THEN target ELSE copyProjectedPath(source, paths[n], copied[n - 1])
  IN  copied[Len(paths)]

\* What may be shown at all: nothing that is never returned, and what is returned on
\* request only when it is requested.
returnSource(def, object, include) ==
  deleteAll(deleteAll(object, SetToSeq(returnabilityPaths(def, "never")), {}),
            SetToSeq(returnabilityPaths(def, "request")), Range(include))

\* Mutant: attributes to be returned always are not put back after the exclusion.
ProjectWithoutAlways(def, object, include, exclude) ==
  LET always == SetToSeq(returnabilityPaths(def, "always"))
      source == returnSource(def, object, include)
  IN  IF include # <<>> THEN copyAll(source, copyAll(source, NoFields, always), include)
      ELSE deleteAll(source, exclude, {})

projectDocument(def, object, include, exclude) ==
  LET always == SetToSeq(returnabilityPaths(def, "always"))
      source == returnSource(def, object, include)
  IN  IF include # <<>> THEN copyAll(source, copyAll(source, NoFields, always), include)
      ELSE copyAll(source, deleteAll(source, exclude, Range(always)), always)

-----------------------------------------------------------------------------
(* Property *)

\* The simple values of an object: the path of each, its element's place, and itself.
valuesIn(a, i, v) ==
  IF isObject(v) THEN {<<<<a, b>>, i, v.object[b]>> : b \in DOMAIN v.object} ELSE {<<<<a>>, i, v>>}

valuesAt(a, v) ==
  IF ~isObject(v) /\ isList(v) THEN UNION {valuesIn(a, i, v.list[i]) : i \in DOMAIN v.list}
  ELSE valuesIn(a, 0, v)

leaves(object) == UNION {valuesAt(a, object[a]) : a \in DOMAIN object}

\* Whether the value at path is to be shown.  A "request" attribute is shown when it or
\* its parent is named; naming only a sub-attribute of it does not show it.
shown(def, path, include, exclude) ==
  LET above == {p \in projectionPaths(def) : matches(p, path)}
      returned(kind) == \E p \in above : contractAt(def, p).returned = kind
  IN  /\ ~returned("never")
      /\ \A p \in above : contractAt(def, p).returned = "request" => pathRequested(p, include)
      /\ include # {} => pathRequested(path, include) \/ returned("always")
      /\ pathRequested(path, exclude) => returned("always")

\* For every selection of attributes, a response has each value of the resource that is
\* to be shown, in its place, and no other (docs/implementation-spec.md:25): the copies
\* and deletions projectDocument makes one after the other do not undo each other.
ProjectionIsExact ==
  stored # None =>
    \A few \in Selections(definition) : \A request \in {<<few, <<>>>>, <<<<>>, few>>} :
      leaves(projectDocument(definition, stored.object, request[1], request[2])) =
        {l \in leaves(stored.object) :
           shown(definition, l[1], Range(request[1]), Range(request[2]))}
=============================================================================
