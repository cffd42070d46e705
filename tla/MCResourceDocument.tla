------------------------ MODULE MCResourceDocument ------------------------
(***************************************************************************)
(* Two resource definitions for TLC: a group whose members have immutable   *)
(* and read-only sub-attributes, and a user with an immutable attribute, a  *)
(* complex attribute, emails with primary marks and an extension.           *)
(***************************************************************************)
EXTENDS Projection, TLC

CONSTANTS x, y, t, u, Spellings

simple(mutability) ==
  [type |-> "simple", multi |-> FALSE, mutability |-> mutability, required |-> FALSE,
   returned |-> "default", sub |-> NoFields]

complex(multi, sub) ==
  [type |-> "complex", multi |-> multi, mutability |-> "readWrite", required |-> FALSE,
   returned |-> "default", sub |-> sub]

returned(contract, when) == [contract EXCEPT !.returned = when]
required(contract) == [contract EXCEPT !.required = TRUE]

Group ==
  [displayName |-> returned(required(simple("readWrite")), "always"),
   members |-> complex(TRUE, [value |-> required(simple("immutable")),
                              type |-> returned(simple("immutable"), "request"),
                              display |-> simple("readOnly")])]

User ==
  [nickName |-> returned(simple("immutable"), "never"),
   title |-> simple("readOnly"),
   name |-> returned(complex(FALSE, [givenName |-> simple("readWrite"), familyName |-> simple("immutable")]),
                     "request"),
   emails |-> complex(TRUE, [value |-> returned(simple("readWrite"), "always"),
                             primary |-> simple("readWrite")]),
   ext |-> [complex(FALSE, [number |-> returned(simple("immutable"), "always"), level |-> simple("readOnly")])
              EXCEPT !.type = "extension"]]

MCDefinitions == {Group, User}

MCFoldName ==
  [a \in {"displayName", "members", "nickName", "title", "name", "emails", "ext", "EXT"} |->
     IF a = "EXT" THEN "ext" ELSE a]

-----------------------------------------------------------------------------
Upto(S, n) == UNION {[1 .. k -> S] : k \in 0 .. n}

Member(v) == Object([value |-> v])
Typed(v, k) == Object([value |-> v, type |-> k])
Shown(v) == Object([value |-> v, display |-> t])

MembersSent == Upto({Member(x), Member(y), Typed(x, t), Typed(x, u), Typed(y, t), Shown(x)}, 2)
                 \cup {<<Typed(x, t), Typed(y, t), Member(u)>>, <<Null>>, <<x>>}

GroupDocuments ==
  {[schemas |-> {}, object |-> o] :
     o \in {[displayName |-> x, members |-> List(s)] : s \in MembersSent}
             \cup {[displayName |-> x], [displayName |-> Null],
                   [displayName |-> x, members |-> Typed(x, t)]}}

Email(v, p) == Object([value |-> v, primary |-> p])

Emails == {<<Email(x, True)>>, <<Email(x, True), Email(y, True)>>,
           <<Email(x, False), Email(Null, True)>>}

UserDocuments ==
  LET bodies == [{"name"} -> {Object([givenName |-> x, familyName |-> t]), Object([givenName |-> y, familyName |-> u]),
                              Object([givenName |-> y])}]
                \cup [{"nickName", "emails"} -> {x, y} \cup {List(s) : s \in Emails}]
                \cup {NoFields, [nickName |-> Null], [nickName |-> x, title |-> x],
                      [emails |-> List(<<Email(x, False), Email(y, True)>>), ext |-> Object([number |-> x])]}
                \cup [Spellings -> {Object([number |-> x, level |-> t])}]
                \cup [{"ext"} -> {x, List(<<Object([number |-> x, level |-> t]), Null>>)}]
                \cup UNION {[{k} -> {Object([number |-> v]) : v \in {x, y}}
                                      \cup {Object([number |-> x, level |-> t])}] : k \in Spellings}
  IN  {[schemas |-> E, object |-> o] : E \in SUBSET {"ext"}, o \in bodies}

MCSentDocuments(def) == IF def = Group THEN GroupDocuments ELSE UserDocuments

-----------------------------------------------------------------------------
Op(op, attr, sub, filter, value) ==
  [op |-> op, attr |-> attr, sub |-> sub, filter |-> filter, value |-> value]

eq(sub, v) == [sub |-> sub, value |-> v]

GroupPatches ==
  LET added == {Typed(y, t), Typed(y, u), Shown(y), List(<<Typed(x, t), Typed(y, t)>>)}
      one == {Op("add", "members", None, None, v) : v \in added}
               \cup {Op("replace", "members", None, None, List(<<Typed(y, u)>>)),
                     Op("remove", "members", None, None, None),
                     Op("remove", "members", None, eq("value", x), None),
                     Op("add", "members", "type", eq("value", x), t),
                     Op("replace", "members", "type", eq("value", y), u),
                     Op("remove", "members", "type", eq("type", t), None),
                     Op("add", "members", "display", eq("value", x), u),
                     Op("replace", "members", None, eq("value", x), Typed(y, t)),
                     Op("replace", "members", None, eq("value", x), y),
                     Op("add", None, None, None, Object([members |-> List(<<Member(y)>>)])),
                     Op("replace", None, None, None, Object([displayName |-> y])),
                     Op("replace", None, None, None, y),
                     Op("remove", "locale", None, None, None)}
  IN  {<<o>> : o \in one} \cup {<<o, p>> : o, p \in {q \in one : q.op # "add"}}

UserPatches ==
  LET one == {Op("add", "nickName", None, None, y),
              Op("add", "title", None, None, y),
              Op("remove", "nickName", None, None, None),
              Op("add", "name", "familyName", None, u),
              Op("remove", "name", "familyName", None, None),
              Op("remove", "name", None, None, None),
              Op("add", "nickName", "givenName", None, x),
              Op("replace", "emails", "primary", eq("value", x), True),
              Op("add", "emails", None, None, Email(y, True)),
              Op("add", "emails", "value", None, y),
              Op("add", "emails", None, eq("value", x), Email(y, True)),
              Op("add", "emails", None, None, List(<<Email(u, False), Email(x, True)>>)),
              Op("add", "name", None, eq("givenName", x), y),
              Op("add", "ext", "number", None, y),
              Op("add", "ext", "level", None, y),
              Op("remove", "ext", "number", None, None)}
             \cup {Op("add", None, None, None, Object([a \in {k} |-> Object([level |-> t])])) :
                     k \in Spellings}
  IN  {<<o>> : o \in one} \cup {<<o, p>> : o, p \in {q \in one : q.op = "remove"}}

\* The case the theorems are about.
ASSUME ImmutableContracts /\ FailuresTold /\ (Spellings = {"ext"} => CanonicalSpelling)

MCSentPatches(def) == IF def = Group THEN GroupPatches ELSE UserPatches

MCSelections(def) == Upto(projectionPaths(def), 2)
=============================================================================
