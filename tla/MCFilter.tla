------------------------------ MODULE MCFilter ------------------------------
(* A schema with every type of attribute, and the filters that are typed. *)
EXTENDS Filter

simple(type, caseExact) ==
  [type |-> type, multi |-> FALSE, caseExact |-> caseExact, sub |-> <<>>]

Types == {"boolean", "integer", "decimal", "string", "exact", "dateTime", "binary", "reference"}

MCAttributes ==
  [a \in Types \cup {"emails"} |->
     CASE a = "emails" -> [type |-> "complex", multi |-> TRUE, caseExact |-> FALSE,
                           sub |-> [value |-> simple("string", FALSE), rank |-> simple("integer", FALSE)]]
       [] a = "exact" -> simple("string", TRUE)
       [] OTHER -> simple(a, FALSE)]

MCPathOf ==
  [w \in DOMAIN MCAttributes \cup {"value", "rank", "emails.value", "emails.rank", "unknown"} |->
     CASE w = "emails.value" -> <<"emails", "value">>
       [] w = "emails.rank" -> <<"emails", "rank">>
       [] OTHER -> <<w>>]

\* Strings that share their higher digits stand for strings that contain each other.
MCWithin(operator, text, part) == text \div 2 = part \div 2

\* String 5 is no timestamp, nor is any beyond.
MCTimestamps == 0..4

-----------------------------------------------------------------------------
Value(kind, n) == [kind |-> kind, n |-> n]
Literals == {Value("string", 2), Value("string", 3), Value("string", 5), Value("number", 2),
             Value("number", 3), Value("boolean", 1), Value("null", 0)}

Single(attribute, operator, v) == <<Word(attribute), Word(operator), Literal(v)>>

\* Every comparison there is, alone and inside a value path.
Comparisons(attributes) ==
  {Single(a, o, v) : a \in attributes, o \in Ordered \cup Partial, v \in Literals}

Inside(c) == <<Word("emails"), Bracket("[")>> \o c \o <<Bracket("]")>>

Present == <<Word("integer"), Word("pr")>>
Open == <<Bracket("(")>>
Close == <<Bracket(")")>>

MCChunks == {Present, Open, Close, <<Word("and")>>, <<Word("or")>>, <<Word("not")>>,
             <<Word("emails"), Bracket("[")>>, <<Bracket("]")>>}

\* Brackets up to the depth that is allowed, and past it.
Nested(f) == {f, Open \o f \o Close, <<Word("not")>> \o Open \o f \o Close}
Deep == UNION {Nested(f) : f \in UNION {Nested(g) : g \in UNION {Nested(h) : h \in
          {Single("integer", "eq", Value("number", 2)), Inside(<<Word("rank"), Word("pr")>>)}}}}

\* All of that, two operators of the two kinds in either order, and the empty filter.
MCOpenings ==
  {<<>>,
   Present \o <<Word("or")>> \o Present \o <<Word("and")>> \o Present,
   Present \o <<Word("and")>> \o Present \o <<Word("or")>> \o Present,
   <<Word("not")>> \o Open \o Present \o <<Word("or")>>,
   Inside(Inside(<<Word("rank"), Word("pr")>>)),
   <<Word("emails.rank"), Word("pr")>>}
    \cup Deep
    \cup Comparisons(DOMAIN MCAttributes \cup {"emails.value", "emails.rank", "unknown"})
    \cup {Inside(c) : c \in Comparisons({"value", "rank", "unknown"})}

-----------------------------------------------------------------------------
Stored(a) ==
  CASE a = "boolean" -> {Value("boolean", 0), Value("boolean", 1)}
    [] a = "integer" -> {Value("number", 0), Value("number", 2), Value("number", 4)}
    [] a = "decimal" -> {Value("number", 1), Value("number", 3)}
    [] OTHER -> {Value("string", n) : n \in {0, 2, 3, 4}}

Email(n, k) == [object |-> [value |-> Value("string", n), rank |-> Value("number", k)]]

MCDocuments ==
  UNION {[{a} -> Stored(a)] : a \in Types}
    \cup {[emails |-> [list |-> l]] :
            l \in {<<Email(0, 2), Email(3, 4)>>, <<Email(2, 0)>>,
                   <<[object |-> [rank |-> Value("number", 0)]], Email(4, 2)>>}}
=============================================================================
