------------------------------- MODULE Filter -------------------------------
(***************************************************************************)
(* The filter language (filter_expression.go): the recursive descent        *)
(* parser, the check of a filter against the schema, and its evaluation.    *)
(* The state is a filter somebody types; the invariants say what the server *)
(* makes of it.                                                             *)
(*                                                                          *)
(* A token is a word, a value or a bracket.  A value has a kind and a       *)
(* number: strings 2k and 2k+1 differ only in case, or are two spellings of *)
(* one instant, and some strings are no timestamp; number 2k is the integer *)
(* k, 2k+1 is no integer.  Operators and names are in lower case.  The      *)
(* characters of tokens, the prefixes of schemas and the common attributes  *)
(* are left out.                                                            *)
(***************************************************************************)
EXTENDS Integers, Sequences, FiniteSets

CONSTANTS
  Attributes,          \* the schema: names to contracts [type, multi, caseExact, sub]
  PathOf,              \* words to attribute paths, split at the dot
  Within(_, _, _),     \* co, sw and ew on the text of strings
  Timestamps,          \* the strings time.Parse takes in RFC3339Nano
  maximumFilterDepth,
  Openings, Chunks,    \* bound: how a filter begins and, before any literal, goes on
  MaxTokens,           \* bound: tokens of a filter
  Documents            \* bound: resources it is evaluated on

VARIABLE tokens        \* what lexFilter makes of the filter

Init == tokens \in Openings
Type == /\ \A i \in DOMAIN tokens : tokens[i].kind # "value"
        /\ \E c \in Chunks : Len(tokens \o c) <= MaxTokens /\ tokens' = tokens \o c
Next == Type
Spec == Init /\ [][Next]_tokens

-----------------------------------------------------------------------------
(* The parser.  A result has the tree and the index of the next token, or    *)
(* Failure.                                                                  *)

Failure == [ok |-> FALSE]
Parsed(tree, index) == [ok |-> TRUE, tree |-> tree, index |-> index]

Both(operator, left, right) == [operator |-> operator, left |-> left, right |-> right]
Not(child) == [operator |-> "not", child |-> child]
ValuePath(attribute, child) == [operator |-> "valuePath", attribute |-> attribute, child |-> child]
Comparison(attribute, operator, value) ==
  [operator |-> operator, attribute |-> attribute, value |-> value]

Bracket(b) == [kind |-> b]
Word(text) == [kind |-> "word", text |-> text]
Literal(v) == [kind |-> "value", value |-> v]
NoValue == [kind |-> "none", n |-> 0]

peek(index) == IF index > Len(tokens) THEN [kind |-> "EOF"] ELSE tokens[index]
word(index, text) == peek(index).kind = "word" /\ peek(index).text = text

Partial == {"co", "sw", "ew"}
Ordered == {"eq", "ne", "gt", "ge", "lt", "le"}

RECURSIVE parseOr(_, _), parseAnd(_, _), orLoop(_, _), andLoop(_, _)
RECURSIVE parseUnary(_, _), parseAttribute(_, _)

\* left, and every further operand behind the operator.
orLoop(left, depth) ==
  IF ~left.ok \/ ~word(left.index, "or") THEN left
  ELSE LET right == parseAnd(left.index + 1, depth + 1) IN
       IF ~right.ok THEN Failure
       ELSE orLoop(Parsed(Both("or", left.tree, right.tree), right.index), depth)

andLoop(left, depth) ==
  IF ~left.ok \/ ~word(left.index, "and") THEN left
  ELSE LET right == parseUnary(left.index + 1, depth + 1) IN
       IF ~right.ok THEN Failure
       ELSE andLoop(Parsed(Both("and", left.tree, right.tree), right.index), depth)

parseOr(index, depth) == orLoop(parseAnd(index, depth + 1), depth)

\* Mutant: the right operand takes all that follows, or-operators too.
ParseAndGreedy(index, depth) ==
  LET left == parseUnary(index, depth + 1) IN
  IF ~left.ok \/ ~word(left.index, "and") THEN left
  ELSE LET right == parseOr(left.index + 1, depth) IN
       IF ~right.ok THEN Failure ELSE Parsed(Both("and", left.tree, right.tree), right.index)

parseAnd(index, depth) == andLoop(parseUnary(index, depth + 1), depth)

\* What stands between brackets, up to and with the closing one.
bracketed(index, depth, closing, Build(_)) ==
  LET child == parseOr(index, depth) IN
  IF child.ok /\ peek(child.index).kind = closing
  THEN Parsed(Build(child.tree), child.index + 1) ELSE Failure

parseUnary(index, depth) ==
  IF depth > maximumFilterDepth THEN Failure
  ELSE IF word(index, "not")
  THEN IF peek(index + 1).kind = "(" THEN bracketed(index + 2, depth + 1, ")", Not) ELSE Failure
  ELSE IF peek(index).kind = "(" THEN bracketed(index + 1, depth + 1, ")", LAMBDA tree : tree)
  ELSE parseAttribute(index, depth + 1)

parseAttribute(index, depth) ==
  LET attribute == peek(index).text
      operator == peek(index + 1)
      value == peek(index + 2)
  IN  IF depth > maximumFilterDepth \/ peek(index).kind # "word" THEN Failure
      ELSE IF operator.kind = "["
      THEN bracketed(index + 2, depth + 1, "]", LAMBDA tree : ValuePath(attribute, tree))
      ELSE IF operator.kind # "word" THEN Failure
      ELSE IF operator.text = "pr" THEN Parsed(Comparison(attribute, "pr", NoValue), index + 2)
      ELSE IF operator.text \in Partial \cup Ordered /\ value.kind = "value"
      THEN Parsed(Comparison(attribute, operator.text, value.value), index + 3)
      ELSE Failure

-----------------------------------------------------------------------------
(* The schema *)

NoContract == [type |-> "none", multi |-> FALSE, caseExact |-> TRUE, sub |-> <<>>]

\* resolveFromAttributes
resolve(attributes, attribute) ==
  LET path == IF attribute \in DOMAIN PathOf THEN PathOf[attribute] ELSE <<attribute>> IN
  IF Len(path) > 2 \/ path[1] \notin DOMAIN attributes THEN NoContract
  ELSE LET parent == attributes[path[1]] IN
       IF Len(path) = 1 THEN parent
       ELSE IF path[2] \in DOMAIN parent.sub THEN parent.sub[path[2]] ELSE NoContract

\* Mutant: the literal of a dateTime is not parsed.
CompatibleUnparsed(contract, operator, value) ==
  CASE value.kind = "null" -> operator \in {"eq", "ne"}
    [] value.kind # "null" /\ operator \in Partial -> value.kind = "string" /\ contract.type = "string"
    [] OTHER -> value.kind = "string" /\ contract.type \in {"string", "reference", "dateTime"}

compatibleFilterValue(contract, operator, value) ==
  CASE value.kind = "null" -> operator \in {"eq", "ne"}
    [] value.kind # "null" /\ operator \in Partial ->
         value.kind = "string" /\ contract.type \in {"string", "reference"}
    [] OTHER ->
         CASE contract.type = "boolean" -> value.kind = "boolean" /\ operator \in {"eq", "ne"}
           [] contract.type = "integer" -> value.kind = "number" /\ value.n % 2 = 0
           [] contract.type = "decimal" -> value.kind = "number"
           [] contract.type = "binary" -> value.kind = "string" /\ operator \in {"eq", "ne"}
           [] contract.type = "dateTime" -> value.kind = "string" /\ value.n \in Timestamps
           [] contract.type \in {"string", "reference"} -> value.kind = "string"
           [] OTHER -> FALSE

RECURSIVE validateFilterExpression(_, _)

validateFilterExpression(tree, attributes) ==
  CASE tree.operator \in {"and", "or"} ->
         /\ validateFilterExpression(tree.left, attributes)
         /\ validateFilterExpression(tree.right, attributes)
    [] tree.operator = "not" -> validateFilterExpression(tree.child, attributes)
    [] tree.operator = "valuePath" ->
         LET contract == resolve(attributes, tree.attribute) IN
         /\ contract.multi /\ contract.type = "complex"
         /\ validateFilterExpression(tree.child, contract.sub)
    [] OTHER ->
         LET contract == resolve(attributes, tree.attribute) IN
         /\ contract.type # "none"
         /\ tree.operator = "pr" \/ compatibleFilterValue(contract, tree.operator, tree.value)

\* parseFilter: all tokens are used, and the schema admits the expression.
parseFilter ==
  LET result == parseOr(1, 0) IN
  IF result.ok /\ result.index > Len(tokens) /\ validateFilterExpression(result.tree, Attributes)
  THEN result ELSE Failure

-----------------------------------------------------------------------------
(* Evaluation.  A resource maps names to values, objects and sequences of     *)
(* them; NoValue is never stored (removeUnassigned).                          *)

isObject(v) == "object" \in DOMAIN v
isList(v)   == "list" \in DOMAIN v

elements(v) == IF isList(v) THEN {v.list[i] : i \in DOMAIN v.list} ELSE {v}

\* Mutant: a sub-attribute is looked up in the first element only.
LookupFirst(document, path) ==
  LET top == IF path[1] \in DOMAIN document THEN document[path[1]] ELSE [list |-> <<>>]
      first == IF isList(top) THEN {top.list[i] : i \in DOMAIN top.list \cap {1}} ELSE {top}
      objects == {e \in first : isObject(e) /\ path[2] \in DOMAIN e.object}
  IN  IF Len(path) = 1 THEN elements(top) ELSE UNION {elements(o.object[path[2]]) : o \in objects}

\* The values at a path, through the elements of multi-valued attributes.
lookupFilterValues(document, path) ==
  LET top == IF path[1] \in DOMAIN document THEN elements(document[path[1]]) ELSE {}
      objects == {e \in top : isObject(e) /\ path[2] \in DOMAIN e.object}
  IN  IF Len(path) = 1 THEN top ELSE UNION {elements(o.object[path[2]]) : o \in objects}

foldCase(n) == n - (n % 2)
instant(n)  == n \div 2

\* orderFilterValues: the sign of the comparison, or that there is none.
orderFilterValues(actual, expected, contract) ==
  LET kinds == {actual.kind, expected.kind}
      order(a, b) == IF a < b THEN "lt" ELSE IF a > b THEN "gt" ELSE "eq"
  IN  CASE contract.type \in {"string", "reference", "binary"} /\ kinds = {"string"} ->
             IF contract.caseExact THEN order(actual.n, expected.n)
             ELSE order(foldCase(actual.n), foldCase(expected.n))
        [] contract.type = "dateTime" /\ kinds = {"string"} /\ {actual.n, expected.n} \subseteq Timestamps ->
             order(instant(actual.n), instant(expected.n))
        [] contract.type \in {"integer", "decimal"} /\ kinds = {"number"} ->
             order(actual.n, expected.n)
        [] contract.type = "boolean" /\ kinds = {"boolean"} -> order(actual.n, expected.n)
        [] OTHER -> "incomparable"

\* The signs of the comparison that satisfy each operator.
accepts == [eq |-> {"eq"}, ne |-> {"lt", "gt"}, lt |-> {"lt"}, le |-> {"lt", "eq"},
            gt |-> {"gt"}, ge |-> {"gt", "eq"}]

compareFilterValue(actual, expected, contract, operator) ==
  IF expected.kind = "null" THEN operator = "ne"
  ELSE IF isObject(actual) THEN FALSE
  ELSE IF operator \in Partial
  THEN /\ actual.kind = "string" /\ expected.kind = "string"
       /\ IF contract.caseExact THEN Within(operator, actual.n, expected.n)
          ELSE Within(operator, foldCase(actual.n), foldCase(expected.n))
  ELSE orderFilterValues(actual, expected, contract) \in accepts[operator]

filterPresent(v) == isObject(v) => DOMAIN v.object # {}

RECURSIVE matchFilter(_, _, _)

matchFilter(tree, document, attributes) ==
  CASE tree.operator = "and" ->
         matchFilter(tree.left, document, attributes) /\ matchFilter(tree.right, document, attributes)
    [] tree.operator = "or" ->
         matchFilter(tree.left, document, attributes) \/ matchFilter(tree.right, document, attributes)
    [] tree.operator = "not" -> ~matchFilter(tree.child, document, attributes)
    [] OTHER ->
         LET contract == resolve(attributes, tree.attribute)
             values == lookupFilterValues(document, PathOf[tree.attribute])
         IN  CASE tree.operator = "valuePath" ->
                    \E v \in values : isObject(v) /\ matchFilter(tree.child, v.object, contract.sub)
               [] tree.operator = "pr" -> \E v \in values : filterPresent(v)
               [] OTHER ->
                    \E v \in values : compareFilterValue(v, tree.value, contract, tree.operator)

-----------------------------------------------------------------------------
(* Properties *)

\* The trees of tokens[i .. j] in the grammar of RFC 7644, Figure 1, read as written:
\* "or" of "and" of units, a unit being a comparison, a group, a negated group or a
\* value path.  depth is what the enclosing brackets have used of maximumFilterDepth: a
\* group uses three, a value path four, and a comparison needs three.
RECURSIVE ors(_, _, _), ands(_, _, _)

units(i, j, depth) ==
  LET inside(from, d) == ors(from, j - 1, depth + d)
      closed(open, from, close) ==
        /\ from <= j /\ peek(from).kind = open /\ peek(j).kind = close /\ from < j
  IN  UNION {
        IF depth + 3 <= maximumFilterDepth /\ j = i + 1 /\ peek(i).kind = "word" /\ word(j, "pr")
             /\ ~word(i, "not")
        THEN {Comparison(peek(i).text, "pr", NoValue)} ELSE {},
        IF depth + 3 <= maximumFilterDepth /\ j = i + 2 /\ peek(i).kind = "word" /\ ~word(i, "not")
             /\ peek(i + 1).kind = "word" /\ peek(j).kind = "value"
             /\ peek(i + 1).text \in Partial \cup Ordered
        THEN {Comparison(peek(i).text, peek(i + 1).text, peek(j).value)} ELSE {},
        IF closed("(", i, ")") THEN inside(i + 1, 3) ELSE {},
        IF word(i, "not") /\ closed("(", i + 1, ")") THEN {Not(e) : e \in inside(i + 2, 3)} ELSE {},
        IF peek(i).kind = "word" /\ ~word(i, "not") /\ closed("[", i + 1, "]")
        THEN {ValuePath(peek(i).text, e) : e \in inside(i + 2, 4)} ELSE {}}

ands(i, j, depth) ==
  units(i, j, depth) \cup
  UNION {{Both("and", l, r) : l \in ands(i, k - 1, depth), r \in units(k + 1, j, depth)} :
           k \in {n \in i + 1 .. j - 1 : word(n, "and")}}

ors(i, j, depth) ==
  ands(i, j, depth) \cup
  UNION {{Both("or", l, r) : l \in ors(i, k - 1, depth), r \in ands(k + 1, j, depth)} :
           k \in {n \in i + 1 .. j - 1 : word(n, "or")}}

\* The parser accepts exactly the filters of the grammar, up to the depth the brackets
\* add up to, and gives each the one tree the grammar gives it: and binds before or, both
\* to the left, nothing is left over (parseOr, parseAnd, parseUnary, parseAttribute).
ParserFollowsGrammar ==
  LET result == parseOr(1, 0) IN
  ors(1, Len(tokens), 0) =
    IF result.ok /\ result.index > Len(tokens) THEN {result.tree} ELSE {}

\* A comparison the schema check lets through never fails silently at evaluation:
\* on every resource with one value there, exactly one of less, equal and greater holds
\* (compatibleFilterValue against orderFilterValues, a malformed timestamp included).
AcceptedComparisonsDecide ==
  parseFilter.ok /\ parseFilter.tree.operator \in Ordered /\ parseFilter.tree.value.kind # "null" =>
    LET tree == parseFilter.tree
        contract == resolve(Attributes, tree.attribute)
    IN  \A d \in Documents : \A v \in lookupFilterValues(d, PathOf[tree.attribute]) :
          Cardinality({o \in {"lt", "eq", "gt"} : compareFilterValue(v, tree.value, contract, o)}) = 1

\* The dotted form of a comparison inside a value path.
dotted(parent, tree) ==
  [tree EXCEPT !.attribute = CHOOSE w \in DOMAIN PathOf : PathOf[w] = <<parent, tree.attribute>>]

\* A value path around a single comparison selects the same resources as the comparison
\* of the dotted sub-attribute, though one looks through objects and the other through
\* flattened values (matchFilter, lookupFilterValues).
ValuePathAgreesWithDotted ==
  parseFilter.ok /\ parseFilter.tree.operator = "valuePath" =>
    LET tree == parseFilter.tree IN
    tree.child.operator \in Partial \cup Ordered \cup {"pr"} =>
      \A d \in Documents :
        matchFilter(tree, d, Attributes) =
          matchFilter(dotted(tree.attribute, tree.child), d, Attributes)
=============================================================================
