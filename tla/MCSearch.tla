------------------------------ MODULE MCSearch ------------------------------
(* Searches of one and of two types over four ids, for TLC. *)
EXTENDS Search

\* The user lies between groups in the order of ids, so that no order by type is one by
\* id, and the groups alone can use up the candidate limit.
MCTypeOf == [i \in Ids |-> IF i = 2 THEN "User" ELSE "Group"]

Everything == Keys \cup {None}

Request(types, filter, sorted, order, start, count) ==
  [types |-> types, filter |-> filter, sorted |-> sorted, order |-> order,
   start |-> start, count |-> count]

MCRequests ==
  LET both == <<"Group", "User">> IN
  {Request(both, Everything, FALSE, None, 1, None),
   Request(both, Everything, TRUE, None, 0, 1),
   Request(both, Everything, TRUE, "descending", 1, 1),
   Request(both, Keys, TRUE, "ascending", -1, 7),
   Request(<<"Group">>, {1}, TRUE, "descending", 1, 1),
   Request(both, Everything, FALSE, None, 2, 1),
   Request(both, Everything, FALSE, None, 3, -1),
   Request(both, Everything, FALSE, "ascending", 1, None)}
=============================================================================
