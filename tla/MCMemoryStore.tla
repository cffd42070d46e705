--------------------------- MODULE MCMemoryStore ---------------------------
(***************************************************************************)
(* Small instances of MemoryStore.  Bob and BOB are one name up to case.    *)
(***************************************************************************)
EXTENDS MemoryStore

CONSTANTS Bob, BOB, s1, s2, m1, m2, user, group, e1, b1, i1

MCFold == [n \in Names |-> IF n = Bob THEN BOB ELSE n]

Doc(name, ext) == [name |-> name, ext |-> ext, body |-> b1]

\* Consistent records: both types and all ids for one owner; a second document
\* with the same folded name; the same document in another scope, for two managers.
Consistent ==
  {newRecord(s1, m1, t, i, d, 1, None) :
     t \in ResourceTypes, i \in Ids, d \in {Doc(Bob, e1), Doc(BOB, None)}}
  \cup {newRecord(s, m, user, i, Doc(Bob, e1), 1, None) :
          s \in {s2}, m \in Managers, i \in Ids}

\* Records a careless caller could pass: no index, a zero or inverted time, an
\* external id or a version that disagrees with the data.
Careless ==
  LET r == newRecord(s1, m1, user, i1, Doc(Bob, e1), 1, None) IN
  {[r EXCEPT !.index = None],
   [r EXCEPT !.created = ZeroTime],
   [r EXCEPT !.modified = ZeroTime],
   [r EXCEPT !.ext = None],
   [r EXCEPT !.data = Doc(BOB, e1)]}

MCCandidates == Consistent \cup Careless
=============================================================================
