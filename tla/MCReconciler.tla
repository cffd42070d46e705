---------------------------- MODULE MCReconciler ----------------------------
(***************************************************************************)
(* Small instances of Reconciler.                                           *)
(***************************************************************************)
EXTENDS Reconciler, TLC

CONSTANTS s1, user, e1, e2, Bob, Ann, x, i1

MCFold == [n \in Names |-> n]

MCRank == [d \in Identities |-> IF d[2] = e1 THEN 1 ELSE 2]

Doc(name, ext) == [name |-> name, ext |-> ext, body |-> x]

\* Every assignment of names to none, one or both of two identities, among them
\* swaps, chains and clashes of names.
MCRequests ==
  UNION {{[scope |-> s1, desired |-> [d \in D |-> Doc(f[d], d[2])], deleteMissing |-> b] :
            f \in [D -> Names], b \in BOOLEAN} : D \in SUBSET Identities}

\* Clients post either name, and any externalId or none.
MCPosted == {Doc(n, e) : n \in Names, e \in ExternalIds \cup {None}}

ManagerSymmetry == Permutations(Ids) \cup Permutations(Reconcilers)
=============================================================================
