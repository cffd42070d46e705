---------------------------- MODULE MCScimServer ----------------------------
(***************************************************************************)
(* Small instances of ScimServer.                                           *)
(***************************************************************************)
EXTENDS ScimServer, TLC

CONSTANTS c1, c2, s1, s2, Bob, BOB, x, y, u, w, z, e1

MCFold == [n \in Names |-> IF n = Bob THEN BOB ELSE n]

\* One tenant, or one tenant for each client.
SharedScope    == [c \in Clients |-> s1]
SeparateScopes == [c \in Clients |-> IF c = c1 THEN s1 ELSE s2]

\* Bodies w and z give an immutable attribute its two values, the others leave it
\* out: once set it is put back when left out, and any other value is refused.
MCMerge ==
  [b \in Bodies \X Bodies |->
     IF b[1] \notin {w, z} THEN b[2]
     ELSE IF b[2] \in {w, z} \ {b[1]} THEN None ELSE b[1]]

Doc(name, ext, body) == [name |-> name, ext |-> ext, body |-> body]

\* Two documents, of which one cannot be rendered, and a PATCH of the body.
TwoDocuments == {Doc(Bob, None, x), Doc(Bob, None, u)}
OnePatch     == {Doc(Keep, Keep, y)}

\* Two external ids under names that differ only in case, an immutable attribute
\* and a PATCH that gives it its other value, and one that removes the name.
TenantDocuments == {Doc(Bob, None, x), Doc(BOB, e1, z)}
TenantPatches   == {Doc(Keep, Keep, w), Doc(None, Keep, Keep)}

ClientsOnly   == Permutations(Clients)
IdsOnly       == Permutations(Ids)
=============================================================================
