---------------------------- MODULE IdLifecycle ----------------------------
(***************************************************************************)
(* What a store promises about provider ids, without records, locks or      *)
(* transactions: an id is unused, then belongs to one owner, then is dead   *)
(* for ever and still carries that owner.  One step may move any number of  *)
(* ids, since one transaction may write any number of resources.            *)
(***************************************************************************)
EXTENDS IdStages

CONSTANT Ids

VARIABLE life

Init == life = [i \in Ids |-> Unused]

Advance ==
  /\ life' \in [Ids -> LifeStates]
  /\ \A i \in Ids : Forward(life[i], life'[i])

Spec == Init /\ [][Advance]_life
=============================================================================
