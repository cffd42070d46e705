------------------------------ MODULE IdStages ------------------------------
(***************************************************************************)
(* The stages of a provider id's life, without a state: unused, then live   *)
(* with one owner, then dead for ever and still with that owner.            *)
(***************************************************************************)
CONSTANT Owners

Unused     == [phase |-> "unused"]
Live(o)    == [phase |-> "live", owner |-> o]
Dead(o)    == [phase |-> "dead", owner |-> o]
LifeStates == {Unused} \cup {Live(o) : o \in Owners} \cup {Dead(o) : o \in Owners}

\* b is a or a later stage of the same resource's life.
Forward(a, b) ==
  \/ b = a
  \/ a = Unused
  \/ \E o \in Owners : a = Live(o) /\ b = Dead(o)
=============================================================================
