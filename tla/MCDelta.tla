------------------------------ MODULE MCDelta ------------------------------
(***************************************************************************)
(* Two volumes for TLC, each of which has its chunks one after the other   *)
(* in a part of the pool of its own, but for those B shares with A.        *)
(***************************************************************************)
EXTENDS Deltas

MCId == {"A", "B"}

MCPlaceA == [b \in 0..MaxBlock |-> 10 + b]

MCPlaceB == [b \in 0..MaxBlock |-> 20 + b]

=============================================================================
