------------------------------ MODULE MCEntity ------------------------------
(* Entity for TLC: each class is its own hash code, and objects are alike. *)
EXTENDS Entity, TLC

MCHash == [T \in Types |-> T]
Same == Permutations(Comps)
=============================================================================
