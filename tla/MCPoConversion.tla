-------------------------- MODULE MCPoConversion ---------------------------
(* PoConversion on small instances. *)
EXTENDS PoConversion, TLC

CONSTANTS l1, l2

OneLine  == {l1 :> 2, l1 :> 1}
TwoLines == {l1 :> 2 @@ l2 :> 1, l1 :> 1 @@ l2 :> 1}

\* Sound: no property of these runs is a liveness property.
Symmetry == Permutations(Clients)
=============================================================================
