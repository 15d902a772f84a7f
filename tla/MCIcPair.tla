------------------------------ MODULE MCIcPair ------------------------------
(* IcPair on small instances. *)
EXTENDS IcPair, TLC

\* Sound: no property of these runs is a liveness property.
Symmetry == Permutations(Clients)
=============================================================================
