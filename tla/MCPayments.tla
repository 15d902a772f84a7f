----------------------------- MODULE MCPayments -----------------------------
(* Payments on small instances. *)
EXTENDS Payments, TLC

\* Sound: no property of these runs is a liveness property.
Symmetry == Permutations(Clients)
=============================================================================
