--------------------------- MODULE MCPeriodClose ---------------------------
(* PeriodClose on small instances. *)
EXTENDS PeriodClose, TLC

\* Sound: no property of these runs is a liveness property.
Symmetry == Permutations(Clients) \cup Permutations(LockIds)
=============================================================================
