------------------------ MODULE MCBankReconciliation ------------------------
(* BankReconciliation on small instances. *)
EXTENDS BankReconciliation, TLC

Cents == [x \in Lines \cup Entries |-> 5]

Symmetry == Permutations(Requests) \cup Permutations(Entries) \cup Permutations(MatchIds)
=============================================================================
