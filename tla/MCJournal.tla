----------------------------- MODULE MCJournal ------------------------------
(* Journal on small instances. *)
EXTENDS Journal, TLC

Line(acct, amt, gst) == [acct |-> acct, amt |-> amt, gst |-> gst]

Chart == {"exp", "bank"}

\* A plain entry, a larger one on the same accounts, and a purchase of 2 plus
\* tax 1 paid with 3, which is in balance only once its tax line is posted.
Plain  == <<Line("exp", 1, 0), Line("bank", -1, 0)>>
Larger == <<Line("exp", 2, 0), Line("bank", -2, 0)>>
Taxed  == <<Line("exp", 2, 1), Line("bank", -3, 0)>>

PlainOnly     == {Plain, Larger}
PlainAndTaxed == {Plain, Taxed}

AllModes      == {"immutable", "hybrid", "open"}
ImmutableMode == {"immutable"}

NoOverride      == {"none"}
NoneAndReason   == {"none", "reason"}
NoneAndOverride == {"none", "privileged"}

AllOps  == {"create", "draft", "update", "void", "delete", "post", "reverse"}
CoreOps == AllOps \ {"void"}
BookingOps == {"draft", "post", "reverse"}

EntrySymmetry == Permutations(Entries)
Symmetry == Permutations(Entries) \cup Permutations(Requests)
=============================================================================
