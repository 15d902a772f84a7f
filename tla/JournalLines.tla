---------------------------- MODULE JournalLines ----------------------------
(***************************************************************************)
(* The arithmetic of journal lines, shared by the ledger's promise         *)
(* (Ledger) and by the services that keep it (Journal).                    *)
(*                                                                         *)
(* A line is a record [id, acct, amt, gst].  amt is debit minus credit, so *)
(* a line with debit 5 and one with credit 5 carry 5 and -5; gst is the    *)
(* amount, with the same sign convention, of the tax line that posting     *)
(* must add for this line (0 when gst_amount is null).  id tells line rows *)
(* apart: <<batch, position>>, one batch per request that inserted rows.   *)
(***************************************************************************)
EXTENDS Integers, Sequences, FiniteSets, FiniteSetsExt

\* debits minus credits over a set of lines
Net(rows) == MapThenSumSet(LAMBDA row : row.amt, rows)

\* What the lines of a posted entry must be: at least two of them, debits
\* equal to credits.
Balanced(rows) == Cardinality(rows) >= 2 /\ Net(rows) = 0

\* The rows that inserting the lines of template t creates, as batch k.
RowsOf(t, k) ==
  {[id |-> <<k, i>>, acct |-> t[i].acct, amt |-> t[i].amt, gst |-> t[i].gst] :
     i \in DOMAIN t}

\* The tax lines auto-posting adds: one for every line with a tax amount,
\* on the tax account, with no tax amount of its own.
GstRows(rows, k) ==
  {[id |-> Append(row.id, k), acct |-> "gst", amt |-> row.gst, gst |-> 0] :
     row \in {r \in rows : r.gst # 0 /\ r.acct # "gst"}}

\* The lines of a reversal: debit and credit swapped, the tax amount dropped.
Mirror(rows) ==
  {[id |-> row.id, acct |-> row.acct, amt |-> -row.amt, gst |-> 0] : row \in rows}

=============================================================================
