------------------------------- MODULE Ledger -------------------------------
(***************************************************************************)
(* What the general ledger promises its readers, with no requests, locks   *)
(* or versions in sight: a journal entry is either not in the books or it  *)
(* is booked, a booking is only ever undone by booking its mirror image in *)
(* the same step, and the lines of a booked entry move only where the      *)
(* company's audit mode lets them.                                         *)
(*                                                                         *)
(* `book' is what reports.py reads (REPORTABLE_STATUSES): drafts and       *)
(* deleted drafts are all `Unbooked' here.                                 *)
(***************************************************************************)
EXTENDS JournalLines

CONSTANTS
  Entries,      \* journal entry ids
  None          \* "no entry": the reversal_of_id of an ordinary entry

VARIABLES
  mode,         \* company.audit_mode
  book          \* the booked entries

lvars == <<mode, book>>

Unbooked == [state |-> "unbooked", date |-> 0, rows |-> {}, origin |-> "UNKNOWN", of |-> None]

-----------------------------------------------------------------------------

Init ==
  /\ mode \in {"immutable", "hybrid", "open"}
  /\ book = [e \in Entries |-> Unbooked]

\* An entry enters the books balanced, dated and with its origin declared.
Post(e) ==
  /\ book[e] = Unbooked
  /\ book' = [book EXCEPT ![e] = book'[e]]
  /\ book'[e].state = "posted"
  /\ book'[e].of = None
  /\ book'[e].origin \in {"MANUAL", "RECORD"}
  /\ Balanced(book'[e].rows)
  /\ UNCHANGED mode

\* An entry leaves the balance of the books only together with the booking
\* of its mirror image.
Reverse(e, m) ==
  /\ book[e].state = "posted"
  /\ book[m] = Unbooked
  /\ book' = [book EXCEPT
       ![e].state = "reversed",
       ![m] = [state |-> "posted", date |-> book'[m].date, rows |-> Mirror(book[e].rows),
               origin |-> "REVERSAL", of |-> e]]
  /\ UNCHANGED mode

\* Open and hybrid companies may rewrite the lines of a booked entry; its
\* date, origin and place in a reversal pair stay.
Amend(e) ==
  /\ mode # "immutable"
  /\ book[e] # Unbooked
  /\ book' = [book EXCEPT ![e].rows = book'[e].rows]
  /\ book[e].state = "posted" => Balanced(book'[e].rows)
  /\ UNCHANGED mode

Next ==
  \/ \E e \in Entries : Post(e) \/ Amend(e)
  \/ \E e, m \in Entries : Reverse(e, m)

Spec == Init /\ [][Next]_lvars

=============================================================================
