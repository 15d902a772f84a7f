------------------------- MODULE BankReconciliation -------------------------
(***************************************************************************)
(* Bank statement lines and what they are matched to                       *)
(* (services/reconciliation.py, services/bank_rules.py,                    *)
(* services/bank_statement_lines.py): a line is matched with an entry that *)
(* is in the books, by hand or by auto_match, or with an entry that is     *)
(* booked for it, by split_match, create_and_match or a bank rule.         *)
(*                                                                         *)
(* A request reads the line once; its session answers every later read of  *)
(* it from memory, also after other requests have committed, and its       *)
(* UPDATE names the status only if it has changed it.  The matches are     *)
(* read anew.  Booking is a transaction of its own, before the match.      *)
(* auto_match and the bank rules read all lines first and then take them   *)
(* up one after the other, each in transactions of its own.                *)
(*                                                                         *)
(* Every caller matches a line's whole amount, so a match is a pair of a   *)
(* line and an entry.  Left out: the 1:1 columns that mirror the junction, *)
(* the version, imports, the draft that precedes an entry (module          *)
(* Journal), and the archiving of an entry by the journal's DELETE.        *)
(***************************************************************************)
EXTENDS Integers, FiniteSets

CONSTANTS
  Requests,     \* requests that may run at once
  Lines,        \* bank statement lines
  Entries,      \* journal entries
  Amount,       \* of a line, and of the bank side of an entry booked by others, in cents
  Tolerance,    \* _MATCH_TOLERANCE, in cents
  MatchIds,     \* bounds the live matches
  MaxTroubles,  \* bound on crashes and statuses set by hand, together
  None

ASSUME BankReconciliationAssumption ==
  /\ Lines \cap Entries = {} /\ None \notin Lines \cup Entries
  /\ Amount \in [Lines \cup Entries -> Nat \ {0}] /\ Tolerance \in Nat
  /\ MaxTroubles \in Nat

Statuses == {"UNMATCHED", "PARTIAL", "MATCHED", "IGNORED"}

VARIABLES
  row,       \* table bank_statement_lines
  matches,   \* table bsl_matches, without what is archived
  entry,     \* table journal_entries: what can be matched, the line it was booked for, and
             \* by what
  req,       \* the running requests
  troubles,  \* crashes and statuses set by hand so far
  raced,     \* history: lines for which a request booked or committed on what it had read
             \* before another changed it
  edited,    \* history: lines whose status was set by hand, or that were unmatched while
             \* an entry booked for them stands
  torn       \* history: lines for which a request booked an entry and then ended

vars == <<row, matches, entry, req, troubles, raced, edited, torn>>

Fresh == [status |-> "UNMATCHED", archived |-> FALSE]
Idle  == [pc |-> "idle", by |-> "none", line |-> None, entry |-> None, live |-> {},
          todo |-> {}, to |-> "none", seen |-> [l \in Lines |-> Fresh]]

Init ==
  /\ row = [l \in Lines |-> Fresh]
  /\ matches = {}
  /\ entry \in [Entries -> [status : {"ABSENT", "POSTED"}, line : {None}, by : {"none"}]]
  /\ req = [r \in Requests |-> Idle]
  /\ troubles = 0
  /\ raced = {} /\ edited = {} /\ torn = {}

-----------------------------------------------------------------------------
(***************************************************************************)
(* Reading and writing                                                     *)
(***************************************************************************)

Live(l)   == {m \in matches : m.line = l}
Booked(l) == {e \in Entries : entry[e].status = "POSTED" /\ entry[e].line = l}

\* r has an entry booked for l and has not committed the line yet.
Owes(r, l) == req[r].by \in {"split", "compound", "rule"} /\ req[r].line = l
              /\ req[r].pc \in {"match", "save", "mark"}

\* r has read the line, and goes on at pc.
Read(r, l, pc, by) == [Idle EXCEPT !.pc = pc, !.by = by, !.line = l, !.seen[l] = row[l]]

\* The UPDATE of l by r: the status is written if it is not what r has read.
Flushed(r, l, status) ==
  IF status = req[r].seen[l].status THEN row ELSE [row EXCEPT ![l].status = status]

\* A line that r has dealt with: a run over many lines goes on with the next.
Onward(r, l) ==
  IF req[r].todo \subseteq {l} THEN Idle
  ELSE [req[r] EXCEPT !.pc = "run", !.todo = @ \ {l}, !.line = None, !.entry = None, !.live = {}]

Go(r, q) == req' = [req EXCEPT ![r] = q]

Stale(r, l) == row[l].status # req[r].seen[l].status

-----------------------------------------------------------------------------
(***************************************************************************)
(* add_match, and the requests that come to it                             *)
(***************************************************************************)

\* match_line
BeginMatch(r, l, e) ==
  /\ req[r].pc = "idle" /\ ~row[l].archived
  /\ Go(r, [Read(r, l, "match", "hand") EXCEPT !.entry = e])
  /\ UNCHANGED <<row, matches, entry, troubles, raced, edited, torn>>

\* mutant: the allocations there are do not count
FitsAlone(l, n) == Amount[l] <= Amount[l] + Tolerance

\* Over-allocation guard: with n matches before it
Fits(l, n) == (n + 1) * Amount[l] <= Amount[l] + Tolerance

\* The guards of add_match.  The line, and an entry that the request has booked or
\* found as a candidate, are not read again.
Acceptable(r) ==
  LET q == req[r] IN
  /\ ~q.seen[q.line].archived
  /\ q.by = "hand" => entry[q.entry].status = "POSTED"
  /\ Fits(q.line, Cardinality(Live(q.line)))

Allocate(r) ==
  /\ req[r].pc = "match" /\ Acceptable(r)
  /\ Go(r, [req[r] EXCEPT !.pc = "save", !.live = Live(req[r].line)])
  /\ UNCHANGED <<row, matches, entry, troubles, raced, edited, torn>>

\* A ValueError: auto_match goes on, and what was booked stays.
Refuse(r) ==
  LET l == req[r].line IN
  /\ req[r].pc = "match" /\ ~Acceptable(r)
  /\ Go(r, Onward(r, l))
  /\ torn' = IF Owes(r, l) THEN torn \cup {l} ELSE torn
  /\ UNCHANGED <<row, matches, entry, troubles, raced, edited>>

\* _recompute_status: an IGNORED line stays so; the whole amount makes it MATCHED.
AfterMatch(status) == IF status = "IGNORED" THEN "IGNORED" ELSE "MATCHED"

SaveMatch(r, id) ==
  LET q == req[r] l == q.line IN
  /\ q.pc = "save" /\ \A m \in matches : m.id # id
  /\ matches' = matches \cup {[id |-> id, line |-> l, entry |-> q.entry, by |-> q.by]}
  /\ row' = Flushed(r, l, AfterMatch(q.seen[l].status))
  /\ raced' = IF Stale(r, l) \/ Live(l) # q.live THEN raced \cup {l} ELSE raced
  /\ Go(r, Onward(r, l))
  /\ UNCHANGED <<entry, troubles, edited, torn>>

-----------------------------------------------------------------------------
(***************************************************************************)
(* Booking an entry for a line: split_match_line, create_and_match         *)
(***************************************************************************)

\* mutant: a matched line is booked again
BookableAgain(by, status) == by = "split" \/ status \notin {"MATCHED", "PARTIAL"}

Bookable(by, status) ==
  CASE by = "split"    -> status # "MATCHED"
    [] by = "compound" -> status \notin {"MATCHED", "PARTIAL"}

BeginBook(r, l, by) ==
  /\ req[r].pc = "idle" /\ ~row[l].archived /\ Bookable(by, row[l].status)
  /\ Go(r, Read(r, l, "book", by))
  /\ UNCHANGED <<row, matches, entry, troubles, raced, edited, torn>>

\* create_draft and post, or the record and its posting
Book(r, e) ==
  LET l == req[r].line IN
  /\ req[r].pc = "book" /\ entry[e].status = "ABSENT"
  /\ entry' = [entry EXCEPT ![e] = [status |-> "POSTED", line |-> l, by |-> req[r].by]]
  /\ raced' = IF Stale(r, l) \/ \E o \in Requests : Owes(o, l) THEN raced \cup {l} ELSE raced
  /\ Go(r, [req[r] EXCEPT !.pc = IF req[r].by = "rule" THEN "mark" ELSE "match", !.entry = e])
  /\ UNCHANGED <<row, matches, troubles, edited, torn>>

-----------------------------------------------------------------------------
(***************************************************************************)
(* Runs over many lines: auto_match, auto_apply_rules, apply_single_rule   *)
(***************************************************************************)

BeginRun(r, by, ls) ==
  /\ req[r].pc = "idle" /\ ls # {} /\ \A l \in ls : row[l].status = "UNMATCHED"
  /\ Go(r, [Idle EXCEPT !.pc = "run", !.by = by, !.todo = ls,
                        !.seen = [l \in Lines |-> IF l \in ls THEN row[l] ELSE Fresh]])
  /\ UNCHANGED <<row, matches, entry, troubles, raced, edited, torn>>

\* The only candidate of high confidence: an entry of the line's amount, whoever
\* has been matched to it.
Candidate(l, e) ==
  /\ entry[e].status = "POSTED"
  /\ Amount[l] = IF entry[e].line = None THEN Amount[e] ELSE Amount[entry[e].line]

AutoNext(r, l, e) ==
  /\ req[r].pc = "run" /\ req[r].by = "auto" /\ l \in req[r].todo /\ Candidate(l, e)
  /\ Go(r, [req[r] EXCEPT !.pc = "match", !.line = l, !.entry = e])
  /\ UNCHANGED <<row, matches, entry, troubles, raced, edited, torn>>

\* apply_rule_to_line: its check is of the status that the run has read.
RuleNext(r, l) ==
  /\ req[r].pc = "run" /\ req[r].by = "rule" /\ l \in req[r].todo
  /\ req[r].seen[l].status # "MATCHED"
  /\ Go(r, [req[r] EXCEPT !.pc = "book", !.line = l])
  /\ UNCHANGED <<row, matches, entry, troubles, raced, edited, torn>>

\* No candidate, or too many; or the posting is refused.
Skip(r, l) ==
  /\ req[r].pc = "run" /\ l \in req[r].todo
  /\ Go(r, Onward(r, l))
  /\ UNCHANGED <<row, matches, entry, troubles, raced, edited, torn>>

\* The end of apply_rule_to_line: the line, without a row in the junction
Mark(r) ==
  LET l == req[r].line IN
  /\ req[r].pc = "mark"
  /\ row' = Flushed(r, l, "MATCHED")
  /\ raced' = IF Stale(r, l) \/ Live(l) # {} THEN raced \cup {l} ELSE raced
  /\ Go(r, Onward(r, l))
  /\ UNCHANGED <<matches, entry, troubles, edited, torn>>

-----------------------------------------------------------------------------
(***************************************************************************)
(* unmatch_line, and the writes of bank_statement_lines.py                 *)
(***************************************************************************)

BeginUnmatch(r, l) ==
  /\ req[r].pc = "idle" /\ ~row[l].archived
  /\ Go(r, [Read(r, l, "unmatch", "hand") EXCEPT !.live = Live(l)])
  /\ UNCHANGED <<row, matches, entry, troubles, raced, edited, torn>>

\* mutants: the status is left, or cleared
AfterUnmatchKept(status) == status
AfterUnmatchCleared(status) == "none"

AfterUnmatch(status) == IF status = "IGNORED" THEN "IGNORED" ELSE "UNMATCHED"

SaveUnmatch(r) ==
  LET q == req[r] l == q.line IN
  /\ q.pc = "unmatch"
  /\ matches' = matches \ q.live
  /\ row' = Flushed(r, l, AfterUnmatch(q.seen[l].status))
  /\ raced'  = IF Stale(r, l) \/ Live(l) # q.live THEN raced \cup {l} ELSE raced
  /\ edited' = IF Booked(l) # {} THEN edited \cup {l} ELSE edited
  /\ Go(r, Idle)
  /\ UNCHANGED <<entry, troubles, torn>>

\* api_update with a status, api_match (MATCHED), api_unmatch (UNMATCHED): the
\* junction is not looked at.  api_delete archives the line.
BeginEdit(r, l, to) ==
  /\ req[r].pc = "idle" /\ ~row[l].archived /\ troubles < MaxTroubles
  /\ troubles' = troubles + 1
  /\ Go(r, [Read(r, l, "edit", "hand") EXCEPT !.to = to])
  /\ UNCHANGED <<row, matches, entry, raced, edited, torn>>

SaveEdit(r) ==
  LET q == req[r] l == q.line IN
  /\ q.pc = "edit"
  /\ IF q.to = "archived"
     THEN row' = [row EXCEPT ![l].archived = TRUE] /\ edited' = edited
     ELSE row' = Flushed(r, l, q.to) /\ edited' = edited \cup {l}
  /\ Go(r, Idle)
  /\ UNCHANGED <<matches, entry, troubles, raced, torn>>

-----------------------------------------------------------------------------
(***************************************************************************)
(* Around them                                                             *)
(***************************************************************************)

\* A crash, or an error that ends the request
Crash(r) ==
  LET l == req[r].line IN
  /\ req[r].pc # "idle" /\ troubles < MaxTroubles
  /\ troubles' = troubles + 1
  /\ Go(r, Idle)
  /\ torn' = IF l # None /\ Owes(r, l) THEN torn \cup {l} ELSE torn
  /\ UNCHANGED <<row, matches, entry, raced, edited>>

\* The journal reverses an entry, whatever is matched to it.
Reverse(e) ==
  /\ entry[e].status = "POSTED"
  /\ entry' = [entry EXCEPT ![e].status = "REVERSED"]
  /\ UNCHANGED <<row, matches, req, troubles, raced, edited, torn>>

Next ==
  \/ \E r \in Requests :
       \/ Allocate(r) \/ Refuse(r) \/ Mark(r) \/ SaveUnmatch(r) \/ SaveEdit(r) \/ Crash(r)
       \/ \E id \in MatchIds : SaveMatch(r, id)
       \/ \E e \in Entries : Book(r, e)
       \/ \E by \in {"auto", "rule"}, ls \in SUBSET Lines : BeginRun(r, by, ls)
       \/ \E l \in Lines :
            \/ RuleNext(r, l) \/ Skip(r, l) \/ BeginUnmatch(r, l)
            \/ \E e \in Entries : BeginMatch(r, l, e) \/ AutoNext(r, l, e)
            \/ \E by \in {"split", "compound"} : BeginBook(r, l, by)
            \/ \E to \in Statuses \cup {"archived"} : BeginEdit(r, l, to)
  \/ \E e \in Entries : Reverse(e)

Spec == Init /\ [][Next]_vars

-----------------------------------------------------------------------------
(***************************************************************************)
(* Properties                                                              *)
(***************************************************************************)

Rows == [status : Statuses, archived : BOOLEAN]
Kinds == {"none", "hand", "auto", "split", "compound", "rule"}
Match == [id : MatchIds, line : Lines, entry : Entries, by : Kinds]

Sessions == [pc : {"idle", "match", "save", "book", "mark", "run", "unmatch", "edit"},
             by : Kinds, line : Lines \cup {None}, entry : Entries \cup {None},
             live : SUBSET Match, todo : SUBSET Lines,
             to : Statuses \cup {"archived", "none"}, seen : [Lines -> Rows]]

Placed(q) ==
  /\ q.pc \notin {"idle", "run"} => q.line \in Lines
  /\ q.pc \in {"match", "save", "mark"} => q.entry \in Entries
  /\ q.pc = "mark" => q.by = "rule"
  /\ q.pc = "edit" => q.to # "none"

\* The tables and the requests have their types; a request that is past its
\* reads has a line, and one that matches has an entry.
TypeOK ==
  /\ row \in [Lines -> Rows]
  /\ matches \subseteq Match /\ \A m, n \in matches : m.id = n.id => m = n
  /\ entry \in [Entries -> [status : {"ABSENT", "POSTED", "REVERSED"}, line : Lines \cup {None}, by : Kinds]]
  /\ req \in [Requests -> Sessions] /\ \A r \in Requests : Placed(req[r])
  /\ troubles \in 0..MaxTroubles
  /\ raced \subseteq Lines /\ edited \subseteq Lines /\ torn \subseteq Lines

\* The over-allocation guard of add_match holds of the tables: what is matched
\* to a line is at most its amount and the tolerance, by whatever way the
\* matches came about, unless a request committed over what it had not read.
NeverOverMatched ==
  \A l \in Lines \ raced : Cardinality(Live(l)) * Amount[l] <= Amount[l] + Tolerance

\* A rule has booked an entry for l, reversed since or not.
RuleBooked(l) == \E e \in Entries : entry[e].line = l /\ entry[e].by = "rule"

\* "The ``bsl_matches`` junction is the source of truth" (reconciliation.py:9-11):
\* a MATCHED line has a live match, or a rule has booked an entry for it, which
\* makes no match, and a line with a live match is MATCHED.  Statuses set by
\* hand are the first exception, commits over what was not read the second.
JunctionFollowed ==
  \A l \in Lines \ (raced \cup edited) :
    /\ row[l].status = "MATCHED" => Live(l) # {} \/ RuleBooked(l)
    /\ Live(l) # {} => row[l].status = "MATCHED"

\* A line brings one entry into the books: two that stand are never booked for
\* the same line, and while one stands the line says so, or the request that
\* booked it is still to commit it.  The exceptions are the three histories:
\* nothing else makes a bank line count twice.
BookedForOnce ==
  \A l \in Lines \ (raced \cup edited \cup torn) :
    /\ \A d, e \in Booked(l) : d = e
    /\ Booked(l) # {} => row[l].status = "MATCHED" \/ \E r \in Requests : Owes(r, l)

\* "Line may have been matched by a concurrent request; skip it"
\* (api/v1/bank_rules.py:290): a rule does not take up a line that is MATCHED
\* by the time its turn comes.
RulesSkipMatched ==
  [][\A r \in Requests : req[r].pc = "run" /\ req'[r].pc = "book"
                           => row[req'[r].line].status # "MATCHED"]_vars

\* "Entry already matched ... skip" (reconciliation.py:628): auto_match links an
\* entry to one line only.
AutoLinkedOnce ==
  \A m, n \in matches : m.by = "auto" /\ n.by = "auto" /\ m.entry = n.entry => m = n
=============================================================================
