------------------------------ MODULE Journal -------------------------------
(***************************************************************************)
(* The journal core of saebooks: services/journal.py (posting engine),     *)
(* services/journal_entries.py (the API's optimistic-locking surface), the *)
(* period locks both consult, and the database triggers of migrations 0101 *)
(* (balance of POSTED entries, checked at COMMIT) and 0161/0164 (frozen    *)
(* identity of booked entries, declared origin).                           *)
(*                                                                         *)
(* A request runs in one READ COMMITTED transaction: it reads the entry    *)
(* and everything its guards need (Begin...), then writes and commits      *)
(* (Commit...).  No read takes a row lock and the session keeps the entry  *)
(* as first read, so whatever other requests commit in between is not seen *)
(* by the guards.  The first UPDATE of a row locks it until the commit, so *)
(* writes and commit are one step.  A commit the triggers refuse, a guard  *)
(* that raises late and a crash all roll the transaction back: Abort.      *)
(***************************************************************************)
EXTENDS JournalLines

CONSTANTS
  Requests,      \* requests that can be in flight at a time
  Entries,       \* journal entry ids
  Accounts,      \* the chart of accounts, besides the tax account
  Templates,     \* the bodies a request may send: sequences of [acct, amt, gst]
  Modes,         \* the audit modes a company may be in
  Ops,           \* the operations requests ask for
  Overrides,     \* the override inputs that occur, see OverrideInputs
  MaxDate,       \* entry dates and lock dates are 1..MaxDate
  MaxDrafts,     \* bound on the drafts ever created (reversals not counted)
  MaxVersion,    \* bound on the version counter
  MaxLocks,      \* bound on the number of period locks
  None           \* "no entry", "no body", "no date"

\* What a request brings against a closed period: nothing, an override reason
\* (from a role that may not override, or one the stop-word check refuses), or
\* a real reason from an admin, accountant or owner.
OverrideInputs == {"none", "reason", "privileged"}

\* debit less credit, and the signed tax amount (JournalLines)
BodyLines == [acct : Accounts, amt : Int, gst : Int]

ASSUME JournalAssumption ==
  /\ Templates \subseteq Seq(BodyLines)
  /\ MaxDate \in Nat \ {0}
  /\ MaxDrafts \in Nat
  /\ MaxVersion \in Nat \ {0}
  /\ MaxLocks \in Nat
  /\ Modes \subseteq {"immutable", "hybrid", "open"}
  /\ Overrides \subseteq OverrideInputs
  /\ Ops \subseteq {"create", "draft", "update", "void", "delete", "post", "reverse"}
  /\ None \notin Entries
  /\ None \notin Templates
  /\ None \notin 1..MaxDate

VARIABLES
  mode,          \* company.audit_mode
  je,            \* table journal_entries with its journal_lines
  locks,         \* table period_locks: the locked_through dates
  log,           \* table change_log
  req            \* the requests in flight

vars == <<mode, je, locks, log, req>>

Dates  == 1..MaxDate
Booked == {"POSTED", "REVERSED"}

Absent ==
  [status |-> "ABSENT", date |-> 0, rows |-> {}, origin |-> "UNKNOWN",
   of |-> None, version |-> 0, batches |-> 0, archived |-> FALSE]

Idle ==
  [pc |-> "idle", op |-> "none", e |-> None, m |-> None, snap |-> Absent,
   date |-> None, body |-> None, ovr |-> "none", via |-> "api"]

Free(r) == req[r].pc = "idle"

-----------------------------------------------------------------------------
(***************************************************************************)
(* Guards                                                                  *)
(***************************************************************************)

\* _check_period_lock: a date in a closed period needs a privileged override.
\* What a request brings is looked at only there, so it is "none" elsewhere.
ClosedBefore(date)     == \E through \in locks : date < through  \* mutant: open on the lock date
Closed(date)           == \E through \in locks : date <= through
PeriodOpen(date, ovr)  == IF Closed(date) THEN ovr = "privileged" ELSE ovr = "none"

\* mutant: only hybrid companies are gated
EditAllowedUnlessHybrid(entry, ovr) ==
  \/ mode # "hybrid" /\ ovr = "none"
  \/ mode = "hybrid" /\ PeriodOpen(entry.date, ovr)

\* enforce_posted_edit_gate
EditAllowed(entry, ovr) ==
  \/ entry.status = "DRAFT" /\ ovr = "none"
  \/ mode = "open" /\ ovr = "none"
  \/ mode = "hybrid" /\ PeriodOpen(entry.date, ovr)

\* mutant: the trigger counts the lines and does not add them up
CountTrigger(new) == new.status = "POSTED" => Cardinality(new.rows) >= 2

\* The deferred constraint trigger of 0101
BalanceTrigger(new) == new.status = "POSTED" => Balanced(new.rows)

\* je_engine_guard, 0164 (ref, company_id and tenant_id share the date's fate)
EngineGuard(old, new) ==
  /\ new.status \in Booked => new.origin # "UNKNOWN"
  /\ old.status \in Booked => new.date = old.date /\ new.status # "DELETED"

Accepted(old, new) == BalanceTrigger(new) /\ EngineGuard(old, new)

\* What the commit of one or two entry rows writes, if the triggers accept it.
Write(e, new) ==
  /\ Accepted(je[e], new)
  /\ je' = [je EXCEPT ![e] = new]

WritePair(e, new, m, newM) ==
  /\ Accepted(je[e], new)
  /\ Accepted(je[m], newM)
  /\ je' = [je EXCEPT ![e] = new, ![m] = newM]

Log(e, op, version) == [e |-> e, op |-> op, version |-> version]

Finish(r)   == req' = [req EXCEPT ![r] = Idle]
Abort(r)    == ~Free(r) /\ Finish(r) /\ UNCHANGED <<mode, je, locks, log>>

-----------------------------------------------------------------------------
(***************************************************************************)
(* Creating drafts: nothing to read first, so one step each                *)
(***************************************************************************)

NewEntry(e) ==
  /\ je[e] = Absent
  /\ Cardinality({x \in Entries : je[x].status # "ABSENT" /\ je[x].of = None}) < MaxDrafts

Draft(date, t) ==
  [Absent EXCEPT !.status = "DRAFT", !.date = date, !.rows = RowsOf(t, 1),
                 !.version = 1, !.batches = 1]

\* journal_entries.create: the API refuses an unbalanced body
Create(r, e, date, t) ==
  /\ Free(r)
  /\ "create" \in Ops
  /\ NewEntry(e)
  /\ Net(RowsOf(t, 1)) = 0
  /\ Write(e, Draft(date, t))
  /\ log' = log \cup {Log(e, "create", 1)}
  /\ UNCHANGED <<mode, locks, req>>

\* journal.create_draft: a service's draft may be short of its tax line
CreateDraft(r, e, date, t) ==
  /\ Free(r)
  /\ "draft" \in Ops
  /\ NewEntry(e)
  /\ Write(e, Draft(date, t))
  /\ UNCHANGED <<mode, locks, log, req>>

-----------------------------------------------------------------------------
(***************************************************************************)
(* Editing, voiding and deleting                                           *)
(***************************************************************************)

Begin(r, input) ==
  /\ Free(r)
  /\ input.op \in Ops
  /\ je[input.e].status \in {"DRAFT"} \cup Booked
  /\ je[input.e].version < MaxVersion
  /\ req' = [req EXCEPT ![r] = [input EXCEPT !.pc = "read", !.snap = je[input.e]]]
  /\ UNCHANGED <<mode, je, locks, log>>

\* journal_entries.update up to its first write.  The caller's If-Match is
\* the version it read, or the request ends in 409 and changes nothing.
BeginUpdate(r, e, date, body, ovr) ==
  /\ je[e].status \in Booked => date \in {None, je[e].date}
  /\ EditAllowed(je[e], ovr)
  /\ body # None => Net(RowsOf(body, 1)) = 0
  /\ Begin(r, [Idle EXCEPT !.op = "update", !.e = e, !.date = date, !.body = body, !.ovr = ovr])

\* mutant: a date that was not given overwrites the entry's
GivenDate(q, old) == q.date

\* Only a date that differs from the one read is written.
NewDate(q, old) == IF q.date \in {None, q.snap.date} THEN old.date ELSE q.date

\* Lines are replaced in bulk: the rows of the snapshot go, whatever else the
\* entry has acquired stays.
CommitUpdate(r) ==
  LET q == req[r]
      old == je[q.e]
      new == [old EXCEPT
        !.date = NewDate(q, old),
        !.rows = IF q.body = None THEN @
                 ELSE (@ \ q.snap.rows) \cup RowsOf(q.body, old.batches + 1),
        !.batches = @ + 1,
        !.version = q.snap.version + 1]
  IN /\ q.pc = "read" /\ q.op = "update"
     /\ old.status # "DELETED"
     /\ Write(q.e, new)
     /\ log' = log \cup {Log(q.e, "update", new.version)}
     /\ Finish(r)
     /\ UNCHANGED <<mode, locks>>

\* journal_entries.void asks for nothing but the version
BeginVoid(r, e) == Begin(r, [Idle EXCEPT !.op = "void", !.e = e])

CommitVoid(r) ==
  LET q == req[r]
      new == [je[q.e] EXCEPT !.archived = TRUE, !.version = q.snap.version + 1]
  IN /\ q.pc = "read" /\ q.op = "void"
     /\ je[q.e].status # "DELETED"
     /\ Write(q.e, new)
     /\ log' = log \cup {Log(q.e, "archive", new.version)}
     /\ Finish(r)
     /\ UNCHANGED <<mode, locks>>

\* journal.delete
BeginDelete(r, e) ==
  /\ je[e].status = "DRAFT"
  /\ Begin(r, [Idle EXCEPT !.op = "delete", !.e = e])

CommitDelete(r) ==
  LET q == req[r] IN
  /\ q.pc = "read" /\ q.op = "delete"
  /\ je[q.e].status # "DELETED"
  /\ Write(q.e, [Absent EXCEPT !.status = "DELETED"])
  /\ Finish(r)
  /\ UNCHANGED <<mode, locks, log>>

-----------------------------------------------------------------------------
(***************************************************************************)
(* Posting                                                                 *)
(***************************************************************************)

\* What post_in_txn makes of an entry row: the tax lines of the lines the
\* request read, the status and the origin.
PostedRow(entry, read, origin) ==
  [entry EXCEPT
     !.rows = @ \cup GstRows(read, entry.batches + 1),
     !.batches = @ + 1,
     !.status = "POSTED",
     !.origin = origin]

OriginOf(via) == IF via = "api" THEN "MANUAL" ELSE "RECORD"

\* api_post and journal.post up to the first write
BeginPost(r, e, ovr, via) ==
  /\ je[e].status = "DRAFT"
  /\ PeriodOpen(je[e].date, ovr)
  /\ LET new == PostedRow(je[e], je[e].rows, OriginOf(via))
     IN  Net(new.rows) = 0 /\ new.rows # {}
  /\ Begin(r, [Idle EXCEPT !.op = "post", !.e = e, !.ovr = ovr, !.via = via])

\* Posting rewrites every line it read (their tax_treatment), so lines that
\* have gone in the meantime fail it (StaleDataError).
CommitPost(r) ==
  LET q == req[r]
  IN /\ q.pc = "read" /\ q.op = "post"
     /\ je[q.e].status # "DELETED"
     /\ q.snap.rows \subseteq je[q.e].rows
     /\ Write(q.e, PostedRow(je[q.e], q.snap.rows, OriginOf(q.via)))
     /\ IF q.via = "api"
        THEN req' = [req EXCEPT ![r].pc = "posted"]
        ELSE Finish(r)
     /\ UNCHANGED <<mode, locks, log>>

\* mutant: the change is logged, the version stays
LogPostUnbumped(r) ==
  LET q == req[r] IN
  /\ q.pc = "posted"
  /\ log' = log \cup {Log(q.e, "posted", q.snap.version)}
  /\ Finish(r)
  /\ UNCHANGED <<mode, je, locks>>

\* api_post's second transaction: the version bump and the change_log row
LogPost(r) ==
  LET q == req[r] IN
  /\ q.pc = "posted"
  /\ Write(q.e, [je[q.e] EXCEPT !.version = q.snap.version + 1])
  /\ log' = log \cup {Log(q.e, "posted", q.snap.version + 1)}
  /\ Finish(r)
  /\ UNCHANGED <<mode, locks>>

-----------------------------------------------------------------------------
(***************************************************************************)
(* Reversing                                                               *)
(***************************************************************************)

\* mutants: debits and credits not swapped; the reversal committed as a draft, to
\* be posted by a later transaction
ReversalUnswapped(e, snap, date) ==
  PostedRow([Draft(date, <<>>) EXCEPT !.rows = snap.rows, !.of = e], {}, "REVERSAL")
ReversalDraft(e, snap, date) ==
  [Draft(date, <<>>) EXCEPT !.rows = Mirror(snap.rows), !.of = e]

\* The reversal entry of snapshot `snap', as its transaction commits it
ReversalRow(e, snap, date) ==
  PostedRow([Draft(date, <<>>) EXCEPT !.rows = Mirror(snap.rows), !.of = e],
            Mirror(snap.rows), "REVERSAL")

\* api_reverse and journal.reverse up to the first write
BeginReverse(r, e, date, ovr, via) ==
  /\ je[e].status = "POSTED"
  /\ PeriodOpen(date, ovr)
  /\ Net(Mirror(je[e].rows)) = 0
  /\ Begin(r, [Idle EXCEPT !.op = "reverse", !.e = e, !.date = date, !.ovr = ovr, !.via = via])

\* One transaction inserts and posts the reversal m and flips the original.
CommitReverse(r, m) ==
  LET q == req[r] IN
  /\ q.pc = "read" /\ q.op = "reverse"
  /\ je[m] = Absent
  /\ WritePair(q.e, [je[q.e] EXCEPT !.status = "REVERSED"],
               m, ReversalRow(q.e, q.snap, q.date))
  /\ IF q.via = "api"
     THEN req' = [req EXCEPT ![r].pc = "reversed", ![r].m = m]
     ELSE Finish(r)
  /\ UNCHANGED <<mode, locks, log>>

\* api_reverse's second transaction
LogReverse(r) ==
  LET q == req[r] IN
  /\ q.pc = "reversed"
  /\ Write(q.e, [je[q.e] EXCEPT !.version = q.snap.version + 1])
  /\ log' = log \cup {Log(q.e, "reversed", q.snap.version + 1), Log(q.m, "create", 1)}
  /\ Finish(r)
  /\ UNCHANGED <<mode, locks>>

-----------------------------------------------------------------------------
(***************************************************************************)
(* Period locks                                                            *)
(***************************************************************************)

\* lock_period
Lock(r, through) ==
  /\ Free(r)
  /\ Cardinality(locks) < MaxLocks
  /\ locks' = locks \cup {through}
  /\ UNCHANGED <<mode, je, log, req>>

\* delete_period_lock
Unlock(r, through) ==
  /\ Free(r)
  /\ through \in locks
  /\ locks' = locks \ {through}
  /\ UNCHANGED <<mode, je, log, req>>

-----------------------------------------------------------------------------

Init ==
  /\ mode \in Modes
  /\ je = [e \in Entries |-> Absent]
  /\ locks = {}
  /\ log = {}
  /\ req = [r \in Requests |-> Idle]

Next ==
  \E r \in Requests :
    \/ \E e \in Entries, date \in Dates, t \in Templates :
         Create(r, e, date, t) \/ CreateDraft(r, e, date, t)
    \/ \E e \in Entries, date \in Dates \cup {None}, body \in Templates \cup {None},
          ovr \in Overrides : BeginUpdate(r, e, date, body, ovr)
    \/ \E e \in Entries : BeginVoid(r, e) \/ BeginDelete(r, e)
    \/ \E e \in Entries, ovr \in Overrides, via \in {"api", "service"} :
         BeginPost(r, e, ovr, via)
    \/ \E e \in Entries, date \in Dates, ovr \in Overrides, via \in {"api", "service"} :
         BeginReverse(r, e, date, ovr, via)
    \/ CommitUpdate(r)
    \/ CommitVoid(r)
    \/ CommitDelete(r)
    \/ CommitPost(r)
    \/ LogPost(r)
    \/ \E m \in Entries : CommitReverse(r, m)
    \/ LogReverse(r)
    \/ Abort(r)
    \/ \E through \in Dates : Lock(r, through) \/ Unlock(r, through)

Spec == Init /\ [][Next]_vars

-----------------------------------------------------------------------------
(***************************************************************************)
(* Types                                                                   *)
(***************************************************************************)

Rows == [id : Seq(Nat), acct : Accounts \cup {"gst"}, amt : Int, gst : Int]

EntryRows ==
  [status : {"ABSENT", "DRAFT", "POSTED", "REVERSED", "DELETED"},
   date : Nat, rows : SUBSET Rows, origin : {"UNKNOWN", "MANUAL", "RECORD", "REVERSAL"},
   of : Entries \cup {None}, version : Nat, batches : Nat, archived : BOOLEAN]

LogRows ==
  [e : Entries, op : {"create", "update", "archive", "posted", "reversed"}, version : Nat]

RequestStates ==
  [pc : {"idle", "read", "posted", "reversed"},
   op : {"none", "update", "void", "delete", "post", "reverse"},
   e : Entries \cup {None}, m : Entries \cup {None}, snap : EntryRows,
   date : Dates \cup {None}, body : Templates \cup {None}, ovr : OverrideInputs,
   via : {"api", "service"}]

\* The shape of the tables and of the requests in flight.
TypeOK ==
  /\ mode \in Modes
  /\ je \in [Entries -> EntryRows]
  /\ locks \subseteq Dates
  /\ log \subseteq LogRows
  /\ req \in [Requests -> RequestStates]

-----------------------------------------------------------------------------
(***************************************************************************)
(* Properties the database guards carry, whatever requests interleave      *)
(***************************************************************************)

\* A POSTED entry has at least two lines and its debits equal its credits,
\* also when an edit that read it as a draft commits after the post that
\* added its tax line (0101_je_balance_trigger.py).
PostedBalanced == \A e \in Entries : je[e].status = "POSTED" => Balanced(je[e].rows)

\* A booked entry has a declared origin, and is a reversal exactly when it
\* says which entry it reverses; that entry is in the books (journal.reverse,
\* je_engine_guard).
ProvenanceDeclared ==
  \A e \in Entries : je[e].status \in Booked =>
    /\ je[e].origin # "UNKNOWN"
    /\ je[e].origin = "REVERSAL" <=> je[e].of # None
    /\ je[e].of # None => je[je[e].of].status \in Booked

\* Once booked, an entry stays booked with the date (ref, company, tenant) it
\* was booked with, also under a redating edit or a delete that read it as a
\* draft (je_engine_guard).
BookedFrozen ==
  [][\A e \in Entries : je[e].status \in Booked =>
       je'[e].status \in Booked /\ je'[e].date = je[e].date]_vars

\* In an immutable company the lines of a reversal never change: it is
\* inserted and posted in one transaction, so no edit ever reads it as a
\* draft (journal.reverse, "ATOMICITY FIX").
ReversalUntouched ==
  [][\A m \in Entries : mode = "immutable" /\ je[m].of # None =>
       je'[m].rows = je[m].rows /\ je'[m].of = je[m].of]_vars

-----------------------------------------------------------------------------
(***************************************************************************)
(* Properties the Python guards carry when requests do not overlap         *)
(***************************************************************************)

Book ==
  [e \in Entries |->
    LET entry == je[e] IN
    IF entry.status \in Booked
    THEN [state |-> IF entry.status = "POSTED" THEN "posted" ELSE "reversed",
          date |-> entry.date, rows |-> entry.rows, origin |-> entry.origin, of |-> entry.of]
    ELSE [state |-> "unbooked", date |-> 0, rows |-> {}, origin |-> "UNKNOWN", of |-> None]]

GeneralLedger == INSTANCE Ledger WITH book <- Book

\* The services implement the ledger's promise: balanced postings, undone
\* only by their mirror image, lines amended only outside immutable mode.
KeepsLedger == GeneralLedger!Spec

\* In an immutable company a REVERSED entry and its reversal cancel line by
\* line, and there is only one reversal (reports.py:48, REPORTABLE_STATUSES).
ReversedCancels ==
  mode = "immutable" =>
    \A e \in Entries : je[e].status = "REVERSED" =>
      \E m \in Entries :
        /\ {x \in Entries : je[x].of = e} = {m}
        /\ je[m].rows = Mirror(je[e].rows)

\* Nothing enters a closed period, and in a hybrid company no booked line in
\* one changes, but by a request with a privileged override
\* (_check_period_lock, enforce_posted_edit_gate).
ClosedPeriodGate ==
  [][\A e \in Entries :
       LET booking == je[e].status \notin Booked /\ je'[e].status \in Booked
           amending == je[e].status \in Booked /\ je'[e].rows # je[e].rows /\ mode = "hybrid"
           closed == \E through \in locks : je'[e].date <= through
       IN  (booking \/ amending) /\ closed =>
             \E r \in Requests : req[r].pc = "read" /\ req'[r] # req[r] /\ req[r].ovr = "privileged"]_vars

\* Versions count the logged changes of an entry, whatever crashes between
\* two transactions of a request: the bump and its change_log row are one
\* commit (journal_entries.py).
VersionCountsLog ==
  \A e \in Entries : je[e].status \in {"DRAFT"} \cup Booked =>
    je[e].version = 1 + Cardinality({row \in log : row.e = e /\ row.op # "create"})

-----------------------------------------------------------------------------
(***************************************************************************)
(* Properties the documentation states and concurrent requests break       *)
(***************************************************************************)

\* "Immutable mode (Community default): posted entries can only be reversed,
\* not edited" (journal.py:6): in an immutable company the lines of a booked
\* entry never change.
PostedNeverEdited ==
  [][\A e \in Entries : mode = "immutable" /\ je[e].status \in Booked =>
       je'[e].rows = je[e].rows]_vars

\* "Every write appends a row to change_log" (journal_entries.py:10): when no
\* request is in flight, an entry the API posted has its "posted" row.
EveryPostLogged ==
  (\A r \in Requests : Free(r)) =>
    \A e \in Entries : je[e].status = "POSTED" /\ je[e].origin = "MANUAL" =>
      \E row \in log : row.e = e /\ row.op = "posted"

=============================================================================
