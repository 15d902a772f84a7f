---------------------------- MODULE PeriodClose ----------------------------
(***************************************************************************)
(* The year-end close (services/period_close.py, api/v1/period_close.py)   *)
(* among postings and lock changes: the profit-and-loss balances through a *)
(* date are read, a draft that zeroes them is saved, posted, and the       *)
(* period locked, each in a transaction of its own, and a crash may fall   *)
(* between any two.                                                        *)
(*                                                                         *)
(* The line to retained earnings, which makes the closing entry balance,   *)
(* is left out.  So are companies in open audit mode, whose posted entries *)
(* change in closed periods (module Journal), and the posting by hand of   *)
(* the draft of a close that is still running.  The posting by hand of an  *)
(* abandoned draft checks the lock and commits in one step; a lock between *)
(* the two is in Book.  An override stands for the reason and the role     *)
(* that _check_period_lock accepts.                                        *)
(***************************************************************************)
EXTENDS Integers, FiniteSets

CONSTANTS
  Clients,    \* request sessions that may run at once
  Accounts,   \* profit-and-loss accounts
  MaxDate,    \* dates are 1..MaxDate
  MaxAmount,  \* bound on an account's balance over a range of dates
  LockIds     \* bound on the rows of period_locks, which bear these ids

ASSUME PeriodCloseAssumption ==
  MaxDate \in Nat \ {0} /\ MaxAmount \in Nat

Dates  == 1..MaxDate
Ranges == {k \in [from : Dates, through : Dates] : k.from <= k.through}

VARIABLES
  balance,  \* what _account_balances returns: by range of dates and account, the debits
            \* less the credits of what is posted in the range
  drafts,   \* closing entries that are saved and not posted
  locks,    \* table period_locks: locked_through of each row, 0 for no row
  req,      \* the running requests
  closed    \* history: the ranges closed and locked, until the lock is removed or the
            \* range is booked with an override or by a request under way when it was locked

vars == <<balance, drafts, locks, req, closed>>

Zero == [a \in Accounts |-> 0]
Idle == [pc |-> "idle", from |-> 1, through |-> 1, lines |-> Zero, override |-> FALSE,
         seen |-> {}, missed |-> FALSE, raced |-> FALSE]

Init ==
  /\ balance = [k \in Ranges |-> Zero]
  /\ drafts = {}
  /\ locks = [i \in LockIds |-> 0]
  /\ req = [c \in Clients |-> Idle]
  /\ closed = {}

-----------------------------------------------------------------------------
Rows == {i \in LockIds : locks[i] # 0}

\* mutant: the last locked day is open
LockedBefore(d) == \E i \in Rows : d < locks[i]

\* _check_period_lock
Locked(d) == \E i \in Rows : d <= locks[i]

MayPost(d, override) == ~Locked(d) \/ override

\* preview_close: debit less credit of the lines that zero the accounts.
\* Income is debited by minus its balance, an expense credited by its balance.
Closing(from, through) ==
  [a \in Accounts |-> -balance[[from |-> from, through |-> through]][a]]

Range(r) == [from |-> r.from, through |-> r.through]

Covers(range, d) == range.from <= d /\ d <= range.through

Closes(r) == r.pc \in {"draft", "check", "post", "lock"}

Draft(c) == [date |-> req[c].through, lines |-> req[c].lines, by |-> c]

\* What the others' requests learn of an entry that c has booked at d: a close
\* that has read its balances misses it.
Noticed(c, d, r) ==
  [o \in Clients |->
     CASE o = c -> r
       [] o # c /\ Closes(req[o]) /\ Covers(Range(req[o]), d) -> [req[o] EXCEPT !.missed = TRUE]
       [] OTHER -> req[o]]

\* The ranges that are still as they were closed, after c has booked at d
Undisturbed(c, d) ==
  {k \in closed : ~(Covers(k, d) /\ (req[c].override \/ req[c].raced))}

\* The entry of these lines is posted at d.
Add(d, lines) ==
  /\ balance' = [k \in Ranges |-> [a \in Accounts |->
                   IF Covers(k, d) THEN balance[k][a] + lines[a] ELSE balance[k][a]]]
  /\ \A k \in Ranges, a \in Accounts : balance'[k][a] \in -MaxAmount..MaxAmount

-----------------------------------------------------------------------------
(***************************************************************************)
(* Postings                                                                *)
(***************************************************************************)

\* post_in_txn has checked the lock: of a new entry, or of a reversal.
BeginBook(c, d, a, n, override) ==
  /\ req[c].pc = "idle"
  /\ MayPost(d, override)
  /\ req' = [req EXCEPT ![c] = [Idle EXCEPT !.pc = "book", !.through = d,
                                            !.lines[a] = n, !.override = override]]
  /\ UNCHANGED <<balance, drafts, locks, closed>>

Book(c) ==
  LET r == req[c] IN
  /\ r.pc = "book"
  /\ Add(r.through, r.lines)
  /\ req' = Noticed(c, r.through, Idle)
  /\ closed' = Undisturbed(c, r.through)
  /\ UNCHANGED <<drafts, locks>>

\* The closing draft that a crash or a refusal has left is posted by hand, its
\* check and its commit at once.
PostDraft(c, draft, override) ==
  /\ req[c].pc = "idle"
  /\ draft \in drafts
  /\ ~Closes(req[draft.by])
  /\ MayPost(draft.date, override)
  /\ Add(draft.date, draft.lines)
  /\ drafts' = drafts \ {draft}
  /\ req' = Noticed(c, draft.date, Idle)
  /\ closed' = {k \in closed : ~(Covers(k, draft.date) /\ override)}
  /\ UNCHANGED locks

-----------------------------------------------------------------------------
(***************************************************************************)
(* close_year                                                              *)
(***************************************************************************)

\* preview_close; a range with nothing to close ends the request.
BeginClose(c, from, through, override) ==
  /\ req[c].pc = "idle"
  /\ Closing(from, through) # Zero
  /\ req' = [req EXCEPT ![c] = [Idle EXCEPT !.pc = "draft", !.from = from, !.through = through,
                                            !.lines = Closing(from, through), !.override = override]]
  /\ UNCHANGED <<balance, drafts, locks, closed>>

\* create_draft.  Bounded: a client leaves one draft at most.
SaveDraft(c) ==
  /\ req[c].pc = "draft"
  /\ \A draft \in drafts : draft.by # c
  /\ drafts' = drafts \cup {Draft(c)}
  /\ req' = [req EXCEPT ![c].pc = "check"]
  /\ UNCHANGED <<balance, locks, closed>>

\* journal.post: a refusal (422) leaves the draft behind.
CheckLock(c) ==
  LET r == req[c] IN
  /\ r.pc = "check"
  /\ req' = [req EXCEPT ![c] = IF MayPost(r.through, r.override) THEN [r EXCEPT !.pc = "post"] ELSE Idle]
  /\ UNCHANGED <<balance, drafts, locks, closed>>

PostClosing(c) ==
  LET r == req[c] IN
  /\ r.pc = "post"
  /\ Add(r.through, r.lines)
  /\ drafts' = drafts \ {Draft(c)}
  /\ req' = Noticed(c, r.through, [Idle EXCEPT !.pc = "lock", !.from = r.from, !.through = r.through,
                                                 !.missed = r.missed])
  /\ closed' = Undisturbed(c, r.through)
  /\ UNCHANGED locks

\* mutant: the lock reaches the day after
InsertNext(c, through) ==
  /\ \E i \in LockIds \ Rows : locks' = [locks EXCEPT ![i] = through + 1]
  /\ req' = [req EXCEPT ![c] = Idle]

\* A lock is inserted: requests that have passed their check may still book
\* behind it.
Insert(c, through) ==
  /\ \E i \in LockIds \ Rows : locks' = [locks EXCEPT ![i] = through]
  /\ req' = [o \in Clients |->
               CASE o = c -> Idle
                 [] o # c /\ req[o].pc \in {"book", "post"} -> [req[o] EXCEPT !.raced = TRUE]
                 [] OTHER -> req[o]]

\* lock_period
LockClosed(c) ==
  LET r == req[c] IN
  /\ r.pc = "lock"
  /\ Insert(c, r.through)
  /\ closed' = IF r.missed THEN closed ELSE closed \cup {Range(r)}
  /\ UNCHANGED <<balance, drafts>>

-----------------------------------------------------------------------------
(***************************************************************************)
(* Period locks (the admin's routes)                                       *)
(***************************************************************************)

\* create_period_lock: SELECT ... FOR UPDATE finds the rows that are there
\* when it starts,
BeginLock(c, through) ==
  /\ req[c].pc = "idle"
  /\ req' = [req EXCEPT ![c] = [Idle EXCEPT !.pc = "select", !.through = through, !.seen = Rows]]
  /\ UNCHANGED <<balance, drafts, locks, closed>>

Holds(c, i) == req[c].pc = "insert" /\ i \in req[c].seen

\* waits for those that another transaction holds, and drops those deleted
\* meanwhile (409 if the rest reach through)
Acquire(c) ==
  LET r == req[c]
      current == {i \in r.seen : i \in Rows} IN
  /\ r.pc = "select"
  /\ \A i \in current, o \in Clients \ {c} : ~Holds(o, i)
  /\ req' = [req EXCEPT ![c] = IF \E i \in current : r.through <= locks[i] THEN Idle
                               ELSE [r EXCEPT !.pc = "insert", !.seen = current]]
  /\ UNCHANGED <<balance, drafts, locks, closed>>

InsertLock(c) ==
  /\ req[c].pc = "insert"
  /\ Insert(c, req[c].through)
  /\ UNCHANGED <<balance, drafts, closed>>

\* delete_period_lock
DeleteLock(i) ==
  /\ i \in Rows
  /\ \A c \in Clients : ~Holds(c, i)
  /\ locks' = [locks EXCEPT ![i] = 0]
  /\ closed' = {k \in closed : \E j \in Rows \ {i} : k.through <= locks[j]}
  /\ UNCHANGED <<balance, drafts, req>>

\* The worker dies, or an error ends the request: what has committed stays.
Crash(c) ==
  /\ req[c].pc # "idle"
  /\ req' = [req EXCEPT ![c] = Idle]
  /\ UNCHANGED <<balance, drafts, locks, closed>>

-----------------------------------------------------------------------------
Next ==
  \/ \E c \in Clients, override \in BOOLEAN :
       \/ \E d \in Dates, a \in Accounts, n \in {-1, 1} : BeginBook(c, d, a, n, override)
       \/ \E draft \in drafts : PostDraft(c, draft, override)
       \/ \E through \in Dates : \E from \in 1..through : BeginClose(c, from, through, override)
  \/ \E c \in Clients :
       \/ Book(c) \/ SaveDraft(c) \/ CheckLock(c) \/ PostClosing(c) \/ LockClosed(c)
       \/ \E through \in Dates : BeginLock(c, through)
       \/ Acquire(c) \/ InsertLock(c) \/ Crash(c)
  \/ \E i \in LockIds : DeleteLock(i)

Spec == Init /\ [][Next]_vars

-----------------------------------------------------------------------------
(***************************************************************************)
(* Properties                                                              *)
(***************************************************************************)

Lines == [Accounts -> Int]

Requests ==
  [pc : {"idle", "book", "draft", "check", "post", "lock", "select", "insert"},
   from : Dates, through : Dates, lines : Lines, override : BOOLEAN,
   seen : SUBSET LockIds, missed : BOOLEAN, raced : BOOLEAN]

TypeOK ==
  /\ balance \in [Ranges -> Lines]
  /\ drafts \subseteq [date : Dates, lines : Lines, by : Clients]
  /\ locks \in [LockIds -> 0..MaxDate]
  /\ req \in [Clients -> Requests]
  /\ closed \subseteq Ranges

\* A range that a close has locked has no profit or loss left in it, until its
\* lock is removed.  The exceptions are named: an entry committed in the range
\* after the close had read its balances, an override, and a request that had
\* passed its lock check when the lock was set.
ClosedIsZero ==
  \A k \in closed : \A a \in Accounts : balance[k][a] = 0

\* create_period_lock: the rows are "locked FOR UPDATE first - otherwise two
\* concurrent non-advancing POSTs can ... both pass the 409 guard".  So a lock
\* that the route inserts extends beyond all that are there.
LocksAdvance ==
  [][\A c \in Clients :
       req[c].pc = "insert" /\ locks' # locks /\ req'[c].pc = "idle" =>
         ~Locked(req[c].through)]_vars
=============================================================================
