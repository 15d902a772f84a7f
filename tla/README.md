# SAE Books in TLA+

SAE Books is a double-entry accounting server: FastAPI and SQLAlchemy over
Postgres, with a public REST API. Its core is the journal. Everything else
(invoices, bills, payments, payroll, year-end close, intercompany relay) ends in
journal entries that one posting engine books.

This directory specifies the parts of the program whose correctness depends on
the order in which things happen: overlapping requests that each read before
the other commits, requests made of several transactions with crashes in
between, and messages that are lost, late or repeated. All models are of the
Postgres server install, and of one tenant. The one-device SQLite install
serialises writers and has no triggers.

| module | what it is |
|---|---|
| `JournalLines` | arithmetic of journal lines: net, tax lines, mirror image |
| `Ledger` | abstract specification: what the general ledger promises its readers |
| `Journal` | the posting engine, its API surface, period locks and database triggers |
| `IcRelay` | the intercompany relay: outbox, dispatchers, broker, receiver |
| `PoConversion` | a purchase order, its conversion to bills, and idempotency keys |
| `Payments` | payments and credit notes settling invoices and bills, and their entries |
| `PeriodClose` | the year-end close among postings and lock changes |
| `IcPair` | the books and edges of intercompany events between two companies |
| `DocumentInbox` | captured documents: extraction, sweep, review, publishing, rejection |
| `BankReconciliation` | bank statement lines and the entries matched to them |

Each of `Journal`, `IcRelay`, ... has an `MC` module with its small instances
and a `...Proofs` module with theorems that TLAPS checks (`MCBankReconciliation`,
`BankReconciliationProofs`, and so on; `PeriodClose` and the others likewise).

`PROJECT.json` maps every definition to the lines it models and lists the runs,
the mutants (a plausible bug per property, which the run must detect), the
hazards, the findings and the theorems.

    tlc -workers 2 -config JournalSerial.cfg MCJournal.tla
    tlapm JournalProofs.tla

## 1. Inventory

For each part: its state, its operations, how it interacts, what is hard, and
what makes it correct.

**Journal posting engine** (`services/journal.py`, `services/tax_posting.py`,
`models/journal.py`). State: `journal_entries` with `journal_lines`,
`period_locks`, `company.audit_mode`. Operations: `create_draft`, `post`
(`post_in_txn` adds tax lines, checks the balance, flips the status, stamps the
origin), `reverse` (mirror entry and status flip in one transaction), `delete`
of drafts, `lock_period`. Called by every service that books anything. Hard:
reads take no row lock, so a guard may be out of date when its write commits.
Correct when: a posted entry balances; it is undone only by one mirror image;
immutable companies never edit booked lines; nothing enters a closed period
without an authorised override.

**Journal API surface** (`services/journal_entries.py`, `change_log.py`). State:
`version` of an entry, `change_log`. Operations: `create`, `update`, `void`,
`api_post`, `api_reverse`; the last two call the engine, which commits, and then
run a second transaction. Hard: crashes between the two; lost version updates.
Correct when: versions count the logged changes and every change is logged.

**Database triggers** (alembic 0101, 0161, 0164). A deferred constraint trigger
checks the balance of POSTED entries at COMMIT; an engine guard freezes date,
ref, company and tenant of booked entries and refuses an undeclared origin. They
see what is committed, unlike the Python guards.

**Period locks** (`api/v1/period_close.py`). Rows with a date, of which the
greatest counts. Created, listed, deleted by administrators, while others post.

**Reports** (`services/reports.py`, `tax_return_generator.py`). Read-only sums
over POSTED and REVERSED entries. They rely on reversals cancelling.

**Intercompany relay** (`services/intercompany.py`, `services/ic_relay/*`,
`api/v1/intercompany.py`, `models/ic.py`). Originator: the leg's journal entry,
`ic_outbox` (status, attempts, next attempt); dispatchers claim due rows with
`FOR UPDATE SKIP LOCKED`, call the broker, and commit all outcomes of a pass at
once. Receiver: `ic_inbox`, the reciprocal leg. Between them a broker, not in
this repository. Hard: lost answers, replays, crashes after a delivery, racing
webhooks, a freshness window shorter than the retry schedule. Correct when: the
partner books each event at most once; an acknowledged event was booked; every
event is eventually settled.

**Intercompany pairs and edges** (`intercompany.py`, `ic_relay/enable.py`,
`ic_relay/recon.py`). State: `ic_txn`, `ic_legs`, the legs' entries, the edges
with their keys. Local pairs are booked in one transaction but reversed leg by
leg; edges are enabled side by side. Correct when: two companies agree on what is
booked between them, a REVERSED row is true, and what is signed verifies.

**Year-end close** (`services/period_close.py`). Preview of balances, draft,
post, lock: four transactions. Hard: postings, other closes and crashes between
any two. Correct when: a range that was closed and locked has no profit or loss
left in it.

**Payments** (`services/payments.py`, alembic 0102). Payments, allocations,
`amount_paid` of documents; the entry, the status and `amount_paid` are committed
one after the other. Hard: sums read without a lock and written later. Correct
when: a payment is booked once, and a document's `amount_paid` is what POSTED
payments and notes settle of it.

**Documents** (`invoices.py`, `bills.py`, `credit_notes.py`,
`supplier_credit_notes.py`, `bad_debt.py`, `numbering.py`,
`recurring_invoices.py`). Life cycles DRAFT, POSTED, VOIDED, WRITTEN_OFF with a
journal entry each; a counter row, locked, per kind of document. Correct when: a
posted document has exactly one live entry, and one that is settled keeps it.

**Idempotency keys** (`services/idempotency.py`). A table of keys with the answer
to each; a row without an answer is a claim. The routes claim the client's
`X-Idempotency-Key` and store the response; the conversions claim a key of their
own, made of what they convert, and store the document they made. Hard: the claim
becomes visible with whatever commit comes first. Correct when: a key has at most
one effect, a stored answer is true, and a retry gets an answer.

**Purchase orders** (`services/purchase_orders.py`,
`api/v1/purchase_orders.py`, `models/purchase_order.py`). State: the order's
status and version, per line the quantity and `received_qty`. Operations: create,
update (which may replace the lines), send, cancel, close, archive, and
`convert_to_bill`, which mints a DRAFT bill in one transaction and advances
`received_qty` in the next. Hard: nothing is locked, and the second transaction
works on what was read before the first. Correct when: receipts are what was
billed, no batch is billed twice, closed and cancelled orders stay so.

**Other conversions** (`quotes.py`, `time_entries.py`). The same scheme with other
keys: a quote's id, a set of time entries.

**Document inbox** (`document_inbox.py`, `api/v1/document_inbox.py`,
`inbox_mail.py`, the cron commands of `cli/`). Rows with a status, a claim and an
attempt count, and blobs in a vault. Captured by upload or mail, extracted by the
request or a sweep, reviewed, published as a draft record or rejected. Hard:
sweeps, retries and edits that work on what they read, while publish and reject
lock the row. Correct when: a document is published once, READY is complete,
nothing stays EXTRACTING, a row keeps its blob, and every capture is settled.

**Bank lines** (`reconciliation.py`, `bank_rules.py`, `bank_statement_lines.py`).
Statement lines with a status, the junction `bsl_matches`, and the entries that
are booked for a line. Matched by hand, by `auto_match`, or with an entry that is
booked first, by `split_match`, `create_and_match` or a rule. Hard: long runs over
lines that were read at the start; an entry committed before its match. Correct
when: the status follows the junction, no line is matched beyond its amount, and
no line brings two entries into the books.

**The rest.** Payroll (`pay_runs_v2.py`): a life cycle over the journal and much
arithmetic. Bank feeds and Xero sync: token refresh, imports. Circuit breaker:
three states in one event loop. Lodgement, e-invoicing, authentication, tenancy,
licences, CLI, gRPC, MCP: I/O, layout or request-level checks.

## 2. The journal

### How the model corresponds to the code

A request runs in one READ COMMITTED transaction. `Begin...` is the read and
every guard up to the first write; `Commit...` is the rest. That is the finest
grain at which other requests can matter: no read takes a row lock, SQLAlchemy's
identity map keeps the entry as first read (`expire_on_commit=False`), and the
first UPDATE locks the row until the commit. `snap` is what was read.

- `je[e]` is the entry row with the set of its line rows; each line has an id,
  because an edit deletes the rows it has read and leaves rows it has not seen.
  A post UPDATEs the lines it read (their `tax_treatment`), so it fails if they
  have gone, while a DELETE of missing rows only warns.
- `version` is written as the value read plus one, in a second transaction for
  `api_post` (`LogPost`) and `api_reverse` (`LogReverse`). `Abort` between the
  two is the crash.
- `Accepted` is the triggers: a commit they refuse is not a `Commit...` step,
  so the request ends in `Abort`, as it does for a guard that raises late, a
  serialisation failure or a crash.
- Tax lines are drawn from the lines the request read (`GstRows`). Amounts are
  debit minus credit; the tax amount has the direction of its account already.
- `Lock` allows any date, because `lock_period`'s callers other than the route
  do not compare it with the locks there are; only the greatest counts.
- `Closed` means some lock date is on or after the entry date. An override needs
  a privileged role and a real reason ("privileged"); "reason" is a reason that
  does not suffice. Where a request needs no override its input is taken as
  "none", since the code does not look at it.

Left out: the force flag and hard delete of the development tier, `update_draft`
(no caller), the wording of audit rows, the tax treatment snapshot. Automatic
tax posting is taken to be enabled. `audit_mode` does not change. The PSI and
trust guards only refuse, which is `Abort`.

### Properties and runs

`Ledger` is the abstract specification: entries are unbooked or booked; `Post`
books a balanced entry with a declared origin; `Reverse` marks an entry and
books its mirror image in the same step; `Amend` rewrites lines, outside
immutable companies. `KeepsLedger` is `Journal => Ledger` with `book <- Book`,
where a booked entry is one reports read (`REPORTABLE_STATUSES`).

| run | instance | checks | result |
|---|---|---|---|
| `JournalSerial` | 1 request, 2 entries, all audit modes, 2 dates, 1 lock | `ReversedCancels`, `VersionCountsLog`, `KeepsLedger`, `ClosedPeriodGate` | 468k states |
| `JournalConcurrent` | 2 requests, 2 entries, all modes, 2 dates, all operations | `TypeOK`, `PostedBalanced`, `ReversalUntouched` | 551k states |
| `JournalImmutable` | 2 requests, immutable | `PostedNeverEdited` | violated |

The division is what the project has found out about the journal. What the
database guards carry, and the single transaction of a reversal, holds whatever
overlaps; the theorems `Provenance` and `BookedStaysBooked` state two more such
properties, which no run repeats. What only the Python guards carry (the ledger's
promise, cancelling reversals, the closed period, the version count) holds when
requests do not overlap on an entry. When they do, an edit that commits after a post rewrites
posted lines in an immutable company (the violation run); two more disagreements
are in section 10.

Bounds. Two entries are an entry and its reversal. `MaxDrafts = 1`: entries do not
interact except through reversal. Two dates are in and after a closed period. A
body is a plain pair of lines, or a purchase with tax that only balances once
its tax line is posted. `MaxVersion` cuts the sequences of edits; it is 4 where
one request runs (create, edit, post, edit, reverse) and 2 where two do. The
runs may stop when the bounds are reached, so deadlock is not checked. Symmetry
permutes entries and requests, which no property tells apart and none of these
runs checks liveness.

### Proofs (`JournalProofs`)

For any number of entries and requests, any chart, bodies and bounds, and whatever
overlaps: `TypeCorrect`, `PostedIsBalanced`, `Provenance`, `BookedStaysBooked`,
`ReversalsUntouched`. This is what the database guards carry.

The properties are not inductive: a commit acts on what its request read, maybe
long ago. The invariant `IInv` therefore adds `RequestOK`: whatever a request in
flight has read, it can still rely on the entry existing, and on the kind it was
(a reversal is never a draft, so what was read as a draft to post, delete or,
in an immutable company, edit, is not a reversal; what was read to reverse is
still booked). `ReversalsBooked` is the other half: a reversal is inserted
booked. `Lawful` is what one step may do to the entries; each action is shown
lawful (`...Lawful`), and lawful steps keep `RequestOK` (`...Keeps`) and the
tables' invariants. The action properties follow from `Lawful`, and
`PostedBalanced` from `Accepted`, which every written row has passed.

What the Python guards carry is proved under hypotheses, because it is false
without them (section 10). `Apart` says that no two requests in flight work on one
entry; any number may work on others, and crashes between the two transactions of
a request are included. Under `[]Apart`:

- `ReversalsCancel` (`ReversedCancels`), `VersionsCountLog` (`VersionCountsLog`),
  `PostedStaysPut` (`PostedNeverEdited`, so what `JournalImmutable` violates takes an
  overlap on one entry), and
- `LedgerKept`: `Journal => Ledger` under the mapping `book <- Book`. Drafting,
  deleting and logging are stutters; posting, reversing and changing booked rows
  are the ledger's `Post`, `Reverse` and `Amend`.
- `PeriodGateHolds` (`ClosedPeriodGate`) needs `LocksWait` as well: no period closes
  while a request is in flight. The code asks the gate once, at the read.

`OneAtATime` shows that a single request satisfies both, which is the instance of
`JournalSerial`, for any number of entries, dates and bodies.

The invariant of this part is `SInv`: `IInv`; `Relies`, that what a request read is
still the row when it writes, and between its two transactions still its status
and version; `Pairs`, that reversals and REVERSED entries are in one-to-one
correspondence and, in an immutable company, each other's mirror images;
`LogBehind`, that the finitely many logged changes of an entry have versions up to
the entry's, so that the next one is new and `VersionCountsLog` steps by one.
`Effect` lists what a step does to the books, and every action is shown to be one
of these (`StepEffect`); the properties follow from `Effect` without looking at
the actions again. `Apart` enters in one place: a step of one request leaves the
entry of another as it is (`Minds`). TLC confirmed `SInv` beforehand on two requests
and two entries in all modes with `Apart` as a state constraint (163k states,
complete). The proofs assume `JournalAssumption` only.

## 3. The intercompany relay

### How the model corresponds to the code

- `Originate` is `post_remote_originator`: the leg and the signed outbox row in
  one commit.
- A dispatcher pass is one transaction. `Claim` locks the due rows
  (`session[d]`), `Skip`, `Send`, `Fail` and `Answer` handle one row after the
  other and note the outcome in the session, `Commit` writes them all. `Crash`
  forgets them and releases the locks. The order of rows in a pass is free, the
  limit of 50 is more rows than there are.
- The broker is external and modelled from how the dispatcher reads it: a nonce
  it has seen is answered as a duplicate and not forwarded; "delivered" means
  the partner accepted; any call may fail at any time, before or after the
  broker has taken the message (`late` holds what is still under way). It may
  hand over an accepted message late and repeatedly, or never. One thing is assumed
  of it: that a 2xx answer carries the flag `delivered`. The dispatcher takes a 2xx
  without the flag, or one whose body is no JSON, for a delivery
  (`dispatcher.py:173-179`, `broker_client.py:95-99`), so that `AckedIsPosted`
  rests on the broker there.
- `Receive` is `accept_relay` up to the idempotency pre-check, `Post` the
  transaction of `accept_remote_counterparty` with the unique constraints of
  `ic_inbox`, `Refuse` its rollback.
- Time is in ticks. `age` counts from `issued_at` up to `Window + 1`, after
  which the message is stale for good; `wait` counts down to `next_attempt_at`.
  Clock skew between the stacks is not modelled.
- `attempts` stops at `MaxAttempts + 1`, where nothing but the capped backoff
  depends on it.

Fairness (`FairSpec`): the loop polls for ever and catches exceptions, and every
broker call has a timeout, so a pass that can go on does (`WF(Pass(d))`); time
passes (`WF(Tick)`). Nothing is assumed of the broker or the receiver, and
crashes are finitely many (`MaxCrashes`).

### Properties and runs

| run | instance | checks | result |
|---|---|---|---|
| `IcRelay` | 2 events, one of an edge without a token, 2 dispatchers, 2 webhook calls, 3 attempts, backoff 1, 2, 2, 1 crash | `TypeOK`, `OneReciprocalLeg`, `AckedIsPosted`, `BoundedSends`, `SettledForever`, `EventuallySettled` | 284k states |

Two dispatchers race for rows; two webhook calls race for one insert; one crash
suffices to lose an outcome, and its effect on `BoundedSends` is additive, which
the theorem states for any number. Of the two events one has no token, so that a
pass holds a row it sends and one it skips; only one is ever sent, and that
events do not disturb each other is left to the theorems, which hold for any
number. Three attempts with a cap of two make the backoff grow and reach its cap.
Deadlock is checked: time always passes. There is no symmetry in this run, since
it checks liveness.

### Proofs (`IcRelayProofs`)

For any number of events, dispatchers and webhook calls, any window, backoff,
attempt limit and number of crashes: `RelayTypes`, `ReciprocalLegOnce`,
`AcksAreTrue`, `SendsAreBounded`, `SettledStaysSettled`. The invariant has three
layers. `PassOK` says what a pass may rely on: the row it holds is held by no
other pass and is not settled in the table, and what the session has made of it
follows from that row. `ReachOK` says where an event can be: whatever is sent,
seen, handled or booked was originated, and whatever a session or the table
calls ACKED is in the inbox. `SendsOK` is the accounting behind `BoundedSends`:
every send is paid for by an attempt in the table, by an attempt in an open
session, by the call under way, or by a crash. The proof assumes
`RelayAssumption` only.

## 4. Purchase orders and idempotency keys

### How the model corresponds to the code

One order, all the requests that change it, the bills minted from it and the rows
of `idempotency_records`.

- A `Begin...` (in `Send`, `Cancel`, `Close`, `Archive`, `Update`,
  `BeginConvert`) is the claim of the client's key, the read and all guards; `seen` is what was
  read and `into` what the request makes of it. The If-Match version is the one
  that was read; an older one is refused before any write, and leaves a trace
  only where the 409 is stored under a key (`VersionConflict`).
- `Flushed` is what SQLAlchemy writes: `version` and every column whose value
  the request has changed, computed from `seen`, into the row with that id. The
  sessions are made with `expire_on_commit=False`, so the second transaction of
  a conversion computes from what was read before the first (`seen`), whatever
  has been committed since. Replaced lines are deleted and inserted; `rows`
  numbers the replacements. A conversion whose lines have been replaced fails
  (`AdvanceFails`), since its UPDATE matches no row.
- `MintBill` is the one commit with the claim of the bill's key, the bill and
  its identity; `ReplayBill` finds them. The key is `received_before` and
  `billed` as text, so a spelling is part of it. `recorded` is the bills that
  the order's `change_log` names, which the second phase asks first
  (`CheckRecorded`) and writes last (`Advance`).
- `ClaimCommitted` is the reason keys are hard: the claim of the client's key is
  in the transaction that the service commits, so it is visible, without an
  answer, from then until `Answer`.
- `Crash` ends a request anywhere: nothing more than its commits remains. It is
  also what an error does.
- `overwritten` is history: a request has committed while the rows were no
  longer what it had read.

The module runs in process (`_preacct.delegating()` is off). An update sends lines
with the `received_qty` that the client has read, or without it; a client that
invents receipts is left out, and so is adding or removing lines. If two
replacements overlap, both sets of lines may remain in the tables; the model keeps
the later. The status of an archived order does not matter to any guard.

### Properties and runs

| run | instance | checks | result |
|---|---|---|---|
| `PoConversion` | 2 clients, 1 key, 1 line of 1 or 2 units, 3 changes, 1 replacement of the lines, 3 bills | `TypeOK`, `ReceivedIsRecorded`, `OneBillPerBatch`, `KeyMintsOnce`, `AnsweredIsRecorded`, `StatusAgrees`, `TerminalForever` | 649k states |

Three properties hold whatever overlaps and crashes, because a unique key carries
them: a batch, spelt one way, is billed once (and the theorem `ReplayIsOwnBill`
says that a replay is of this very batch); a client's key mints at most one bill; a stored answer names a bill whose receipt
is in the change log. The others need that no request has committed over rows it
had not read, and are stated so (`~overwritten`): `received_qty` is the sum of the
recorded bills, the status agrees with it, and CLOSED and CANCELLED are final.
Without that premise all three fail, since the version is only compared on an
unlocked read. The run keeps crashes, repetitions and overlapping
requests that commit nothing in between, which is where the recovery of a
conversion has its difficulty: a request that begins after the crash of another's
first phase, edits, cancels or sends the same batch again.

The guard on `change_log` is not the only thing that prevents a double count: the
advance writes `received_before + billed`, an absolute value, so a second advance
of the same batch from the same read writes the same number.

Bounds. Two clients are a request and the one that overlaps it, or the crashed one
and its retry. One key suffices, since keys do not interact; requests also run
without one. Two units are two batches, or one; the third bill is a repetition or
an overlap. `MaxVersion = 4` is send, and two receipts, or a receipt between two
other changes; the replacement of the lines is one of them. An order of two lines
is left to the theorems. The versions and bills are bounded and clients may
stop, so deadlock is not checked. Symmetry permutes the clients; no run checks
liveness.

### Proofs (`PoConversionProofs`)

For any number of clients, keys, lines, spellings and quantities, and any bounds:
`ConversionTypes`, `BatchBilledOnce`, `ReplayIsOwnBill`, `KeyMintsAtMostOnce`,
`AnswersAreTrue`, `StatusesAgree`, `TerminalStays`, `ReceiptsAreRecorded`.

The first five rest on `IInv`. `KeysOK`: a bill's key is its fact, and no two bills
share one. `ConvertsOK`: a conversion's fact is the difference it makes, and past
its first phase it holds the bill of that fact. `ClaimsOK`: a key serves one
request at a time, a conversion that has not minted found its key free, and a key
that has minted a bill is never free again. The next two rest on `GoodTurns`:
every request's change, applied to the very rows it has read, is a legal turn of
the order (the status agrees afterwards and a terminal one stays), and a request
that commits over what it has read therefore makes a legal turn; one that does not
sets `overwritten`.

`ReceiptsAreRecorded` (`ReceivedIsRecorded`) is about a sum over the recorded bills,
and its invariant is `RInv`. A conversion that commits over the order it read must
record a bill that is not recorded yet, although its check of the change log
was an earlier step. It does, because receipts only grow: by `Behind`, a recorded
bill has brought the order to `before + billed` at least, a bill has some units
(`SomeUnits`), and the conversion's bill starts from what the order has now. A
request of one transaction keeps the receipts (`SavesKeep`; for a replacement of
the lines this is the multi-receipt guard, and on drafts that nothing is received
yet). TLC confirmed `RInv` on the instance of the run. The rest is about sums: the
total of a set of bills grows by what a new bill bills (`TotalMore`) and does not
change when others are minted (`TotalAgree`). `MapThenSumSet` is a recursion over
subsets, and no induction rule can be applied here; the lemmas `Sum...` reason by
smallest counterexample instead (`Smallest`, from the well-foundedness of strict
inclusion on the subsets of a finite set): a sum exists, is an integer, depends
on the values only, and does not depend on the element taken first.

The proof assumes `OrderAssumption` only.

## 5. Payments

### How the model corresponds to the code

One module for the two sides: an invoice and a customer's credit note, or a bill
and a supplier's, run the same code on tables of their own.

- A `Begin...` is the request's read of the rows and all its guards. Nothing is
  locked and the session keeps what it has loaded, so everything a request
  does later is computed from that read.
- `Book` is the commit of the entry (or of its reversal), `Stamp` the commit of
  the paper's status, `Sum` and `Refresh` the refresh of `amount_paid`: the sum
  is read in one step and written in another, and SQLAlchemy leaves the column
  out of the UPDATE when the sum equals the value that the session had loaded.
- `CheckCap` and `SaveAllocations` are a payment's `api_update` with the allocation
  cap of trigger 0102; `Archive` is DELETE, which does not reverse a posted payment's
  entry. `BeginEdit` and `SaveEdit` are the `api_update` of documents and notes: the
  total of the lines, or the document that a note credits (`original`). The edit
  asks for a draft when it reads, and commits whatever the status is by then, so a
  note may change after its document was refreshed. `Crash` ends a request anywhere.
- `BeginByHand` and `CommitByHand` are the journal's own routes on a paper's entry:
  `POST /journal_entries/{id}/reverse` asks for nothing but POSTED, and DELETE,
  which archives, asks for nothing. Neither knows of the paper. `link` is the state of the
  entry that the paper names, `hidden` the papers whose linked entry is archived,
  and `net` what the trial balance adds up for the paper.
- The histories name the exceptions of the properties. A document is `stale` when its
  `amount_paid` was left behind, until its next refresh; a paper is `torn` when a
  crash cut its entry from its status, or when two requests have worked on it at
  once; `byhand` counts the entries of a paper that the journal's routes have taken
  off the ledger. `missed`, in a request, is what was settled after it had read.

### Properties and runs

| run | instance | checks | result |
|---|---|---|---|
| `Payments` | 2 clients, 1 payment, 1 invoice, 1 credit note, totals up to 2 units, 1 trouble, the invoice's entry open to the journal's routes | `TypeOK`, `PaidIsSettled`, `BookedAsStamped`, `VoidsOnlyUnsettled` | 2.5M states |
| `PaymentsReposted` | the same | `BookedOnce` | violated |

The three properties are how `amount_paid`, the ledger and the papers' statuses
hang together, and each says exactly when they come apart: the exceptions are
part of the statement, and the mutants show that a dropped step of the code is
not among them. In particular `PaidIsSettled` excepts a note that was edited by a
request begun before the note was posted, and `BookedAsStamped` accounts for every
entry reversed or archived by hand: the ledger has exactly those less than the
papers say. That a posted paper is booked at all (`PostedIsBooked`) is what the
code does not see to, see section 10. The violation run needs no overlap: an invoice that was written
off is posted again, since the guard only knows POSTED and VOIDED.

Bounds. A payment and a note are two ways to settle one document, and two
requests settle it at once. The note's two units with a share of one make the
cap at the document's total bite. `MaxEntries = 2` is an entry booked again.
`MaxTroubles = 1` is one overlap of two requests on a paper, one cut, or one thing done
by hand, with everything that follows from it; overlaps on different papers are
not counted. `Handled` is the invoice, whose entry the other papers' requests depend on
no less than on their own; the proofs let the routes act on any paper, any number of
times. The requests' bounds run out,
so deadlock is not checked; the clients are interchangeable and no run checks
liveness, so they are permuted.

### Proofs (`PaymentsProofs`)

For any papers, amounts and numbers of clients: `TypeCorrect`, `AmountsPaid`,
`LedgerAgrees`, `VoidsUnsettled`, from `PaymentsAssumption` alone.

`PaidIsSettled` is not inductive, since a refresh writes what it once summed. The
invariant's `SumIsRight` says that a refresh has summed right but for what it has
missed, and `VoidIsRight` the same of what a void has read. For the ledger, `Alone`
and `BegunOn` say that outside `torn` one request works on a paper at a time, and
that what it found there still holds when it commits, and `Marks` ties the state of
the linked entry, by hand or not, to what is booked. `Shape` keeps the fields
of a request to what its step uses.

## 6. Year-end close

### How the model corresponds to the code

`close_year` is `BeginClose` (the preview of the balances), `SaveDraft`,
`CheckLock` and `PostClosing` (the lock is read at the start of a post, the entry
committed later) and `LockClosed`: a transaction each. The
admin's route is `BeginLock`, `Acquire` (its `FOR UPDATE`, which takes the rows that
exist and waits for their holder) and `InsertLock`; `DeleteLock` removes a
lock. Around them entries are posted (`BeginBook`, `Book`), and drafts that a
close has left behind (`PostDraft`). `balance` is the balance of every range of
dates, so that a posting changes each range that contains its date. `PostDraft` checks
the lock and commits in one step; a lock set between the two is in `Book`. An override
is the reason and role that `_check_period_lock` accepts. `closed` is the ranges
that a close has locked, while the lock is there and nothing has disturbed them.

### Properties and runs

| run | instance | checks | result |
|---|---|---|---|
| `PeriodClose` | 2 clients, 1 account, 2 dates, 2 locks | `TypeOK`, `ClosedIsZero` | 990k states |

`ClosedIsZero` is what a close is for. Its exceptions are those of the code: an
entry committed after the close has read its balances, an override, and a
request that had passed its lock check when the lock was set. A crash, an
overlapping close, a draft posted late and a lock that is shorter than the last
are not exceptions.

Bounds. Two dates give a range that contains another and one that does not; the
account's balance is within one unit, which tells zero from what is not; accounts do
not interact. Two locks are needed for the later to be the shorter. Deadlock is
checked.

### Proofs (`PeriodCloseProofs`)

`TypeCorrect` and `ClosedStaysZero`, for any accounts, dates, locks and
clients. Besides the property the invariant says that a closing request's lines
negate the balances it has read unless the range was disturbed since
(`LinesAreRight`), and that a closed range is locked, so that a request which may
still book in it has an override or had passed its check before
(`ClosedIsGuarded`).

## 7. Intercompany pairs and edges

### How the model corresponds to the code

`PostPair` posts both legs of a local event in one transaction. An event between
tenants is posted and signed by its originator (`BeginOriginate`, `Originate`)
and booked by the partner (`Accept`), if ever: the relay is one step here, and
`IcRelay` shows what stands behind it. `BeginReverse`, `ReadLeg`, `ReverseLeg`,
`Finish` are `reverse_local_pair` with a commit per leg; `BeginReverseEntry` and
`ReverseEntry` reverse one leg's entry by hand (its original entry: the reversal of a
reversal is left out, and so is DELETE, whose archived entry still counts as booked
here). `FlushSource`, `FlushDestination`,
`CommitSource`, `CommitDestination` are `enable_edge_pair`, which only tests call so
far. `ShutOrOpen` closes or opens a company's periods. A leg's
transaction row, the entry's status, what is booked of it in the end (`net`) and the
links to reversals are apart, because the code can make them disagree.

### Properties and runs

| run | instance | checks | result |
|---|---|---|---|
| `IcPair` | 2 clients, 1 local and 1 remote event, a leg reversed up to once too often, 2 enablements | `TypeOK`, `PairAgrees`, `ReversedIsReversed`, `RelayVerifies` | 991k states |

The exceptions are histories: `split` events (a reversal was cut between its legs
by a crash or a closed period, two requests reversed at once, or a leg was
reversed by itself) and `rekeyed` ones (the edges were enabled anew after signing);
`torn` edges were cut between the two commits. A pair that was cut between
its legs stays so for ever: the retry stops at the first leg, which is no longer
POSTED. That is the code's behaviour and the reason for the exception.

Bounds. Events do not interact but through the edges' keys and the periods; one
of each topology shows both. Two enablements are a key and its replacement.
Deadlock is checked.

### Proofs (`IcPairProofs`)

`TypeCorrect`, `PairsAgree`, `ReversedTruly`, `SignaturesVerify`. The keys and
the books do not depend on one another, so there are two invariants. `KeysInv`
says what an enablement in flight has flushed and committed (`Enabling`).
`BooksInv` says that outside `split` a leg is booked as its entry says (`Booked`),
and of a reversal in flight which legs are behind it and that it is the only one
(`Going`).

## 8. Document inbox

### How the model corresponds to the code

A session reads a row into `old`, works on `new`, and commits; `Flushed` is what its
UPDATE writes, the columns it has changed and no others. `Insert` captures, by upload or by
mail (`Remembered` is its look for a document of the same bytes, `IndexHolds` the
partial unique index on them); `Claim`, `SweepClaim`
and `SweepStart` take a row for extraction, `Finish` saves its result, `Reclaim`
takes back a claim that is ten minutes old, `Pass` is the time that ages claims
and ends backoffs. `BeginPatch` and `Patch` are the review, `Publish` and
`BeginReject`, `Reject` the two routes that lock the row; `Reject` archives the
blob before it commits. `sweep_process_claimed` does not ask whose claim it
is, nor does the model. `raced` marks documents on which a retry, an edit or a late extraction
has committed over what it had not read, `orphaned` those whose blob went with a
rejection that did not commit, or with another document's.

### Properties and runs

| run | instance | checks | result |
|---|---|---|---|
| `DocumentInbox` | 1 request, 1 sweep, 2 documents of the same bytes, 2 attempts, 1 trouble, 2 records | `TypeOK`, `PublishedOnce`, `ReadyIsComplete`, `ExtractingIsClaimed`, `BlobKept`, `EventuallySettled` | 429k states |

Fairness: weak, for the sweep's next step, whichever it is (`Job(w)`, the
disjunction of its steps: cron starts it again and again, and every call it makes to
the vault or the model has a time-out), for time, and
for the commit of a rejection, since it holds the row's lock and its call
times out too. Nothing is assumed of uploads, edits or retries.
`EventuallySettled` then says that a capture does not stay RECEIVED or
EXTRACTING, whatever becomes of the request that made it.

Bounds. One sweep: two that overlap could take a row back from each other for
ever, each time after ten minutes, and the code has no bound on that but the
attempts, which only a result counts. `MaxTroubles = 1` bounds crashes, retries
and overrides together; unbounded crashes would postpone everything.
`MaxAttempts = 2` is a failure and the last one. The run checks liveness, hence
has no symmetry, and the bound on records stops publishing, so deadlock is not
checked.

### Proofs (`DocumentInboxProofs`)

For any numbers: `TypeCorrect`, `PublishesOnce`, `ReadyHasAll`,
`NothingStaysExtracting`, `KeepsBlobs`. The invariant is the properties with
`SessionsOK` (what a session in flight may rely on, by what it is doing:
`Inserting`, `Updating`, `Rejecting`) and `Blobs` (a duplicate names the original
whose blob it shares).

## 9. Bank lines

### How the model corresponds to the code

- A request reads its line once. Sessions keep what they have loaded
  (`expire_on_commit` is off), so `seen` answers every later read of it, while the
  matches are queried anew (`Allocate`).
- `BeginMatch` matches by hand; `BeginBook`, `Book` and then the same `Allocate`
  and `SaveMatch` are `split_match` and `create_and_match`, whose entry is committed
  before its match; `Mark` is what a rule does instead. `BeginRun`, `AutoNext`,
  `RuleNext` and `Skip` are the runs over lines that were all read at the start.
  `BeginUnmatch` and `BeginEdit` are the other routes; `Reverse` takes an entry
  out of the books (the journal's DELETE, which archives one, is left out); `Refuse` is
  a match that the guards turn down.
- All routes match a line's full amount, so a match is a pair. `auto_match` and the
  rules do not ask whether a line is archived.
- `raced` lines were committed over something that was not read, `edited` ones had
  a status set by hand, or were unmatched while an entry stood that had been booked
  for them, and on `torn` ones a request booked an entry and then ended without
  matching it.

### Properties and runs

| run | instance | checks | result |
|---|---|---|---|
| `BankReconciliation` | 2 requests, 1 line of 5 cents (tolerance 2), 2 entries, 2 matches, 1 trouble | `TypeOK`, `NeverOverMatched`, `JunctionFollowed`, `BookedForOnce` | 2.5M states |
| `BankRulesStale` | 2 lines, 1 match, no trouble | `RulesSkipMatched` | violated |

`JunctionFollowed` lets a MATCHED line go without a live match only if a rule has booked an
entry for it, which is why an entry records who booked it.

`MaxTroubles` bounds crashes and edits by hand together. One line, because each
property is about one line, and a snapshot of it goes stale without a second; the
violation run has two, so that a run works on one line before it meets the other. Two entries and two matches are one
too many for the line. The ids run out, so deadlock is not checked; lines, entries,
ids and requests are permuted.

### Proofs (`BankReconciliationProofs`)

For any lines, entries, amounts and requests: `LineTypes`,
`NeverOverMatchedAlways`, `JunctionIsFollowed`, `OneEntryPerLine`. The invariant
is made of statements about one line (`LineOK`): a step that writes to one line
leaves the others as they are, so each action is proved for its own line only
(`ByLines`). `SessionsOK` is what a request has read and may rely on unless the line
is raced; `EntriesOK` ties an entry to the line it was booked for.

## 10. Known disagreements

Three runs expect a violation; `PROJECT.json` quotes the statement and describes
the trace under `findings`: `JournalImmutable`, `PaymentsReposted`,
`BankRulesStale`. The following statements of the repository fail in the same way.
Each is a definition in its module, and putting it in the cfg named here, as an
INVARIANT or PROPERTY, makes TLC print the trace.

| definition | cfg | what happens |
|---|---|---|
| `ReversedCancels` | `JournalConcurrent` | an edit that read a draft commits between the read and the commit of a reversal, which then mirrors other lines; with three entries and `Ops <- BookingOps`, two overlapping reversals of one entry both commit |
| `EveryPostLogged` | `JournalConcurrent` | a crash after a post's first commit leaves it out of the change log |
| `DeadIsUnmatched` | `IcRelay` | the partner books an event, the answers are lost, the row ends DEAD |
| `ExhaustedIsDead` | `IcRelay` | for an edge without a token the attempt limit is never compared (`models/ic.py:111`) |
| `NeverOverBilled` | `PoConversion`, with a second spelling of a quantity | overlapping conversions that spell one quantity in two ways bill more than was ordered |
| `PendingIsRunning` | `PoConversion` | after a crash a key is pending, with nobody working on it, for good |
| `VoidedIsUnbooked` | `Payments` | DELETE of a posted payment leaves its entry booked (`api/v1/payments.py:312-320`) |
| `PostedIsBooked` | `Payments` | an entry that a posted paper links is reversed or archived by the journal's routes, which leave the paper posted (`services/journal_entries.py:796` and 646-677); after a reversal the paper can be voided no more |
| `LocksAdvance` (property) | `PeriodClose` | `FOR UPDATE` does not lock rows that do not exist (`api/v1/period_close.py:190-194`) |
| `UnpostedIsUnmatched` | `IcPair` | a remote event reversed by its originator counts as matched (`recon.py:5-8` and 171-173) |
| `TerminalForever` (property) | `DocumentInbox` | an edit that read the row before it was published or rejected commits after (`document_inbox.py:104`) |
| `AutoLinkedOnce` | `BankRulesStale`, with two match ids | two runs of `auto_match` link one entry to two lines (`reconciliation.py:628`) |

## 11. What is only model-checked, and what is not modelled

Only checked on instances:

- `EventuallySettled` of `IcRelay` and of `DocumentInbox`: liveness under
  fairness is beyond the proof system.

Every other property of a passing run is stated by a theorem. The four of
`JournalSerial` are proved under the hypotheses of section 2, which one request at
a time satisfies.

Not modelled, and why (the components' notes in `PROJECT.json` say more):

- Read-only code, layout, transport and request-level checks: reports, tax
  returns, lodgement, e-invoicing, schemas, authentication, licences, the front
  ends. They make up most of the lines of the repository and change nothing that
  a property here is about, which is why the map covers a small share of it.
- Payroll and the schedules of deferred revenue are arithmetic over amounts. One
  thing was noticed on the way: `recognized_through_date` is stamped with
  the commit of the draft.
- Time entries are converted to invoices under a key made of the set of entries
  (`time_entries.py:467`): after a crash, a retry with another set that
  overlaps the first is another fact. The scheme is the one of `PoConversion`, whose
  `OneBillPerBatch` speaks of one batch, spelt one way, for the same reason.
- `run_dispatcher_once` drains tenants in turn in one try block
  (`dispatcher.py:262`): a tenant whose pass always fails keeps later ones
  from being served. `IcRelay` has one tenant and assumes that its loop polls.
- Document numbering is a locked counter row; the scheduler of recurring invoices
  is outside the repository; the circuit breaker lives in one event loop and
  keeps nothing.

## 12. Remaining work

`TimeConversion` (sets of entries as keys: no entry is invoiced twice), the
dispatcher's tenants in `IcRelay`, and an abstract specification of open balances that
`Payments` and `BankReconciliation` would implement.
