------------------------------ MODULE Payments ------------------------------
(***************************************************************************)
(* Payments and credit notes settling invoices and bills                   *)
(* (services/payments.py, credit_notes.py, invoices.py, bills.py,          *)
(* bad_debt.py): the papers, their journal entries, and a document's       *)
(* amount_paid, which is derived from what is allocated to it.             *)
(*                                                                         *)
(* A document is an invoice or a bill and a note is a customer's or a      *)
(* supplier's credit note: the two sides run the same code on tables of    *)
(* their own.  Posting and voiding take several transactions (the entry,   *)
(* the paper's status, the documents' amount_paid), a crash may fall       *)
(* between any two, and every request works on the rows it read at its     *)
(* start: nothing is locked and the session keeps what it loaded.          *)
(*                                                                         *)
(* A paper's entry is an entry like any other to the journal's own routes, *)
(* which reverse it, or archive it, and leave the paper alone.             *)
(*                                                                         *)
(* Left out: the version and the change_log of each paper, whose protocol  *)
(* the module Journal models (an old If-Match changes nothing), journal    *)
(* entries that are drafts, the lines that the journal's own edit gives a  *)
(* posted entry of a mutable company, what is done by hand to a paper's    *)
(* other entries than the one it links (write-offs, reversals, the entry   *)
(* of an earlier posting), currencies, cashbook companies, documents and   *)
(* notes of nothing (which cannot be posted), and the rows that two        *)
(* overlapping replacements of a payment's allocations may both leave.     *)
(***************************************************************************)
EXTENDS Integers, FiniteSets

CONSTANTS
  Clients,     \* request sessions that may run at once
  Payments,
  Documents,   \* invoices and bills
  Invoices,    \* the documents that can be written off
  Notes,       \* credit notes
  Handled,     \* the papers whose entries the journal's routes reverse or archive
  NoDocument,  \* what a note credits that names no document
  MaxAmount,   \* bound on the totals of documents and notes, in whole units
  MaxShare,    \* bound on what one payment allocates to one document
  MaxEntries,  \* bound on the entries booked for one paper
  MaxTroubles  \* bound on troubles

Amounts   == 0..MaxAmount
Papers    == Payments \cup Documents \cup Notes
Credited  == Documents \cup {NoDocument}

ASSUME PaymentsAssumption ==
  /\ IsFiniteSet(Payments) /\ IsFiniteSet(Notes)
  /\ Papers # {}
  /\ Payments \cap Documents = {} /\ Payments \cap Notes = {} /\ Documents \cap Notes = {}
  /\ Invoices \subseteq Documents /\ Handled \subseteq Papers
  /\ NoDocument \notin Documents
  /\ MaxAmount \in Nat /\ MaxShare \in Amounts
  /\ MaxEntries \in Nat /\ MaxTroubles \in Nat

VARIABLES
  status,      \* of every paper
  total,       \* of every document and every note
  original,    \* the document a note credits: original_invoice_id, original_bill_id
  paid,        \* amount_paid of every document
  alloc,       \* what every payment allocates to every document
  link,        \* the state of the entry that a paper's journal_entry_id names
  hidden,      \* the papers whose linked entry is archived
  net,         \* entries booked for a paper, less reversals of them, archived ones not
               \* counted: what the trial balance adds up
  relief,      \* write-off entries booked for a document
  req,         \* the running requests
  stale,       \* history: documents whose amount_paid was left behind
  torn,        \* history: papers on which a crash cut the entry from the status, or on
               \* which two requests have worked at once
  byhand,      \* history: entries of a paper reversed or archived by the journal's routes
  troubles     \* times that a paper was torn or something done by hand, so far

rows    == <<status, total, original, paid, alloc>>
books   == <<link, hidden, net, relief, byhand>>
history == <<stale, torn, troubles>>
vars    == <<status, total, original, paid, alloc, link, hidden, net, relief, req,
             stale, torn, byhand, troubles>>

Statuses == {"ABSENT", "DRAFT", "POSTED", "VOIDED", "WRITTEN_OFF"}
ByHand   == {"REVERSED", "ARCHIVED"}
Nothing  == [d \in Documents |-> 0]
Idle     == [pc |-> "idle", on |-> CHOOSE x \in Papers : TRUE, into |-> "ABSENT",
             alloc |-> Nothing, doc |-> NoDocument, total |-> 0,
             paid |-> Nothing, sum |-> Nothing, missed |-> {}]

Init ==
  /\ status = [x \in Papers |-> IF x \in Payments THEN "ABSENT" ELSE "DRAFT"]
  /\ total \in [Documents \cup Notes -> Amounts \ {0}]
  /\ original \in [Notes -> Credited]
  /\ paid = Nothing
  /\ alloc = [p \in Payments |-> Nothing]
  /\ link = [x \in Papers |-> "none"] /\ hidden = {}
  /\ net = [x \in Papers |-> 0] /\ byhand = [x \in Papers |-> 0]
  /\ relief = Nothing
  /\ req = [c \in Clients |-> Idle]
  /\ stale = {} /\ torn = {} /\ troubles = 0

-----------------------------------------------------------------------------
(***************************************************************************)
(* Requests of one transaction                                             *)
(***************************************************************************)

\* A payment's allocations
Own(x) == IF x \in Payments THEN alloc[x] ELSE Nothing

\* The document that a note credits
Original(x) == IF x \in Notes THEN original[x] ELSE NoDocument

\* The documents that x settles once it is posted, if it allocates a and credits doc
Settled(x, a, doc) ==
  CASE x \in Payments -> {d \in Documents : a[d] # 0}
    [] x \in Notes    -> {doc} \ {NoDocument}
    [] OTHER          -> {}

Settling(x) == Settled(x, Own(x), Original(x))

\* The documents whose amount_paid a request refreshes: those it read
Targets(r) == Settled(r.on, r.alloc, r.doc)

Refreshing(d) == \E c \in Clients : req[c].pc \in {"sum", "refresh"} /\ d \in Targets(req[c])

Working(c, x) == req[c].pc # "idle" /\ req[c].on = x

\* If b holds, this is one trouble more.
Trouble(b) ==
  /\ troubles' = IF b THEN troubles + 1 ELSE troubles
  /\ troubles' <= MaxTroubles

\* A request on x has read what it works on.  A void has missed the
\* settlements that are not yet in the amount_paid it read.
Begin(c, x, pc, into, a, doc, amount) ==
  /\ req[c].pc = "idle"
  /\ req' = [req EXCEPT ![c] =
       [pc |-> pc, on |-> x, into |-> into, alloc |-> a, doc |-> doc, total |-> amount,
        sum    |-> Nothing,
        paid   |-> IF x \in Payments /\ pc = "entry" THEN paid ELSE Nothing,
        missed |-> IF pc = "entry" /\ into = "VOIDED"
                   THEN stale \cup {d \in Documents : Refreshing(d)} ELSE {}]]
  /\ LET shared == \E o \in Clients : Working(o, x) IN
     /\ torn' = IF shared THEN torn \cup {x} ELSE torn
     /\ Trouble(shared \/ pc = "byhand")
  /\ UNCHANGED <<rows, books, stale>>

\* A request is between reading amounts and the commit they are for.
Relying(r) == r.pc = "refresh" \/ (r.pc = "entry" /\ r.into = "VOIDED")

\* The requests once c's commit has changed what settles the documents ds
Missing(c, ds, r) ==
  [o \in Clients |-> IF o = c THEN r
                     ELSE IF Relying(req[o]) THEN [req[o] EXCEPT !.missed = @ \cup ds] ELSE req[o]]

\* api_create: a draft with its allocations
BeginCreate(c, p, a) ==
  /\ status[p] = "ABSENT" /\ \A o \in Clients : ~Working(o, p)
  /\ Begin(c, p, "cap", "DRAFT", a, NoDocument, 0)

\* api_update with other allocations than there are: whatever the payment's
\* status is
BeginAllocate(c, p, a) ==
  /\ status[p] # "ABSENT" /\ a # alloc[p]
  /\ Begin(c, p, "cap", status[p], a, NoDocument, 0)

\* What all payments, posted or not, allocate to d once p allocates a
Claims(p, a, d) ==
  {u \in Payments \X (1..MaxAmount) : u[2] <= IF u[1] = p THEN a[d] ELSE alloc[u[1]][d]}

\* trg_allocation_cap, at commit, on what is committed: it takes no lock.
CapHolds(p, a, d) == Cardinality(Claims(p, a, d)) <= total[d]

CheckCap(c) ==
  LET p == req[c].on  a == req[c].alloc IN
  /\ req[c].pc = "cap"
  /\ \A d \in Settled(p, alloc[p], NoDocument) \cup Settled(p, a, NoDocument) : CapHolds(p, a, d)
  /\ req' = [req EXCEPT ![c].pc = "allocate"]
  /\ UNCHANGED <<rows, books, history>>

SaveAllocations(c) ==
  LET p == req[c].on
      a == req[c].alloc
      moved == IF status[p] = "POSTED" THEN {d \in Documents : alloc[p][d] # a[d]} ELSE {} IN
  /\ req[c].pc = "allocate"
  /\ alloc' = [alloc EXCEPT ![p] = a]
  /\ status' = IF req[c].into = "DRAFT" /\ status[p] = "ABSENT"
               THEN [status EXCEPT ![p] = "DRAFT"] ELSE status
  /\ stale' = stale \cup moved
  /\ req' = Missing(c, moved, Idle)
  /\ UNCHANGED <<total, original, paid, books, torn, troubles>>

\* api_update of a draft: a note's document, or NoDocument where it stays (none
\* is ever taken away), and the total of the lines, or 0 where they stay
BeginEdit(c, x) ==
  /\ status[x] = "DRAFT"
  /\ \E doc \in Credited, amount \in Amounts \ {total[x]} :
       /\ doc # NoDocument => x \in Notes /\ doc # original[x]
       /\ doc # NoDocument \/ amount # 0
       /\ Begin(c, x, "edit", "DRAFT", Nothing, doc, amount)

\* The edit commits, whatever the status is by now.
SaveEdit(c) ==
  LET x == req[c].on
      doc == IF req[c].doc = NoDocument THEN Original(x) ELSE req[c].doc
      moved == IF x \in Documents THEN {x}
               ELSE IF status[x] = "POSTED" THEN Settling(x) \cup Settled(x, Own(x), doc) ELSE {} IN
  /\ req[c].pc = "edit"
  /\ total' = IF req[c].total # 0 THEN [total EXCEPT ![x] = req[c].total] ELSE total
  /\ original' = IF req[c].doc # NoDocument THEN [original EXCEPT ![x] = doc] ELSE original
  /\ stale' = stale \cup moved
  /\ req' = Missing(c, moved, Idle)
  /\ UNCHANGED <<status, paid, alloc, books, torn, troubles>>

\* mutant: documents and notes are archived whatever their status
DeletableAny(x) == status[x] # "ABSENT"

\* The papers that DELETE archives with no entry reversed: of documents and
\* notes the drafts, of payments all.
Deletable(x) == IF x \in Payments THEN status[x] # "ABSENT" ELSE status[x] = "DRAFT"

BeginDelete(c, x) ==
  /\ Deletable(x)
  /\ Begin(c, x, "archive", "VOIDED", Nothing, NoDocument, 0)

\* api_void
Archive(c) ==
  LET x == req[c].on
      freed == IF status[x] = "POSTED" THEN Settling(x) ELSE {} IN
  /\ req[c].pc = "archive"
  /\ status' = [status EXCEPT ![x] = "VOIDED"]
  /\ stale' = stale \cup freed
  /\ req' = Missing(c, freed, Idle)
  /\ UNCHANGED <<total, original, paid, alloc, books, torn, troubles>>

-----------------------------------------------------------------------------
(***************************************************************************)
(* Posting, voiding and writing off: the entry, then the status, then the  *)
(* documents' amount_paid                                                  *)
(***************************************************************************)

\* The status checks of api_post_* and post_*: a written-off invoice passes.
Postable(x) ==
  status[x] \in IF x \in Invoices THEN {"DRAFT", "WRITTEN_OFF"} ELSE {"DRAFT"}

BeginPost(c, x) ==
  /\ Postable(x)
  /\ Begin(c, x, "entry", "POSTED", Own(x), Original(x), 0)

\* mutant: settled documents may be voided
VoidableSettled(x) == link[x] = "booked" /\ status[x] \in {"POSTED", "WRITTEN_OFF"}

\* The checks of api_void_* and void_* of documents and notes, and the one of
\* journal.reverse
Voidable(x) ==
  /\ link[x] = "booked"
  /\ x \in Documents => status[x] \in {"POSTED", "WRITTEN_OFF"} /\ paid[x] = 0
  /\ x \in Notes     => status[x] = "POSTED"

BeginVoid(c, x) ==
  /\ x \in Documents \cup Notes
  /\ Voidable(x)
  /\ Begin(c, x, "entry", "VOIDED", Nothing, Original(x), 0)

\* write_off_invoice, of the balance that is unpaid
BeginWriteOff(c, d) ==
  /\ status[d] = "POSTED"
  /\ paid[d] < total[d]
  /\ Begin(c, d, "entry", "WRITTEN_OFF", Nothing, NoDocument, 0)

\* journal.post, or journal.reverse, has committed.
Book(c) ==
  LET x == req[c].on  into == req[c].into IN
  /\ req[c].pc = "entry"
  /\ into = "POSTED" => net[x] < MaxEntries
  /\ into = "VOIDED" => net[x] > -MaxEntries
  /\ x \in Documents => relief[x] < MaxEntries
  /\ net' = CASE into = "POSTED" -> [net EXCEPT ![x] = @ + 1]
              [] into = "VOIDED" -> [net EXCEPT ![x] = @ - 1]
              [] OTHER           -> net
  /\ relief' = IF into = "WRITTEN_OFF" THEN [relief EXCEPT ![x] = @ + 1] ELSE relief
  /\ link' = IF into = "VOIDED" THEN [link EXCEPT ![x] = "reversed"] ELSE link
  /\ req' = [req EXCEPT ![c].pc = "stamp"]
  /\ UNCHANGED <<rows, hidden, byhand, history>>

\* mutant: voiding does not refresh
AfterStampOfPost(r) == IF r.into # "POSTED" \/ Targets(r) = {} THEN Idle ELSE [r EXCEPT !.pc = "sum"]

\* What is left to do: the refresh of the documents settled
AfterStamp(r) == IF Targets(r) = {} THEN Idle ELSE [r EXCEPT !.pc = "sum"]

\* The paper's status and journal_entry_id have committed.
Stamp(c) ==
  LET x == req[c].on
      into == req[c].into
      written == IF into = "WRITTEN_OFF" THEN {x} ELSE {}
      settled == Settling(x) IN
  /\ req[c].pc = "stamp"
  /\ status' = [status EXCEPT ![x] = into]
  /\ link' = IF into = "POSTED" THEN [link EXCEPT ![x] = "booked"] ELSE link
  /\ hidden' = IF into = "POSTED" THEN hidden \ {x} ELSE hidden
  /\ paid' = IF into = "WRITTEN_OFF" THEN [paid EXCEPT ![x] = total[x]] ELSE paid
  /\ stale' = stale \cup written \cup (settled \ Targets(req[c]))
  /\ req' = Missing(c, written \cup settled,
                    AfterStamp(req[c]))
  /\ UNCHANGED <<total, original, alloc, net, relief, torn, byhand, troubles>>

\* How much of d a payment or a note settles once it is posted
Settles(x, d) ==
  IF x \in Payments THEN alloc[x][d] ELSE IF original[x] = d THEN total[x] ELSE 0

\* What posted payments and notes settle of d, unit by unit
Settlements(d) ==
  {u \in (Payments \cup Notes) \X (1..MaxAmount) :
     status[u[1]] = "POSTED" /\ u[2] <= Settles(u[1], d)}

\* mutant: the sum is not capped at the document's total
Uncapped(d, settled) == settled

Capped(d, settled) == IF settled > total[d] THEN total[d] ELSE settled

\* _refresh_*_amount_paid: the sums.  A note's request loads the document now.
Sum(c) ==
  /\ req[c].pc = "sum"
  /\ req' = [req EXCEPT ![c].pc = "refresh", ![c].missed = {},
                        ![c].paid = IF req[c].on \in Notes THEN paid ELSE @,
                        ![c].sum = [d \in Documents |-> Capped(d, Cardinality(Settlements(d)))]]
  /\ UNCHANGED <<rows, books, history>>

\* _refresh_*_amount_paid: the UPDATE, which leaves alone what has not
\* changed since the request loaded it
Refresh(c) ==
  LET r == req[c]
      skipped == {d \in Targets(r) : r.sum[d] = r.paid[d]} IN
  /\ r.pc = "refresh"
  /\ paid' = [d \in Documents |->
                IF d \in Targets(r) \ skipped THEN r.sum[d] ELSE paid[d]]
  /\ stale' = (stale \ Targets(r)) \cup (Targets(r) \cap r.missed)
               \cup {d \in skipped : paid[d] # r.paid[d]}
  /\ req' = [req EXCEPT ![c] = Idle]
  /\ UNCHANGED <<status, total, original, alloc, books, torn, troubles>>

\* The worker dies, or an error rolls the open transaction back.
Crash(c) ==
  /\ req[c].pc # "idle"
  /\ torn' = IF req[c].pc = "stamp" THEN torn \cup {req[c].on} ELSE torn
  /\ Trouble(req[c].pc = "stamp")
  /\ stale' = IF req[c].pc \in {"sum", "refresh"} THEN stale \cup Targets(req[c]) ELSE stale
  /\ req' = [req EXCEPT ![c] = Idle]
  /\ UNCHANGED <<rows, books>>

-----------------------------------------------------------------------------
(***************************************************************************)
(* The journal's own routes, on the entry that a paper links               *)
(***************************************************************************)

\* api_reverse asks for a posted entry; void (DELETE) asks for nothing, and
\* archives it.
BeginByHand(c, x, into) ==
  /\ into = "REVERSED" => link[x] = "booked"
  /\ into = "ARCHIVED" => link[x] # "none" /\ x \notin hidden
  /\ Begin(c, x, "byhand", into, Nothing, NoDocument, 0)

\* The reversal, or the archiving, has committed: the paper's rows stay.
CommitByHand(c) ==
  LET x == req[c].on
      into == req[c].into
      drop == IF into = "ARCHIVED" /\ x \in hidden THEN 0 ELSE 1 IN
  /\ req[c].pc = "byhand"
  /\ net' = [net EXCEPT ![x] = @ - drop]
  /\ byhand' = [byhand EXCEPT ![x] = @ + drop]
  /\ link' = IF into = "REVERSED" THEN [link EXCEPT ![x] = "reversed"] ELSE link
  /\ hidden' = IF into = "ARCHIVED" THEN hidden \cup {x} ELSE hidden
  /\ req' = [req EXCEPT ![c] = Idle]
  /\ UNCHANGED <<rows, relief, history>>

-----------------------------------------------------------------------------
Allocations == [Documents -> 0..MaxShare]

Next ==
  \E c \in Clients :
    \/ \E p \in Payments, a \in Allocations : BeginCreate(c, p, a) \/ BeginAllocate(c, p, a)
    \/ \E x \in Documents \cup Notes : BeginEdit(c, x)
    \/ \E d \in Invoices : BeginWriteOff(c, d)
    \/ \E x \in Papers : BeginDelete(c, x) \/ BeginPost(c, x) \/ BeginVoid(c, x)
    \/ \E x \in Handled, into \in ByHand : BeginByHand(c, x, into)
    \/ CheckCap(c) \/ SaveAllocations(c) \/ SaveEdit(c) \/ Archive(c) \/ CommitByHand(c)
    \/ Book(c) \/ Stamp(c) \/ Sum(c) \/ Refresh(c) \/ Crash(c)

Spec == Init /\ [][Next]_vars

-----------------------------------------------------------------------------
(***************************************************************************)
(* Properties                                                              *)
(***************************************************************************)

Requests ==
  [pc : {"idle", "cap", "allocate", "edit", "archive", "byhand", "entry", "stamp", "sum", "refresh"},
   on : Papers, into : Statuses \cup ByHand, alloc : Allocations, doc : Credited, total : Amounts,
   paid : [Documents -> Amounts], sum : [Documents -> Amounts], missed : SUBSET Documents]

\* Every variable has its type; amounts paid stay within the bound of totals.
TypeOK ==
  /\ status \in [Papers -> Statuses]
  /\ total \in [Documents \cup Notes -> Amounts \ {0}]
  /\ original \in [Notes -> Credited]
  /\ paid \in [Documents -> Amounts]
  /\ alloc \in [Payments -> Allocations]
  /\ link \in [Papers -> {"none", "booked", "reversed"}]
  /\ hidden \subseteq Papers
  /\ net \in [Papers -> Int]
  /\ byhand \in [Papers -> Nat]
  /\ relief \in [Documents -> Nat]
  /\ req \in [Clients -> Requests]
  /\ stale \subseteq Documents /\ torn \subseteq Papers
  /\ troubles \in Nat

\* Unless a request is about to refresh it, a document's amount_paid is what
\* posted payments and posted credit notes settle of it, at most its total.
\* The exceptions are named, and end with the document's next refresh: a crash
\* cut a refresh off; a settlement committed between the sum and the UPDATE of
\* a refresh; a posted payment was deleted or reallocated; a note was posted
\* or voided on a document it no longer names, or its total or its document
\* was edited by a request that had read it as a draft before it was posted;
\* the document was written off, or its total edited.
PaidIsSettled ==
  \A d \in Documents \ stale :
    Refreshing(d) \/ paid[d] = Capped(d, Cardinality(Settlements(d)))

Stamping(x) == \E c \in Clients : req[c].pc = "stamp" /\ req[c].on = x

Relieved(x) == IF x \in Documents THEN relief[x] ELSE 0

\* What is booked for x agrees with its status, but for what was done to its
\* entry by hand.
Agrees(x) ==
  LET left == 1 - byhand[x]
      none == 0 - byhand[x] IN
  /\ status[x] \in {"ABSENT", "DRAFT"} => net[x] = 0 /\ byhand[x] = 0 /\ Relieved(x) = 0
  /\ status[x] = "POSTED" /\ Relieved(x) = 0 =>
       net[x] = left /\ (link[x] = "booked" \/ byhand[x] # 0)
  /\ status[x] = "WRITTEN_OFF" /\ Relieved(x) = 1 => net[x] = left
  /\ status[x] = "VOIDED" /\ Relieved(x) = 0 =>
       net[x] \in IF x \in Payments THEN {none, left} ELSE {none}

\* The ledger books what the papers say.  Of a paper on which no crash cut
\* entry and status apart and no two requests worked at once: once posted it
\* is booked once and the entry it links can be reversed, as a draft it is not
\* booked, as a voided document or note it is not booked any more, as a
\* written-off invoice it is booked once and relieved once.  The paper does
\* not follow what the journal's own routes do to its entry: each reversal and
\* each archiving by hand is off the ledger, and counted in byhand, and a
\* paper whose entry was reversed by hand stays posted.
BookedAsStamped == \A x \in Papers \ torn : Stamping(x) \/ Agrees(x)

\* A void reverses a document's entry only when nothing that is posted settles
\* it, unless a settlement was committed, or being refreshed, or left behind
\* when or after the void read the document's amount_paid.
VoidsOnlyUnsettled ==
  [][\A c \in Clients :
       LET r == req[c] IN
       /\ r.pc = "entry" /\ req'[c].pc = "stamp"
       /\ r.into = "VOIDED"
       /\ r.on \in Documents \ r.missed
       => Settlements(r.on) = {}]_vars

\* api/v1/payments.py, on DELETE: it covers "void a posted" payment too, and
\* "svc.api_void handles both".  So the entry of a voided payment is not
\* booked any more.
VoidedIsUnbooked == \A p \in Payments : status[p] = "VOIDED" => Stamping(p) \/ net[p] = 0

\* A posted paper's entry is in the ledger.  The code does not see to it: the
\* journal's routes reverse and archive it by hand, and leave the paper posted.
PostedIsBooked == \A x \in Papers : status[x] = "POSTED" => link[x] = "booked" /\ x \notin hidden

\* api_post_invoice: "Transition DRAFT -> POSTED".  So an invoice is not
\* booked a second time while no request has crashed or overlapped another.
BookedOnce == \A x \in Papers \ torn : net[x] <= 1

=============================================================================
