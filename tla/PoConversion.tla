---------------------------- MODULE PoConversion ----------------------------
(***************************************************************************)
(* One purchase order, the requests that change it                         *)
(* (services/purchase_orders.py behind api/v1/purchase_orders.py) and the  *)
(* two uses of the idempotency table (services/idempotency.py): the        *)
(* client's X-Idempotency-Key, and the key of a conversion's bill.         *)
(*                                                                         *)
(* convert_to_bill commits the DRAFT bill first (the fact) and advances    *)
(* received_qty in a second transaction.  Its identity is what was         *)
(* received before and what is billed, as text.  Every request works on    *)
(* the rows it read at its start: nothing is locked, the sessions keep     *)
(* what they loaded across commits (expire_on_commit is off), and the      *)
(* UPDATE at the end names the columns whose values the request changed,   *)
(* for the row with that id.                                               *)
(*                                                                         *)
(* A bill's number is its position in bills.  A request that is refused    *)
(* before its first commit leaves nothing behind and is not a step.        *)
(***************************************************************************)
EXTENDS Integers, Sequences, FiniteSets, FiniteSetsExt

CONSTANTS
  Clients,       \* request sessions that may run at once
  Keys,          \* X-Idempotency-Key values
  NoKey,         \* the header is absent
  Lines,         \* line numbers of the order
  Spellings,     \* ways to write one quantity (3, 3.0, 3.0000)
  Quantities,    \* the quantities clients order, by line
  MaxVersion,    \* bound on the order's version
  MaxRows,       \* bound on replacements of the lines
  MaxBills       \* bound on the bills

ASSUME OrderAssumption ==
  /\ NoKey \notin Keys
  /\ Quantities \subseteq [Lines -> Nat \ {0}]
  /\ MaxVersion \in Nat /\ MaxRows \in Nat /\ MaxBills \in Nat

VARIABLES
  po,            \* the order and its lines; rows tells the line rows' ids apart
  bills,         \* the bills minted, each with its claim in idempotency_records
  recorded,      \* the bills that the order's change_log names
  keys,          \* idempotency_records of the clients' keys, as committed
  req,           \* the running requests
  overwritten    \* history: a request has committed over rows it had not read

vars == <<po, bills, recorded, keys, req, overwritten>>

Statuses == {"DRAFT", "OPEN", "PARTIAL", "RECEIVED", "CLOSED", "CANCELLED"}
Zero     == [l \in Lines |-> 0]

NewOrder(qty) ==
  [status |-> "DRAFT", version |-> 1, qty |-> qty, received |-> Zero, rows |-> 0]

\* No transaction of the client's key has committed; one has, without its answer.
Free    == [state |-> "free", bill |-> 0]
Pending == [state |-> "pending", bill |-> 0]

NoFact == [before |-> Zero, billed |-> Zero, spelt |-> ""]
Idle   == [pc |-> "idle", by |-> NoKey, seen |-> NewOrder(Zero), into |-> NewOrder(Zero),
           fact |-> NoFact, bill |-> 0]

Init ==
  /\ \E qty \in Quantities : po = NewOrder(qty)
  /\ bills = <<>>
  /\ recorded = {}
  /\ keys = [k \in Keys |-> Free]
  /\ req = [c \in Clients |-> Idle]
  /\ overwritten = FALSE

-----------------------------------------------------------------------------
(***************************************************************************)
(* Requests, their reads and their commits                                 *)
(***************************************************************************)

Running(k) == \E c \in Clients : req[c].by = k

\* mutant: a claim without an answer may be taken again
ClaimableUnanswered(k) == k \in Keys => keys[k].state \in {"free", "pending"} /\ ~Running(k)

\* claim_or_fetch: the first writer goes on; a second waits for its commit
\* and is then answered from the row, which changes nothing.
Claimable(k) == k \in Keys => keys[k].state = "free" /\ ~Running(k)

\* A request reads the order and means to turn it into another.
Begin(c, k, pc, into, fact) ==
  /\ req[c] = Idle
  /\ Claimable(k)
  /\ po.version < MaxVersion
  /\ req' = [req EXCEPT ![c] = [pc |-> pc, by |-> k, seen |-> po, fact |-> fact, bill |-> 0,
                                into |-> [into EXCEPT !.version = po.version + 1]]]
  /\ UNCHANGED <<po, bills, recorded, keys, overwritten>>

\* The If-Match version is an old one: the 409 is stored under the key.
VersionConflict(k) ==
  /\ Claimable(k)
  /\ po.version > 1
  /\ keys' = [keys EXCEPT ![k] = [state |-> "conflict", bill |-> 0]]
  /\ UNCHANGED <<po, bills, recorded, req, overwritten>>

\* Any commit of a request makes its claim of the client's key visible.
ClaimCommitted(c) ==
  [k \in Keys |-> IF k = req[c].by /\ keys[k].state = "free" THEN Pending ELSE keys[k]]

Changed(old, new, stored) == IF new = old THEN stored ELSE new

\* The rows after flush and commit of a request's changes
Flushed(c) ==
  LET seen == req[c].seen  into == req[c].into  replaces == into.rows # seen.rows IN
  [status   |-> Changed(seen.status, into.status, po.status),
   version  |-> into.version,
   qty      |-> IF replaces THEN into.qty ELSE po.qty,
   received |-> IF replaces THEN into.received
                ELSE [l \in Lines |-> Changed(seen.received[l], into.received[l], po.received[l])],
   rows     |-> IF replaces THEN po.rows + 1 ELSE po.rows]

Save(c) ==
  /\ po' = Flushed(c)
  /\ overwritten' = (overwritten \/ po # req[c].seen)
  /\ keys' = ClaimCommitted(c)

\* What is left to do after a request's last commit: storing its answer
Served(c) == IF req[c].by = NoKey THEN Idle ELSE [req[c] EXCEPT !.pc = "answer"]

\* store_response and its commit
Answer(c) ==
  /\ req[c].pc = "answer"
  /\ keys' = [keys EXCEPT ![req[c].by] = [state |-> "ok", bill |-> req[c].bill]]
  /\ req' = [req EXCEPT ![c] = Idle]
  /\ UNCHANGED <<po, bills, recorded, overwritten>>

\* The worker dies, or an error rolls the open transaction back.
Crash(c) ==
  /\ req[c] # Idle
  /\ req' = [req EXCEPT ![c] = Idle]
  /\ UNCHANGED <<po, bills, recorded, keys, overwritten>>

-----------------------------------------------------------------------------
(***************************************************************************)
(* Requests of one transaction                                             *)
(***************************************************************************)

Send(c, k) ==
  /\ po.status = "DRAFT"
  /\ Begin(c, k, "save", [po EXCEPT !.status = "OPEN"], NoFact)

\* mutant: received lines do not stop a cancellation
Cancellable == po.status \notin {"CLOSED", "CANCELLED"}

MayCancel == po.status \notin {"CLOSED", "CANCELLED"} /\ po.received = Zero

Cancel(c, k) ==
  /\ MayCancel
  /\ Begin(c, k, "save", [po EXCEPT !.status = "CANCELLED"], NoFact)

\* mutant: a cancelled order may be closed too
ClosableSent == po.status # "DRAFT"

MayClose == po.status \in {"RECEIVED", "PARTIAL", "OPEN"}

Close(c, k) ==
  /\ MayClose
  /\ Begin(c, k, "save", [po EXCEPT !.status = "CLOSED"], NoFact)

Archive(c) == Begin(c, NoKey, "save", po, NoFact)

\* mutant: replacing the lines may lose what was received
KeepsNothing(kept) == TRUE

\* The multi-receipt guard of api_update
KeepsReceipts(kept) ==
  po.status \in {"OPEN", "PARTIAL"} => \A l \in Lines : kept[l] >= po.received[l]

\* New lines; on each the client sends received_qty back, or forgets it.
Update(c) ==
  \E qty \in Quantities, sent \in SUBSET Lines :
    LET kept == [l \in Lines |-> IF l \in sent THEN po.received[l] ELSE 0] IN
    /\ po.status \in {"DRAFT", "OPEN", "PARTIAL"}
    /\ po.rows < MaxRows
    /\ KeepsReceipts(kept)
    /\ \A l \in Lines : kept[l] <= qty[l]
    /\ Begin(c, NoKey, "save",
             [po EXCEPT !.qty = qty, !.received = kept, !.rows = @ + 1], NoFact)

SaveRequest(c) ==
  /\ req[c].pc = "save"
  /\ Save(c)
  /\ req' = [req EXCEPT ![c] = Served(c)]
  /\ UNCHANGED <<bills, recorded>>

-----------------------------------------------------------------------------
(***************************************************************************)
(* convert_to_bill                                                         *)
(***************************************************************************)

Outstanding(l) == IF po.received[l] > po.qty[l] THEN 0 ELSE po.qty[l] - po.received[l]

\* The receipts a client may bill: some units, none of them beyond what is outstanding
Batches ==
  {billed \in [Lines -> 0..Max({Outstanding(l) : l \in Lines})] :
     billed # Zero /\ \A l \in Lines : billed[l] <= Outstanding(l)}

\* The order after a receipt
Receive(billed) ==
  LET received == [l \in Lines |-> po.received[l] + billed[l]] IN
  [po EXCEPT !.received = received,
             !.status = IF \A l \in Lines : received[l] >= po.qty[l] THEN "RECEIVED" ELSE "PARTIAL"]

BeginConvert(c, k) ==
  \E billed \in Batches, spelt \in Spellings :
    /\ po.status \in {"OPEN", "PARTIAL"}
    /\ Begin(c, k, "bill", Receive(billed),
             [before |-> po.received, billed |-> billed, spelt |-> spelt])

\* _po_convert_key
ConvertKey(fact) == fact

\* mutant: the claim of a bill's key always succeeds
NoBills(fact) == {}

BillsOf(fact) == {b \in DOMAIN bills : bills[b].key = ConvertKey(fact)}

\* _ensure_bill_fact, REPLAY: nothing is committed
ReplayBill(c) ==
  /\ req[c].pc = "bill"
  /\ \E b \in BillsOf(req[c].fact) :
       req' = [req EXCEPT ![c].pc = "check", ![c].bill = b]
  /\ UNCHANGED <<po, bills, recorded, keys, overwritten>>

\* _ensure_bill_fact, CLAIMED: claim, bill and its identity in one commit
MintBill(c) ==
  /\ req[c].pc = "bill"
  /\ BillsOf(req[c].fact) = {}
  /\ Len(bills) < MaxBills
  /\ bills' = Append(bills, [key |-> ConvertKey(req[c].fact), fact |-> req[c].fact,
                             by |-> req[c].by])
  /\ keys' = ClaimCommitted(c)
  /\ req' = [req EXCEPT ![c].pc = "check", ![c].bill = Len(bills) + 1]
  /\ UNCHANGED <<po, recorded, overwritten>>

\* _apply_po_advance, the guard: has the change_log the bill already?
CheckRecorded(c) ==
  /\ req[c].pc = "check"
  /\ req' = [req EXCEPT ![c] = IF req[c].bill \in recorded THEN Served(c)
                               ELSE [req[c] EXCEPT !.pc = "advance"]]
  /\ UNCHANGED <<po, bills, recorded, keys, overwritten>>

\* mutants: the change_log row is skipped; it names the next bill
LogSkipped(c) == recorded

LogsNext(c) == recorded \cup {req[c].bill + 1}

Logged(c) == recorded \cup {req[c].bill}

\* _apply_po_advance, the commit
Advance(c) ==
  /\ req[c].pc = "advance"
  /\ po.rows = req[c].seen.rows
  /\ Save(c)
  /\ recorded' = Logged(c)
  /\ req' = [req EXCEPT ![c] = Served(c)]
  /\ UNCHANGED bills

\* The line rows have been replaced: the UPDATE matches none (StaleDataError).
AdvanceFails(c) ==
  /\ req[c].pc = "advance"
  /\ po.rows # req[c].seen.rows
  /\ req' = [req EXCEPT ![c] = Idle]
  /\ UNCHANGED <<po, bills, recorded, keys, overwritten>>

-----------------------------------------------------------------------------
Next ==
  \/ \E c \in Clients, k \in Keys \cup {NoKey} :
       Send(c, k) \/ Cancel(c, k) \/ Close(c, k) \/ BeginConvert(c, k)
  \/ \E c \in Clients :
       \/ Archive(c) \/ Update(c) \/ SaveRequest(c)
       \/ ReplayBill(c) \/ MintBill(c) \/ CheckRecorded(c) \/ Advance(c) \/ AdvanceFails(c)
       \/ Answer(c) \/ Crash(c)
  \/ \E k \in Keys : VersionConflict(k)

Spec == Init /\ [][Next]_vars

-----------------------------------------------------------------------------
(***************************************************************************)
(* Properties                                                              *)
(***************************************************************************)

Orders ==
  [status : Statuses, version : Nat, qty : [Lines -> Nat], received : [Lines -> Nat], rows : Nat]
Facts  == [before : [Lines -> Nat], billed : [Lines -> Nat], spelt : Spellings \cup {""}]
Bills  == [key : Facts, fact : Facts, by : Keys \cup {NoKey}]

Records(numbers)  == [state : {"free", "pending", "ok", "conflict"}, bill : {0} \cup numbers]
Requests(numbers) ==
  [pc : {"idle", "save", "bill", "check", "advance", "answer"}, by : Keys \cup {NoKey},
   seen : Orders, into : Orders, fact : Facts, bill : {0} \cup numbers]

\* Every variable has its type, and the numbers of bills refer to bills.
TypeOK ==
  /\ po \in Orders
  /\ bills \in Seq(Bills)
  /\ recorded \subseteq DOMAIN bills
  /\ keys \in [Keys -> Records(DOMAIN bills)]
  /\ req \in [Clients -> Requests(DOMAIN bills)]
  /\ overwritten \in BOOLEAN

Billed(set, l) == MapThenSumSet(LAMBDA b : bills[b].fact.billed[l], set)

\* As long as no request has committed over rows it had not read, what each
\* line has received is the sum of the bills the change_log names: crashes
\* between the two commits of a conversion, its repetitions, and edits that
\* send the lines back lose no receipt and count none twice.
ReceivedIsRecorded ==
  ~overwritten => \A l \in Lines : po.received[l] = Billed(recorded, l)

\* Whatever overlaps or crashes, one receipt batch, written one way, is
\* billed once: the claim of the bill's key and the bill commit together.
OneBillPerBatch ==
  \A i, j \in DOMAIN bills : bills[i].fact = bills[j].fact => i = j

\* A conversion goes on with a bill for its own batch: what a replay returns
\* was minted for the same receipts before and for the same quantities.
BillOfThisBatch ==
  \A c \in Clients : req[c].pc \in {"check", "advance"} =>
    LET fact == bills[req[c].bill].fact IN
    /\ fact.before = req[c].seen.received
    /\ \A l \in Lines : fact.billed[l] = req[c].into.received[l] - req[c].seen.received[l]

\* However often a client repeats a request under one X-Idempotency-Key, the
\* requests under that key mint at most one bill.
KeyMintsOnce ==
  \A i, j \in DOMAIN bills : bills[i].by = bills[j].by /\ bills[i].by # NoKey => i = j

\* The answer stored under a client's key is true: the bill it names is one
\* the order's change_log names, so no retry is told of a receipt that is lost.
AnsweredIsRecorded ==
  \A k \in Keys : keys[k].state = "ok" /\ keys[k].bill # 0 => keys[k].bill \in recorded

\* As long as no request has committed over rows it had not read, the status
\* agrees with the receipts: RECEIVED orders have no line outstanding, PARTIAL
\* ones have a receipt, and before any receipt, or cancelled, there is none.
StatusAgrees ==
  ~overwritten =>
    /\ po.status = "RECEIVED" => \A l \in Lines : po.received[l] >= po.qty[l]
    /\ po.status \in {"PARTIAL", "RECEIVED"} => po.received # Zero
    /\ po.status \in {"DRAFT", "OPEN", "CANCELLED"} => po.received = Zero

\* CLOSED and CANCELLED are terminal, unless a request commits over rows it
\* had not read.
TerminalForever ==
  [][po.status \in {"CLOSED", "CANCELLED"} /\ ~overwritten' => po'.status = po.status]_vars

\* convert_to_bill's docstring: each quantity "must be in [0, quantity -
\* received_qty]", and a crash is recoverable with "no double-create".  So the
\* bills of an order do not bill more than it orders.
NeverOverBilled == \A l \in Lines : Billed(DOMAIN bills, l) <= po.qty[l]

\* idempotency.py: a claim without an answer means that "the winning writer
\* has not committed yet" and the caller is told to retry.
PendingIsRunning == \A k \in Keys : keys[k] = Pending => Running(k)

=============================================================================
