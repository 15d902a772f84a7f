------------------------- MODULE PoConversionProofs -------------------------
(***************************************************************************)
(* What conversions and idempotency keys guarantee for every number of     *)
(* clients, keys, lines and bills, whatever overlaps and crashes.          *)
(*                                                                         *)
(* The invariant says what a bill's key stands for (KeysOK), what a        *)
(* conversion knows of its bill at each stage (ConvertsOK), and what the   *)
(* claim of a client's key excludes (ClaimsOK).  Statuses rest on what one *)
(* request makes of an order it alone changes (GoodTurns), and the sums of *)
(* bills on receipts only growing (RInv).                                  *)
(***************************************************************************)
EXTENDS PoConversion, FiniteSetTheorems, TLAPS

USE OrderAssumption

-----------------------------------------------------------------------------
(***************************************************************************)
(* The inductive invariant                                                 *)
(***************************************************************************)

\* A bill's key is its fact, and no key has two bills.
KeysOK ==
  /\ \A b \in DOMAIN bills : bills[b].key = ConvertKey(bills[b].fact)
  /\ \A i, j \in DOMAIN bills : bills[i].key = bills[j].key => i = j

\* The fact of a conversion is the difference it makes.
OwnFact(r) ==
  /\ r.fact.before = r.seen.received
  /\ \A l \in Lines : r.fact.billed[l] = r.into.received[l] - r.seen.received[l]

\* A request without a conversion has no bill; a conversion keeps its fact, then
\* has the bill of that fact, and its answer names a bill that is recorded.
ConvertsOK ==
  \A c \in Clients :
    /\ req[c].pc \in {"bill", "check", "advance"} => OwnFact(req[c])
    /\ req[c].pc \in {"check", "advance"} =>
         req[c].bill \in DOMAIN bills /\ bills[req[c].bill].fact = req[c].fact
    /\ req[c].pc = "save" => req[c].bill = 0
    /\ req[c].pc = "answer" => req[c].by # NoKey /\ (req[c].bill # 0 => req[c].bill \in recorded)

\* A key serves one request; a conversion that has not its bill yet found the
\* key free; and a key that has minted a bill is no longer free.
ClaimsOK ==
  /\ \A c, d \in Clients : req[c].by = req[d].by /\ req[c].by # NoKey => c = d
  /\ \A c \in Clients : req[c].pc = "bill" /\ req[c].by # NoKey => keys[req[c].by].state = "free"
  /\ \A b \in DOMAIN bills : bills[b].by # NoKey => keys[bills[b].by].state # "free"

IInv == TypeOK /\ KeysOK /\ ConvertsOK /\ ClaimsOK /\ KeyMintsOnce /\ AnsweredIsRecorded

-----------------------------------------------------------------------------
(***************************************************************************)
(* Types of the parts                                                      *)
(***************************************************************************)

\* A request that does not run holds no key.
LEMMA IdleType ==
  /\ NewOrder(Zero) \in Orders /\ NoFact \in Facts
  /\ \A numbers : Idle \in Requests(numbers)
  /\ Idle.pc = "idle" /\ Idle.by = NoKey
<1>1. Zero \in [Lines -> Nat]
  BY DEF Zero
<1>2. NewOrder(Zero) \in Orders
  BY <1>1 DEF NewOrder, Orders, Statuses
<1>3. NoFact \in Facts
  BY <1>1 DEF NoFact, Facts
<1> QED
  BY <1>2, <1>3 DEF Idle, Requests

\* What clients order is a number of units for each line.
LEMMA QuantityType == \A qty \in Quantities : qty \in [Lines -> Nat]
<1>1. \A qty \in Quantities : qty \in [Lines -> Nat \ {0}]
  OBVIOUS
<1> QED
  BY <1>1

\* A client's batch is a number of units for each line.
LEMMA BatchType == ASSUME NEW billed \in Batches PROVE billed \in [Lines -> Nat]
<1> DEFINE top == Max({Outstanding(l) : l \in Lines})
<1>1. billed \in [Lines -> 0..top]
  BY DEF Batches
<1> HIDE DEF top
<1>2. 0..top \subseteq Nat
  OBVIOUS
<1> QED
  BY <1>1, <1>2

\* The order a receipt makes is an order.
LEMMA ReceiveType ==
  ASSUME po \in Orders, NEW billed \in [Lines -> Nat]
  PROVE  /\ Receive(billed) \in Orders
         /\ Receive(billed).received = [l \in Lines |-> po.received[l] + billed[l]]
<1> DEFINE received == [l \in Lines |-> po.received[l] + billed[l]]
<1>1. received \in [Lines -> Nat]
  BY DEF Orders
<1> QED
  BY <1>1 DEF Receive, Orders, Statuses

\* What a request leaves in the order's rows is an order.
LEMMA FlushedType == ASSUME TypeOK, NEW c \in Clients PROVE Flushed(c) \in Orders
<1>1. po \in Orders /\ req[c].seen \in Orders /\ req[c].into \in Orders
  BY DEF TypeOK, Requests
<1>2. \A l \in Lines :
        Changed(req[c].seen.received[l], req[c].into.received[l], po.received[l]) \in Nat
  BY <1>1 DEF Changed, Orders
<1>3. Changed(req[c].seen.status, req[c].into.status, po.status) \in Statuses
  BY <1>1 DEF Changed, Orders
<1> QED
  BY <1>1, <1>2, <1>3 DEF Flushed, Orders

\* A commit makes the claim of at most the request's own key visible.
LEMMA ClaimType ==
  ASSUME TypeOK, NEW c \in Clients
  PROVE  /\ ClaimCommitted(c) \in [Keys -> Records(DOMAIN bills)]
         /\ \A k \in Keys : k # req[c].by => ClaimCommitted(c)[k] = keys[k]
         /\ \A k \in Keys : k = req[c].by => ClaimCommitted(c)[k].state # "free"
         /\ \A k \in Keys : keys[k].state # "free" => ClaimCommitted(c)[k] = keys[k]
         /\ \A k \in Keys : ClaimCommitted(c)[k] \in {keys[k], Pending}
<1>1. Pending \in Records(DOMAIN bills) /\ Pending.state # "free"
  BY DEF Pending, Records
<1> QED
  BY <1>1 DEF ClaimCommitted, TypeOK, Records

\* A request that is served is idle, or waits to store its answer.
LEMMA ServedType ==
  ASSUME TypeOK, NEW c \in Clients
  PROVE  /\ Served(c) \in Requests(DOMAIN bills)
         /\ Served(c).by \in {NoKey, req[c].by}
         /\ Served(c).pc \in {"idle", "answer"}
         /\ Served(c).pc = "answer" => Served(c).by # NoKey /\ Served(c).bill = req[c].bill
<1> QED
  BY IdleType DEF Served, TypeOK, Requests

\* A bill was minted under a key, or without one.
LEMMA ByType == ASSUME TypeOK PROVE \A b \in DOMAIN bills : bills[b].by \in Keys \cup {NoKey}
<1>1. \A b \in DOMAIN bills : bills[b] \in Bills
  BY DEF TypeOK
<1> QED
  BY <1>1 DEF Bills

\* A bill that is minted comes after the others and leaves them as they are.
LEMMA Minted ==
  ASSUME TypeOK, NEW bill \in Bills, bills' = Append(bills, bill)
  PROVE  /\ bills' \in Seq(Bills)
         /\ DOMAIN bills' = DOMAIN bills \cup {Len(bills) + 1}
         /\ Len(bills) + 1 \notin DOMAIN bills
         /\ \A b \in DOMAIN bills : bills'[b] = bills[b]
         /\ bills'[Len(bills) + 1] = bill
<1> QED
  BY DEF TypeOK

-----------------------------------------------------------------------------
(***************************************************************************)
(* Steps that only change what a request is                                *)
(***************************************************************************)

\* A request begins: if it has a key, the key was free and nobody ran with it.
LEMMA BeginStep ==
  ASSUME IInv, NEW c \in Clients, NEW k \in Keys \cup {NoKey}, NEW pc \in {"save", "bill"},
         NEW into \in Orders, NEW fact \in Facts, Begin(c, k, pc, into, fact),
         pc = "bill" => /\ fact.before = po.received
                        /\ \A l \in Lines : fact.billed[l] = into.received[l] - po.received[l]
  PROVE  IInv'
<1> DEFINE r == [pc |-> pc, by |-> k, seen |-> po, fact |-> fact, bill |-> 0,
                 into |-> [into EXCEPT !.version = po.version + 1]]
<1>1. r \in Requests(DOMAIN bills) /\ r.into.received = into.received
  <2>1. po \in Orders /\ po.version + 1 \in Nat
    BY DEF IInv, TypeOK, Orders
  <2>2. [into EXCEPT !.version = po.version + 1] \in Orders
    BY <2>1 DEF Orders
  <2>3. [into EXCEPT !.version = po.version + 1].received = into.received
    BY DEF Orders
  <2> QED
    BY <2>1, <2>2, <2>3 DEF Requests
<1>2. /\ req' = [req EXCEPT ![c] = r]
      /\ UNCHANGED <<po, bills, recorded, keys, overwritten>>
  BY DEF Begin
<1>3. TypeOK'
  BY <1>1, <1>2 DEF IInv, TypeOK
<1>4. \A d \in Clients : req'[d] = IF d = c THEN r ELSE req[d]
  BY <1>2 DEF IInv, TypeOK
<1>5. ConvertsOK'
  <2>1. pc = "bill" => OwnFact(r)
    BY <1>1 DEF OwnFact
  <2> QED
    BY <1>2, <1>4, <2>1 DEF IInv, ConvertsOK, OwnFact
<1>6. k # NoKey => keys[k].state = "free" /\ \A d \in Clients : req[d].by # k
  BY DEF Begin, Claimable, Running
<1>7. ClaimsOK'
  BY <1>2, <1>4, <1>6 DEF IInv, ClaimsOK
<1>8. KeysOK' /\ KeyMintsOnce' /\ AnsweredIsRecorded'
  BY <1>2 DEF IInv, KeysOK, ConvertKey, KeyMintsOnce, AnsweredIsRecorded
<1> QED
  BY <1>3, <1>5, <1>7, <1>8 DEF IInv

\* A request ends without a commit.
LEMMA EndStep ==
  ASSUME IInv, NEW c \in Clients, req' = [req EXCEPT ![c] = Idle],
         UNCHANGED <<po, bills, recorded, keys, overwritten>>
  PROVE  IInv'
<1>1. TypeOK'
  BY IdleType DEF IInv, TypeOK
<1>2. \A d \in Clients : req'[d] = IF d = c THEN Idle ELSE req[d]
  BY DEF IInv, TypeOK
<1>3. ConvertsOK'
  BY <1>2, IdleType DEF IInv, ConvertsOK, OwnFact
<1>4. ClaimsOK'
  BY <1>2, IdleType DEF IInv, ClaimsOK
<1>5. KeysOK' /\ KeyMintsOnce' /\ AnsweredIsRecorded'
  BY DEF IInv, KeysOK, ConvertKey, KeyMintsOnce, AnsweredIsRecorded
<1> QED
  BY <1>1, <1>3, <1>4, <1>5 DEF IInv

-----------------------------------------------------------------------------
(***************************************************************************)
(* Steps of a running request                                              *)
(***************************************************************************)

\* A request of one transaction commits.
LEMMA SaveStep == ASSUME IInv, NEW c \in Clients, SaveRequest(c) PROVE IInv'
<1> USE DEF IInv
<1>1. /\ keys' = ClaimCommitted(c) /\ bills' = bills /\ recorded' = recorded
      /\ po' = Flushed(c) /\ overwritten' \in BOOLEAN
      /\ req' = [req EXCEPT ![c] = Served(c)]
  BY DEF SaveRequest, Save, TypeOK
<1>2. TypeOK'
  BY <1>1, FlushedType, ClaimType, ServedType DEF TypeOK
<1>3. \A d \in Clients : req'[d] = IF d = c THEN Served(c) ELSE req[d]
  BY <1>1 DEF TypeOK
<1>4. ConvertsOK'
  <2>1. req[c].bill = 0
    BY DEF SaveRequest, ConvertsOK
  <2> QED
    BY <1>1, <1>3, <2>1, ServedType DEF ConvertsOK, OwnFact
<1>5. ClaimsOK'
  <2>1. \A b \in DOMAIN bills : bills[b].by # NoKey => bills[b].by \in Keys
    BY ByType
  <2>2. \A b \in DOMAIN bills : bills[b].by # NoKey => keys'[bills[b].by].state # "free"
    BY <1>1, <2>1, ClaimType DEF ClaimsOK
  <2>3. \A d \in Clients : req'[d].pc = "bill" /\ req'[d].by # NoKey
                           => d # c /\ req[d].by # req[c].by /\ req[d].by \in Keys
    BY <1>3, ServedType DEF ClaimsOK, TypeOK, Requests
  <2>4. \A d \in Clients : req'[d].pc = "bill" /\ req'[d].by # NoKey
                           => keys'[req'[d].by].state = "free"
    BY <1>1, <1>3, <2>3, ClaimType DEF ClaimsOK
  <2> QED
    BY <1>1, <1>3, <2>2, <2>4, ServedType DEF ClaimsOK
<1>6. KeysOK' /\ KeyMintsOnce'
  BY <1>1 DEF KeysOK, ConvertKey, KeyMintsOnce
<1>7. AnsweredIsRecorded'
  BY <1>1, ClaimType DEF AnsweredIsRecorded, Pending
<1> QED
  BY <1>2, <1>4, <1>5, <1>6, <1>7

\* A conversion finds the bill of its fact.
LEMMA ReplayStep == ASSUME IInv, NEW c \in Clients, ReplayBill(c) PROVE IInv'
<1> USE DEF IInv
<1>1. PICK b \in BillsOf(req[c].fact) :
        req' = [req EXCEPT ![c].pc = "check", ![c].bill = b]
  BY DEF ReplayBill
<1>2. b \in DOMAIN bills /\ bills[b].fact = req[c].fact
  BY <1>1 DEF BillsOf, KeysOK, ConvertKey
<1> DEFINE r == [req[c] EXCEPT !.pc = "check", !.bill = b]
<1>3. r \in Requests(DOMAIN bills) /\ r.by = req[c].by /\ r.fact = req[c].fact
      /\ r.seen = req[c].seen /\ r.into = req[c].into /\ r.pc = "check" /\ r.bill = b
  BY <1>2 DEF TypeOK, Requests
<1>4. UNCHANGED <<po, bills, recorded, keys, overwritten>> /\ req[c].pc = "bill"
  BY DEF ReplayBill
<1>5. req' = [req EXCEPT ![c] = r]
  BY <1>1 DEF TypeOK
<1> HIDE DEF r
<1>6. TypeOK'
  BY <1>3, <1>4, <1>5 DEF TypeOK
<1>7. \A d \in Clients : req'[d] = IF d = c THEN r ELSE req[d]
  BY <1>5 DEF TypeOK
<1>8. ConvertsOK'
  BY <1>2, <1>3, <1>4, <1>7 DEF ConvertsOK, OwnFact
<1>9. ClaimsOK'
  BY <1>3, <1>4, <1>7 DEF ClaimsOK
<1>10. KeysOK' /\ KeyMintsOnce' /\ AnsweredIsRecorded'
  BY <1>4 DEF KeysOK, ConvertKey, KeyMintsOnce, AnsweredIsRecorded
<1> QED
  BY <1>6, <1>8, <1>9, <1>10

\* A conversion mints the bill of its fact: no bill had the fact's key, and
\* none was minted under the client's key.
LEMMA MintStep == ASSUME IInv, NEW c \in Clients, MintBill(c) PROVE IInv'
<1> USE DEF IInv
<1> DEFINE n == Len(bills) + 1
           bill == [key |-> ConvertKey(req[c].fact), fact |-> req[c].fact, by |-> req[c].by]
           r == [req[c] EXCEPT !.pc = "check", !.bill = n]
<1>1. /\ req[c].pc = "bill" /\ BillsOf(req[c].fact) = {}
      /\ bills' = Append(bills, bill) /\ keys' = ClaimCommitted(c)
      /\ UNCHANGED <<po, recorded, overwritten>>
  BY DEF MintBill
<1>2. bill \in Bills
  BY DEF TypeOK, Requests, Bills, ConvertKey
<1>3. bill.key = ConvertKey(bill.fact) /\ bill.fact = req[c].fact /\ bill.by = req[c].by
  OBVIOUS
<1> HIDE DEF bill
<1>4. /\ bills' \in Seq(Bills) /\ DOMAIN bills' = DOMAIN bills \cup {n}
      /\ n \notin DOMAIN bills /\ bills'[n] = bill
      /\ \A b \in DOMAIN bills : bills'[b] = bills[b]
  BY <1>1, <1>2, Minted
<1>5. /\ r \in Requests(DOMAIN bills') /\ r.by = req[c].by /\ r.fact = req[c].fact
      /\ r.seen = req[c].seen /\ r.into = req[c].into /\ r.pc = "check" /\ r.bill = n
  BY <1>4 DEF TypeOK, Requests
<1>6. req' = [req EXCEPT ![c] = r]
  BY DEF MintBill, TypeOK
<1> HIDE DEF r, n
<1>7. TypeOK'
  <2>1. \A q \in Requests(DOMAIN bills) : q \in Requests(DOMAIN bills')
    BY <1>4 DEF Requests
  <2>2. \A q \in Records(DOMAIN bills) : q \in Records(DOMAIN bills')
    BY <1>4 DEF Records
  <2>3. req' \in [Clients -> Requests(DOMAIN bills')]
    BY <1>5, <1>6, <2>1 DEF TypeOK
  <2>4. keys' \in [Keys -> Records(DOMAIN bills')]
    BY <1>1, <2>2, ClaimType
  <2> QED
    BY <1>1, <1>4, <2>3, <2>4 DEF TypeOK
<1>8. \A d \in Clients : req'[d] = IF d = c THEN r ELSE req[d]
  BY <1>6 DEF TypeOK
<1>9. KeysOK'
  <2>1. \A b \in DOMAIN bills : bills[b].key # bill.key
    BY <1>1, <1>3 DEF BillsOf, ConvertKey
  <2> QED
    BY <1>3, <1>4, <2>1 DEF KeysOK, ConvertKey
<1>10. ConvertsOK'
  BY <1>1, <1>3, <1>4, <1>5, <1>8 DEF ConvertsOK, OwnFact
<1>11. \A b \in DOMAIN bills : bills[b].by # NoKey => bills[b].by # req[c].by
  BY <1>1 DEF ClaimsOK
<1>12. ClaimsOK'
  <2>1. \A b \in DOMAIN bills : bills[b].by # NoKey =>
          bills[b].by \in Keys /\ keys[bills[b].by].state # "free"
    BY ByType DEF ClaimsOK
  <2>2. \A b \in DOMAIN bills' : bills'[b].by # NoKey => keys'[bills'[b].by].state # "free"
    <3>1. \A b \in DOMAIN bills : bills[b].by # NoKey => keys'[bills[b].by].state # "free"
      BY <1>1, <2>1, ClaimType
    <3>2. bill.by # NoKey => bill.by \in Keys /\ keys'[bill.by].state # "free"
      BY <1>1, <1>2, <1>3, ClaimType DEF Bills
    <3> QED
      BY <1>4, <3>1, <3>2
  <2>3. \A d, e \in Clients : req'[d].by = req'[e].by /\ req'[d].by # NoKey => d = e
    BY <1>5, <1>8 DEF ClaimsOK
  <2>4. \A d \in Clients : req'[d].pc = "bill" /\ req'[d].by # NoKey
                           => keys'[req'[d].by].state = "free"
    BY <1>1, <1>5, <1>8, ClaimType DEF ClaimsOK, TypeOK, Requests
  <2> QED
    BY <2>2, <2>3, <2>4 DEF ClaimsOK
<1>13. KeyMintsOnce'
  BY <1>3, <1>4, <1>11 DEF KeyMintsOnce
<1>14. AnsweredIsRecorded'
  BY <1>1, ClaimType DEF AnsweredIsRecorded, Pending
<1> QED
  BY <1>7, <1>9, <1>10, <1>12, <1>13, <1>14

\* A conversion whose bill is recorded is served; another goes on.
LEMMA CheckStep == ASSUME IInv, NEW c \in Clients, CheckRecorded(c) PROVE IInv'
<1> USE DEF IInv
<1> DEFINE r == IF req[c].bill \in recorded THEN Served(c) ELSE [req[c] EXCEPT !.pc = "advance"]
<1>1. /\ req[c].pc = "check" /\ req' = [req EXCEPT ![c] = r]
      /\ UNCHANGED <<po, bills, recorded, keys, overwritten>>
  BY DEF CheckRecorded
<1>2. \/ req[c].bill \in recorded /\ r = Served(c)
      \/ /\ r \in Requests(DOMAIN bills) /\ r.pc = "advance" /\ r.by = req[c].by
         /\ r.fact = req[c].fact /\ r.seen = req[c].seen /\ r.into = req[c].into
         /\ r.bill = req[c].bill
  BY DEF TypeOK, Requests
<1> HIDE DEF r
<1>3. TypeOK'
  BY <1>1, <1>2, ServedType DEF TypeOK
<1>4. \A d \in Clients : req'[d] = IF d = c THEN r ELSE req[d]
  BY <1>1 DEF TypeOK
<1>5. ConvertsOK'
  BY <1>1, <1>2, <1>4, ServedType DEF ConvertsOK, OwnFact
<1>6. ClaimsOK'
  BY <1>1, <1>2, <1>4, ServedType DEF ClaimsOK
<1>7. KeysOK' /\ KeyMintsOnce' /\ AnsweredIsRecorded'
  BY <1>1 DEF KeysOK, ConvertKey, KeyMintsOnce, AnsweredIsRecorded
<1> QED
  BY <1>3, <1>5, <1>6, <1>7

\* A conversion commits its second half: its bill is recorded.
LEMMA AdvanceStep == ASSUME IInv, NEW c \in Clients, Advance(c) PROVE IInv'
<1> USE DEF IInv
<1>1. /\ req[c].pc = "advance" /\ keys' = ClaimCommitted(c) /\ bills' = bills
      /\ po' = Flushed(c) /\ overwritten' \in BOOLEAN
      /\ recorded' = recorded \cup {req[c].bill}
      /\ req' = [req EXCEPT ![c] = Served(c)]
  BY DEF Advance, Save, Logged, TypeOK
<1>2. req[c].bill \in DOMAIN bills
  BY <1>1 DEF ConvertsOK
<1>3. TypeOK'
  BY <1>1, <1>2, FlushedType, ClaimType, ServedType DEF TypeOK
<1>4. \A d \in Clients : req'[d] = IF d = c THEN Served(c) ELSE req[d]
  BY <1>1 DEF TypeOK
<1>5. ConvertsOK'
  BY <1>1, <1>4, ServedType DEF ConvertsOK, OwnFact
<1>6. ClaimsOK'
  <2>1. \A b \in DOMAIN bills : bills[b].by # NoKey => bills[b].by \in Keys
    BY ByType
  <2>2. \A b \in DOMAIN bills : bills[b].by # NoKey => keys'[bills[b].by].state # "free"
    BY <1>1, <2>1, ClaimType DEF ClaimsOK
  <2>3. \A d \in Clients : req'[d].pc = "bill" /\ req'[d].by # NoKey
                           => d # c /\ req[d].by # req[c].by /\ req[d].by \in Keys
    BY <1>4, ServedType DEF ClaimsOK, TypeOK, Requests
  <2>4. \A d \in Clients : req'[d].pc = "bill" /\ req'[d].by # NoKey
                           => keys'[req'[d].by].state = "free"
    BY <1>1, <1>4, <2>3, ClaimType DEF ClaimsOK
  <2> QED
    BY <1>1, <1>4, <2>2, <2>4, ServedType DEF ClaimsOK
<1>7. KeysOK' /\ KeyMintsOnce'
  BY <1>1 DEF KeysOK, ConvertKey, KeyMintsOnce
<1>8. AnsweredIsRecorded'
  BY <1>1, ClaimType DEF AnsweredIsRecorded, Pending
<1> QED
  BY <1>3, <1>5, <1>6, <1>7, <1>8

\* The answer that is stored names a recorded bill, or none.
LEMMA AnswerStep == ASSUME IInv, NEW c \in Clients, Answer(c) PROVE IInv'
<1> USE DEF IInv
<1> DEFINE answer == [state |-> "ok", bill |-> req[c].bill]
<1>1. /\ req[c].pc = "answer" /\ keys' = [keys EXCEPT ![req[c].by] = answer]
      /\ req' = [req EXCEPT ![c] = Idle] /\ UNCHANGED <<po, bills, recorded, overwritten>>
  BY DEF Answer
<1>2. answer \in Records(DOMAIN bills)
  BY DEF TypeOK, Requests, Records
<1>3. req[c].by \in Keys /\ (req[c].bill # 0 => req[c].bill \in recorded)
  BY <1>1 DEF ConvertsOK, TypeOK, Requests
<1>4. TypeOK'
  BY <1>1, <1>2, IdleType DEF TypeOK
<1>5. \A d \in Clients : req'[d] = IF d = c THEN Idle ELSE req[d]
  BY <1>1 DEF TypeOK
<1>6. \A k \in Keys : keys'[k] = IF k = req[c].by THEN answer ELSE keys[k]
  BY <1>1 DEF TypeOK
<1>7. ConvertsOK'
  BY <1>1, <1>5, IdleType DEF ConvertsOK, OwnFact
<1>8. ClaimsOK'
  BY <1>1, <1>3, <1>5, <1>6, IdleType DEF ClaimsOK, TypeOK, Requests, Bills
<1>9. KeysOK' /\ KeyMintsOnce'
  BY <1>1 DEF KeysOK, ConvertKey, KeyMintsOnce
<1>10. AnsweredIsRecorded'
  BY <1>1, <1>3, <1>6 DEF AnsweredIsRecorded
<1> QED
  BY <1>4, <1>7, <1>8, <1>9, <1>10

\* A stored conflict takes a key nobody runs with.
LEMMA ConflictStep == ASSUME IInv, NEW k \in Keys, VersionConflict(k) PROVE IInv'
<1> USE DEF IInv
<1> DEFINE answer == [state |-> "conflict", bill |-> 0]
<1>1. /\ keys' = [keys EXCEPT ![k] = answer] /\ ~Running(k)
      /\ UNCHANGED <<po, bills, recorded, req, overwritten>>
  BY DEF VersionConflict, Claimable
<1>2. TypeOK'
  BY <1>1 DEF TypeOK, Records
<1>3. \A j \in Keys : keys'[j] = IF j = k THEN answer ELSE keys[j]
  BY <1>1 DEF TypeOK
<1>4. ConvertsOK' /\ KeysOK' /\ KeyMintsOnce'
  BY <1>1 DEF ConvertsOK, OwnFact, KeysOK, ConvertKey, KeyMintsOnce
<1>5. ClaimsOK'
  BY <1>1, <1>3 DEF ClaimsOK, Running, TypeOK, Requests, Bills
<1>6. AnsweredIsRecorded'
  BY <1>1, <1>3 DEF AnsweredIsRecorded
<1> QED
  BY <1>2, <1>4, <1>5, <1>6

-----------------------------------------------------------------------------
(***************************************************************************)
(* The theorems                                                            *)
(***************************************************************************)

\* The invariant holds at first: there are no bills, and every key is free.
LEMMA InitInv == Init => IInv
<1> SUFFICES ASSUME Init PROVE IInv
  OBVIOUS
<1>1. TypeOK
  <2>1. \A qty \in Quantities : NewOrder(qty) \in Orders
    <3>1. Zero \in [Lines -> Nat]
      BY DEF Zero
    <3> QED
      BY <3>1, QuantityType DEF NewOrder, Orders, Statuses
  <2>2. Free \in Records(DOMAIN bills)
    BY DEF Free, Records
  <2>3. bills \in Seq(Bills) /\ recorded \subseteq DOMAIN bills
    BY DEF Init
  <2>4. req \in [Clients -> Requests(DOMAIN bills)]
    BY IdleType DEF Init
  <2>5. keys \in [Keys -> Records(DOMAIN bills)]
    BY <2>2 DEF Init
  <2> QED
    BY <2>1, <2>3, <2>4, <2>5 DEF Init, TypeOK
<1>2. \A c \in Clients : req[c] = Idle
  BY DEF Init
<1>3. ConvertsOK /\ ClaimsOK
  BY <1>2, IdleType DEF Init, ConvertsOK, ClaimsOK
<1>4. KeysOK /\ KeyMintsOnce /\ AnsweredIsRecorded
  BY DEF Init, KeysOK, KeyMintsOnce, AnsweredIsRecorded, Free
<1> QED
  BY <1>1, <1>3, <1>4 DEF IInv

\* Requests that are one transaction, and conversions, begin on the order they read.
LEMMA BeginStarts ==
  ASSUME IInv, NEW c \in Clients, NEW k \in Keys \cup {NoKey},
         \/ Send(c, k) \/ Cancel(c, k) \/ Close(c, k) \/ BeginConvert(c, k)
         \/ Archive(c) \/ Update(c)
  PROVE  IInv'
<1>1. po \in Orders /\ NoFact \in Facts /\ NoKey \in Keys \cup {NoKey}
  BY IdleType DEF IInv, TypeOK
<1>2. \A status \in Statuses : [po EXCEPT !.status = status] \in Orders
  BY <1>1 DEF Orders
<1>3. CASE Send(c, k)
  BY <1>1, <1>2, <1>3, BeginStep DEF Send, Statuses
<1>4. CASE Cancel(c, k)
  BY <1>1, <1>2, <1>4, BeginStep DEF Cancel, Statuses
<1>5. CASE Close(c, k)
  BY <1>1, <1>2, <1>5, BeginStep DEF Close, Statuses
<1>6. CASE Archive(c)
  BY <1>1, <1>6, BeginStep DEF Archive
<1>7. CASE Update(c)
  <2>1. PICK qty \in Quantities, sent \in SUBSET Lines :
          Begin(c, NoKey, "save",
                [po EXCEPT !.qty = qty,
                           !.received = [l \in Lines |-> IF l \in sent THEN po.received[l] ELSE 0],
                           !.rows = @ + 1],
                NoFact)
    BY <1>7 DEF Update
  <2> DEFINE kept == [l \in Lines |-> IF l \in sent THEN po.received[l] ELSE 0]
  <2>2. kept \in [Lines -> Nat]
    BY <1>1 DEF Orders
  <2>3. qty \in [Lines -> Nat]
    BY QuantityType
  <2> HIDE DEF kept
  <2>4. [po EXCEPT !.qty = qty, !.received = kept, !.rows = @ + 1] \in Orders
    <3>1. po.rows + 1 \in Nat
      BY <1>1 DEF Orders
    <3> QED
      BY <1>1, <2>2, <2>3, <3>1 DEF Orders
  <2> QED
    BY <1>1, <2>1, <2>4, BeginStep DEF kept
<1>8. CASE BeginConvert(c, k)
  <2>1. PICK billed \in Batches, spelt \in Spellings :
          Begin(c, k, "bill", Receive(billed),
                [before |-> po.received, billed |-> billed, spelt |-> spelt])
    BY <1>8 DEF BeginConvert
  <2> DEFINE fact == [before |-> po.received, billed |-> billed, spelt |-> spelt]
  <2>2. billed \in [Lines -> Nat]
    BY BatchType
  <2>3. /\ Receive(billed) \in Orders
        /\ Receive(billed).received = [l \in Lines |-> po.received[l] + billed[l]]
    BY <1>1, <2>2, ReceiveType
  <2>4. fact \in Facts /\ fact.before = po.received /\ fact.billed = billed
    BY <1>1, <2>2 DEF Facts, Orders
  <2>5. \A l \in Lines : fact.billed[l] = Receive(billed).received[l] - po.received[l]
    BY <1>1, <2>2, <2>3, <2>4 DEF Orders
  <2> HIDE DEF fact
  <2> QED
    BY <2>1, <2>3, <2>4, <2>5, BeginStep DEF fact
<1> QED
  BY <1>3, <1>4, <1>5, <1>6, <1>7, <1>8

\* Every step keeps the invariant.
LEMMA NextInv == IInv /\ [Next]_vars => IInv'
<1> SUFFICES ASSUME IInv, [Next]_vars PROVE IInv'
  OBVIOUS
<1>1. CASE UNCHANGED vars
  BY <1>1 DEF vars, IInv, TypeOK, KeysOK, ConvertKey, ConvertsOK, OwnFact, ClaimsOK,
              KeyMintsOnce, AnsweredIsRecorded
<1>2. ASSUME NEW c \in Clients, NEW k \in Keys \cup {NoKey},
             Send(c, k) \/ Cancel(c, k) \/ Close(c, k) \/ BeginConvert(c, k)
      PROVE  IInv'
  BY <1>2, BeginStarts
<1>3. ASSUME NEW c \in Clients, Archive(c) \/ Update(c) PROVE IInv'
  <2>1. NoKey \in Keys \cup {NoKey}
    OBVIOUS
  <2> QED
    BY <1>3, <2>1, BeginStarts
<1>4. ASSUME NEW c \in Clients,
             \/ SaveRequest(c) \/ ReplayBill(c) \/ MintBill(c) \/ CheckRecorded(c)
             \/ Advance(c) \/ Answer(c)
      PROVE  IInv'
  BY <1>4, SaveStep, ReplayStep, MintStep, CheckStep, AdvanceStep, AnswerStep
<1>5. ASSUME NEW c \in Clients, AdvanceFails(c) \/ Crash(c) PROVE IInv'
  BY <1>5, EndStep DEF AdvanceFails, Crash
<1>6. ASSUME NEW k \in Keys, VersionConflict(k) PROVE IInv'
  BY <1>6, ConflictStep
<1> QED
  BY <1>1, <1>2, <1>3, <1>4, <1>5, <1>6 DEF Next

\* The invariant holds in every reachable state.
THEOREM ConversionInvariance == Spec => []IInv
<1> QED
  BY InitInv, NextInv, PTL DEF Spec

\* Every variable keeps its type, and the numbers of bills refer to bills.
THEOREM ConversionTypes == Spec => []TypeOK
<1>1. IInv => TypeOK
  BY DEF IInv
<1> QED
  BY <1>1, ConversionInvariance, PTL

\* One receipt batch, written one way, is billed once.
THEOREM BatchBilledOnce == Spec => []OneBillPerBatch
<1>1. IInv => OneBillPerBatch
  BY DEF IInv, KeysOK, OneBillPerBatch
<1> QED
  BY <1>1, ConversionInvariance, PTL

\* A replay returns the bill of the very batch that is converted.
THEOREM ReplayIsOwnBill == Spec => []BillOfThisBatch
<1>1. IInv => BillOfThisBatch
  BY DEF IInv, ConvertsOK, OwnFact, BillOfThisBatch
<1> QED
  BY <1>1, ConversionInvariance, PTL

\* One X-Idempotency-Key mints at most one bill.
THEOREM KeyMintsAtMostOnce == Spec => []KeyMintsOnce
<1>1. IInv => KeyMintsOnce
  BY DEF IInv
<1> QED
  BY <1>1, ConversionInvariance, PTL

\* An answer stored under a key names a bill that the order's change_log names.
THEOREM AnswersAreTrue == Spec => []AnsweredIsRecorded
<1>1. IInv => AnsweredIsRecorded
  BY DEF IInv
<1> QED
  BY <1>1, ConversionInvariance, PTL

-----------------------------------------------------------------------------
(***************************************************************************)
(* Statuses: what a request makes of an order it alone changes             *)
(***************************************************************************)

\* StatusAgrees, of any order
Agrees(o) ==
  /\ o.status = "RECEIVED" => \A l \in Lines : o.received[l] >= o.qty[l]
  /\ o.status \in {"PARTIAL", "RECEIVED"} => o.received # Zero
  /\ o.status \in {"DRAFT", "OPEN", "CANCELLED"} => o.received = Zero

\* Turning one order into another keeps terminal statuses and the agreement of
\* status and receipts, and leaves the quantities unless it replaces the lines.
GoodTurn(seen, into) ==
  /\ (into.rows = seen.rows /\ into.qty = seen.qty) \/ into.rows = seen.rows + 1
  /\ Agrees(seen) => Agrees(into)
  /\ seen.status \in {"CLOSED", "CANCELLED"} => into.status = seen.status

GoodTurns ==
  \A c \in Clients : req[c].pc \in {"save", "bill", "check", "advance"} =>
    GoodTurn(req[c].seen, req[c].into)

\* The version that a request writes is no part of a good turn.
LEMMA TurnVersion ==
  ASSUME NEW seen \in Orders, NEW into \in Orders, NEW v \in Nat, GoodTurn(seen, into)
  PROVE  GoodTurn(seen, [into EXCEPT !.version = v])
<1> DEFINE o == [into EXCEPT !.version = v]
<1>1. o.rows = into.rows /\ o.qty = into.qty /\ o.status = into.status /\ o.received = into.received
  BY DEF Orders
<1> HIDE DEF o
<1> QED
  BY <1>1 DEF GoodTurn, Agrees, o

\* A request that begins with a good turn.
LEMMA BeginTurn ==
  ASSUME TypeOK, GoodTurns, NEW c \in Clients, NEW k, NEW pc, NEW into \in Orders, NEW fact,
         Begin(c, k, pc, into, fact), GoodTurn(po, into)
  PROVE  GoodTurns'
<1>1. po \in Orders /\ po.version + 1 \in Nat
  BY DEF TypeOK, Orders
<1>2. GoodTurn(po, [into EXCEPT !.version = po.version + 1])
  BY <1>1, TurnVersion
<1> DEFINE r == [pc |-> pc, by |-> k, seen |-> po, fact |-> fact, bill |-> 0,
                 into |-> [into EXCEPT !.version = po.version + 1]]
<1>3. r.seen = po /\ r.into = [into EXCEPT !.version = po.version + 1]
  OBVIOUS
<1>4. \A d \in Clients : req'[d] = IF d = c THEN r ELSE req[d]
  BY DEF Begin, TypeOK
<1> HIDE DEF r
<1>5. GoodTurn(r.seen, r.into)
  BY <1>2, <1>3
<1> QED
  BY <1>4, <1>5 DEF GoodTurns, GoodTurn, Agrees

\* A change of status alone is a good turn where the new status asks for no more.
LEMMA StatusTurn ==
  ASSUME po \in Orders, NEW status \in Statuses,
         \/ po.status = "DRAFT" /\ status = "OPEN"
         \/ po.received = Zero /\ status = "CANCELLED" /\ po.status \notin {"CLOSED", "CANCELLED"}
         \/ status = "CLOSED" /\ po.status \notin {"CLOSED", "CANCELLED"}
  PROVE  [po EXCEPT !.status = status] \in Orders /\ GoodTurn(po, [po EXCEPT !.status = status])
<1> DEFINE o == [po EXCEPT !.status = status]
<1>1. /\ o \in Orders /\ o.status = status /\ o.received = po.received /\ o.qty = po.qty
      /\ o.rows = po.rows
  BY DEF Orders
<1> HIDE DEF o
<1> QED
  BY <1>1 DEF GoodTurn, Agrees, o

\* A receipt is a good turn: it adds something, and RECEIVED is its word for
\* "nothing outstanding".
LEMMA ReceiveTurn ==
  ASSUME po \in Orders, NEW billed \in Batches, po.status \in {"OPEN", "PARTIAL"}
  PROVE  Receive(billed) \in Orders /\ GoodTurn(po, Receive(billed))
<1> DEFINE o == Receive(billed)
           received == [l \in Lines |-> po.received[l] + billed[l]]
<1>1. billed \in [Lines -> Nat] /\ billed # Zero
  BY BatchType DEF Batches
<1>2. o \in Orders /\ o.received = received
  BY <1>1, ReceiveType
<1>3. /\ o.rows = po.rows /\ o.qty = po.qty
      /\ o.status = IF \A l \in Lines : received[l] >= po.qty[l] THEN "RECEIVED" ELSE "PARTIAL"
  BY <1>2 DEF Receive, Orders
<1>4. received # Zero
  <2>1. PICK l \in Lines : billed[l] # 0
    BY <1>1 DEF Zero
  <2>2. billed[l] \in Nat /\ po.received[l] \in Nat
    BY <1>1 DEF Orders
  <2>3. received[l] # 0
    BY <2>1, <2>2
  <2> QED
    BY <2>3 DEF Zero
<1> HIDE DEF o, received
<1>5. Agrees(o)
  BY <1>2, <1>3, <1>4 DEF Agrees
<1> QED
  BY <1>2, <1>3, <1>5 DEF GoodTurn, o

\* So is a replacement of the lines that loses no receipt.
LEMMA UpdateTurn ==
  ASSUME po \in Orders, NEW qty \in [Lines -> Nat], NEW kept \in [Lines -> Nat],
         po.status \in {"DRAFT", "OPEN", "PARTIAL"}, KeepsReceipts(kept),
         \A l \in Lines : kept[l] \in {0, po.received[l]}
  PROVE  /\ [po EXCEPT !.qty = qty, !.received = kept, !.rows = @ + 1] \in Orders
         /\ GoodTurn(po, [po EXCEPT !.qty = qty, !.received = kept, !.rows = @ + 1])
<1> DEFINE o == [po EXCEPT !.qty = qty, !.received = kept, !.rows = @ + 1]
<1>1. po.rows + 1 \in Nat
  BY DEF Orders
<1>2. o \in Orders
  BY <1>1 DEF Orders
<1>5. o.status = po.status /\ o.received = kept /\ o.rows = po.rows + 1
  BY DEF Orders
<1>3. po.status \in {"OPEN", "PARTIAL"} => kept = po.received
  <2>1. ASSUME po.status \in {"OPEN", "PARTIAL"}, NEW l \in Lines PROVE kept[l] = po.received[l]
    BY <2>1 DEF KeepsReceipts, Orders
  <2> QED
    BY <2>1 DEF Orders
<1>4. po.received = Zero => kept = Zero
  BY DEF Zero
<1> HIDE DEF o
<1> QED
  BY <1>2, <1>3, <1>4, <1>5 DEF GoodTurn, Agrees, o

\* Every request begins with a good turn.
LEMMA BeginTurns ==
  ASSUME TypeOK, GoodTurns, NEW c \in Clients, NEW k,
         \/ Send(c, k) \/ Cancel(c, k) \/ Close(c, k) \/ BeginConvert(c, k)
         \/ Archive(c) \/ Update(c)
  PROVE  GoodTurns'
<1>1. po \in Orders /\ {"OPEN", "CANCELLED", "CLOSED"} \subseteq Statuses
  BY DEF TypeOK, Statuses
<1>2. CASE Send(c, k)
  <2>1. [po EXCEPT !.status = "OPEN"] \in Orders /\ GoodTurn(po, [po EXCEPT !.status = "OPEN"])
    BY <1>1, <1>2, StatusTurn DEF Send
  <2> QED
    BY <1>2, <2>1, BeginTurn DEF Send
<1>3. CASE Cancel(c, k)
  <2>1. /\ [po EXCEPT !.status = "CANCELLED"] \in Orders
        /\ GoodTurn(po, [po EXCEPT !.status = "CANCELLED"])
    BY <1>1, <1>3, StatusTurn DEF Cancel, MayCancel
  <2> QED
    BY <1>3, <2>1, BeginTurn DEF Cancel
<1>4. CASE Close(c, k)
  <2>1. [po EXCEPT !.status = "CLOSED"] \in Orders /\ GoodTurn(po, [po EXCEPT !.status = "CLOSED"])
    BY <1>1, <1>4, StatusTurn DEF Close, MayClose
  <2> QED
    BY <1>4, <2>1, BeginTurn DEF Close
<1>5. CASE Archive(c)
  BY <1>1, <1>5, BeginTurn DEF Archive, GoodTurn
<1>6. CASE BeginConvert(c, k)
  <2>1. PICK billed \in Batches, spelt \in Spellings :
          /\ po.status \in {"OPEN", "PARTIAL"}
          /\ Begin(c, k, "bill", Receive(billed),
                   [before |-> po.received, billed |-> billed, spelt |-> spelt])
    BY <1>6 DEF BeginConvert
  <2> QED
    BY <1>1, <2>1, ReceiveTurn, BeginTurn
<1>7. CASE Update(c)
  <2>1. PICK qty \in Quantities, sent \in SUBSET Lines :
          LET kept == [l \in Lines |-> IF l \in sent THEN po.received[l] ELSE 0] IN
          /\ po.status \in {"DRAFT", "OPEN", "PARTIAL"}
          /\ KeepsReceipts(kept)
          /\ Begin(c, NoKey, "save",
                   [po EXCEPT !.qty = qty, !.received = kept, !.rows = @ + 1], NoFact)
    BY <1>7 DEF Update
  <2> DEFINE kept == [l \in Lines |-> IF l \in sent THEN po.received[l] ELSE 0]
  <2>2. kept \in [Lines -> Nat] /\ \A l \in Lines : kept[l] \in {0, po.received[l]}
    BY <1>1 DEF Orders
  <2>3. /\ po.status \in {"DRAFT", "OPEN", "PARTIAL"} /\ KeepsReceipts(kept)
        /\ Begin(c, NoKey, "save",
                 [po EXCEPT !.qty = qty, !.received = kept, !.rows = @ + 1], NoFact)
    BY <2>1
  <2> HIDE DEF kept
  <2>4. qty \in [Lines -> Nat]
    BY QuantityType
  <2>5. /\ [po EXCEPT !.qty = qty, !.received = kept, !.rows = @ + 1] \in Orders
        /\ GoodTurn(po, [po EXCEPT !.qty = qty, !.received = kept, !.rows = @ + 1])
    BY <1>1, <2>2, <2>3, <2>4, UpdateTurn
  <2> QED
    BY <2>3, <2>5, BeginTurn
<1> QED
  BY <1>2, <1>3, <1>4, <1>5, <1>6, <1>7

\* A request that commits over the very rows it read leaves the order it meant to.
LEMMA FlushedAsMeant ==
  ASSUME TypeOK, NEW c \in Clients, po = req[c].seen, GoodTurn(req[c].seen, req[c].into)
  PROVE  Flushed(c) = req[c].into
<1> DEFINE seen == req[c].seen  into == req[c].into
<1>1. seen \in Orders /\ into \in Orders
  BY DEF TypeOK, Requests
<1>2. [l \in Lines |-> Changed(seen.received[l], into.received[l], po.received[l])] = into.received
  BY <1>1 DEF Changed, Orders
<1>3. Changed(seen.status, into.status, po.status) = into.status
  BY DEF Changed
<1>4. into.rows # seen.rows => into.rows = po.rows + 1
  BY DEF GoodTurn
<1>5. into.rows = seen.rows => into.qty = po.qty /\ into.rows = po.rows
  BY <1>1 DEF GoodTurn, Orders
<1>6. into = [status |-> into.status, version |-> into.version, qty |-> into.qty,
              received |-> into.received, rows |-> into.rows]
  BY <1>1 DEF Orders
<1>7. Flushed(c) = [status |-> into.status, version |-> into.version, qty |-> into.qty,
                    received |-> into.received, rows |-> into.rows]
  <2>1. CASE into.rows # seen.rows
    BY <1>3, <1>4, <2>1 DEF Flushed
  <2>2. CASE into.rows = seen.rows
    BY <1>2, <1>3, <1>5, <2>2 DEF Flushed
  <2> QED
    BY <2>1, <2>2
<1> QED
  BY <1>6, <1>7

\* What a commit does to the order
LEMMA SaveTurn ==
  ASSUME TypeOK, GoodTurns, StatusAgrees, NEW c \in Clients, Save(c),
         req[c].pc \in {"save", "advance"}, ~overwritten'
  PROVE  /\ Agrees(po')
         /\ po.status \in {"CLOSED", "CANCELLED"} => po'.status = po.status
<1>1. po = req[c].seen /\ ~overwritten
  BY DEF Save
<1>2. GoodTurn(req[c].seen, req[c].into)
  BY DEF GoodTurns
<1>3. po' = req[c].into
  BY <1>1, <1>2, FlushedAsMeant DEF Save
<1>4. Agrees(po)
  BY <1>1 DEF StatusAgrees, Agrees
<1> QED
  BY <1>1, <1>2, <1>3, <1>4 DEF GoodTurn

\* Other steps leave the order alone, and requests with what they read and mean.
LEMMA TurnsKept ==
  ASSUME TypeOK, GoodTurns, NEW c \in Clients, NEW r, req' = [req EXCEPT ![c] = r],
         \/ r = Idle \/ r = Served(c)
         \/ /\ req[c].pc \in {"bill", "check"}
            /\ r.seen = req[c].seen /\ r.into = req[c].into
  PROVE  GoodTurns'
<1>1. \A d \in Clients : req'[d] = IF d = c THEN r ELSE req[d]
  BY DEF TypeOK
<1>2. r.pc \in {"save", "bill", "check", "advance"} => GoodTurn(r.seen, r.into)
  BY IdleType, ServedType DEF GoodTurns
<1> QED
  BY <1>1, <1>2 DEF GoodTurns, GoodTurn, Agrees

\* Every step keeps the statuses.
LEMMA NextTurns ==
  TypeOK /\ GoodTurns /\ StatusAgrees /\ [Next]_vars =>
    /\ GoodTurns' /\ StatusAgrees'
    /\ [po.status \in {"CLOSED", "CANCELLED"} /\ ~overwritten' => po'.status = po.status]_vars
<1> SUFFICES ASSUME TypeOK, GoodTurns, StatusAgrees, [Next]_vars
             PROVE  /\ GoodTurns' /\ StatusAgrees'
                    /\ po.status \in {"CLOSED", "CANCELLED"} /\ ~overwritten' => po'.status = po.status
  OBVIOUS
<1>1. CASE UNCHANGED vars
  BY <1>1 DEF vars, GoodTurns, GoodTurn, Agrees, StatusAgrees
<1>2. ASSUME NEW c \in Clients, NEW k,
             \/ Send(c, k) \/ Cancel(c, k) \/ Close(c, k) \/ BeginConvert(c, k)
             \/ Archive(c) \/ Update(c)
      PROVE  GoodTurns' /\ UNCHANGED <<po, overwritten>>
  BY <1>2, BeginTurns DEF Send, Cancel, Close, BeginConvert, Archive, Update, Begin
<1>3. ASSUME NEW c \in Clients,
             \/ ReplayBill(c) \/ MintBill(c) \/ CheckRecorded(c) \/ AdvanceFails(c)
             \/ Answer(c) \/ Crash(c)
      PROVE  GoodTurns' /\ UNCHANGED <<po, overwritten>>
  <2>1. ASSUME NEW b, req[c].pc = "bill", req' = [req EXCEPT ![c].pc = "check", ![c].bill = b]
        PROVE  GoodTurns'
    <3> DEFINE r == [req[c] EXCEPT !.pc = "check", !.bill = b]
    <3>1. req' = [req EXCEPT ![c] = r] /\ r.seen = req[c].seen /\ r.into = req[c].into
      BY <2>1 DEF TypeOK, Requests
    <3> HIDE DEF r
    <3> QED
      BY <2>1, <3>1, TurnsKept
  <2>2. /\ [req[c] EXCEPT !.pc = "advance"].seen = req[c].seen
        /\ [req[c] EXCEPT !.pc = "advance"].into = req[c].into
    BY DEF TypeOK, Requests
  <2>3. CASE ReplayBill(c)
    BY <2>1, <2>3 DEF ReplayBill
  <2>4. CASE MintBill(c)
    BY <2>1, <2>4 DEF MintBill
  <2>5. CASE CheckRecorded(c)
    BY <2>2, <2>5, TurnsKept DEF CheckRecorded
  <2>6. CASE AdvanceFails(c) \/ Answer(c) \/ Crash(c)
    BY <2>6, TurnsKept DEF AdvanceFails, Answer, Crash
  <2> QED
    BY <1>3, <2>3, <2>4, <2>5, <2>6
       DEF ReplayBill, MintBill, CheckRecorded, AdvanceFails, Answer, Crash
<1>4. ASSUME NEW c \in Clients, SaveRequest(c) \/ Advance(c)
      PROVE  /\ GoodTurns'
             /\ ~overwritten' => /\ Agrees(po')
                                 /\ po.status \in {"CLOSED", "CANCELLED"} => po'.status = po.status
  <2>1. Save(c) /\ req[c].pc \in {"save", "advance"} /\ req' = [req EXCEPT ![c] = Served(c)]
    BY <1>4 DEF SaveRequest, Advance
  <2> QED
    BY <2>1, TurnsKept, SaveTurn
<1>5. ASSUME NEW k \in Keys, VersionConflict(k) PROVE GoodTurns' /\ UNCHANGED <<po, overwritten>>
  BY <1>5 DEF VersionConflict, GoodTurns, GoodTurn, Agrees
<1>6. UNCHANGED <<po, overwritten>> => StatusAgrees'
  BY DEF StatusAgrees
<1>7. (~overwritten' => Agrees(po')) => StatusAgrees'
  BY DEF StatusAgrees, Agrees
<1>8. CASE \E c \in Clients, k \in Keys \cup {NoKey} :
              Send(c, k) \/ Cancel(c, k) \/ Close(c, k) \/ BeginConvert(c, k)
  BY <1>2, <1>6, <1>8
<1>9. CASE \E c \in Clients :
              \/ Archive(c) \/ Update(c) \/ SaveRequest(c)
              \/ ReplayBill(c) \/ MintBill(c) \/ CheckRecorded(c) \/ Advance(c)
              \/ AdvanceFails(c) \/ Answer(c) \/ Crash(c)
  <2>1. PICK c \in Clients :
              \/ Archive(c) \/ Update(c) \/ SaveRequest(c)
              \/ ReplayBill(c) \/ MintBill(c) \/ CheckRecorded(c) \/ Advance(c)
              \/ AdvanceFails(c) \/ Answer(c) \/ Crash(c)
    BY <1>9
  <2>2. CASE Archive(c) \/ Update(c)
    BY <1>2, <1>6, <2>2
  <2>3. CASE SaveRequest(c) \/ Advance(c)
    <3>1. /\ GoodTurns'
          /\ ~overwritten' => /\ Agrees(po')
                              /\ po.status \in {"CLOSED", "CANCELLED"} => po'.status = po.status
      BY <1>4, <2>3
    <3>2. StatusAgrees'
      BY <1>7, <3>1
    <3> QED
      BY <3>1, <3>2
  <2> QED
    BY <1>3, <1>6, <2>1, <2>2, <2>3
<1>10. CASE \E k \in Keys : VersionConflict(k)
  BY <1>5, <1>6, <1>10
<1> QED
  BY <1>1, <1>8, <1>9, <1>10 DEF Next

\* The first order agrees, and no request runs.
LEMMA InitTurns == Init => GoodTurns /\ StatusAgrees
<1> QED
  BY IdleType DEF Init, GoodTurns, StatusAgrees, NewOrder

\* While no request commits over rows it had not read, statuses and receipts agree.
THEOREM StatusesAgree == Spec => []StatusAgrees
<1> QED
  BY InitTurns, NextTurns, ConversionTypes, PTL DEF Spec

\* CLOSED and CANCELLED orders stay so, while no request commits over rows it
\* had not read.
THEOREM TerminalStays == Spec => TerminalForever
<1> QED
  BY InitTurns, NextTurns, ConversionTypes, PTL DEF Spec, TerminalForever

-----------------------------------------------------------------------------
(***************************************************************************)
(* Sums over finite sets                                                   *)
(*                                                                         *)
(* MapThenSumSet is a recursion over subsets.  What it returns is shown by *)
(* induction in the form of a smallest counterexample: of a non-empty set  *)
(* of subsets of a finite set, one has no proper subset in it.             *)
(***************************************************************************)

LEMMA Smallest ==
  ASSUME NEW S, IsFiniteSet(S), NEW Bad \in SUBSET (SUBSET S), Bad # {}
  PROVE  \E U \in Bad : \A T \in SUBSET U : T # U => T \notin Bad
<1>1. IsWellFoundedOn(StrictSubsetOrdering(S), SUBSET S)
  <2>1. FiniteSubsetsOf(S) = SUBSET S
    BY FS_FiniteSubsetsOfFinite
  <2>2. IsWellFoundedOn(StrictSubsetOrdering(S), FiniteSubsetsOf(S))
    BY FS_StrictSubsetOrderingWellFounded
  <2> QED
    BY <2>1, <2>2
<1>2. PICK U \in Bad : \A T \in Bad : <<T, U>> \notin StrictSubsetOrdering(S)
  BY <1>1, WFMin
<1>3. ASSUME NEW T \in SUBSET U, T # U, T \in Bad PROVE FALSE
  BY <1>2, <1>3 DEF StrictSubsetOrdering
<1> QED
  BY <1>3

\* The element a sum takes next
Some(s) == CHOOSE x \in s : TRUE

LEMMA SomeIn == ASSUME NEW s, s # {} PROVE Some(s) \in s
BY DEF Some

\* g sums up f over the subsets of S.
IsSum(g, f, S) ==
  g = [s \in SUBSET S |-> IF s = {} THEN 0 ELSE f[Some(s)] + g[s \ {Some(s)}]]

LEMMA SumEmpty ==
  ASSUME NEW S, NEW f, NEW g, IsSum(g, f, S)
  PROVE  g[{}] = 0
BY DEF IsSum

LEMMA SumStep ==
  ASSUME NEW S, NEW f, NEW g, IsSum(g, f, S), NEW U \in SUBSET S, U # {}
  PROVE  g[U] = f[Some(U)] + g[U \ {Some(U)}]
BY DEF IsSum

\* A sum of integers is an integer.
LEMMA SumType ==
  ASSUME NEW S, IsFiniteSet(S), NEW f, \A x \in S : f[x] \in Int, NEW g, IsSum(g, f, S),
         NEW T \in SUBSET S
  PROVE  g[T] \in Int
<1>2. g[{}] = 0
  BY SumEmpty
<1>3. \A U \in SUBSET S : U # {} => g[U] = f[Some(U)] + g[U \ {Some(U)}]
  BY DEF IsSum
<1> DEFINE Bad == {U \in SUBSET S : g[U] \notin Int}
<1>1. ASSUME Bad # {} PROVE FALSE
  <2> Bad \in SUBSET (SUBSET S)
    OBVIOUS
  <2>1. PICK U \in Bad : \A V \in SUBSET U : V # U => V \notin Bad
    <3> HIDE DEF Bad
    <3> QED
      BY <1>1, Smallest
  <2> U \in SUBSET S
    BY <2>1
  <2>2. U # {}
    <3>1. g[U] \notin Int
      BY <2>1
    <3>2. 0 \in Int
      OBVIOUS
    <3> QED
      BY <1>2, <3>1, <3>2
  <2> DEFINE x == Some(U)
  <2>3. x \in U
    BY <2>2, SomeIn
  <2>6. g[U] = f[x] + g[U \ {x}]
    BY <1>3, <2>2
  <2> HIDE DEF x
  <2>4. U \ {x} \in SUBSET U /\ U \ {x} # U
    BY <2>3
  <2>5. g[U \ {x}] \in Int
    BY <2>1, <2>4
  <2> QED
    BY <2>1, <2>3, <2>5, <2>6
<1> QED
  BY <1>1

\* Sums of functions that agree are equal.
LEMMA SumAgree ==
  ASSUME NEW S, IsFiniteSet(S), NEW f, NEW g, IsSum(g, f, S),
         NEW R, S \subseteq R, NEW k, NEW h, IsSum(h, k, R),
         \A x \in S : f[x] = k[x]
  PROVE  g[S] = h[S]
<1>3. \A U \in SUBSET S : U # {} => g[U] = f[Some(U)] + g[U \ {Some(U)}]
  BY DEF IsSum
<1>4. \A U \in SUBSET R : U # {} => h[U] = k[Some(U)] + h[U \ {Some(U)}]
  BY DEF IsSum
<1>2. g[{}] = 0 /\ h[{}] = 0
  <2>1. g[{}] = 0
    BY SumEmpty
  <2>2. h[{}] = 0
    BY SumEmpty
  <2> QED
    BY <2>1, <2>2
<1> DEFINE Bad == {U \in SUBSET S : g[U] # h[U]}
<1>1. ASSUME Bad # {} PROVE FALSE
  <2> Bad \in SUBSET (SUBSET S)
    OBVIOUS
  <2>1. PICK U \in Bad : \A V \in SUBSET U : V # U => V \notin Bad
    <3> HIDE DEF Bad
    <3> QED
      BY <1>1, Smallest
  <2> U \in SUBSET S
    BY <2>1
  <2>2. U # {}
    BY <1>2, <2>1
  <2> DEFINE x == Some(U)
  <2>3. x \in U
    BY <2>2, SomeIn
  <2>4. g[U] = f[x] + g[U \ {x}]
    BY <2>2, SumStep
  <2>7. h[U] = k[x] + h[U \ {x}]
    <3>1. U \in SUBSET R
      OBVIOUS
    <3> QED
      BY <1>4, <2>2, <3>1
  <2> HIDE DEF x
  <2>5. U \ {x} \in SUBSET U /\ U \ {x} # U
    BY <2>3
  <2>6. g[U \ {x}] = h[U \ {x}]
    BY <2>1, <2>5
  <2> QED
    BY <2>1, <2>3, <2>4, <2>6, <2>7
<1> QED
  BY <1>1

\* Whatever is taken first, the sum is the same.
LEMMA SumSplit ==
  ASSUME NEW S, IsFiniteSet(S), NEW f, \A x \in S : f[x] \in Int, NEW g, IsSum(g, f, S),
         NEW T \in SUBSET S, NEW y \in T
  PROVE  g[T] = f[y] + g[T \ {y}]
<1>2. \A U \in SUBSET S : U # {} => g[U] = f[Some(U)] + g[U \ {Some(U)}]
  BY DEF IsSum
<1> DEFINE Bad == {U \in SUBSET S : \E z \in U : g[U] # f[z] + g[U \ {z}]}
<1>1. ASSUME Bad # {} PROVE FALSE
  <2> Bad \in SUBSET (SUBSET S)
    OBVIOUS
  <2>1. PICK U \in Bad : \A V \in SUBSET U : V # U => V \notin Bad
    <3> HIDE DEF Bad
    <3> QED
      BY <1>1, Smallest
  <2> U \in SUBSET S
    BY <2>1
  <2>2. PICK z \in U : g[U] # f[z] + g[U \ {z}]
    BY <2>1
  <2> DEFINE x == Some(U)
  <2>3. x \in U
    BY <2>2, SomeIn
  <2>4. g[U] = f[x] + g[U \ {x}]
    BY <1>2, <2>2
  <2> HIDE DEF x
  <2>5. x # z
    BY <2>2, <2>4
  <2>6. \A w \in U : U \ {w} \in SUBSET U /\ U \ {w} # U /\ U \ {w} \in SUBSET S
    BY <2>1
  <2>7. \A w \in U : U \ {w} \notin Bad
    BY <2>1, <2>6
  <2>8. \A w \in U, v \in U : v # w => g[U \ {w}] = f[v] + g[(U \ {w}) \ {v}]
    BY <2>6, <2>7
  <2>9. g[U \ {x}] = f[z] + g[(U \ {x}) \ {z}]
    BY <2>3, <2>5, <2>8
  <2>10. g[U \ {z}] = f[x] + g[(U \ {z}) \ {x}]
    BY <2>3, <2>5, <2>8
  <2>11. (U \ {x}) \ {z} = (U \ {z}) \ {x}
    OBVIOUS
  <2> DEFINE rest == g[(U \ {x}) \ {z}]
  <2>12. rest \in Int
    <3>1. (U \ {x}) \ {z} \in SUBSET S
      BY <2>1
    <3> QED
      BY <3>1, SumType
  <2>13. f[x] \in Int /\ f[z] \in Int
    BY <2>1, <2>3
  <2>14. g[U] = f[x] + (f[z] + rest) /\ f[z] + g[U \ {z}] = f[z] + (f[x] + rest)
    BY <2>4, <2>9, <2>10, <2>11
  <2> HIDE DEF rest
  <2> QED
    BY <2>2, <2>12, <2>13, <2>14
<1> QED
  BY <1>1

\* Every function on a finite set has its sums.
LEMMA SumExists ==
  ASSUME NEW S, IsFiniteSet(S), NEW f
  PROVE  \E g : IsSum(g, f, S)
<1> DEFINE Bad == {U \in SUBSET S : ~ \E g : IsSum(g, f, U)}
<1>1. ASSUME Bad # {} PROVE FALSE
  <2> Bad \in SUBSET (SUBSET S)
    OBVIOUS
  <2>1. PICK U \in Bad : \A V \in SUBSET U : V # U => V \notin Bad
    <3> HIDE DEF Bad
    <3> QED
      BY <1>1, Smallest
  <2> U \in SUBSET S
    BY <2>1
  <2> DEFINE G(V) == CHOOSE g : IsSum(g, f, V)
  <2>2. \A V \in SUBSET U : V # U => IsSum(G(V), f, V)
    BY <2>1
  <2> DEFINE val(V) == G(V)[V]
             sum == [V \in SUBSET U |->
                       IF V = {} THEN 0 ELSE f[Some(V)] + val(V \ {Some(V)})]
  <2>3. ASSUME NEW V \in SUBSET U, V # U
        PROVE  sum[V] = val(V)
    <3>1. IsSum(G(V), f, V)
      BY <2>2, <2>3
    <3>2. CASE V = {}
      <4>1. G(V)[{}] = 0
        BY <3>1, SumEmpty
      <4> QED
        BY <3>2, <4>1
    <3>3. CASE V # {}
      <4> DEFINE x == Some(V)
                 W == V \ {x}
      <4>1. x \in V
        BY <3>3, SomeIn
      <4>2. W \in SUBSET U /\ W # U /\ W \in SUBSET V
        BY <2>3, <4>1
      <4>3. IsSum(G(W), f, W) /\ IsFiniteSet(W)
        BY <2>1, <2>2, <4>2, FS_Subset
      <4>4. G(V)[V] = f[x] + G(V)[W]
        <5> HIDE DEF G
        <5> QED
          BY <3>1, <3>3, SumStep
      <4>5. G(W)[W] = G(V)[W]
        <5> HIDE DEF G, W
        <5> QED
          BY <3>1, <4>2, <4>3, SumAgree
      <4> HIDE DEF G
      <4> QED
        BY <3>3, <4>4, <4>5
    <3> QED
      BY <3>2, <3>3
  <2>4. IsSum(sum, f, U)
    <3> HIDE DEF val
    <3>1. ASSUME NEW V \in SUBSET U, V # {}
          PROVE  sum[V] = f[Some(V)] + sum[V \ {Some(V)}]
      <4>1. Some(V) \in V
        BY <3>1, SomeIn
      <4>2. V \ {Some(V)} \in SUBSET U /\ V \ {Some(V)} # U
        BY <4>1
      <4> QED
        BY <2>3, <3>1, <4>2
    <3> DEFINE right == [V \in SUBSET U |-> IF V = {} THEN 0 ELSE f[Some(V)] + sum[V \ {Some(V)}]]
    <3>2. sum = right
      <4>1. \A V \in SUBSET U : sum[V] = right[V]
        BY <3>1
      <4> QED
        BY <4>1
    <3> QED
      BY <3>2 DEF IsSum
  <2> QED
    BY <2>1, <2>4
<1> QED
  BY <1>1

-----------------------------------------------------------------------------
\* Billed, of any sequence of bills
Total(bs, set, l) == MapThenSumSet(LAMBDA b : bs[b].fact.billed[l], set)

\* What each bill of a set adds to a line
Amounts(bs, set, l) == [b \in set |-> bs[b].fact.billed[l]]

\* A total sums the amounts.
LEMMA TotalSums ==
  ASSUME NEW bs, NEW set, IsFiniteSet(set), NEW l
  PROVE  \E g : IsSum(g, Amounts(bs, set, l), set) /\ Total(bs, set, l) = g[set]
<1> DEFINE f == Amounts(bs, set, l)
           Sums(g) == g = [s \in SUBSET set |->
                             IF s = {} THEN 0
                             ELSE bs[CHOOSE x \in s : TRUE].fact.billed[l]
                                  + g[s \ {CHOOSE x \in s : TRUE}]]
<1>1. Total(bs, set, l) = (CHOOSE g : Sums(g))[set]
  BY DEF Total, MapThenSumSet, MapThenFoldSet
<1>2. \A s \in SUBSET set : s # {} => f[Some(s)] = bs[Some(s)].fact.billed[l]
  BY SomeIn DEF Amounts
<1>3. \A g : IsSum(g, f, set) <=> Sums(g)
  <2>1. ASSUME NEW g PROVE IsSum(g, f, set) <=> Sums(g)
    <3> HIDE DEF f
    <3>1. [s \in SUBSET set |-> IF s = {} THEN 0 ELSE f[Some(s)] + g[s \ {Some(s)}]]
          = [s \in SUBSET set |-> IF s = {} THEN 0
                                  ELSE bs[Some(s)].fact.billed[l] + g[s \ {Some(s)}]]
      BY <1>2
    <3> QED
      BY <3>1 DEF IsSum, Some
  <2> QED
    BY <2>1
<1> HIDE DEF Sums, f
<1>4. \E g : IsSum(g, f, set)
  BY SumExists
<1>5. IsSum(CHOOSE g : Sums(g), f, set)
  BY <1>3, <1>4
<1> QED
  BY <1>1, <1>5 DEF f

\* No bills, no amount.
LEMMA TotalNone == ASSUME NEW bs, NEW l PROVE Total(bs, {}, l) = 0
<1>1. PICK g : IsSum(g, Amounts(bs, {}, l), {}) /\ Total(bs, {}, l) = g[{}]
  BY TotalSums, FS_EmptySet
<1>2. g[{}] = 0
  BY <1>1, SumEmpty
<1> QED
  BY <1>1, <1>2

\* One bill more adds its amount.
LEMMA TotalMore ==
  ASSUME NEW bs, NEW set, IsFiniteSet(set), NEW l, NEW b, b \notin set,
         \A i \in set \cup {b} : bs[i].fact.billed[l] \in Int
  PROVE  Total(bs, set \cup {b}, l) = Total(bs, set, l) + bs[b].fact.billed[l]
<1> DEFINE all == set \cup {b}
           f == Amounts(bs, all, l)
           e == Amounts(bs, set, l)
<1>1. IsFiniteSet(all)
  BY FS_AddElement
<1>2. \A i \in all : f[i] = bs[i].fact.billed[l] /\ f[i] \in Int
  BY DEF Amounts
<1>6. b \in all /\ all \ {b} = set /\ set \subseteq all
  OBVIOUS
<1>10. \A i \in set : e[i] = f[i]
  BY DEF Amounts
<1> HIDE DEF f, all, e
<1>3. PICK g : IsSum(g, f, all) /\ Total(bs, all, l) = g[all]
  BY <1>1, TotalSums DEF f
<1>4. PICK h : IsSum(h, e, set) /\ Total(bs, set, l) = h[set]
  BY TotalSums DEF e
<1>5. g[all] = f[b] + g[set]
  <2>1. g[all] = f[b] + g[all \ {b}]
    BY <1>1, <1>2, <1>3, <1>6, SumSplit
  <2> QED
    BY <1>6, <2>1
<1>7. h[set] = g[set]
  BY <1>3, <1>4, <1>6, <1>10, SumAgree
<1>8. g[set] \in Int
  BY <1>1, <1>2, <1>3, <1>6, SumType
<1>9. f[b] = bs[b].fact.billed[l] /\ f[b] \in Int
  BY <1>2, <1>6
<1> QED
  BY <1>3, <1>4, <1>5, <1>7, <1>8, <1>9 DEF all

\* Only the amounts of the set matter.
LEMMA TotalAgree ==
  ASSUME NEW bs, NEW cs, NEW set, IsFiniteSet(set), NEW l,
         \A b \in set : bs[b] = cs[b]
  PROVE  Total(bs, set, l) = Total(cs, set, l)
<1>1. Amounts(bs, set, l) = Amounts(cs, set, l)
  BY DEF Amounts
<1>2. PICK g : IsSum(g, Amounts(bs, set, l), set) /\ Total(bs, set, l) = g[set]
  BY TotalSums
<1>3. PICK h : IsSum(h, Amounts(cs, set, l), set) /\ Total(cs, set, l) = h[set]
  BY TotalSums
<1>4. g[set] = h[set]
  BY <1>1, <1>2, <1>3, SumAgree
<1> QED
  BY <1>2, <1>3, <1>4

\* Each bill but the one now recorded is as it was, and so is the total of the others.
LEMMA BilledTotal == \A set, l : Billed(set, l) = Total(bills, set, l)
BY DEF Billed, Total

LEMMA BilledNext == \A l : Billed(recorded, l)' = Total(bills', recorded', l)
BY DEF Billed, Total, MapThenSumSet, MapThenFoldSet

-----------------------------------------------------------------------------
(***************************************************************************)
(* Receipts: what the bills in the change_log say has been received        *)
(*                                                                         *)
(* A receipt is not recorded twice because receipts only grow: a bill that *)
(* is recorded starts from less than the order has received since, and a   *)
(* conversion that read the order as it is starts from what it has.        *)
(***************************************************************************)

\* A receipt has some units.
SomeUnits ==
  /\ \A b \in DOMAIN bills : bills[b].fact.billed # Zero
  /\ \A c \in Clients : req[c].pc = "bill" => req[c].fact.billed # Zero

\* A request of one transaction receives nothing and loses nothing.
SavesKeep ==
  ~overwritten => \A c \in Clients :
    req[c].pc = "save" => req[c].into.received = req[c].seen.received

\* The order has received at least what each recorded bill brought it to.
Behind ==
  ~overwritten => \A b \in recorded, l \in Lines :
    po.received[l] >= bills[b].fact.before[l] + bills[b].fact.billed[l]

\* What holds of the receipts
RInv == SomeUnits /\ SavesKeep /\ Behind /\ ReceivedIsRecorded

\* The facts of bills are numbers of units for each line.
LEMMA BillFacts ==
  ASSUME TypeOK
  PROVE  /\ \A b \in DOMAIN bills : bills[b].fact.before \in [Lines -> Nat]
                                    /\ bills[b].fact.billed \in [Lines -> Nat]
         /\ recorded \subseteq DOMAIN bills /\ IsFiniteSet(recorded)
         /\ po.received \in [Lines -> Nat]
<1>1. \A b \in DOMAIN bills : bills[b] \in Bills
  BY DEF TypeOK
<1>2. recorded \subseteq 1..Len(bills) /\ Len(bills) \in Nat
  BY DEF TypeOK
<1>3. IsFiniteSet(recorded)
  <2>1. IsFiniteSet(1..Len(bills))
    BY <1>2, FS_Interval
  <2> QED
    BY <1>2, <2>1, FS_Subset
<1> QED
  BY <1>1, <1>3 DEF Bills, Facts, TypeOK, Orders

\* Bills that are not recorded change no sum.
LEMMA ReceiptsKept ==
  ASSUME TypeOK, RInv, UNCHANGED <<po, overwritten, recorded>>,
         \A b \in DOMAIN bills : bills'[b] = bills[b]
  PROVE  Behind' /\ ReceivedIsRecorded'
<1>1. \A b \in recorded : bills'[b] = bills[b]
  BY BillFacts
<1>2. Behind'
  BY <1>1 DEF RInv, Behind
<1>3. \A l \in Lines : Billed(recorded, l)' = Billed(recorded, l)
  <2> SUFFICES ASSUME NEW l \in Lines PROVE Billed(recorded, l)' = Billed(recorded, l)
    OBVIOUS
  <2>1. Billed(recorded, l)' = Total(bills', recorded, l)
    BY BilledNext
  <2>2. Total(bills', recorded, l) = Total(bills, recorded, l)
    BY <1>1, BillFacts, TotalAgree
  <2> QED
    BY <2>1, <2>2, BilledTotal
<1>4. ReceivedIsRecorded'
  BY <1>3 DEF RInv, ReceivedIsRecorded
<1> QED
  BY <1>2, <1>4

\* A request that begins to receive nothing, or some units
LEMMA BeginReceipts ==
  ASSUME TypeOK, RInv, NEW c \in Clients, NEW k, NEW pc, NEW into \in Orders, NEW fact,
         Begin(c, k, pc, into, fact),
         pc = "bill" => fact.billed # Zero,
         pc = "save" /\ ~overwritten => into.received = po.received
  PROVE  RInv'
<1> DEFINE r == [pc |-> pc, by |-> k, seen |-> po, fact |-> fact, bill |-> 0,
                 into |-> [into EXCEPT !.version = po.version + 1]]
<1>1. r.pc = pc /\ r.fact = fact /\ r.seen = po /\ r.into.received = into.received
  BY DEF Orders
<1>2. /\ \A d \in Clients : req'[d] = IF d = c THEN r ELSE req[d]
      /\ UNCHANGED <<po, bills, recorded, keys, overwritten>>
  BY DEF Begin, TypeOK
<1> HIDE DEF r
<1>3. SomeUnits' /\ SavesKeep'
  BY <1>1, <1>2 DEF RInv, SomeUnits, SavesKeep, Zero
<1>4. Behind' /\ ReceivedIsRecorded'
  BY <1>2, ReceiptsKept
<1> QED
  BY <1>3, <1>4 DEF RInv

\* Every request begins so.
LEMMA BeginsReceipts ==
  ASSUME TypeOK, StatusAgrees, RInv, NEW c \in Clients, NEW k,
         \/ Send(c, k) \/ Cancel(c, k) \/ Close(c, k) \/ BeginConvert(c, k)
         \/ Archive(c) \/ Update(c)
  PROVE  RInv'
<1>1. po \in Orders /\ {"OPEN", "CANCELLED", "CLOSED"} \subseteq Statuses
  BY DEF TypeOK, Statuses
<1>2. \A status \in Statuses : /\ [po EXCEPT !.status = status] \in Orders
                               /\ [po EXCEPT !.status = status].received = po.received
  BY <1>1 DEF Orders
<1>3. CASE Send(c, k)
  BY <1>1, <1>2, <1>3, BeginReceipts DEF Send
<1>4. CASE Cancel(c, k)
  BY <1>1, <1>2, <1>4, BeginReceipts DEF Cancel
<1>5. CASE Close(c, k)
  BY <1>1, <1>2, <1>5, BeginReceipts DEF Close
<1>6. CASE Archive(c)
  BY <1>1, <1>6, BeginReceipts DEF Archive
<1>7. CASE BeginConvert(c, k)
  <2>1. PICK billed \in Batches, spelt \in Spellings :
          Begin(c, k, "bill", Receive(billed),
                [before |-> po.received, billed |-> billed, spelt |-> spelt])
    BY <1>7 DEF BeginConvert
  <2>2. Receive(billed) \in Orders /\ billed # Zero
    BY <1>1, BatchType, ReceiveType DEF Batches
  <2> QED
    BY <2>1, <2>2, BeginReceipts
<1>8. CASE Update(c)
  <2>1. PICK qty \in Quantities, sent \in SUBSET Lines :
          LET kept == [l \in Lines |-> IF l \in sent THEN po.received[l] ELSE 0] IN
          /\ po.status \in {"DRAFT", "OPEN", "PARTIAL"}
          /\ KeepsReceipts(kept)
          /\ Begin(c, NoKey, "save",
                   [po EXCEPT !.qty = qty, !.received = kept, !.rows = @ + 1], NoFact)
    BY <1>8 DEF Update
  <2> DEFINE kept == [l \in Lines |-> IF l \in sent THEN po.received[l] ELSE 0]
             into == [po EXCEPT !.qty = qty, !.received = kept, !.rows = @ + 1]
  <2>2. kept \in [Lines -> Nat] /\ \A l \in Lines : kept[l] \in {0, po.received[l]}
    BY <1>1 DEF Orders
  <2>3. /\ po.status \in {"DRAFT", "OPEN", "PARTIAL"} /\ KeepsReceipts(kept)
        /\ Begin(c, NoKey, "save", into, NoFact)
    BY <2>1
  <2> HIDE DEF kept
  <2>4. qty \in [Lines -> Nat] /\ po.rows + 1 \in Nat
    BY <1>1, QuantityType DEF Orders
  <2>5. into \in Orders /\ into.received = kept
    BY <1>1, <2>2, <2>4 DEF Orders
  <2>6. ~overwritten => kept = po.received
    <3>1. ASSUME ~overwritten, NEW l \in Lines PROVE kept[l] = po.received[l]
      <4>1. po.received[l] \in Nat
        BY <1>1 DEF Orders
      <4>2. po.status = "DRAFT" => po.received[l] = 0
        BY <3>1 DEF StatusAgrees, Zero
      <4> QED
        BY <2>2, <2>3, <4>1, <4>2 DEF KeepsReceipts
    <3> QED
      BY <1>1, <2>2, <3>1 DEF Orders
  <2> HIDE DEF into
  <2> QED
    BY <2>3, <2>5, <2>6, BeginReceipts
<1> QED
  BY <1>3, <1>4, <1>5, <1>6, <1>7, <1>8

\* A request goes on, or ends, without a commit that the order feels.
LEMMA GoesOnReceipts ==
  ASSUME TypeOK, RInv, NEW c \in Clients, NEW r, req' = [req EXCEPT ![c] = r],
         r.pc \notin {"save", "bill"}, UNCHANGED <<po, overwritten, recorded>>,
         DOMAIN bills \subseteq DOMAIN bills',
         \A b \in DOMAIN bills : bills'[b] = bills[b],
         \A b \in DOMAIN bills' \ DOMAIN bills : bills'[b].fact.billed # Zero
  PROVE  RInv'
<1>1. \A d \in Clients : req'[d] = IF d = c THEN r ELSE req[d]
  BY DEF TypeOK
<1>2. SomeUnits' /\ SavesKeep'
  BY <1>1 DEF RInv, SomeUnits, SavesKeep, Zero
<1>3. Behind' /\ ReceivedIsRecorded'
  BY ReceiptsKept
<1> QED
  BY <1>2, <1>3 DEF RInv

\* What a commit over the rows that the request read leaves
LEMMA CommitReceipts ==
  ASSUME TypeOK, GoodTurns, RInv, NEW c \in Clients, Save(c),
         req[c].pc \in {"save", "advance"}, req' = [req EXCEPT ![c] = Served(c)], bills' = bills
  PROVE  /\ SomeUnits' /\ SavesKeep'
         /\ ~overwritten' => ~overwritten /\ po = req[c].seen /\ po' = req[c].into
<1>1. \A d \in Clients : req'[d] = IF d = c THEN Served(c) ELSE req[d]
  BY DEF TypeOK
<1>2. overwritten' = (overwritten \/ po # req[c].seen) /\ po' = Flushed(c)
  BY DEF Save
<1>3. Served(c).pc \notin {"save", "bill"}
  BY ServedType
<1>4. SomeUnits' /\ SavesKeep'
  <2>1. ~overwritten' => ~overwritten
    BY <1>2
  <2> QED
    BY <1>1, <1>3, <2>1 DEF RInv, SomeUnits, SavesKeep, Zero
<1>5. GoodTurn(req[c].seen, req[c].into)
  BY DEF GoodTurns
<1> QED
  BY <1>2, <1>4, <1>5, FlushedAsMeant

\* A commit of one transaction leaves the receipts alone.
LEMMA SaveReceipts ==
  ASSUME TypeOK, GoodTurns, RInv, NEW c \in Clients, SaveRequest(c) PROVE RInv'
<1>1. /\ Save(c) /\ req[c].pc = "save" /\ req' = [req EXCEPT ![c] = Served(c)]
      /\ bills' = bills /\ recorded' = recorded
  BY DEF SaveRequest
<1>2. /\ SomeUnits' /\ SavesKeep'
      /\ ~overwritten' => ~overwritten /\ po = req[c].seen /\ po' = req[c].into
  BY <1>1, CommitReceipts
<1>3. ~overwritten' => po'.received = po.received
  BY <1>1, <1>2 DEF RInv, SavesKeep
<1>4. Behind'
  BY <1>1, <1>2, <1>3 DEF RInv, Behind
<1>5. \A l : Billed(recorded, l)' = Billed(recorded, l)
  BY <1>1, BilledNext, BilledTotal
<1>6. ReceivedIsRecorded'
  BY <1>2, <1>3, <1>5 DEF RInv, ReceivedIsRecorded
<1> QED
  BY <1>2, <1>4, <1>6 DEF RInv

\* A conversion that commits over the order it read records a new bill, and
\* the order receives what the bill bills.
LEMMA AdvanceReceipts ==
  ASSUME IInv, GoodTurns, RInv, NEW c \in Clients, Advance(c) PROVE RInv'
<1> DEFINE b == req[c].bill
<1>1. /\ Save(c) /\ req[c].pc = "advance" /\ req' = [req EXCEPT ![c] = Served(c)]
      /\ bills' = bills /\ recorded' = recorded \cup {b} /\ TypeOK
  BY DEF Advance, Logged, IInv
<1>2. /\ SomeUnits' /\ SavesKeep'
      /\ ~overwritten' => ~overwritten /\ po = req[c].seen /\ po' = req[c].into
  BY <1>1, CommitReceipts
<1>3. /\ b \in DOMAIN bills /\ bills[b].fact = req[c].fact
      /\ req[c].fact.before = req[c].seen.received
      /\ \A l \in Lines : req[c].fact.billed[l] = req[c].into.received[l] - req[c].seen.received[l]
  BY <1>1 DEF IInv, ConvertsOK, OwnFact
<1> HIDE DEF b
<1>4. /\ bills[b].fact.before \in [Lines -> Nat] /\ bills[b].fact.billed \in [Lines -> Nat]
      /\ po.received \in [Lines -> Nat] /\ req[c].into.received \in [Lines -> Nat]
  BY <1>1, <1>3, BillFacts DEF TypeOK, Requests, Orders
<1>5. ASSUME ~overwritten', NEW l \in Lines
      PROVE  /\ bills[b].fact.before[l] = po.received[l]
             /\ po'.received[l] = po.received[l] + bills[b].fact.billed[l]
  BY <1>2, <1>3, <1>4, <1>5
<1>6. ~overwritten' => b \notin recorded
  <2> SUFFICES ASSUME ~overwritten', b \in recorded PROVE FALSE
    OBVIOUS
  <2>1. ASSUME NEW l \in Lines PROVE bills[b].fact.billed[l] = 0
    <3>1. po.received[l] >= bills[b].fact.before[l] + bills[b].fact.billed[l]
      BY <1>2 DEF RInv, Behind
    <3>2. bills[b].fact.before[l] = po.received[l]
      BY <1>5
    <3> QED
      BY <1>4, <3>1, <3>2
  <2>2. bills[b].fact.billed = Zero
    BY <1>4, <2>1 DEF Zero
  <2> QED
    BY <1>3, <2>2 DEF RInv, SomeUnits
<1>7. Behind'
  <2> SUFFICES ASSUME ~overwritten', NEW i \in recorded \cup {b}, NEW l \in Lines
               PROVE  po'.received[l] >= bills[i].fact.before[l] + bills[i].fact.billed[l]
    BY <1>1 DEF Behind
  <2>1. /\ bills[b].fact.before[l] = po.received[l]
        /\ po'.received[l] = po.received[l] + bills[b].fact.billed[l]
    BY <1>5
  <2>2. po.received[l] \in Nat /\ bills[b].fact.billed[l] \in Nat
    BY <1>4
  <2>3. CASE i = b
    BY <2>1, <2>2, <2>3
  <2>4. CASE i \in recorded
    <3>1. po.received[l] >= bills[i].fact.before[l] + bills[i].fact.billed[l]
      BY <1>2, <2>4 DEF RInv, Behind
    <3>2. bills[i].fact.before[l] \in Nat /\ bills[i].fact.billed[l] \in Nat
      BY <1>1, <2>4, BillFacts
    <3> QED
      BY <2>1, <2>2, <3>1, <3>2
  <2> QED
    BY <2>3, <2>4
<1>8. ReceivedIsRecorded'
  <2> SUFFICES ASSUME ~overwritten', NEW l \in Lines
               PROVE  po'.received[l] = Billed(recorded, l)'
    BY DEF ReceivedIsRecorded
  <2>1. po.received[l] = Total(bills, recorded, l)
    BY <1>2, BilledTotal DEF RInv, ReceivedIsRecorded
  <2>2. Billed(recorded, l)' = Total(bills, recorded \cup {b}, l)
    BY <1>1, BilledNext
  <2>3. \A i \in recorded \cup {b} : bills[i].fact.billed[l] \in Int
    BY <1>1, <1>3, BillFacts
  <2>4. Total(bills, recorded \cup {b}, l) = Total(bills, recorded, l) + bills[b].fact.billed[l]
    <3>1. IsFiniteSet(recorded) /\ b \notin recorded
      BY <1>1, <1>6, BillFacts
    <3> QED
      BY <2>3, <3>1, TotalMore, ZenonT(60)
  <2>5. po'.received[l] = po.received[l] + bills[b].fact.billed[l]
    BY <1>5
  <2> QED
    BY <2>1, <2>2, <2>4, <2>5
<1> QED
  BY <1>2, <1>7, <1>8 DEF RInv

\* No step loses a receipt or records one twice.
LEMMA NextReceipts ==
  ASSUME IInv, GoodTurns, StatusAgrees, RInv, [Next]_vars PROVE RInv'
<1>0. TypeOK
  BY DEF IInv
<1>1. CASE UNCHANGED vars
  <2>1. UNCHANGED <<po, overwritten, recorded, bills, req>>
    BY <1>1 DEF vars
  <2>2. SomeUnits' /\ SavesKeep'
    BY <2>1 DEF RInv, SomeUnits, SavesKeep, Zero
  <2> QED
    BY <1>0, <2>1, <2>2, ReceiptsKept DEF RInv
<1>2. ASSUME NEW c \in Clients, NEW k,
             \/ Send(c, k) \/ Cancel(c, k) \/ Close(c, k) \/ BeginConvert(c, k)
             \/ Archive(c) \/ Update(c)
      PROVE  RInv'
  BY <1>0, <1>2, BeginsReceipts
<1>3. ASSUME NEW c \in Clients, ReplayBill(c) PROVE RInv'
  <2>1. PICK b \in BillsOf(req[c].fact) : req' = [req EXCEPT ![c].pc = "check", ![c].bill = b]
    BY <1>3 DEF ReplayBill
  <2> DEFINE r == [req[c] EXCEPT !.pc = "check", !.bill = b]
  <2>2. req' = [req EXCEPT ![c] = r] /\ r.pc = "check"
    BY <1>0, <2>1 DEF TypeOK, Requests
  <2> HIDE DEF r
  <2> QED
    BY <1>0, <1>3, <2>2, GoesOnReceipts DEF ReplayBill
<1>4. ASSUME NEW c \in Clients, MintBill(c) PROVE RInv'
  <2> DEFINE bill == [key |-> ConvertKey(req[c].fact), fact |-> req[c].fact, by |-> req[c].by]
             r == [req[c] EXCEPT !.pc = "check", !.bill = Len(bills) + 1]
  <2>1. /\ req' = [req EXCEPT ![c] = r] /\ r.pc = "check" /\ req[c].pc = "bill"
        /\ bills' = Append(bills, bill) /\ UNCHANGED <<po, overwritten, recorded>>
    BY <1>0, <1>4 DEF MintBill, TypeOK, Requests
  <2>2. bill \in Bills /\ bill.fact = req[c].fact
    BY <1>0 DEF TypeOK, Requests, Bills, ConvertKey
  <2> HIDE DEF bill, r
  <2>3. /\ DOMAIN bills' = DOMAIN bills \cup {Len(bills) + 1}
        /\ \A b \in DOMAIN bills : bills'[b] = bills[b]
        /\ bills'[Len(bills) + 1] = bill
    BY <1>0, <2>1, <2>2, Minted
  <2>4. bill.fact.billed # Zero
    BY <2>1, <2>2 DEF RInv, SomeUnits
  <2> QED
    BY <1>0, <2>1, <2>3, <2>4, GoesOnReceipts
<1>5. ASSUME NEW c \in Clients, CheckRecorded(c) PROVE RInv'
  <2> DEFINE r == IF req[c].bill \in recorded THEN Served(c)
                  ELSE [req[c] EXCEPT !.pc = "advance"]
  <2>1. req' = [req EXCEPT ![c] = r] /\ UNCHANGED <<po, bills, overwritten, recorded>>
    BY <1>5 DEF CheckRecorded
  <2>2. r.pc \notin {"save", "bill"}
    BY <1>0, ServedType DEF TypeOK, Requests
  <2> HIDE DEF r
  <2> QED
    BY <1>0, <2>1, <2>2, GoesOnReceipts
<1>6. ASSUME NEW c \in Clients, AdvanceFails(c) \/ Answer(c) \/ Crash(c) PROVE RInv'
  <2>1. req' = [req EXCEPT ![c] = Idle] /\ UNCHANGED <<po, bills, overwritten, recorded>>
    BY <1>6 DEF AdvanceFails, Answer, Crash
  <2>2. Idle.pc \notin {"save", "bill"}
    BY IdleType
  <2> QED
    BY <1>0, <2>1, <2>2, GoesOnReceipts
<1>7. ASSUME NEW c \in Clients, SaveRequest(c) \/ Advance(c) PROVE RInv'
  BY <1>0, <1>7, SaveReceipts, AdvanceReceipts
<1>8. ASSUME NEW k \in Keys, VersionConflict(k) PROVE RInv'
  <2>1. UNCHANGED <<po, overwritten, recorded, bills, req>>
    BY <1>8 DEF VersionConflict
  <2>2. SomeUnits' /\ SavesKeep'
    BY <2>1 DEF RInv, SomeUnits, SavesKeep, Zero
  <2> QED
    BY <1>0, <2>1, <2>2, ReceiptsKept DEF RInv
<1> QED
  BY <1>1, <1>2, <1>3, <1>4, <1>5, <1>6, <1>7, <1>8 DEF Next

\* At first nothing is received and nothing recorded.
LEMMA InitReceipts == Init => RInv
<1> SUFFICES ASSUME Init PROVE RInv
  OBVIOUS
<1>1. SomeUnits /\ SavesKeep /\ Behind
  BY IdleType DEF Init, SomeUnits, SavesKeep, Behind
<1>2. \A l \in Lines : Billed(recorded, l) = 0
  BY BilledTotal, TotalNone DEF Init
<1>3. \A l \in Lines : po.received[l] = 0
  BY DEF Init, NewOrder, Zero
<1> QED
  BY <1>1, <1>2, <1>3 DEF RInv, ReceivedIsRecorded

\* While no request commits over rows it had not read, each line has received
\* what the bills in the change_log bill, whatever crashed or was repeated.
THEOREM ReceiptsAreRecorded == Spec => []ReceivedIsRecorded
<1>1. RInv => ReceivedIsRecorded
  BY DEF RInv
<1>2. IInv => TypeOK
  BY DEF IInv
<1>3. TypeOK /\ GoodTurns /\ StatusAgrees /\ [Next]_vars => GoodTurns' /\ StatusAgrees'
  BY NextTurns
<1>4. IInv /\ GoodTurns /\ StatusAgrees /\ RInv /\ [Next]_vars => RInv'
  BY NextReceipts
<1> QED
  BY InitTurns, InitReceipts, ConversionInvariance, <1>1, <1>2, <1>3, <1>4, PTL DEF Spec

=============================================================================
