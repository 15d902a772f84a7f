--------------------------- MODULE PaymentsProofs ---------------------------
(***************************************************************************)
(* What holds of payments, documents and credit notes for every number of  *)
(* clients and papers and every bound, whatever overlaps and crashes.      *)
(*                                                                         *)
(* The invariant has three parts: what the requests are (Shape), what they *)
(* know of the amounts they read (SumIsRight, VoidIsRight), and what they  *)
(* know of the paper they work on (Alone, Begun, Marks).                   *)
(***************************************************************************)
EXTENDS Payments, FiniteSetTheorems, TLAPS

USE PaymentsAssumption DEF Amounts, Papers, Credited, Allocations

-----------------------------------------------------------------------------
(***************************************************************************)
(* The inductive invariant                                                 *)
(***************************************************************************)

\* Which papers a request at each stage may be about
ShapeOf(pc, x, into) ==
  /\ pc \in {"cap", "allocate"} => x \in Payments
  /\ pc = "edit" => x \in Documents \cup Notes
  /\ pc = "archive" => into = "VOIDED"
  /\ pc \in {"entry", "stamp"} =>
       /\ into \in {"POSTED", "VOIDED", "WRITTEN_OFF"}
       /\ into = "VOIDED" => x \in Documents \cup Notes
       /\ into = "WRITTEN_OFF" => x \in Invoices

Shape == \A c \in Clients : ShapeOf(req[c].pc, req[c].on, req[c].into)

\* A refresh has summed what settles its documents, apart from what it has missed.
SumIsRight ==
  \A c \in Clients : req[c].pc = "refresh" =>
    \A d \in Targets(req[c]) \ req[c].missed :
      req[c].sum[d] = Capped(d, Cardinality(Settlements(d)))

\* A void has found its document unsettled, apart from what it has missed.
VoidIsRight ==
  \A c \in Clients :
    req[c].pc = "entry" /\ req[c].into = "VOIDED" /\ req[c].on \in Documents \ req[c].missed
      => Settlements(req[c].on) = {}

\* A paper outside torn has one request at a time.
Alone == \A c, o \in Clients : req[c].on \notin torn /\ Working(c, req[c].on) /\ Working(o, req[c].on) => c = o

\* What a request has found of its paper, and its entry has changed
BegunOn(pc, x, into) ==
  /\ pc \in {"cap", "allocate"} => status[x] = into \/ status[x] = "ABSENT"
  /\ pc = "edit"    => status[x] = "DRAFT"
  /\ pc = "byhand"  => link[x] # "none"
  /\ pc = "archive" => Deletable(x)
  /\ pc \in {"entry", "stamp"} =>
       /\ into = "POSTED" => Postable(x)
       /\ into = "VOIDED" => status[x] \in {"POSTED", "WRITTEN_OFF"}
       /\ into = "WRITTEN_OFF" => status[x] = "POSTED"
  /\ pc = "entry" /\ into = "VOIDED" => link[x] = "booked"
  /\ pc = "stamp" =>
       /\ into = "POSTED" /\ status[x] = "DRAFT" => net[x] = 1 /\ byhand[x] = 0 /\ Relieved(x) = 0
       /\ into = "VOIDED" /\ Relieved(x) = 0 => net[x] = 0 - byhand[x]
       /\ into = "WRITTEN_OFF" => Relieved(x) # 0
       /\ into = "WRITTEN_OFF" /\ Relieved(x) = 1 => net[x] = 1 - byhand[x]

Begun == \A c \in Clients : req[c].on \notin torn => BegunOn(req[c].pc, req[c].on, req[c].into)

\* What is written off has been relieved, and a draft links no entry.
Marked(x) ==
  /\ status[x] = "WRITTEN_OFF" => Relieved(x) # 0
  /\ status[x] \in {"ABSENT", "DRAFT"} => link[x] = "none"

Marks == \A x \in Papers \ torn : Marked(x)

AmountsInv == TypeOK /\ Shape /\ SumIsRight /\ VoidIsRight /\ PaidIsSettled
PapersInv  == TypeOK /\ Shape /\ Alone /\ Begun /\ Marks /\ BookedAsStamped

-----------------------------------------------------------------------------
(***************************************************************************)
(* Steps and their types                                                   *)
(***************************************************************************)

\* A request begins, on a paper it may be about, in a state that allows it.
Starts(c, x, pc, into, a, doc, amount) ==
  /\ x \in Papers /\ a \in Allocations /\ doc \in Credited /\ amount \in Amounts
  /\ into \in Statuses \cup ByHand
  /\ pc \in {"cap", "edit", "archive", "entry", "byhand"}
  /\ ShapeOf(pc, x, into)
  /\ BegunOn(pc, x, into)
  /\ pc = "entry" /\ into = "VOIDED" /\ x \in Documents => paid[x] = 0
  /\ Begin(c, x, pc, into, a, doc, amount)

Start(c) == \E x, pc, into, a, doc, amount : Starts(c, x, pc, into, a, doc, amount)

\* A request goes on.
Step(c) ==
  \/ CheckCap(c) \/ SaveAllocations(c) \/ SaveEdit(c) \/ Archive(c) \/ CommitByHand(c)
  \/ Book(c) \/ Stamp(c) \/ Sum(c) \/ Refresh(c) \/ Crash(c)

LEMMA NothingType == Nothing \in Allocations /\ Nothing \in [Documents -> Amounts]
  BY DEF Nothing

LEMMA IdleType ==
  /\ Idle \in Requests
  /\ Idle.pc = "idle"
<1>1. (CHOOSE x \in Papers : TRUE) \in Papers
  OBVIOUS
<1>2. QED
  BY <1>1, NothingType DEF Idle, Requests, Statuses

\* Next is a request that begins or one that goes on.
LEMMA NextIsStep ==
  ASSUME TypeOK, Next
  PROVE  \E c \in Clients : Start(c) \/ Step(c)
<1>1. PICK c \in Clients :
        \/ \E p \in Payments, a \in Allocations : BeginCreate(c, p, a) \/ BeginAllocate(c, p, a)
        \/ \E x \in Documents \cup Notes : BeginEdit(c, x)
        \/ \E d \in Invoices : BeginWriteOff(c, d)
        \/ \E x \in Papers : BeginDelete(c, x) \/ BeginPost(c, x) \/ BeginVoid(c, x)
        \/ \E x \in Handled, into \in ByHand : BeginByHand(c, x, into)
        \/ Step(c)
  BY DEF Next, Step
<1>2. ASSUME NEW p \in Payments, NEW a \in Allocations, BeginCreate(c, p, a)
      PROVE  Start(c)
  <2>1. Starts(c, p, "cap", "DRAFT", a, NoDocument, 0)
    BY <1>2 DEF BeginCreate, Starts, ShapeOf, BegunOn, Statuses
  <2>2. QED
    BY <2>1 DEF Start
<1>3. ASSUME NEW p \in Payments, NEW a \in Allocations, BeginAllocate(c, p, a)
      PROVE  Start(c)
  <2>1. Starts(c, p, "cap", status[p], a, NoDocument, 0)
    BY <1>3 DEF BeginAllocate, Starts, ShapeOf, BegunOn, TypeOK
  <2>2. QED
    BY <2>1 DEF Start
<1>4. ASSUME NEW x \in Documents \cup Notes, BeginEdit(c, x)
      PROVE  Start(c)
  <2>1. PICK doc \in Credited, amount \in Amounts \ {total[x]} :
          status[x] = "DRAFT" /\ Begin(c, x, "edit", "DRAFT", Nothing, doc, amount)
    BY <1>4 DEF BeginEdit
  <2>2. Starts(c, x, "edit", "DRAFT", Nothing, doc, amount)
    BY <2>1, NothingType DEF Starts, ShapeOf, BegunOn, Statuses
  <2>3. QED
    BY <2>2 DEF Start
<1>5. ASSUME NEW d \in Invoices, BeginWriteOff(c, d)
      PROVE  Start(c)
  <2>1. Starts(c, d, "entry", "WRITTEN_OFF", Nothing, NoDocument, 0)
    BY <1>5, NothingType DEF BeginWriteOff, Starts, ShapeOf, BegunOn, Statuses
  <2>2. QED
    BY <2>1 DEF Start
<1>6. ASSUME NEW x \in Papers, BeginDelete(c, x) \/ BeginPost(c, x) \/ BeginVoid(c, x)
      PROVE  Start(c)
  <2>1. Own(x) \in Allocations /\ Nothing \in Allocations /\ Original(x) \in Credited
    BY NothingType DEF Own, Original, TypeOK
  <2>2. CASE BeginDelete(c, x)
    <3>1. Starts(c, x, "archive", "VOIDED", Nothing, NoDocument, 0)
      BY <2>1, <2>2 DEF BeginDelete, Starts, ShapeOf, BegunOn, Statuses
    <3>2. QED
      BY <3>1 DEF Start
  <2>3. CASE BeginPost(c, x)
    <3>1. Starts(c, x, "entry", "POSTED", Own(x), Original(x), 0)
      BY <2>1, <2>3 DEF BeginPost, Starts, ShapeOf, BegunOn, Statuses
    <3>2. QED
      BY <3>1 DEF Start
  <2>4. CASE BeginVoid(c, x)
    <3>1. Starts(c, x, "entry", "VOIDED", Nothing, Original(x), 0)
      BY <2>1, <2>4 DEF BeginVoid, Voidable, Starts, ShapeOf, BegunOn, Statuses
    <3>2. QED
      BY <3>1 DEF Start
  <2>5. QED
    BY <1>6, <2>2, <2>3, <2>4
<1>7. ASSUME NEW x \in Handled, NEW into \in ByHand, BeginByHand(c, x, into)
      PROVE  Start(c)
  <2>1. x \in Papers /\ link[x] # "none"
    BY <1>7 DEF BeginByHand, ByHand
  <2>2. Starts(c, x, "byhand", into, Nothing, NoDocument, 0)
    BY <1>7, <2>1, NothingType DEF BeginByHand, Starts, ShapeOf, BegunOn, Statuses
  <2>3. QED
    BY <2>2 DEF Start
<1>8. QED
  BY <1>1, <1>2, <1>3, <1>4, <1>5, <1>6, <1>7

\* What a paper settles, or a request, are documents.
LEMMA SettledDocuments ==
  /\ \A x \in Papers, a \in Allocations, doc \in Credited : Settled(x, a, doc) \subseteq Documents
  /\ TypeOK => \A c \in Clients : Targets(req[c]) \subseteq Documents
  /\ TypeOK => \A x \in Papers : Settling(x) \subseteq Documents
<1>1. \A x \in Papers, a \in Allocations, doc \in Credited : Settled(x, a, doc) \subseteq Documents
  BY DEF Settled
<1>2. TypeOK => \A x \in Papers : Own(x) \in Allocations /\ Original(x) \in Credited
  BY NothingType DEF Own, Original, TypeOK
<1>3. QED
  BY <1>1, <1>2 DEF Targets, Settling, TypeOK, Requests

\* s is r but for the settlements ds, which it has missed if it relies on them.
KeepsAll(s, r, ds) ==
  /\ s.pc = r.pc /\ s.on = r.on /\ s.into = r.into
  /\ s.alloc = r.alloc /\ s.doc = r.doc /\ s.total = r.total
  /\ s.paid = r.paid /\ s.sum = r.sum
  /\ s.missed = IF Relying(r) THEN r.missed \cup ds ELSE r.missed

\* What a commit of c does to the requests: the others keep all but missed.
LEMMA MissingRequests ==
  ASSUME TypeOK, NEW c \in Clients, NEW ds \in SUBSET Documents, NEW r \in Requests
  PROVE  /\ Missing(c, ds, r) \in [Clients -> Requests]
         /\ Missing(c, ds, r)[c] = r
         /\ \A o \in Clients \ {c} :
              KeepsAll(Missing(c, ds, r)[o], req[o], ds)
<1>1. \A o \in Clients : req[o] \in Requests /\ req[o].missed \cup ds \in SUBSET Documents
  BY DEF TypeOK, Requests
<1>2. \A o \in Clients : [req[o] EXCEPT !.missed = @ \cup ds] \in Requests
  BY <1>1 DEF Requests
<1>3. Missing(c, ds, r) \in [Clients -> Requests] /\ Missing(c, ds, r)[c] = r
  BY <1>1, <1>2 DEF Missing, TypeOK
<1>4. ASSUME NEW o \in Clients \ {c}
      PROVE  Missing(c, ds, r)[o] =
               IF Relying(req[o]) THEN [req[o] EXCEPT !.missed = @ \cup ds] ELSE req[o]
  BY <1>4 DEF Missing
<1>5. ASSUME NEW o \in Clients \ {c}
      PROVE  KeepsAll(Missing(c, ds, r)[o], req[o], ds)
  <2>1. req[o] \in Requests
    BY <1>1
  <2>2. CASE Relying(req[o])
    <3>1. Missing(c, ds, r)[o] = [req[o] EXCEPT !.missed = @ \cup ds]
      BY <1>4, <2>2
    <3>2. QED
      BY <2>1, <2>2, <3>1 DEF KeepsAll, Requests
  <2>3. CASE ~Relying(req[o])
    <3>1. Missing(c, ds, r)[o] = req[o]
      BY <1>4, <2>3
    <3>2. QED
      BY <2>3, <3>1 DEF KeepsAll
  <2>4. QED
    BY <2>2, <2>3
<1>6. QED
  BY <1>3, <1>5

\* The other requests keep what they have, and miss the settlements ds.
OthersKeep(c, ds) == \A o \in Clients \ {c} : KeepsAll(req'[o], req[o], ds)

\* A request that becomes r while the others keep everything
LEMMA Becomes ==
  ASSUME TypeOK, NEW c \in Clients, NEW r \in Requests, req' = [req EXCEPT ![c] = r]
  PROVE  req' \in [Clients -> Requests] /\ req'[c] = r /\ OthersKeep(c, {})
<1>1. req' \in [Clients -> Requests] /\ req'[c] = r /\ \A o \in Clients \ {c} : req'[o] = req[o]
  BY DEF TypeOK
<1>2. QED
  BY <1>1 DEF OthersKeep, KeepsAll

\* A request that becomes r with a commit that changes what settles ds
LEMMA Commits ==
  ASSUME TypeOK, NEW c \in Clients, NEW r \in Requests, NEW ds \in SUBSET Documents,
         req' = Missing(c, ds, r)
  PROVE  req' \in [Clients -> Requests] /\ req'[c] = r /\ OthersKeep(c, ds)
  BY MissingRequests DEF OthersKeep

LEMMA StartType ==
  ASSUME TypeOK, NEW c \in Clients, NEW x, NEW pc, NEW into, NEW a, NEW doc, NEW amount,
         Starts(c, x, pc, into, a, doc, amount)
  PROVE  /\ TypeOK' /\ OthersKeep(c, {})
         /\ req'[c].pc = pc /\ req'[c].on = x /\ req'[c].into = into /\ req'[c].alloc = a
         /\ req'[c].total = amount
         /\ pc = "entry" /\ into = "VOIDED" =>
              req'[c].missed = stale \cup {d \in Documents : Refreshing(d)}
<1> DEFINE r == [pc |-> pc, on |-> x, into |-> into, alloc |-> a, doc |-> doc, total |-> amount,
                 sum    |-> Nothing,
                 paid   |-> IF x \in Payments /\ pc = "entry" THEN paid ELSE Nothing,
                 missed |-> IF pc = "entry" /\ into = "VOIDED"
                            THEN stale \cup {d \in Documents : Refreshing(d)} ELSE {}]
<1>1. r \in Requests
  <2>1. (IF x \in Payments /\ pc = "entry" THEN paid ELSE Nothing) \in [Documents -> Amounts]
    BY NothingType DEF TypeOK
  <2>2. (IF pc = "entry" /\ into = "VOIDED"
         THEN stale \cup {d \in Documents : Refreshing(d)} ELSE {}) \in SUBSET Documents
    BY DEF TypeOK
  <2>3. QED
    BY <2>1, <2>2, NothingType DEF Starts, Requests
<1>2. req' = [req EXCEPT ![c] = r]
  BY DEF Starts, Begin
<1>3. req' \in [Clients -> Requests] /\ req'[c] = r /\ OthersKeep(c, {})
  <2> HIDE DEF r
  <2>1. QED
    BY <1>1, <1>2, Becomes
<1>4. TypeOK'
  <2> HIDE DEF r
  <2>1. QED
    BY <1>3 DEF Starts, Begin, Trouble, TypeOK, rows, books
<1>5. QED
  BY <1>3, <1>4

LEMMA CapType ==
  ASSUME TypeOK, NEW c \in Clients, CheckCap(c)
  PROVE  /\ TypeOK' /\ OthersKeep(c, {})
         /\ req'[c] = [req[c] EXCEPT !.pc = "allocate"]
<1>1. [req[c] EXCEPT !.pc = "allocate"] \in Requests
  <2>1. req[c] \in Requests
    BY DEF TypeOK
  <2>2. QED
    BY <2>1 DEF Requests
<1>2. req' = [req EXCEPT ![c] = [req[c] EXCEPT !.pc = "allocate"]]
  BY DEF CheckCap
<1>3. QED
  BY <1>1, <1>2, Becomes DEF CheckCap, TypeOK, rows, books, history

\* The documents whose settlement changes when c replaces a payment's allocations
Moved(c) ==
  IF status[req[c].on] = "POSTED" THEN {d \in Documents : alloc[req[c].on][d] # req[c].alloc[d]} ELSE {}

LEMMA AllocateType ==
  ASSUME TypeOK, Shape, NEW c \in Clients, SaveAllocations(c)
  PROVE  /\ TypeOK' /\ OthersKeep(c, Moved(c)) /\ req'[c] = Idle
         /\ req[c].on \in Payments
<1>1. req[c].on \in Payments /\ req[c].alloc \in Allocations
  BY DEF SaveAllocations, Shape, ShapeOf, TypeOK, Requests
<1>2. Moved(c) \in SUBSET Documents
  BY DEF Moved
<1>3. req' = Missing(c, Moved(c), Idle) /\ stale' = stale \cup Moved(c)
  BY DEF SaveAllocations, Moved
<1>4. req' \in [Clients -> Requests] /\ req'[c] = Idle /\ OthersKeep(c, Moved(c))
  BY <1>2, <1>3, IdleType, Commits
<1>5. alloc' \in [Payments -> Allocations]
  BY <1>1 DEF SaveAllocations, TypeOK
<1>6. status' \in [Papers -> Statuses]
  BY DEF SaveAllocations, TypeOK, Statuses
<1>7. QED
  BY <1>1, <1>2, <1>3, <1>4, <1>5, <1>6 DEF SaveAllocations, TypeOK, books

\* The document that c's note credits once its edit is saved
Renamed(c) == IF req[c].doc = NoDocument THEN Original(req[c].on) ELSE req[c].doc

\* The documents whose settlement, or total, changes when c saves its edit
EditMoves(c) ==
  IF req[c].on \in Documents THEN {req[c].on}
  ELSE IF status[req[c].on] = "POSTED"
       THEN Settling(req[c].on) \cup Settled(req[c].on, Own(req[c].on), Renamed(c)) ELSE {}

LEMMA EditType ==
  ASSUME TypeOK, Shape, NEW c \in Clients, SaveEdit(c)
  PROVE  /\ TypeOK' /\ OthersKeep(c, EditMoves(c)) /\ req'[c] = Idle
         /\ req[c].on \in Documents \cup Notes
<1>1. /\ req[c].on \in Documents \cup Notes /\ req[c].total \in Amounts
      /\ req[c].doc \in Credited
  BY DEF SaveEdit, Shape, ShapeOf, TypeOK, Requests
<1>2. Renamed(c) \in Credited /\ Own(req[c].on) \in Allocations
  BY <1>1, NothingType DEF Renamed, Original, Own, TypeOK
<1>3. EditMoves(c) \in SUBSET Documents
  BY <1>1, <1>2, SettledDocuments DEF EditMoves
<1>4. /\ req' = Missing(c, EditMoves(c), Idle) /\ stale' = stale \cup EditMoves(c)
      /\ total' = IF req[c].total # 0 THEN [total EXCEPT ![req[c].on] = req[c].total] ELSE total
      /\ original' = IF req[c].doc # NoDocument
                     THEN [original EXCEPT ![req[c].on] = Renamed(c)] ELSE original
  BY DEF SaveEdit, EditMoves, Renamed
<1>5. req' \in [Clients -> Requests] /\ req'[c] = Idle /\ OthersKeep(c, EditMoves(c))
  BY <1>3, <1>4, IdleType, Commits
<1>6. /\ total' \in [Documents \cup Notes -> Amounts \ {0}]
      /\ original' \in [Notes -> Credited]
  BY <1>1, <1>2, <1>4 DEF TypeOK
<1>7. QED
  BY <1>1, <1>3, <1>4, <1>5, <1>6 DEF SaveEdit, TypeOK, books

\* The documents that x settles if it is posted
Freed(x) == IF status[x] = "POSTED" THEN Settling(x) ELSE {}

LEMMA ArchiveType ==
  ASSUME TypeOK, NEW c \in Clients, Archive(c)
  PROVE  /\ TypeOK' /\ OthersKeep(c, Freed(req[c].on)) /\ req'[c] = Idle
<1>1. req[c].on \in Papers
  BY DEF TypeOK, Requests
<1>2. Freed(req[c].on) \in SUBSET Documents
  BY <1>1, SettledDocuments DEF Freed
<1>3. req' = Missing(c, Freed(req[c].on), Idle) /\ stale' = stale \cup Freed(req[c].on)
  BY DEF Archive, Freed
<1>4. req' \in [Clients -> Requests] /\ req'[c] = Idle /\ OthersKeep(c, Freed(req[c].on))
  BY <1>2, <1>3, IdleType, Commits
<1>5. QED
  BY <1>2, <1>3, <1>4 DEF Archive, TypeOK, books, Statuses

LEMMA BookType ==
  ASSUME TypeOK, Shape, NEW c \in Clients, Book(c)
  PROVE  /\ TypeOK' /\ OthersKeep(c, {})
         /\ req'[c] = [req[c] EXCEPT !.pc = "stamp"]
<1>1. [req[c] EXCEPT !.pc = "stamp"] \in Requests
  <2>1. req[c] \in Requests
    BY DEF TypeOK
  <2>2. QED
    BY <2>1 DEF Requests
<1>2. req' = [req EXCEPT ![c] = [req[c] EXCEPT !.pc = "stamp"]]
  BY DEF Book
<1>3. req' \in [Clients -> Requests] /\ req'[c] = [req[c] EXCEPT !.pc = "stamp"] /\ OthersKeep(c, {})
  BY <1>1, <1>2, Becomes
<1> DEFINE x == req[c].on
<1>x. x \in Papers /\ (req[c].into = "WRITTEN_OFF" => x \in Documents)
  BY DEF Book, Shape, ShapeOf, TypeOK, Requests
<1>4. net' \in [Papers -> Int]
  <2>1. net' \in {[net EXCEPT ![x] = @ + 1], [net EXCEPT ![x] = @ - 1], net}
    BY DEF Book
  <2>2. net \in [Papers -> Int]
    BY DEF TypeOK
  <2> HIDE DEF x
  <2>3. QED
    BY <2>1, <2>2, <1>x
<1>5. relief' \in [Documents -> Nat]
  <2>1. relief' \in {[relief EXCEPT ![x] = @ + 1], relief}
    BY DEF Book
  <2>2. relief \in [Documents -> Nat]
    BY DEF TypeOK
  <2> HIDE DEF x
  <2>3. QED
    BY <2>1, <2>2
<1>6. link' \in [Papers -> {"none", "booked", "reversed"}]
  BY DEF Book, TypeOK
<1>7. QED
  BY <1>3, <1>4, <1>5, <1>6 DEF Book, TypeOK, rows, history

\* What the stamp changes: what x settles, and what is written off
StampMoves(c) ==
  (IF req[c].into = "WRITTEN_OFF" THEN {req[c].on} ELSE {}) \cup Settling(req[c].on)

LEMMA StampType ==
  ASSUME TypeOK, Shape, NEW c \in Clients, Stamp(c)
  PROVE  /\ TypeOK' /\ OthersKeep(c, StampMoves(c))
         /\ req'[c] = AfterStamp(req[c])
         /\ req[c].into = "WRITTEN_OFF" => req[c].on \in Documents
<1>1. /\ req[c].on \in Papers
      /\ req[c].into = "WRITTEN_OFF" => req[c].on \in Documents
      /\ req[c].into \in Statuses
  BY DEF Stamp, Shape, ShapeOf, TypeOK, Requests, Statuses
<1>2. AfterStamp(req[c]) \in Requests
  <2>1. req[c] \in Requests
    BY DEF TypeOK
  <2>2. [req[c] EXCEPT !.pc = "sum"] \in Requests
    BY <2>1 DEF Requests
  <2>3. QED
    BY <2>2, IdleType DEF AfterStamp
<1>3. StampMoves(c) \in SUBSET Documents
  BY <1>1, SettledDocuments DEF StampMoves
<1>4. req' = Missing(c, StampMoves(c), AfterStamp(req[c]))
  BY DEF Stamp, StampMoves
<1>5. req' \in [Clients -> Requests] /\ req'[c] = AfterStamp(req[c]) /\ OthersKeep(c, StampMoves(c))
  BY <1>2, <1>3, <1>4, Commits
<1>6. stale' \subseteq Documents
  BY <1>3 DEF Stamp, StampMoves, TypeOK
<1>7. paid' \in [Documents -> Amounts]
  BY DEF Stamp, TypeOK
<1>8. status' \in [Papers -> Statuses] /\ link' \in [Papers -> {"none", "booked", "reversed"}]
  BY <1>1 DEF Stamp, TypeOK
<1>9. QED
  BY <1>1, <1>5, <1>6, <1>7, <1>8 DEF Stamp, TypeOK

\* Settlements are finitely many units.
LEMMA SettlementsFinite ==
  \A d : IsFiniteSet(Settlements(d)) /\ Cardinality(Settlements(d)) \in Nat
<1>1. IsFiniteSet(1..MaxAmount)
  BY FS_Interval
<1>2. IsFiniteSet(Payments \cup Notes)
  BY FS_Union
<1>3. IsFiniteSet((Payments \cup Notes) \X (1..MaxAmount))
  BY <1>1, <1>2, FS_Product
<1>4. QED
  BY <1>3, FS_Subset, FS_CardinalityType DEF Settlements

LEMMA SumType ==
  ASSUME TypeOK, NEW c \in Clients, Sum(c)
  PROVE  /\ TypeOK' /\ OthersKeep(c, {})
         /\ req'[c].pc = "refresh" /\ req'[c].on = req[c].on /\ req'[c].into = req[c].into
         /\ req'[c].alloc = req[c].alloc /\ req'[c].doc = req[c].doc
         /\ \A d \in Documents : req'[c].sum[d] = Capped(d, Cardinality(Settlements(d)))
<1> DEFINE sum == [d \in Documents |-> Capped(d, Cardinality(Settlements(d)))]
           r == [req[c] EXCEPT !.pc = "refresh", !.missed = {},
                               !.paid = IF req[c].on \in Notes THEN paid ELSE @, !.sum = sum]
<1>1. sum \in [Documents -> Amounts]
  BY SettlementsFinite DEF TypeOK, Capped
<1>2. r \in Requests
  <2> HIDE DEF sum
  <2>1. req[c] \in Requests /\ paid \in [Documents -> Amounts]
    BY DEF TypeOK
  <2>2. QED
    BY <1>1, <2>1 DEF Requests
<1>3. req' = [req EXCEPT ![c] = r]
  BY DEF Sum
<1>4. req' \in [Clients -> Requests] /\ req'[c] = r /\ OthersKeep(c, {})
  <2> HIDE DEF r
  <2>1. QED
    BY <1>2, <1>3, Becomes
<1>5. TypeOK'
  <2> HIDE DEF r
  <2>1. QED
    BY <1>4 DEF Sum, TypeOK, rows, books, history
<1>6. /\ r.pc = "refresh" /\ r.on = req[c].on /\ r.into = req[c].into
      /\ r.alloc = req[c].alloc /\ r.doc = req[c].doc /\ r.sum = sum
  <2> HIDE DEF sum
  <2>1. QED
    BY DEF TypeOK, Requests
<1>7. QED
  BY <1>4, <1>5, <1>6

LEMMA RefreshType ==
  ASSUME TypeOK, NEW c \in Clients, Refresh(c)
  PROVE  TypeOK' /\ OthersKeep(c, {}) /\ req'[c] = Idle
<1>1. req' \in [Clients -> Requests] /\ req'[c] = Idle /\ OthersKeep(c, {})
  BY IdleType, Becomes DEF Refresh
<1>2. Targets(req[c]) \subseteq Documents
  BY SettledDocuments
<1>3. paid' \in [Documents -> Amounts]
  BY DEF Refresh, TypeOK, Requests
<1>4. QED
  BY <1>1, <1>2, <1>3 DEF Refresh, TypeOK, books

LEMMA CrashType ==
  ASSUME TypeOK, NEW c \in Clients, Crash(c)
  PROVE  TypeOK' /\ OthersKeep(c, {}) /\ req'[c] = Idle
<1>1. req' \in [Clients -> Requests] /\ req'[c] = Idle /\ OthersKeep(c, {})
  BY IdleType, Becomes DEF Crash
<1>2. Targets(req[c]) \subseteq Documents /\ req[c].on \in Papers
  BY SettledDocuments DEF TypeOK, Requests
<1>3. QED
  BY <1>1, <1>2 DEF Crash, Trouble, TypeOK, rows, books

LEMMA ByHandType ==
  ASSUME TypeOK, NEW c \in Clients, CommitByHand(c)
  PROVE  TypeOK' /\ OthersKeep(c, {}) /\ req'[c] = Idle
<1>1. req' \in [Clients -> Requests] /\ req'[c] = Idle /\ OthersKeep(c, {})
  BY IdleType, Becomes DEF CommitByHand
<1>2. req[c].on \in Papers
  BY DEF TypeOK, Requests
<1>3. PICK n \in {0, 1} :
        net' = [net EXCEPT ![req[c].on] = @ - n] /\ byhand' = [byhand EXCEPT ![req[c].on] = @ + n]
  BY DEF CommitByHand
<1>4. net' \in [Papers -> Int] /\ byhand' \in [Papers -> Nat]
  BY <1>2, <1>3 DEF TypeOK
<1>5. link' \in [Papers -> {"none", "booked", "reversed"}] /\ hidden' \subseteq Papers
  BY <1>2 DEF CommitByHand, TypeOK
<1>6. QED
  BY <1>1, <1>4, <1>5 DEF CommitByHand, TypeOK, rows, history

\* Any step but one that begins a request is a step of a request at work, on a
\* paper, and leaves the other requests as they are.
LEMMA ShapeKeeps ==
  ASSUME TypeOK, Shape, NEW c \in Clients, NEW ds, OthersKeep(c, ds),
         ShapeOf(req'[c].pc, req'[c].on, req'[c].into)
  PROVE  Shape'
<1> SUFFICES ASSUME NEW o \in Clients
             PROVE  ShapeOf(req'[o].pc, req'[o].on, req'[o].into)
  BY DEF Shape
<1>1. CASE o = c
  BY <1>1
<1>2. CASE o # c
  <2>1. KeepsAll(req'[o], req[o], ds)
    BY <1>2 DEF OthersKeep
  <2>2. ShapeOf(req[o].pc, req[o].on, req[o].into)
    BY DEF Shape
  <2>3. QED
    BY <2>1, <2>2 DEF KeepsAll
<1>3. QED
  BY <1>1, <1>2

LEMMA IdleShape == ShapeOf(Idle.pc, Idle.on, Idle.into)
  BY IdleType DEF ShapeOf

LEMMA ShapeStep ==
  ASSUME TypeOK, Shape, Next
  PROVE  TypeOK' /\ Shape'
<1>1. PICK c \in Clients : Start(c) \/ Step(c)
  BY NextIsStep
<1>r. req[c] \in Requests
  BY DEF TypeOK
<1>s. ShapeOf(req[c].pc, req[c].on, req[c].into)
  BY DEF Shape
<1>2. CASE Start(c)
  <2>1. PICK x, pc, into, a, doc, amount : Starts(c, x, pc, into, a, doc, amount)
    BY <1>2 DEF Start
  <2>2. QED
    BY <2>1, StartType, ShapeKeeps DEF Starts
<1>3. CASE CheckCap(c)
  <2>1. req[c].pc = "cap"
    BY <1>3 DEF CheckCap
  <2>2. LET r == [req[c] EXCEPT !.pc = "allocate"] IN ShapeOf(r.pc, r.on, r.into)
    BY <2>1, <1>r, <1>s DEF ShapeOf, Requests
  <2>3. QED
    BY <2>2, <1>3, CapType, ShapeKeeps
<1>4. CASE SaveAllocations(c)
  BY <1>4, AllocateType, IdleShape, ShapeKeeps
<1>5. CASE SaveEdit(c)
  BY <1>5, EditType, IdleShape, ShapeKeeps
<1>6. CASE Archive(c)
  BY <1>6, ArchiveType, IdleShape, ShapeKeeps
<1>7. CASE Book(c)
  <2>1. req[c].pc = "entry"
    BY <1>7 DEF Book
  <2>2. LET r == [req[c] EXCEPT !.pc = "stamp"] IN ShapeOf(r.pc, r.on, r.into)
    BY <2>1, <1>r, <1>s DEF ShapeOf, Requests
  <2>3. QED
    BY <2>2, <1>7, BookType, ShapeKeeps
<1>8. CASE Stamp(c)
  <2>1. LET r == [req[c] EXCEPT !.pc = "sum"] IN ShapeOf(r.pc, r.on, r.into)
    BY <1>r DEF ShapeOf, Requests
  <2>2. LET r == AfterStamp(req[c]) IN ShapeOf(r.pc, r.on, r.into)
    BY <2>1, IdleShape DEF AfterStamp
  <2>3. QED
    BY <2>2, <1>8, StampType, ShapeKeeps
<1>9. CASE Sum(c)
  <2>1. ShapeOf("refresh", req[c].on, req[c].into)
    BY DEF ShapeOf
  <2>2. QED
    BY <2>1, <1>9, SumType, ShapeKeeps
<1>10. CASE Refresh(c)
  BY <1>10, RefreshType, IdleShape, ShapeKeeps
<1>11. CASE Crash(c)
  BY <1>11, CrashType, IdleShape, ShapeKeeps
<1>12. CASE CommitByHand(c)
  BY <1>12, ByHandType, IdleShape, ShapeKeeps
<1>13. QED
  BY <1>1, <1>2, <1>3, <1>4, <1>5, <1>6, <1>7, <1>8, <1>9, <1>10, <1>11, <1>12 DEF Step

LEMMA ShapeInit == Init => TypeOK /\ Shape
<1> SUFFICES ASSUME Init PROVE TypeOK /\ Shape
  OBVIOUS
<1>1. req \in [Clients -> Requests] /\ \A c \in Clients : req[c] = Idle
  BY IdleType DEF Init
<1>2. Shape
  BY <1>1, IdleShape DEF Shape
<1>3. TypeOK
  BY <1>1, NothingType DEF Init, TypeOK, Statuses, Nothing
<1>4. QED
  BY <1>2, <1>3

LEMMA ShapeStutter == TypeOK /\ Shape /\ UNCHANGED vars => TypeOK' /\ Shape'
  BY DEF TypeOK, Shape, vars

\* Every variable keeps its type: in particular what is paid of a document
\* never leaves the bound of totals, though totals are edited under the
\* refreshes that write it.
THEOREM TypeCorrect == Spec => []TypeOK
<1>1. TypeOK /\ Shape /\ [Next]_vars => (TypeOK /\ Shape)'
  BY ShapeStep, ShapeStutter
<1>2. QED
  BY <1>1, ShapeInit, PTL DEF Spec

-----------------------------------------------------------------------------
(***************************************************************************)
(* Papers and their entries                                                *)
(***************************************************************************)

\* What is said of y, and booked for it, stays.
SameOf(y) ==
  /\ status'[y] = status[y] /\ link'[y] = link[y]
  /\ net'[y] = net[y] /\ byhand'[y] = byhand[y] /\ Relieved(y)' = Relieved(y)

LEMMA SameAgrees ==
  ASSUME NEW y, SameOf(y), Agrees(y)
  PROVE  Agrees(y)'
  BY DEF SameOf, Agrees, Relieved

\* The requests of other clients are about other papers.
LEMMA OthersBegun ==
  ASSUME TypeOK, Alone, Begun, NEW c \in Clients, NEW o \in Clients, o # c, NEW ds, OthersKeep(c, ds),
         torn \subseteq torn', req'[o].on \notin torn',
         req[c].pc # "idle" \/ SameOf(req[c].on),
         \A y \in Papers : y # req[c].on => SameOf(y)
  PROVE  BegunOn(req[o].pc, req[o].on, req[o].into)'
<1>1. /\ req'[o].pc = req[o].pc /\ req'[o].on = req[o].on /\ req'[o].into = req[o].into
  BY DEF OthersKeep, KeepsAll
<1>2. req[o].on \in Papers /\ req[o].on \notin torn
  BY <1>1 DEF TypeOK, Requests
<1>3. BegunOn(req[o].pc, req[o].on, req[o].into)
  BY <1>2 DEF Begun
<1>4. CASE SameOf(req[o].on)
  BY <1>1, <1>3, <1>4 DEF SameOf, BegunOn, Deletable, Postable, Relieved
<1>5. CASE ~SameOf(req[o].on)
  <2>1. req[o].pc = "idle"
    BY <1>2, <1>5 DEF Alone, Working
  <2>2. QED
    BY <1>1, <2>1 DEF BegunOn
<1>6. QED
  BY <1>4, <1>5

\* A step of c on its paper leaves Alone as it is.
LEMMA AloneKeeps ==
  ASSUME Alone, NEW c \in Clients, NEW ds, OthersKeep(c, ds), torn \subseteq torn',
         req'[c].pc = "idle" \/ (req'[c].on = req[c].on /\ req[c].pc # "idle")
  PROVE  Alone'
<1> SUFFICES ASSUME NEW a \in Clients, NEW b \in Clients, req'[a].on \notin torn',
                    req'[a].pc # "idle", req'[b].pc # "idle", req'[b].on = req'[a].on
             PROVE  a = b
  BY DEF Alone, Working
<1>1. \A o \in Clients : req'[o].pc # "idle" => req[o].pc # "idle" /\ req[o].on = req'[o].on
  BY DEF OthersKeep, KeepsAll
<1>2. QED
  BY <1>1 DEF Alone, Working

\* A step of c leaves what is booked for other papers as it is.
LEMMA OthersAgree ==
  ASSUME TypeOK, BookedAsStamped, NEW c \in Clients, NEW ds, OthersKeep(c, ds),
         torn \subseteq torn', NEW y \in Papers \ torn',
         SameOf(y), req[c].pc = "stamp" => req[c].on # y
  PROVE  (Stamping(y) \/ Agrees(y))'
<1>1. Stamping(y) \/ Agrees(y)
  BY DEF BookedAsStamped
<1>2. CASE Agrees(y)
  BY <1>2, SameAgrees
<1>3. CASE Stamping(y)
  <2>1. PICK o \in Clients : req[o].pc = "stamp" /\ req[o].on = y
    BY <1>3 DEF Stamping
  <2>2. o # c
    BY <2>1
  <2>3. req'[o].pc = "stamp" /\ req'[o].on = y
    BY <2>1, <2>2 DEF OthersKeep, KeepsAll
  <2>4. QED
    BY <2>3 DEF Stamping
<1>4. QED
  BY <1>1, <1>2, <1>3

\* The paper of c, if it is not in torn, has no other request: what its status says is booked.
LEMMA OwnAgrees ==
  ASSUME TypeOK, Alone, BookedAsStamped, NEW c \in Clients,
         req[c].pc \notin {"idle", "stamp"}, req[c].on \notin torn
  PROVE  Agrees(req[c].on)
<1>1. req[c].on \in Papers
  BY DEF TypeOK, Requests
<1>2. ~Stamping(req[c].on)
  BY DEF Stamping, Alone, Working
<1>3. QED
  BY <1>1, <1>2 DEF BookedAsStamped

\* What a step of c on its paper has to show: what it leaves of its own paper
LEMMA PapersKeep ==
  ASSUME PapersInv, TypeOK', Shape', NEW c \in Clients, NEW ds, OthersKeep(c, ds), torn \subseteq torn',
         NEW x \in Papers, req[c].on = x,
         req[c].pc # "idle", req'[c].pc = "idle" \/ req'[c].on = x,
         \A y \in Papers : y # x => SameOf(y),
         req'[c].on \notin torn' => BegunOn(req[c].pc, req[c].on, req[c].into)',
         x \notin torn' =>
           /\ Marked(x)' \/ SameOf(x)
           /\ Stamping(x)' \/ Agrees(x)' \/ (SameOf(x) /\ req[c].pc # "stamp")
  PROVE  PapersInv'
<1>1. Alone'
  BY AloneKeeps DEF PapersInv
<1>2. Begun'
  <2> SUFFICES ASSUME NEW o \in Clients, req'[o].on \notin torn'
               PROVE  BegunOn(req[o].pc, req[o].on, req[o].into)'
    BY DEF Begun
  <2>1. CASE o = c
    BY <2>1
  <2>2. CASE o # c
    BY <2>2, OthersBegun DEF PapersInv
  <2>3. QED
    BY <2>1, <2>2
<1>3. Marks'
  <2> SUFFICES ASSUME NEW y \in Papers, y \notin torn'
               PROVE  Marked(y)'
    BY DEF Marks
  <2>1. CASE SameOf(y)
    BY <2>1 DEF SameOf, PapersInv, Marks, Marked
  <2>2. CASE ~SameOf(y)
    BY <2>2
  <2>3. QED
    BY <2>1, <2>2
<1>4. BookedAsStamped'
  <2> SUFFICES ASSUME NEW y \in Papers, y \notin torn'
               PROVE  Stamping(y)' \/ Agrees(y)'
    BY DEF BookedAsStamped
  <2>1. CASE SameOf(y) /\ (req[c].pc = "stamp" => req[c].on # y)
    BY <2>1, OthersAgree DEF PapersInv
  <2>2. CASE ~(SameOf(y) /\ (req[c].pc = "stamp" => req[c].on # y))
    BY <2>2
  <2>3. QED
    BY <2>1, <2>2
<1>5. QED
  BY <1>1, <1>2, <1>3, <1>4 DEF PapersInv

LEMMA StartPapers ==
  ASSUME PapersInv, TypeOK', Shape', NEW c \in Clients, Start(c)
  PROVE  PapersInv'
<1>1. PICK x, pc, into, a, doc, amount : Starts(c, x, pc, into, a, doc, amount)
  BY DEF Start
<1>2. /\ OthersKeep(c, {}) /\ req'[c].pc = pc /\ req'[c].on = x /\ req'[c].into = into
      /\ x \in Papers /\ req[c].pc = "idle" /\ torn \subseteq torn'
      /\ ~(\E o \in Clients : Working(o, x)) \/ x \in torn'
  <2>1. x \in Papers /\ Begin(c, x, pc, into, a, doc, amount)
    BY <1>1 DEF Starts
  <2>2. /\ OthersKeep(c, {}) /\ req'[c].pc = pc /\ req'[c].on = x /\ req'[c].into = into
    BY <1>1, StartType DEF PapersInv
  <2>3. /\ req[c].pc = "idle"
        /\ torn' = IF \E o \in Clients : Working(o, x) THEN torn \cup {x} ELSE torn
    BY <2>1 DEF Begin
  <2>4. QED
    BY <2>1, <2>2, <2>3
<1>3. \A y : SameOf(y)
  BY <1>1 DEF Starts, Begin, SameOf, rows, books, Relieved
<1>4. Alone'
  <2> SUFFICES ASSUME NEW b \in Clients, NEW o \in Clients, req'[b].on \notin torn',
                      req'[b].pc # "idle", req'[o].pc # "idle", req'[o].on = req'[b].on
               PROVE  b = o
    BY DEF Alone, Working
  <2>1. \A e \in Clients : e # c => req'[e].pc = req[e].pc /\ req'[e].on = req[e].on
    BY <1>2 DEF OthersKeep, KeepsAll
  <2>2. b # c /\ o # c => b = o
    BY <2>1, <1>2 DEF PapersInv, Alone, Working
  <2>3. b = c \/ o = c => b = o
    BY <2>1, <1>2 DEF Working
  <2>4. QED
    BY <2>2, <2>3
<1>5. Begun'
  <2> SUFFICES ASSUME NEW o \in Clients, req'[o].on \notin torn'
               PROVE  BegunOn(req[o].pc, req[o].on, req[o].into)'
    BY DEF Begun
  <2>1. CASE o = c
    <3>1. BegunOn(pc, x, into) /\ SameOf(x)
      BY <1>1, <1>3 DEF Starts
    <3>2. QED
      BY <2>1, <3>1, <1>2 DEF BegunOn, SameOf, Deletable, Postable, Relieved
  <2>2. CASE o # c
    BY <2>2, <1>2, <1>3, OthersBegun DEF PapersInv
  <2>3. QED
    BY <2>1, <2>2
<1>6. Marks'
  BY <1>2, <1>3 DEF PapersInv, Marks, Marked, SameOf
<1>7. BookedAsStamped'
  <2> SUFFICES ASSUME NEW y \in Papers, y \notin torn'
               PROVE  Stamping(y)' \/ Agrees(y)'
    BY DEF BookedAsStamped
  <2>1. QED
    BY <1>2, <1>3, OthersAgree DEF PapersInv
<1>8. QED
  BY <1>4, <1>5, <1>6, <1>7 DEF PapersInv

\* A step that changes neither status nor entries
LEMMA QuietPapers ==
  ASSUME PapersInv, TypeOK', Shape', NEW c \in Clients,
         CheckCap(c) \/ SaveEdit(c) \/ Sum(c) \/ Refresh(c) \/ Crash(c)
  PROVE  PapersInv'
<1>r. req[c] \in Requests /\ req[c].on \in Papers
  BY DEF PapersInv, TypeOK, Requests
<1>1. PICK ds : OthersKeep(c, ds)
  BY CapType, EditType, SumType, RefreshType, CrashType DEF PapersInv
<1>2. \A y : SameOf(y)
  BY DEF CheckCap, SaveEdit, Sum, Refresh, Crash, SameOf, rows, books, history, Relieved
<1>3. torn \subseteq torn' /\ req[c].pc # "idle"
  BY DEF CheckCap, SaveEdit, Sum, Refresh, Crash, history
<1>4. \/ req'[c].pc = "idle"
      \/ /\ req'[c].pc = "allocate" /\ req[c].pc = "cap" /\ req'[c].on = req[c].on
         /\ req'[c].into = req[c].into
      \/ req'[c].pc = "refresh" /\ req'[c].on = req[c].on
  <2>1. CASE CheckCap(c)
    <3>1. req'[c] = [req[c] EXCEPT !.pc = "allocate"]
      BY <2>1, CapType DEF PapersInv
    <3>2. req[c].pc = "cap"
      BY <2>1 DEF CheckCap
    <3>3. QED
      BY <3>1, <3>2, <1>r DEF Requests
  <2>2. CASE Sum(c)
    BY <2>2, SumType DEF PapersInv
  <2>3. CASE SaveEdit(c) \/ Refresh(c) \/ Crash(c)
    BY <2>3, EditType, RefreshType, CrashType, IdleType DEF PapersInv
  <2>4. QED
    BY <2>1, <2>2, <2>3
<1>5. ASSUME req'[c].on \notin torn' PROVE BegunOn(req[c].pc, req[c].on, req[c].into)'
  <2>1. CASE req'[c].pc \in {"idle", "refresh"}
    BY <2>1 DEF BegunOn
  <2>2. CASE req'[c].pc = "allocate"
    <3>1. BegunOn(req[c].pc, req[c].on, req[c].into) /\ status'[req[c].on] = status[req[c].on]
      BY <1>2, <1>3, <1>4, <1>5, <2>2 DEF PapersInv, Begun, SameOf
    <3>2. status'[req[c].on] = req[c].into \/ status'[req[c].on] = "ABSENT"
      BY <3>1, <2>2, <1>4 DEF BegunOn
    <3>3. status'[req'[c].on] = req'[c].into \/ status'[req'[c].on] = "ABSENT"
      BY <3>2, <2>2, <1>4
    <3>4. QED
      BY <3>3, <2>2 DEF BegunOn
  <2>3. QED
    BY <1>4, <2>1, <2>2
<1>6. req[c].on \notin torn' => req[c].pc # "stamp"
  BY DEF CheckCap, SaveEdit, Sum, Refresh, Crash
<1>7. QED
  BY <1>r, <1>1, <1>2, <1>3, <1>4, <1>5, <1>6, PapersKeep

\* Steps that change c's paper, and end the request or go on to the refresh:
\* what they have to show of the paper alone
LEMMA EndsPapers ==
  ASSUME PapersInv, TypeOK', Shape', NEW c \in Clients, NEW ds, OthersKeep(c, ds), torn' = torn,
         NEW x \in Papers, req[c].on = x, req[c].pc # "idle",
         req'[c].pc = "idle" \/ (req'[c].pc = "sum" /\ req'[c].on = x),
         \A y \in Papers : y # x => SameOf(y),
         x \notin torn =>
           /\ Marked(x)'
           /\ Agrees(x)'
  PROVE  PapersInv'
<1>1. BegunOn(req[c].pc, req[c].on, req[c].into)'
  BY DEF BegunOn
<1>2. QED
  BY <1>1, PapersKeep

LEMMA AllocatePapers ==
  ASSUME PapersInv, TypeOK', Shape', NEW c \in Clients, SaveAllocations(c)
  PROVE  PapersInv'
<1>1. /\ req[c].on \in Papers /\ OthersKeep(c, Moved(c)) /\ req'[c].pc = "idle"
      /\ req[c].pc = "allocate" /\ torn' = torn
  BY AllocateType, IdleType DEF PapersInv, SaveAllocations
<1>2. PICK x \in Papers : req[c].on = x
  BY <1>1
<1>3. /\ net' = net /\ link' = link /\ relief' = relief /\ byhand' = byhand
      /\ status' = status \/ (status[x] = "ABSENT" /\ status' = [status EXCEPT ![x] = "DRAFT"])
      /\ status \in [Papers -> Statuses]
  BY <1>2 DEF SaveAllocations, books, PapersInv, TypeOK
<1>4. \A y \in Papers : y # x => SameOf(y)
  BY <1>3 DEF SameOf, Relieved
<1>5. ASSUME x \notin torn
      PROVE  Agrees(x)' /\ Marked(x)'
  <2>1. Agrees(x) /\ Marked(x)
    BY <1>1, <1>2, <1>5, OwnAgrees DEF PapersInv, Marks
  <2>2. status'[x] = status[x] \/ (status[x] = "ABSENT" /\ status'[x] = "DRAFT")
    BY <1>3
  <2>3. QED
    BY <1>3, <2>1, <2>2 DEF Agrees, Marked, Relieved
<1>6. QED
  BY <1>1, <1>2, <1>4, <1>5, EndsPapers

LEMMA ArchivePapers ==
  ASSUME PapersInv, TypeOK', Shape', NEW c \in Clients, Archive(c)
  PROVE  PapersInv'
<1>1. /\ req[c].on \in Papers /\ OthersKeep(c, Freed(req[c].on)) /\ req'[c].pc = "idle"
      /\ req[c].pc = "archive" /\ torn' = torn
  BY ArchiveType, IdleType DEF PapersInv, Archive, TypeOK, Requests
<1>2. PICK x \in Papers : req[c].on = x
  BY <1>1
<1>3. /\ net' = net /\ link' = link /\ relief' = relief /\ byhand' = byhand
      /\ status' = [status EXCEPT ![x] = "VOIDED"]
      /\ status \in [Papers -> Statuses]
  BY <1>2 DEF Archive, books, PapersInv, TypeOK
<1>4. \A y \in Papers : y # x => SameOf(y)
  BY <1>3 DEF SameOf, Relieved
<1>5. ASSUME x \notin torn
      PROVE  Agrees(x)' /\ Marked(x)'
  <2>1. Agrees(x) /\ Marked(x)
    BY <1>1, <1>2, <1>5, OwnAgrees DEF PapersInv, Marks
  <2>2. Deletable(x)
    <3>1. BegunOn("archive", x, req[c].into)
      BY <1>1, <1>2, <1>5 DEF PapersInv, Begun
    <3>2. QED
      BY <3>1 DEF BegunOn
  <2>3. /\ Relieved(x) = 0 => net[x] \in IF x \in Payments THEN {0 - byhand[x], 1 - byhand[x]} ELSE {0 - byhand[x]}
        /\ x \in Payments => Relieved(x) = 0
    <3>1. /\ status[x] \in Statuses /\ (x \notin Payments => status[x] = "DRAFT")
          /\ x \in Payments => Relieved(x) = 0
      BY <1>3, <2>2 DEF Deletable, Relieved
    <3>2. QED
      BY <2>1, <3>1 DEF Agrees, Marked, Statuses
  <2>4. status'[x] = "VOIDED" /\ Relieved(x)' = Relieved(x)
    BY <1>3 DEF Relieved
  <2>5. QED
    BY <1>3, <2>3, <2>4 DEF Agrees, Marked
<1>6. QED
  BY <1>1, <1>2, <1>4, <1>5, EndsPapers

LEMMA StampPapers ==
  ASSUME PapersInv, TypeOK', Shape', NEW c \in Clients, Stamp(c)
  PROVE  PapersInv'
<1>1. /\ req[c] \in Requests /\ req[c].on \in Papers /\ OthersKeep(c, StampMoves(c))
      /\ req'[c] = AfterStamp(req[c]) /\ req[c].pc = "stamp" /\ torn' = torn
  BY StampType DEF PapersInv, Stamp, TypeOK, Requests
<1>2. PICK x \in Papers : req[c].on = x
  BY <1>1
<1>3. PICK into \in {"POSTED", "VOIDED", "WRITTEN_OFF"} : req[c].into = into
  BY <1>1 DEF PapersInv, Shape, ShapeOf
<1>4. req'[c].pc = "idle" \/ (req'[c].pc = "sum" /\ req'[c].on = x)
  BY <1>1, <1>2, IdleType DEF AfterStamp, Requests
<1>5. /\ net' = net /\ relief' = relief /\ byhand' = byhand
      /\ link' = IF into = "POSTED" THEN [link EXCEPT ![x] = "booked"] ELSE link
      /\ status' = [status EXCEPT ![x] = into]
      /\ status \in [Papers -> Statuses]
      /\ link \in [Papers -> {"none", "booked", "reversed"}]
  BY <1>2, <1>3 DEF Stamp, books, PapersInv, TypeOK
<1>6. \A y \in Papers : y # x => SameOf(y)
  BY <1>5 DEF SameOf, Relieved
<1>7. ASSUME x \notin torn
      PROVE  Agrees(x)' /\ Marked(x)'
  <2>1. BegunOn("stamp", x, into)
    BY <1>1, <1>2, <1>3, <1>7 DEF PapersInv, Begun
  <2>2. status[x] = "WRITTEN_OFF" => Relieved(x) # 0
    BY <1>7 DEF PapersInv, Marks, Marked
  <2>3. status'[x] = into /\ Relieved(x)' = Relieved(x) /\ net'[x] = net[x]
        /\ byhand'[x] = byhand[x] /\ (into = "POSTED" => link'[x] = "booked")
    BY <1>5 DEF Relieved
  <2>4. CASE into = "POSTED"
    <3>1. Postable(x) /\ (status[x] = "DRAFT" => net[x] = 1 /\ byhand[x] = 0 /\ Relieved(x) = 0)
      BY <2>1, <2>4 DEF BegunOn
    <3>2. Relieved(x) = 0 => net[x] = 1 - byhand[x]
      BY <3>1, <2>2 DEF Postable
    <3>3. QED
      BY <2>3, <2>4, <3>2 DEF Agrees, Marked
  <2>5. CASE into = "VOIDED"
    <3>1. Relieved(x) = 0 => net[x] = 0 - byhand[x]
      BY <2>1, <2>5 DEF BegunOn
    <3>2. QED
      BY <2>3, <2>5, <3>1 DEF Agrees, Marked
  <2>6. CASE into = "WRITTEN_OFF"
    <3>1. Relieved(x) # 0 /\ (Relieved(x) = 1 => net[x] = 1 - byhand[x])
      BY <2>1, <2>6 DEF BegunOn
    <3>2. QED
      BY <2>3, <2>6, <3>1 DEF Agrees, Marked
  <2>7. QED
    BY <2>4, <2>5, <2>6
<1>8. QED
  BY <1>1, <1>2, <1>4, <1>6, <1>7, EndsPapers

LEMMA BookPapers ==
  ASSUME PapersInv, TypeOK', Shape', NEW c \in Clients, Book(c)
  PROVE  PapersInv'
<1>1. /\ req[c] \in Requests /\ req[c].on \in Papers /\ OthersKeep(c, {})
      /\ req'[c] = [req[c] EXCEPT !.pc = "stamp"] /\ req[c].pc = "entry" /\ torn' = torn
  BY BookType DEF PapersInv, Book, TypeOK, Requests, history
<1>2. PICK x \in Papers : req[c].on = x
  BY <1>1
<1>3. PICK into \in {"POSTED", "VOIDED", "WRITTEN_OFF"} : req[c].into = into
  BY <1>1 DEF PapersInv, Shape, ShapeOf
<1>4. req'[c].pc = "stamp" /\ req'[c].on = x /\ req'[c].into = into
  BY <1>1, <1>2, <1>3 DEF Requests
<1>w. into = "WRITTEN_OFF" => x \in Documents
  BY <1>1, <1>2, <1>3 DEF PapersInv, Shape, ShapeOf
<1>5. /\ net' = CASE into = "POSTED" -> [net EXCEPT ![x] = @ + 1]
                  [] into = "VOIDED" -> [net EXCEPT ![x] = @ - 1]
                  [] OTHER           -> net
      /\ relief' = IF into = "WRITTEN_OFF" THEN [relief EXCEPT ![x] = @ + 1] ELSE relief
      /\ link' = IF into = "VOIDED" THEN [link EXCEPT ![x] = "reversed"] ELSE link
      /\ status' = status /\ byhand' = byhand
      /\ net \in [Papers -> Int] /\ byhand \in [Papers -> Nat] /\ relief \in [Documents -> Nat]
      /\ link \in [Papers -> {"none", "booked", "reversed"}]
  BY <1>2, <1>3 DEF Book, rows, PapersInv, TypeOK
<1>6. \A y \in Papers : y # x => SameOf(y)
  BY <1>5 DEF SameOf, Relieved
<1>7. /\ into = "POSTED" => net'[x] = net[x] + 1 /\ Relieved(x)' = Relieved(x)
      /\ into = "VOIDED" => net'[x] = net[x] - 1 /\ Relieved(x)' = Relieved(x)
      /\ into = "WRITTEN_OFF" => net'[x] = net[x] /\ Relieved(x)' = Relieved(x) + 1
      /\ Relieved(x) \in Nat /\ net[x] \in Int /\ byhand[x] \in Nat
  BY <1>5, <1>w DEF Relieved
<1>8. Stamping(x)'
  BY <1>4 DEF Stamping
<1>9. ASSUME x \notin torn
      PROVE  /\ BegunOn(req[c].pc, req[c].on, req[c].into)'
             /\ Marked(x)'
  <2>1. Agrees(x) /\ Marked(x)
    BY <1>1, <1>2, <1>9, OwnAgrees DEF PapersInv, Marks
  <2>2. BegunOn("entry", x, into)
    BY <1>1, <1>2, <1>3, <1>9 DEF PapersInv, Begun
  <2>3. /\ into = "POSTED" => Postable(x)'
        /\ into = "VOIDED" => status'[x] \in {"POSTED", "WRITTEN_OFF"}
        /\ into = "WRITTEN_OFF" => status'[x] = "POSTED"
    BY <1>5, <2>2 DEF BegunOn, Postable
  <2>4. into = "POSTED" /\ status'[x] = "DRAFT" => net'[x] = 1 /\ byhand'[x] = 0 /\ Relieved(x)' = 0
    BY <1>5, <1>7, <2>1 DEF Agrees
  <2>5. into = "VOIDED" /\ Relieved(x)' = 0 => net'[x] = 0 - byhand'[x]
    BY <1>5, <1>7, <2>1, <2>3 DEF Agrees, Marked
  <2>6. into = "WRITTEN_OFF" => Relieved(x)' # 0 /\ (Relieved(x)' = 1 => net'[x] = 1 - byhand'[x])
    BY <1>5, <1>7, <2>1, <2>3 DEF Agrees
  <2>7. BegunOn("stamp", x, into)'
    BY <2>3, <2>4, <2>5, <2>6 DEF BegunOn
  <2>8. BegunOn(req[c].pc, req[c].on, req[c].into)'
    BY <2>7, <1>4
  <2>9. Marked(x)'
    BY <1>5, <1>7, <2>1, <2>3 DEF Marked
  <2>10. QED
    BY <2>8, <2>9
<1>10. x \notin torn' => Marked(x)' /\ BegunOn(req[c].pc, req[c].on, req[c].into)'
  BY <1>1, <1>9
<1>11. torn \subseteq torn' /\ req[c].pc # "idle" /\ req'[c].on = x
  BY <1>1, <1>4
<1>12. QED
  BY <1>1, <1>2, <1>6, <1>8, <1>10, <1>11, PapersKeep

\* The journal's routes change the entry of a paper that is not a draft.
LEMMA ByHandPapers ==
  ASSUME PapersInv, TypeOK', Shape', NEW c \in Clients, CommitByHand(c)
  PROVE  PapersInv'
<1>1. /\ req[c].on \in Papers /\ OthersKeep(c, {}) /\ req'[c].pc = "idle"
      /\ req[c].pc = "byhand" /\ torn' = torn
  BY ByHandType, IdleType DEF PapersInv, CommitByHand, TypeOK, Requests, history
<1>2. PICK x \in Papers : req[c].on = x
  BY <1>1
<1>3. /\ status' = status /\ relief' = relief
      /\ status \in [Papers -> Statuses] /\ link \in [Papers -> {"none", "booked", "reversed"}]
      /\ net \in [Papers -> Int] /\ byhand \in [Papers -> Nat]
  BY DEF CommitByHand, rows, PapersInv, TypeOK
<1> DEFINE n == IF req[c].into = "ARCHIVED" /\ x \in hidden THEN 0 ELSE 1
<1>4. /\ net' = [net EXCEPT ![x] = @ - n] /\ byhand' = [byhand EXCEPT ![x] = @ + n]
      /\ n = 0 => link' = link
  BY <1>2 DEF CommitByHand
<1>n. n \in {0, 1}
  OBVIOUS
<1> HIDE DEF n
<1>5. link' = link \/ link' = [link EXCEPT ![x] = "reversed"]
  BY <1>2 DEF CommitByHand
<1>6. \A y \in Papers : y # x => SameOf(y)
  BY <1>3, <1>4, <1>5 DEF SameOf, Relieved
<1>7. ASSUME x \notin torn
      PROVE  Agrees(x)' /\ Marked(x)'
  <2>1. Agrees(x) /\ Marked(x)
    BY <1>1, <1>2, <1>7, OwnAgrees DEF PapersInv, Marks
  <2>2. link[x] # "none"
    <3>1. BegunOn("byhand", x, req[c].into)
      BY <1>1, <1>2, <1>7 DEF PapersInv, Begun
    <3>2. QED
      BY <3>1 DEF BegunOn
  <2>3. /\ status'[x] = status[x] /\ status[x] \notin {"ABSENT", "DRAFT"}
        /\ Relieved(x)' = Relieved(x)
    BY <1>3, <2>1, <2>2 DEF Marked, Relieved
  <2>4. /\ net'[x] = net[x] - n /\ byhand'[x] = byhand[x] + n
        /\ net[x] \in Int /\ byhand[x] \in Nat /\ (n = 0 => link'[x] = link[x])
    BY <1>3, <1>4
  <2>5. Marked(x)'
    BY <2>1, <2>3 DEF Marked
  <2>6. CASE n = 0
    <3>1. net'[x] = net[x] /\ byhand'[x] = byhand[x] /\ link'[x] = link[x]
      BY <2>4, <2>6
    <3>2. SameOf(x)
      BY <2>3, <3>1 DEF SameOf
    <3>3. QED
      BY <2>1, <2>5, <3>2, SameAgrees
  <2>7. CASE n = 1
    <3>1. net'[x] = net[x] - 1 /\ byhand'[x] = byhand[x] + 1 /\ byhand'[x] # 0
      BY <2>4, <2>7
    <3>2. /\ net[x] = 1 - byhand[x] => net'[x] = 1 - byhand'[x]
          /\ net[x] = 0 - byhand[x] => net'[x] = 0 - byhand'[x]
      BY <2>4, <3>1
    <3>3. QED
      BY <2>1, <2>3, <2>5, <3>1, <3>2 DEF Agrees
  <2>8. QED
    BY <1>n, <2>6, <2>7
<1>8. QED
  BY <1>1, <1>2, <1>6, <1>7, EndsPapers

LEMMA PapersStep ==
  ASSUME PapersInv, Next
  PROVE  PapersInv'
<1>1. TypeOK' /\ Shape'
  BY ShapeStep DEF PapersInv
<1>2. PICK c \in Clients : Start(c) \/ Step(c)
  BY NextIsStep DEF PapersInv
<1>3. QED
  BY <1>1, <1>2, StartPapers, QuietPapers, AllocatePapers, ArchivePapers, BookPapers, StampPapers,
     ByHandPapers DEF Step

LEMMA PapersStutter == PapersInv /\ UNCHANGED vars => PapersInv'
<1> SUFFICES ASSUME PapersInv, UNCHANGED vars PROVE PapersInv'
  OBVIOUS
<1>1. TypeOK' /\ Shape'
  BY ShapeStutter DEF PapersInv
<1>2. Alone' /\ Begun'
  BY DEF PapersInv, vars, Alone, Working, Begun, BegunOn, Deletable, Postable, Relieved
<1>3. \A x : SameOf(x)
  BY DEF vars, SameOf, Relieved
<1>4. Marks'
  BY <1>3 DEF PapersInv, vars, Marks, Marked, SameOf
<1>5. BookedAsStamped'
  BY <1>3, SameAgrees DEF PapersInv, vars, BookedAsStamped, Stamping
<1>6. QED
  BY <1>1, <1>2, <1>4, <1>5 DEF PapersInv

LEMMA PapersInit == Init => PapersInv
<1> SUFFICES ASSUME Init PROVE PapersInv
  OBVIOUS
<1>1. TypeOK /\ Shape
  BY ShapeInit
<1>2. \A c \in Clients : req[c].pc = "idle"
  BY IdleType DEF Init
<1>3. Alone /\ Begun
  BY <1>2 DEF Alone, Working, Begun, BegunOn
<1>4. \A x \in Papers : /\ status[x] \in {"ABSENT", "DRAFT"} /\ link[x] = "none"
                       /\ net[x] = 0 /\ byhand[x] = 0 /\ Relieved(x) = 0
  BY DEF Init, Relieved, Nothing
<1>5. Marks /\ BookedAsStamped
  BY <1>4 DEF Marks, Marked, BookedAsStamped, Agrees
<1>6. QED
  BY <1>1, <1>3, <1>5 DEF PapersInv

\* Unless a crash cut a paper's entry from its status, or two requests worked
\* on it at once, the ledger books for it what its status says, less what the
\* journal's own routes have reversed or archived of its entry: each posting
\* and voiding is a pair of transactions, and no interleaving with the requests
\* on other papers, with refreshes or with crashes elsewhere separates them.
THEOREM LedgerAgrees == Spec => []BookedAsStamped
<1>1. PapersInv /\ [Next]_vars => PapersInv'
  BY PapersStep, PapersStutter
<1>2. PapersInv => BookedAsStamped
  BY DEF PapersInv
<1>3. QED
  BY <1>1, <1>2, PapersInit, PTL DEF Spec

-----------------------------------------------------------------------------
(***************************************************************************)
(* Amounts paid                                                            *)
(***************************************************************************)

\* Nothing settles the documents outside ds differently, and their totals stay.
AmountsKeep(ds) ==
  \A d \in Documents \ ds : Settlements(d)' = Settlements(d) /\ total'[d] = total[d]

\* A paper settles nothing of a document that is not among those it settles.
LEMMA Unsettled ==
  ASSUME TypeOK, NEW x \in Payments \cup Notes, NEW d \in Documents, d \notin Settling(x)
  PROVE  Settles(x, d) = 0
  BY DEF Settling, Settled, Own, Original, Settles, TypeOK

\* Settlements change only with what the posted papers settle.
LEMMA SettlementsKeep ==
  ASSUME NEW d,
         \A x \in Payments \cup Notes, n \in 1..MaxAmount :
           (status'[x] = "POSTED" /\ n <= Settles(x, d)') <=> (status[x] = "POSTED" /\ n <= Settles(x, d))
  PROVE  Settlements(d)' = Settlements(d)
  BY DEF Settlements

\* A step that changes neither status nor allocations nor edits changes no settlement.
LEMMA QuietAmounts ==
  ASSUME status' = status, alloc' = alloc, total' = total, original' = original
  PROVE  AmountsKeep({})
  BY DEF AmountsKeep, Settlements, Settles

LEMMA AllocateAmounts ==
  ASSUME TypeOK, Shape, NEW c \in Clients, SaveAllocations(c)
  PROVE  AmountsKeep(Moved(c))
<1>1. req[c].on \in Payments
  BY AllocateType
<1>2. PICK p \in Payments : req[c].on = p
  BY <1>1
<1>3. /\ alloc' = [alloc EXCEPT ![p] = req[c].alloc]
      /\ status' = status \/ (status[p] = "ABSENT" /\ status' = [status EXCEPT ![p] = "DRAFT"])
      /\ total' = total /\ original' = original
      /\ status \in [Papers -> Statuses] /\ alloc \in [Payments -> Allocations]
  BY <1>2 DEF SaveAllocations, TypeOK
<1>4. ASSUME NEW d \in Documents \ Moved(c)
      PROVE  Settlements(d)' = Settlements(d)
  <2>1. ASSUME NEW x \in Payments \cup Notes, NEW n \in 1..MaxAmount
        PROVE  (status'[x] = "POSTED" /\ n <= Settles(x, d)') <=> (status[x] = "POSTED" /\ n <= Settles(x, d))
    <3>1. status'[x] = "POSTED" <=> status[x] = "POSTED"
      BY <1>3
    <3>2. CASE x # p
      BY <1>3, <3>1, <3>2 DEF Settles
    <3>3. CASE x = p
      <4>1. status[p] = "POSTED" => alloc[p][d] = req[c].alloc[d]
        BY <1>2 DEF Moved
      <4>2. alloc'[p] = req[c].alloc
        BY <1>3
      <4>3. QED
        BY <3>1, <3>3, <4>1, <4>2 DEF Settles
    <3>4. QED
      BY <3>2, <3>3
  <2>2. QED
    BY <2>1, SettlementsKeep
<1>5. QED
  BY <1>3, <1>4 DEF AmountsKeep

\* Beside what c edits, and what its note credits before and after, nothing is
\* settled differently.
LEMMA EditAmounts ==
  ASSUME TypeOK, Shape, NEW c \in Clients, SaveEdit(c)
  PROVE  AmountsKeep(EditMoves(c))
<1>1. PICK x \in Documents \cup Notes : req[c].on = x
  BY EditType
<1>2. /\ status' = status /\ alloc' = alloc
      /\ total' = total \/ total' = [total EXCEPT ![x] = req[c].total]
      /\ original' = IF req[c].doc # NoDocument
                     THEN [original EXCEPT ![x] = Renamed(c)] ELSE original
  BY <1>1 DEF SaveEdit, Renamed
<1>3. original \in [Notes -> Credited] /\ total \in [Documents \cup Notes -> Amounts \ {0}]
  BY DEF TypeOK
<1>4. ASSUME NEW d \in Documents \ EditMoves(c)
      PROVE  total'[d] = total[d]
  <2>1. x # d
    BY <1>1, <1>4 DEF EditMoves
  <2>2. QED
    BY <1>2, <1>3, <2>1
<1>5. ASSUME NEW d \in Documents \ EditMoves(c)
      PROVE  Settlements(d)' = Settlements(d)
  <2>1. ASSUME NEW y \in Payments \cup Notes, NEW n \in 1..MaxAmount
        PROVE  (status'[y] = "POSTED" /\ n <= Settles(y, d)') <=> (status[y] = "POSTED" /\ n <= Settles(y, d))
    <3>1. CASE y # x \/ y \in Payments
      <4>1. Settles(y, d)' = Settles(y, d)
        BY <1>2, <1>3, <3>1 DEF Settles
      <4>2. QED
        BY <1>2, <4>1
    <3>2. CASE y = x /\ y \in Notes /\ status[y] = "POSTED"
      <4>1. d \notin Settling(x) /\ d \notin Settled(x, Own(x), Renamed(c))
        BY <1>1, <1>5, <3>2 DEF EditMoves
      <4>2. original[x] # d /\ Renamed(c) # d
        BY <3>2, <4>1 DEF Settling, Settled, Original
      <4>3. original'[x] # d
        BY <1>2, <1>3, <3>2, <4>2
      <4>4. Settles(y, d) = 0 /\ Settles(y, d)' = 0
        BY <3>2, <4>2, <4>3 DEF Settles
      <4>5. QED
        BY <4>4
    <3>3. CASE y = x /\ status[y] # "POSTED"
      BY <1>2, <3>3
    <3>4. QED
      BY <3>1, <3>2, <3>3
  <2>2. QED
    BY <2>1, SettlementsKeep
<1>6. QED
  BY <1>4, <1>5 DEF AmountsKeep

LEMMA ArchiveAmounts ==
  ASSUME TypeOK, NEW c \in Clients, Archive(c)
  PROVE  AmountsKeep(Freed(req[c].on))
<1>1. PICK p \in Papers : req[c].on = p
  BY DEF TypeOK, Requests
<1>2. /\ status' = [status EXCEPT ![p] = "VOIDED"] /\ alloc' = alloc /\ total' = total /\ original' = original
      /\ status \in [Papers -> Statuses]
  BY <1>1 DEF Archive, TypeOK
<1>3. ASSUME NEW d \in Documents \ Freed(p)
      PROVE  Settlements(d)' = Settlements(d)
  <2>1. ASSUME NEW x \in Payments \cup Notes, NEW n \in 1..MaxAmount
        PROVE  (status'[x] = "POSTED" /\ n <= Settles(x, d)') <=> (status[x] = "POSTED" /\ n <= Settles(x, d))
    <3>1. Settles(x, d)' = Settles(x, d)
      BY <1>2 DEF Settles
    <3>2. CASE x # p
      BY <1>2, <3>1, <3>2
    <3>3. CASE x = p
      <4>1. status[p] = "POSTED" => Settles(x, d) = 0
        BY <3>3, Unsettled DEF Freed
      <4>2. status'[p] # "POSTED"
        BY <1>2
      <4>3. QED
        BY <3>3, <4>1, <4>2
    <3>4. QED
      BY <3>2, <3>3
  <2>2. QED
    BY <2>1, SettlementsKeep
<1>4. QED
  BY <1>1, <1>2, <1>3 DEF AmountsKeep

LEMMA StampAmounts ==
  ASSUME TypeOK, NEW c \in Clients, Stamp(c)
  PROVE  AmountsKeep(StampMoves(c))
<1>1. PICK p \in Papers : req[c].on = p
  BY DEF TypeOK, Requests
<1>2. /\ status' = [status EXCEPT ![p] = req[c].into] /\ alloc' = alloc /\ total' = total /\ original' = original
      /\ status \in [Papers -> Statuses]
  BY <1>1 DEF Stamp, TypeOK
<1>3. ASSUME NEW d \in Documents \ StampMoves(c)
      PROVE  Settlements(d)' = Settlements(d)
  <2>1. ASSUME NEW x \in Payments \cup Notes, NEW n \in 1..MaxAmount
        PROVE  (status'[x] = "POSTED" /\ n <= Settles(x, d)') <=> (status[x] = "POSTED" /\ n <= Settles(x, d))
    <3>1. Settles(x, d)' = Settles(x, d)
      BY <1>2 DEF Settles
    <3>2. CASE x # p
      BY <1>2, <3>1, <3>2
    <3>3. CASE x = p
      <4>1. Settles(x, d) = 0
        BY <1>1, <3>3, Unsettled DEF StampMoves
      <4>2. QED
        BY <3>1, <4>1
    <3>4. QED
      BY <3>2, <3>3
  <2>2. QED
    BY <2>1, SettlementsKeep
<1>4. QED
  BY <1>2, <1>3 DEF AmountsKeep

\* Steps other than a sum leave every sum right but for what is missed.
LEMMA SumKeeps ==
  ASSUME TypeOK, SumIsRight, NEW c \in Clients, NEW ds, OthersKeep(c, ds), AmountsKeep(ds),
         req'[c].pc # "refresh"
  PROVE  SumIsRight'
<1> SUFFICES ASSUME NEW o \in Clients, req'[o].pc = "refresh", NEW d \in Targets(req'[o]) \ req'[o].missed
             PROVE  req'[o].sum[d] = Capped(d, Cardinality(Settlements(d)))'
  BY DEF SumIsRight
<1>1. KeepsAll(req'[o], req[o], ds)
  BY DEF OthersKeep
<1>2. req[o].pc = "refresh" /\ Relying(req[o])
  BY <1>1 DEF KeepsAll, Relying
<1>3. d \in Targets(req[o]) \ req[o].missed /\ d \notin ds /\ req'[o].sum = req[o].sum
  BY <1>1, <1>2 DEF KeepsAll, Targets
<1>4. d \in Documents
  BY <1>3, SettledDocuments
<1>5. req[o].sum[d] = Capped(d, Cardinality(Settlements(d)))
  BY <1>2, <1>3 DEF SumIsRight
<1>6. QED
  BY <1>3, <1>4, <1>5 DEF AmountsKeep, Capped

\* Steps other than the beginning of a void keep what voids have found.
LEMMA VoidKeeps ==
  ASSUME TypeOK, VoidIsRight, NEW c \in Clients, NEW ds, OthersKeep(c, ds), AmountsKeep(ds),
         req'[c].pc # "entry"
  PROVE  VoidIsRight'
<1> SUFFICES ASSUME NEW o \in Clients, req'[o].pc = "entry", req'[o].into = "VOIDED",
                    req'[o].on \in Documents \ req'[o].missed
             PROVE  Settlements(req[o].on)' = {}
  BY DEF VoidIsRight
<1>1. KeepsAll(req'[o], req[o], ds)
  BY DEF OthersKeep
<1>2. PICK d \in Documents : d = req[o].on /\ d = req'[o].on
  BY <1>1 DEF KeepsAll
<1>3. Relying(req[o]) /\ d \notin ds /\ d \notin req[o].missed
  BY <1>1, <1>2 DEF KeepsAll, Relying
<1>4. Settlements(d) = {}
  BY <1>1, <1>2, <1>3 DEF KeepsAll, VoidIsRight
<1>5. Settlements(d)' = {}
  BY <1>3, <1>4 DEF AmountsKeep
<1>6. QED
  BY <1>2, <1>5

\* A step that goes on refreshing, or that is no refresh, leaves Refreshing as it is.
LEMMA RefreshingKeeps ==
  ASSUME NEW c \in Clients, NEW ds, OthersKeep(c, ds), NEW d, Refreshing(d),
         \/ req[c].pc \notin {"sum", "refresh"}
         \/ d \notin Targets(req[c])
         \/ req'[c].pc \in {"sum", "refresh"} /\ d \in Targets(req'[c])
  PROVE  Refreshing(d)'
<1>1. PICK o \in Clients : req[o].pc \in {"sum", "refresh"} /\ d \in Targets(req[o])
  BY DEF Refreshing
<1>2. CASE o = c
  BY <1>1, <1>2 DEF Refreshing
<1>3. CASE o # c
  BY <1>1, <1>3 DEF OthersKeep, KeepsAll, Refreshing, Targets
<1>4. QED
  BY <1>2, <1>3

\* A document that is not touched stays right.
LEMMA PaidKeeps ==
  ASSUME PaidIsSettled, NEW c \in Clients, NEW ds, OthersKeep(c, ds), AmountsKeep(ds),
         NEW d \in Documents, d \notin ds, d \notin stale, paid'[d] = paid[d],
         \/ req[c].pc \notin {"sum", "refresh"}
         \/ d \notin Targets(req[c])
         \/ req'[c].pc \in {"sum", "refresh"} /\ d \in Targets(req'[c])
  PROVE  Refreshing(d)' \/ paid'[d] = Capped(d, Cardinality(Settlements(d)))'
<1>1. Refreshing(d) \/ paid[d] = Capped(d, Cardinality(Settlements(d)))
  BY DEF PaidIsSettled
<1>2. CASE Refreshing(d)
  BY <1>2, RefreshingKeeps
<1>3. CASE paid[d] = Capped(d, Cardinality(Settlements(d)))
  BY <1>3 DEF AmountsKeep, Capped
<1>4. QED
  BY <1>1, <1>2, <1>3

\* A step of a request that is not refreshing, and that leaves behind what it changes
LEMMA CommitKeeps ==
  ASSUME AmountsInv, TypeOK', Shape', NEW c \in Clients, NEW ds, OthersKeep(c, ds), AmountsKeep(ds),
         req'[c].pc \notin {"refresh", "entry"}, req[c].pc \notin {"sum", "refresh"},
         paid' = paid, stale \subseteq stale', ds \subseteq stale'
  PROVE  AmountsInv'
<1>1. SumIsRight' /\ VoidIsRight'
  BY SumKeeps, VoidKeeps DEF AmountsInv
<1>2. PaidIsSettled'
  <2> SUFFICES ASSUME NEW d \in Documents, d \notin stale'
               PROVE  Refreshing(d)' \/ paid'[d] = Capped(d, Cardinality(Settlements(d)))'
    BY DEF PaidIsSettled
  <2>1. QED
    BY PaidKeeps DEF AmountsInv
<1>3. QED
  BY <1>1, <1>2 DEF AmountsInv

LEMMA CommitAmounts ==
  ASSUME AmountsInv, TypeOK', Shape', NEW c \in Clients,
         CheckCap(c) \/ SaveAllocations(c) \/ SaveEdit(c) \/ Archive(c) \/ CommitByHand(c) \/ Book(c)
  PROVE  AmountsInv'
<1>1. CASE CheckCap(c)
  <2>1. req'[c].pc = "allocate"
    BY <1>1, CapType DEF AmountsInv, TypeOK, Requests
  <2>2. OthersKeep(c, {}) /\ AmountsKeep({})
    BY <1>1, CapType, QuietAmounts DEF AmountsInv, CheckCap, rows
  <2>3. QED
    BY <1>1, <2>1, <2>2, CommitKeeps DEF CheckCap, rows, history
<1>2. CASE SaveAllocations(c)
  <2>1. req'[c].pc = "idle" /\ OthersKeep(c, Moved(c)) /\ AmountsKeep(Moved(c))
    BY <1>2, AllocateType, AllocateAmounts, IdleType DEF AmountsInv
  <2>2. req[c].pc = "allocate" /\ paid' = paid /\ stale' = stale \cup Moved(c)
    BY <1>2 DEF SaveAllocations, Moved
  <2>3. QED
    BY <2>1, <2>2, CommitKeeps
<1>3. CASE SaveEdit(c)
  <2>1. req'[c].pc = "idle" /\ OthersKeep(c, EditMoves(c)) /\ AmountsKeep(EditMoves(c))
    BY <1>3, EditType, EditAmounts, IdleType DEF AmountsInv
  <2>2. req[c].pc = "edit" /\ paid' = paid /\ stale' = stale \cup EditMoves(c)
    BY <1>3 DEF SaveEdit, EditMoves, Renamed
  <2>3. QED
    BY <2>1, <2>2, CommitKeeps
<1>4. CASE Archive(c)
  <2>1. req'[c].pc = "idle" /\ OthersKeep(c, Freed(req[c].on)) /\ AmountsKeep(Freed(req[c].on))
    BY <1>4, ArchiveType, ArchiveAmounts, IdleType DEF AmountsInv
  <2>2. req[c].pc = "archive" /\ paid' = paid /\ stale' = stale \cup Freed(req[c].on)
    BY <1>4 DEF Archive, Freed
  <2>3. QED
    BY <2>1, <2>2, CommitKeeps
<1>5. CASE Book(c)
  <2>1. req'[c].pc = "stamp"
    BY <1>5, BookType DEF AmountsInv, TypeOK, Requests
  <2>2. OthersKeep(c, {}) /\ AmountsKeep({})
    BY <1>5, BookType, QuietAmounts DEF AmountsInv, Book, rows
  <2>3. QED
    BY <1>5, <2>1, <2>2, CommitKeeps DEF Book, rows, history
<1>6. CASE CommitByHand(c)
  <2>1. req'[c].pc = "idle" /\ req[c].pc = "byhand" /\ OthersKeep(c, {})
    BY <1>6, ByHandType, IdleType DEF AmountsInv, CommitByHand
  <2>2. AmountsKeep({}) /\ paid' = paid /\ stale' = stale
    BY <1>6, QuietAmounts DEF CommitByHand, rows, history
  <2>3. QED
    BY <2>1, <2>2, CommitKeeps
<1>7. QED
  BY <1>1, <1>2, <1>3, <1>4, <1>5, <1>6

\* A document of which nothing is paid, and whose amount_paid is right, is not settled.
LEMMA StartAmounts ==
  ASSUME AmountsInv, TypeOK', Shape', NEW c \in Clients, Start(c)
  PROVE  AmountsInv'
<1>1. PICK x, pc, into, a, doc, amount : Starts(c, x, pc, into, a, doc, amount)
  BY DEF Start
<1>2. /\ OthersKeep(c, {}) /\ req'[c].pc = pc /\ req'[c].on = x /\ req'[c].into = into
      /\ pc = "entry" /\ into = "VOIDED" =>
           req'[c].missed = stale \cup {d \in Documents : Refreshing(d)}
  BY <1>1, StartType DEF AmountsInv
<1>3. /\ pc \in {"cap", "edit", "archive", "entry", "byhand"} /\ req[c].pc = "idle"
      /\ pc = "entry" /\ into = "VOIDED" /\ x \in Documents => paid[x] = 0
      /\ status' = status /\ alloc' = alloc /\ total' = total /\ original' = original
      /\ paid' = paid /\ stale' = stale
  BY <1>1 DEF Starts, Begin, rows
<1>4. AmountsKeep({})
  BY <1>3, QuietAmounts
<1>5. SumIsRight'
  BY <1>2, <1>3, <1>4, SumKeeps DEF AmountsInv
<1>6. PaidIsSettled'
  <2> SUFFICES ASSUME NEW d \in Documents, d \notin stale'
               PROVE  Refreshing(d)' \/ paid'[d] = Capped(d, Cardinality(Settlements(d)))'
    BY DEF PaidIsSettled
  <2>1. QED
    BY <1>2, <1>3, <1>4, PaidKeeps DEF AmountsInv
<1>7. VoidIsRight'
  <2>1. CASE pc = "entry" /\ into = "VOIDED" /\ x \in Documents
    <3>1. ASSUME x \notin stale, ~Refreshing(x)
          PROVE  Settlements(x) = {}
      <4>1. paid[x] = Capped(x, Cardinality(Settlements(x))) /\ paid[x] = 0
        BY <3>1, <2>1, <1>3 DEF AmountsInv, PaidIsSettled
      <4>2. total[x] \in Nat \ {0}
        BY <2>1 DEF AmountsInv, TypeOK
      <4>3. Cardinality(Settlements(x)) = 0
        BY <4>1, <4>2, SettlementsFinite DEF Capped
      <4>4. QED
        BY <4>3, SettlementsFinite, FS_EmptySet
    <3>2. Settlements(x)' = Settlements(x)
      BY <1>4, <2>1 DEF AmountsKeep
    <3> SUFFICES ASSUME NEW o \in Clients, req'[o].pc = "entry", req'[o].into = "VOIDED",
                        req'[o].on \in Documents \ req'[o].missed
                 PROVE  Settlements(req[o].on)' = {}
      BY DEF VoidIsRight
    <3>3. CASE o = c
      <4>1. req'[o].on = x
        BY <3>3, <1>2
      <4>2. Settlements(x)' = {}
        BY <3>1, <3>2, <3>3, <2>1, <1>2
      <4>3. QED
        BY <4>1, <4>2
    <3>4. CASE o # c
      <4>1. KeepsAll(req'[o], req[o], {})
        BY <3>4, <1>2 DEF OthersKeep
      <4>2. PICK d \in Documents : d = req[o].on /\ d = req'[o].on
        BY <4>1 DEF KeepsAll
      <4>3. Settlements(d) = {}
        BY <4>1, <4>2 DEF KeepsAll, AmountsInv, VoidIsRight
      <4>4. Settlements(d)' = {}
        BY <4>3, <1>4 DEF AmountsKeep
      <4>5. QED
        BY <4>2, <4>4
    <3>5. QED
      BY <3>3, <3>4
  <2>2. CASE ~(pc = "entry" /\ into = "VOIDED" /\ x \in Documents)
    <3> SUFFICES ASSUME NEW o \in Clients, req'[o].pc = "entry", req'[o].into = "VOIDED",
                        req'[o].on \in Documents \ req'[o].missed
                 PROVE  Settlements(req[o].on)' = {}
      BY DEF VoidIsRight
    <3>1. o # c
      BY <2>2, <1>2
    <3>2. KeepsAll(req'[o], req[o], {})
      BY <3>1, <1>2 DEF OthersKeep
    <3>3. PICK d \in Documents : d = req[o].on /\ d = req'[o].on
      BY <3>2 DEF KeepsAll
    <3>4. Settlements(d) = {}
      BY <3>2, <3>3 DEF KeepsAll, AmountsInv, VoidIsRight
    <3>5. Settlements(d)' = {}
      BY <3>4, <1>4 DEF AmountsKeep
    <3>6. QED
      BY <3>3, <3>5
  <2>3. QED
    BY <2>1, <2>2
<1>8. QED
  BY <1>5, <1>6, <1>7 DEF AmountsInv

LEMMA StampSettles ==
  ASSUME AmountsInv, TypeOK', Shape', NEW c \in Clients, Stamp(c)
  PROVE  AmountsInv'
<1>1. /\ OthersKeep(c, StampMoves(c)) /\ AmountsKeep(StampMoves(c)) /\ req'[c] = AfterStamp(req[c])
      /\ req[c].pc = "stamp" /\ req[c] \in Requests
  BY StampType, StampAmounts DEF AmountsInv, Stamp, TypeOK
<1>2. req'[c] = IF Targets(req[c]) = {} THEN Idle ELSE [req[c] EXCEPT !.pc = "sum"]
  BY <1>1 DEF AfterStamp
<1>3. /\ req'[c].pc \in {"idle", "sum"}
      /\ Targets(req[c]) # {} => req'[c].pc = "sum" /\ Targets(req'[c]) = Targets(req[c])
  BY <1>1, <1>2, IdleType DEF Requests, Targets
<1>4. SumIsRight' /\ VoidIsRight'
  BY <1>1, <1>3, SumKeeps, VoidKeeps DEF AmountsInv
<1>5. PaidIsSettled'
  <2> SUFFICES ASSUME NEW d \in Documents, d \notin stale'
               PROVE  Refreshing(d)' \/ paid'[d] = Capped(d, Cardinality(Settlements(d)))'
    BY DEF PaidIsSettled
  <2>1. CASE d \in Settling(req[c].on)
    <3>1. d \in Targets(req[c])
      BY <2>1 DEF Stamp
    <3>2. QED
      BY <3>1, <1>3 DEF Refreshing
  <2>2. CASE d \notin Settling(req[c].on)
    <3>1. d \notin stale /\ d \notin StampMoves(c)
      BY <2>2 DEF Stamp, StampMoves
    <3>2. paid'[d] = paid[d]
      BY <3>1 DEF Stamp, StampMoves, AmountsInv, TypeOK
    <3>3. QED
      BY <1>1, <3>1, <3>2, PaidKeeps DEF AmountsInv
  <2>3. QED
    BY <2>1, <2>2
<1>6. QED
  BY <1>4, <1>5 DEF AmountsInv

LEMMA SumAmounts ==
  ASSUME AmountsInv, TypeOK', Shape', NEW c \in Clients, Sum(c)
  PROVE  AmountsInv'
<1>1. /\ OthersKeep(c, {}) /\ req'[c].pc = "refresh" /\ Targets(req'[c]) = Targets(req[c])
      /\ \A d \in Documents : req'[c].sum[d] = Capped(d, Cardinality(Settlements(d)))
  BY SumType DEF AmountsInv, Targets
<1>2. /\ status' = status /\ alloc' = alloc /\ total' = total /\ original' = original
      /\ paid' = paid /\ stale' = stale
  BY DEF Sum, rows, history
<1>3. AmountsKeep({})
  BY <1>2, QuietAmounts
<1>4. VoidIsRight'
  BY <1>1, <1>3, VoidKeeps DEF AmountsInv
<1>5. SumIsRight'
  <2> SUFFICES ASSUME NEW o \in Clients, req'[o].pc = "refresh", NEW d \in Targets(req'[o]) \ req'[o].missed
               PROVE  req'[o].sum[d] = Capped(d, Cardinality(Settlements(d)))'
    BY DEF SumIsRight
  <2>1. d \in Documents
    BY SettledDocuments DEF Targets, TypeOK, Requests
  <2>2. Capped(d, Cardinality(Settlements(d)))' = Capped(d, Cardinality(Settlements(d)))
    BY <1>3, <2>1 DEF AmountsKeep, Capped
  <2>3. CASE o = c
    BY <2>1, <2>2, <2>3, <1>1
  <2>4. CASE o # c
    <3>1. KeepsAll(req'[o], req[o], {})
      BY <2>4, <1>1 DEF OthersKeep
    <3>2. req[o].pc = "refresh" /\ d \in Targets(req[o]) \ req[o].missed /\ req'[o].sum = req[o].sum
      BY <3>1 DEF KeepsAll, Targets
    <3>3. QED
      BY <2>2, <3>2 DEF AmountsInv, SumIsRight
  <2>5. QED
    BY <2>3, <2>4
<1>6. PaidIsSettled'
  <2> SUFFICES ASSUME NEW d \in Documents, d \notin stale'
               PROVE  Refreshing(d)' \/ paid'[d] = Capped(d, Cardinality(Settlements(d)))'
    BY DEF PaidIsSettled
  <2>1. QED
    BY <1>1, <1>2, <1>3, PaidKeeps DEF AmountsInv
<1>7. QED
  BY <1>4, <1>5, <1>6 DEF AmountsInv

LEMMA RefreshAmounts ==
  ASSUME AmountsInv, TypeOK', Shape', NEW c \in Clients, Refresh(c)
  PROVE  AmountsInv'
<1> DEFINE r == req[c]
           skipped == {d \in Targets(r) : r.sum[d] = r.paid[d]}
<1>1. OthersKeep(c, {}) /\ req'[c].pc = "idle" /\ r.pc = "refresh"
  BY RefreshType, IdleType DEF AmountsInv, Refresh
<1>2. /\ status' = status /\ alloc' = alloc /\ total' = total /\ original' = original
      /\ paid' = [d \in Documents |-> IF d \in Targets(r) \ skipped THEN r.sum[d] ELSE paid[d]]
      /\ stale' = (stale \ Targets(r)) \cup (Targets(r) \cap r.missed)
                   \cup {d \in skipped : paid[d] # r.paid[d]}
  BY DEF Refresh
<1>3. AmountsKeep({})
  BY <1>2, QuietAmounts
<1>4. SumIsRight' /\ VoidIsRight'
  BY <1>1, <1>3, SumKeeps, VoidKeeps DEF AmountsInv
<1>5. PaidIsSettled'
  <2> SUFFICES ASSUME NEW d \in Documents, d \notin stale'
               PROVE  Refreshing(d)' \/ paid'[d] = Capped(d, Cardinality(Settlements(d)))'
    BY DEF PaidIsSettled
  <2>1. CASE d \in Targets(r)
    <3>1. d \notin r.missed /\ (d \in skipped => paid[d] = r.paid[d])
      BY <2>1, <1>2
    <3>2. r.sum[d] = Capped(d, Cardinality(Settlements(d)))
      BY <1>1, <2>1, <3>1 DEF AmountsInv, SumIsRight
    <3>3. paid'[d] = r.sum[d]
      BY <1>2, <2>1, <3>1
    <3>4. Capped(d, Cardinality(Settlements(d)))' = Capped(d, Cardinality(Settlements(d)))
      BY <1>3 DEF AmountsKeep, Capped
    <3>5. QED
      BY <3>2, <3>3, <3>4
  <2>2. CASE d \notin Targets(r)
    <3>1. d \notin stale /\ paid'[d] = paid[d]
      BY <1>2, <2>2
    <3>2. QED
      BY <1>1, <1>3, <2>2, <3>1, PaidKeeps DEF AmountsInv
  <2>3. QED
    BY <2>1, <2>2
<1>6. QED
  BY <1>4, <1>5 DEF AmountsInv

LEMMA CrashAmounts ==
  ASSUME AmountsInv, TypeOK', Shape', NEW c \in Clients, Crash(c)
  PROVE  AmountsInv'
<1>1. OthersKeep(c, {}) /\ req'[c].pc = "idle"
  BY CrashType, IdleType DEF AmountsInv
<1>2. /\ status' = status /\ alloc' = alloc /\ total' = total /\ original' = original /\ paid' = paid
      /\ stale' = IF req[c].pc \in {"sum", "refresh"} THEN stale \cup Targets(req[c]) ELSE stale
  BY DEF Crash, rows
<1>3. AmountsKeep({})
  BY <1>2, QuietAmounts
<1>4. SumIsRight' /\ VoidIsRight'
  BY <1>1, <1>3, SumKeeps, VoidKeeps DEF AmountsInv
<1>5. PaidIsSettled'
  <2> SUFFICES ASSUME NEW d \in Documents, d \notin stale'
               PROVE  Refreshing(d)' \/ paid'[d] = Capped(d, Cardinality(Settlements(d)))'
    BY DEF PaidIsSettled
  <2>1. QED
    BY <1>1, <1>2, <1>3, PaidKeeps DEF AmountsInv
<1>6. QED
  BY <1>4, <1>5 DEF AmountsInv

LEMMA AmountsStep ==
  ASSUME AmountsInv, Next
  PROVE  AmountsInv'
<1>1. TypeOK' /\ Shape'
  BY ShapeStep DEF AmountsInv
<1>2. PICK c \in Clients : Start(c) \/ Step(c)
  BY NextIsStep DEF AmountsInv
<1>3. QED
  BY <1>1, <1>2, StartAmounts, CommitAmounts, StampSettles, SumAmounts, RefreshAmounts, CrashAmounts DEF Step

LEMMA AmountsStutter == AmountsInv /\ UNCHANGED vars => AmountsInv'
<1> SUFFICES ASSUME AmountsInv, UNCHANGED vars PROVE AmountsInv'
  OBVIOUS
<1>1. TypeOK' /\ Shape'
  BY ShapeStutter DEF AmountsInv
<1>2. SumIsRight' /\ VoidIsRight' /\ PaidIsSettled'
  BY DEF AmountsInv, vars, SumIsRight, VoidIsRight, PaidIsSettled, Refreshing, Targets, Capped,
         Settlements, Settles
<1>3. QED
  BY <1>1, <1>2 DEF AmountsInv

LEMMA AmountsInit == Init => AmountsInv
<1> SUFFICES ASSUME Init PROVE AmountsInv
  OBVIOUS
<1>1. TypeOK /\ Shape
  BY ShapeInit
<1>2. \A c \in Clients : req[c].pc = "idle"
  BY IdleType DEF Init
<1>3. SumIsRight /\ VoidIsRight
  BY <1>2 DEF SumIsRight, VoidIsRight
<1>4. ASSUME NEW d \in Documents
      PROVE  paid[d] = Capped(d, Cardinality(Settlements(d)))
  <2>1. Settlements(d) = {}
    BY DEF Init, Settlements
  <2>2. paid[d] = 0 /\ total[d] \in Nat
    BY DEF Init, Nothing
  <2>3. QED
    BY <2>1, <2>2, FS_EmptySet DEF Capped
<1>5. QED
  BY <1>1, <1>3, <1>4 DEF AmountsInv, PaidIsSettled

\* Apart from the documents named in stale, amount_paid is what is posted and
\* settles the document, or a request is about to make it so: however many
\* requests sum and update it at once, none writes a sum that lost a settlement.
THEOREM AmountsPaid == Spec => []PaidIsSettled
<1>1. AmountsInv /\ [Next]_vars => AmountsInv'
  BY AmountsStep, AmountsStutter
<1>2. AmountsInv => PaidIsSettled
  BY DEF AmountsInv
<1>3. QED
  BY <1>1, <1>2, AmountsInit, PTL DEF Spec

\* A void does not reverse the entry of a document that something posted
\* settles, unless the settlement was missing from the amount_paid that it read.
THEOREM VoidsUnsettled == Spec => VoidsOnlyUnsettled
<1> DEFINE Ok == \A c \in Clients :
                   LET r == req[c] IN
                   /\ r.pc = "entry" /\ req'[c].pc = "stamp"
                   /\ r.into = "VOIDED"
                   /\ r.on \in Documents \ r.missed
                   => Settlements(r.on) = {}
<1>1. AmountsInv /\ [Next]_vars => AmountsInv'
  BY AmountsStep, AmountsStutter
<1>2. AmountsInv /\ [Next]_vars => [Ok]_vars
  BY DEF AmountsInv, VoidIsRight
<1>3. QED
  BY <1>1, <1>2, AmountsInit, PTL DEF Spec, VoidsOnlyUnsettled

=============================================================================
