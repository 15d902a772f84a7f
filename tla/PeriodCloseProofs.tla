------------------------- MODULE PeriodCloseProofs -------------------------
(***************************************************************************)
(* What holds of year-end closes for every number of clients, dates and    *)
(* locks, whatever overlaps and crashes.                                   *)
(***************************************************************************)
EXTENDS PeriodClose, TLAPS

USE PeriodCloseAssumption DEF Dates, Ranges, Lines

-----------------------------------------------------------------------------
(***************************************************************************)
(* The inductive invariant                                                 *)
(***************************************************************************)

\* A close works on a range of dates, and a draft is one that a close has made.
Shape == \A c \in Clients : Closes(req[c]) => req[c].from <= req[c].through

\* A close that has missed nothing is about to zero its range, or has done so.
LinesAreRight ==
  \A c \in Clients :
    LET r == req[c] IN
    ~r.missed =>
      /\ r.pc \in {"draft", "check", "post"} =>
           \A a \in Accounts : r.lines[a] = -balance[Range(r)][a]
      /\ r.pc = "lock" => \A a \in Accounts : balance[Range(r)][a] = 0

\* What is closed is locked, and a request that may book in it has an override
\* or passed its check before the lock was set.
ClosedIsGuarded ==
  \A k \in closed :
    /\ Locked(k.through)
    /\ \A c \in Clients :
         req[c].pc \in {"book", "post"} /\ Covers(k, req[c].through) =>
           req[c].override \/ req[c].raced

Inv == TypeOK /\ Shape /\ LinesAreRight /\ ClosedIsGuarded /\ ClosedIsZero

-----------------------------------------------------------------------------
LEMMA ZeroType == Zero \in Lines
  BY DEF Zero

LEMMA IdleType ==
  /\ Idle \in Requests
  /\ Idle.pc = "idle" /\ ~Closes(Idle)
  BY ZeroType DEF Idle, Requests, Closes

LEMMA RangeType ==
  ASSUME TypeOK, Shape, NEW c \in Clients, Closes(req[c])
  PROVE  Range(req[c]) \in Ranges
  BY DEF TypeOK, Requests, Shape, Range

\* A request that becomes r while the others keep everything
LEMMA Becomes ==
  ASSUME TypeOK, NEW c \in Clients, NEW r \in Requests, req' = [req EXCEPT ![c] = r]
  PROVE  /\ req' \in [Clients -> Requests] /\ req'[c] = r
         /\ \A o \in Clients : o # c => req'[o] = req[o]
  BY DEF TypeOK

\* The others after c has booked at d: all but missed stays.
LEMMA NoticedType ==
  ASSUME TypeOK, NEW c \in Clients, NEW d \in Dates, NEW r \in Requests, req' = Noticed(c, d, r)
  PROVE  /\ req' \in [Clients -> Requests] /\ req'[c] = r
         /\ \A o \in Clients : o # c =>
              req'[o] = IF Closes(req[o]) /\ Covers(Range(req[o]), d)
                        THEN [req[o] EXCEPT !.missed = TRUE] ELSE req[o]
<1>1. \A o \in Clients : req[o] \in Requests
  BY DEF TypeOK
<1>2. \A o \in Clients : [req[o] EXCEPT !.missed = TRUE] \in Requests
  BY <1>1 DEF Requests
<1>3. \A o \in Clients :
        Noticed(c, d, r)[o] = IF o = c THEN r
                              ELSE IF Closes(req[o]) /\ Covers(Range(req[o]), d)
                                   THEN [req[o] EXCEPT !.missed = TRUE] ELSE req[o]
  BY DEF Noticed
<1>4. Noticed(c, d, r) \in [Clients -> Requests]
  <2>1. \A o \in Clients : Noticed(c, d, r)[o] \in Requests
    BY <1>1, <1>2, <1>3
  <2>2. Noticed(c, d, r) = [o \in Clients |-> Noticed(c, d, r)[o]]
    BY DEF Noticed
  <2>3. QED
    BY <2>1, <2>2
<1>5. QED
  BY <1>3, <1>4

\* A step that books nothing and locks nothing
LEMMA QuietStep ==
  ASSUME Inv, NEW c \in Clients, NEW r \in Requests, req' = [req EXCEPT ![c] = r],
         UNCHANGED <<balance, locks, closed>>,
         drafts' \subseteq [date : Dates, lines : Lines, by : Clients],
         Closes(r) =>
           /\ r.from <= r.through
           /\ ~r.missed => r.pc \in {"draft", "check", "post"} /\ \A a \in Accounts : r.lines[a] = -balance[Range(r)][a],
         r.pc \in {"book", "post"} => MayPost(r.through, r.override)
                                       \/ (req[c].pc \in {"book", "post"} /\ r.through = req[c].through
                                           /\ r.override = req[c].override /\ r.raced = req[c].raced)
  PROVE  Inv'
<1>1. /\ req' \in [Clients -> Requests] /\ req'[c] = r
      /\ \A o \in Clients : o # c => req'[o] = req[o]
  BY Becomes DEF Inv
<1>2. TypeOK'
  BY <1>1 DEF Inv, TypeOK
<1>3. Shape'
  BY <1>1 DEF Inv, Shape
<1>4. LinesAreRight'
  <2> SUFFICES ASSUME NEW o \in Clients, ~req'[o].missed
               PROVE  /\ req'[o].pc \in {"draft", "check", "post"} =>
                           \A a \in Accounts : req'[o].lines[a] = -balance'[Range(req'[o])][a]
                      /\ req'[o].pc = "lock" => \A a \in Accounts : balance'[Range(req'[o])][a] = 0
    BY DEF LinesAreRight, Range
  <2>1. CASE o = c
    BY <1>1, <2>1 DEF Closes
  <2>2. CASE o # c
    BY <1>1, <2>2 DEF Inv, LinesAreRight
  <2>3. QED
    BY <2>1, <2>2
<1>5. ClosedIsGuarded'
  <2> SUFFICES ASSUME NEW k \in closed
               PROVE  /\ Locked(k.through)'
                      /\ \A o \in Clients :
                           req'[o].pc \in {"book", "post"} /\ Covers(k, req'[o].through) =>
                             req'[o].override \/ req'[o].raced
    BY DEF ClosedIsGuarded, Covers
  <2>1. Locked(k.through) /\ k \in Ranges
    BY DEF Inv, ClosedIsGuarded, TypeOK
  <2>2. ASSUME NEW d \in Dates, Covers(k, d)
        PROVE  Locked(d)
    BY <2>1, <2>2 DEF Locked, Rows, Covers, Inv, TypeOK
  <2>3. ASSUME NEW o \in Clients, req'[o].pc \in {"book", "post"}, Covers(k, req'[o].through)
        PROVE  req'[o].override \/ req'[o].raced
    <3>1. CASE o # c
      BY <1>1, <2>3, <3>1 DEF Inv, ClosedIsGuarded
    <3>2. CASE o = c
      <4>1. r.through \in Dates
        BY DEF Requests
      <4>2. CASE MayPost(r.through, r.override)
        BY <1>1, <2>2, <2>3, <3>2, <4>1, <4>2 DEF MayPost
      <4>3. CASE ~MayPost(r.through, r.override)
        BY <1>1, <2>3, <3>2, <4>3 DEF Inv, ClosedIsGuarded
      <4>4. QED
        BY <4>2, <4>3
    <3>3. QED
      BY <3>1, <3>2
  <2>4. QED
    BY <2>1, <2>3 DEF Locked, Rows
<1>6. ClosedIsZero'
  BY DEF Inv, ClosedIsZero
<1>7. QED
  BY <1>2, <1>3, <1>4, <1>5, <1>6 DEF Inv

\* A step that books lines at d, and zeroes the range of c if c closes
LEMMA BookingStep ==
  ASSUME Inv, NEW c \in Clients, NEW d \in Dates, NEW lines \in Lines, NEW r \in Requests,
         Add(d, lines), req' = Noticed(c, d, r), locks' = locks,
         drafts' \subseteq [date : Dates, lines : Lines, by : Clients],
         closed' \subseteq closed, \A k \in closed' : ~Covers(k, d),
         r.pc \in {"idle", "lock"},
         r.pc = "lock" => /\ r.from <= r.through
                          /\ r.missed \/ (/\ Covers(Range(r), d)
                                          /\ \A a \in Accounts : lines[a] = -balance[Range(r)][a])
  PROVE  Inv'
<1>1. /\ req' \in [Clients -> Requests] /\ req'[c] = r
      /\ \A o \in Clients : o # c =>
           req'[o] = IF Closes(req[o]) /\ Covers(Range(req[o]), d)
                     THEN [req[o] EXCEPT !.missed = TRUE] ELSE req[o]
  BY NoticedType DEF Inv
<1>o. ASSUME NEW o \in Clients, o # c
      PROVE  /\ req'[o].pc = req[o].pc /\ req'[o].from = req[o].from /\ req'[o].through = req[o].through
             /\ req'[o].lines = req[o].lines /\ req'[o].override = req[o].override
             /\ req'[o].raced = req[o].raced
             /\ ~req'[o].missed => ~req[o].missed /\ ~(Closes(req[o]) /\ Covers(Range(req[o]), d))
  <2>1. req[o] \in Requests
    BY DEF Inv, TypeOK
  <2>2. QED
    BY <2>1, <1>1, <1>o DEF Requests
<1>b. /\ balance' \in [Ranges -> Lines]
      /\ \A k \in Ranges, a \in Accounts :
           balance'[k][a] = IF Covers(k, d) THEN balance[k][a] + lines[a] ELSE balance[k][a]
      /\ \A k \in Ranges, a \in Accounts : balance[k][a] \in Int
  BY DEF Add, Inv, TypeOK
<1>2. TypeOK'
  BY <1>1, <1>b DEF Inv, TypeOK
<1>3. Shape'
  BY <1>1, <1>o DEF Inv, Shape, Closes
<1>4. LinesAreRight'
  <2> SUFFICES ASSUME NEW o \in Clients, ~req'[o].missed
               PROVE  /\ req'[o].pc \in {"draft", "check", "post"} =>
                           \A a \in Accounts : req'[o].lines[a] = -balance'[Range(req'[o])][a]
                      /\ req'[o].pc = "lock" => \A a \in Accounts : balance'[Range(req'[o])][a] = 0
    BY DEF LinesAreRight, Range
  <2>1. CASE o = c
    <3>1. CASE r.pc = "lock"
      <4>1. Range(r) \in Ranges /\ Covers(Range(r), d) /\ \A a \in Accounts : lines[a] = -balance[Range(r)][a]
        BY <1>1, <2>1, <3>1 DEF Requests, Range
      <4>2. \A a \in Accounts : balance'[Range(r)][a] = 0
        BY <4>1, <1>b
      <4>3. QED
        BY <1>1, <2>1, <3>1, <4>2
    <3>2. QED
      BY <1>1, <2>1, <3>1
  <2>2. CASE o # c /\ Closes(req[o])
    <3>1. Range(req'[o]) = Range(req[o]) /\ Range(req[o]) \in Ranges /\ ~Covers(Range(req[o]), d)
      BY <1>o, <2>2, RangeType DEF Range, Inv
    <3>2. \A a \in Accounts : balance'[Range(req[o])][a] = balance[Range(req[o])][a]
      BY <1>b, <3>1
    <3>3. QED
      BY <1>o, <2>2, <3>1, <3>2 DEF Inv, LinesAreRight
  <2>3. CASE o # c /\ ~Closes(req[o])
    BY <1>o, <2>3 DEF Closes
  <2>4. QED
    BY <2>1, <2>2, <2>3
<1>5. ClosedIsGuarded'
  <2> SUFFICES ASSUME NEW k \in closed'
               PROVE  /\ Locked(k.through)'
                      /\ \A o \in Clients :
                           req'[o].pc \in {"book", "post"} /\ Covers(k, req'[o].through) =>
                             req'[o].override \/ req'[o].raced
    BY DEF ClosedIsGuarded, Covers
  <2>1. Locked(k.through)'
    BY DEF Inv, ClosedIsGuarded, Locked, Rows
  <2>2. ASSUME NEW o \in Clients, req'[o].pc \in {"book", "post"}, Covers(k, req'[o].through)
        PROVE  req'[o].override \/ req'[o].raced
    <3>1. o # c
      BY <1>1, <2>2
    <3>2. QED
      BY <1>o, <2>2, <3>1 DEF Inv, ClosedIsGuarded
  <2>3. QED
    BY <2>1, <2>2
<1>6. ClosedIsZero'
  <2> SUFFICES ASSUME NEW k \in closed', NEW a \in Accounts
               PROVE  balance'[k][a] = 0
    BY DEF ClosedIsZero
  <2>1. k \in Ranges /\ balance[k][a] = 0 /\ ~Covers(k, d)
    BY DEF Inv, ClosedIsZero, TypeOK
  <2>2. QED
    BY <2>1, <1>b
<1>7. QED
  BY <1>2, <1>3, <1>4, <1>5, <1>6 DEF Inv

\* A step that inserts a lock and ends the request
LEMMA LockingStep ==
  ASSUME Inv, NEW c \in Clients, NEW through \in Dates, Insert(c, through),
         UNCHANGED <<balance, drafts>>, closed' \subseteq Ranges,
         \A k \in closed' : k \in closed \/ (k.through = through /\ \A a \in Accounts : balance[k][a] = 0)
  PROVE  Inv'
<1>1. PICK i \in LockIds \ Rows : locks' = [locks EXCEPT ![i] = through]
  BY DEF Insert
<1>2. locks' \in [LockIds -> 0..MaxDate] /\ locks'[i] = through /\ Rows' = Rows \cup {i}
      /\ \A j \in Rows : locks'[j] = locks[j]
  BY <1>1 DEF Inv, TypeOK, Rows
<1>3. \A o \in Clients :
        req'[o] = IF o = c THEN Idle
                  ELSE IF req[o].pc \in {"book", "post"} THEN [req[o] EXCEPT !.raced = TRUE] ELSE req[o]
  BY DEF Insert
<1>4. req' \in [Clients -> Requests]
  <2>1. \A o \in Clients : req[o] \in Requests
    BY DEF Inv, TypeOK
  <2>2. \A o \in Clients : [req[o] EXCEPT !.raced = TRUE] \in Requests
    BY <2>1 DEF Requests
  <2>3. \A o \in Clients : req'[o] \in Requests
    BY <1>3, <2>1, <2>2, IdleType
  <2>4. req' = [o \in Clients |-> req'[o]]
    BY DEF Insert
  <2>5. QED
    BY <2>3, <2>4
<1>o. ASSUME NEW o \in Clients, o # c
      PROVE  /\ req'[o].pc = req[o].pc /\ req'[o].from = req[o].from /\ req'[o].through = req[o].through
             /\ req'[o].lines = req[o].lines /\ req'[o].missed = req[o].missed
             /\ req'[o].pc \in {"book", "post"} => req'[o].raced
  <2>1. req[o] \in Requests
    BY DEF Inv, TypeOK
  <2>2. QED
    BY <2>1, <1>3, <1>o DEF Requests
<1>5. TypeOK'
  BY <1>2, <1>4 DEF Inv, TypeOK
<1>6. Shape'
  BY <1>3, <1>o, IdleType DEF Inv, Shape, Closes
<1>7. LinesAreRight'
  <2> SUFFICES ASSUME NEW o \in Clients, ~req'[o].missed
               PROVE  /\ req'[o].pc \in {"draft", "check", "post"} =>
                           \A a \in Accounts : req'[o].lines[a] = -balance[Range(req'[o])][a]
                      /\ req'[o].pc = "lock" => \A a \in Accounts : balance[Range(req'[o])][a] = 0
    BY DEF LinesAreRight, Range
  <2>1. CASE o = c
    BY <1>3, <2>1, IdleType
  <2>2. CASE o # c
    <3>1. Range(req'[o]) = Range(req[o])
      BY <1>o, <2>2 DEF Range
    <3>2. QED
      BY <1>o, <2>2, <3>1 DEF Inv, LinesAreRight
  <2>3. QED
    BY <2>1, <2>2
<1>8. ClosedIsGuarded'
  <2> SUFFICES ASSUME NEW k \in closed'
               PROVE  /\ Locked(k.through)'
                      /\ \A o \in Clients :
                           req'[o].pc \in {"book", "post"} /\ Covers(k, req'[o].through) =>
                             req'[o].override \/ req'[o].raced
    BY DEF ClosedIsGuarded, Covers
  <2>1. Locked(k.through)'
    <3>1. CASE k \in closed
      BY <1>2, <3>1 DEF Inv, ClosedIsGuarded, Locked
    <3>2. CASE k.through = through
      BY <1>2, <3>2 DEF Locked
    <3>3. QED
      BY <3>1, <3>2
  <2>2. \A o \in Clients : req'[o].pc \in {"book", "post"} => req'[o].raced
    BY <1>3, <1>o, IdleType
  <2>3. QED
    BY <2>1, <2>2
<1>9. ClosedIsZero'
  BY DEF Inv, ClosedIsZero
<1>10. QED
  BY <1>5, <1>6, <1>7, <1>8, <1>9 DEF Inv

\* What a paper books where it is locked, it books with an override or raced.
LEMMA Uncovered ==
  ASSUME Inv, NEW c \in Clients, req[c].pc \in {"book", "post"}
  PROVE  \A k \in Undisturbed(c, req[c].through) : k \in closed /\ ~Covers(k, req[c].through)
  BY DEF Undisturbed, Inv, ClosedIsGuarded

LEMMA BeginBookStep ==
  ASSUME Inv, NEW c \in Clients, NEW d \in Dates, NEW a \in Accounts, NEW n \in {-1, 1},
         NEW override \in BOOLEAN, BeginBook(c, d, a, n, override)
  PROVE  Inv'
<1> DEFINE r == [Idle EXCEPT !.pc = "book", !.through = d, !.lines[a] = n, !.override = override]
<1>1. Idle.lines \in Lines /\ [Idle.lines EXCEPT ![a] = n] \in Lines
  BY IdleType DEF Requests
<1>2. r \in Requests /\ r.pc = "book" /\ r.through = d /\ r.override = override
  BY <1>1, IdleType DEF Requests
<1>3. req' = [req EXCEPT ![c] = r] /\ UNCHANGED <<balance, drafts, locks, closed>> /\ MayPost(d, override)
  BY DEF BeginBook
<1> HIDE DEF r
<1>4. drafts' \subseteq [date : Dates, lines : Lines, by : Clients]
  BY <1>3 DEF Inv, TypeOK
<1>5. QED
  BY <1>2, <1>3, <1>4, QuietStep DEF Closes

LEMMA BeginCloseStep ==
  ASSUME Inv, NEW c \in Clients, NEW through \in Dates, NEW from \in 1..through,
         NEW override \in BOOLEAN, BeginClose(c, from, through, override)
  PROVE  Inv'
<1> DEFINE lines == Closing(from, through)
           r == [Idle EXCEPT !.pc = "draft", !.from = from, !.through = through,
                             !.lines = lines, !.override = override]
<1>1. lines \in Lines
  BY DEF Closing, Inv, TypeOK
<1>d. from \in Dates /\ from <= through
  OBVIOUS
<1>2. /\ r \in Requests /\ r.pc = "draft" /\ r.from = from /\ r.through = through
      /\ r.lines = lines
  <2> HIDE DEF lines
  <2> USE DEF Requests
  <2> HIDE DEF Dates, Lines
  <2>1. Idle \in Requests
    BY IdleType
  <2>2. QED
    BY <1>1, <1>d, <2>1
<1>3. req' = [req EXCEPT ![c] = r] /\ UNCHANGED <<balance, drafts, locks, closed>>
  BY DEF BeginClose
<1>4. \A a \in Accounts : r.lines[a] = -balance[Range(r)][a]
  BY <1>2 DEF Closing, Range
<1> HIDE DEF r
<1>5. drafts' \subseteq [date : Dates, lines : Lines, by : Clients]
  BY <1>3 DEF Inv, TypeOK
<1>6. QED
  BY <1>2, <1>3, <1>4, <1>5, <1>d, QuietStep

\* Steps of a close that book nothing
LEMMA CloseStep ==
  ASSUME Inv, NEW c \in Clients, SaveDraft(c) \/ CheckLock(c)
  PROVE  Inv'
<1>r. req[c] \in Requests
  BY DEF Inv, TypeOK
<1>1. CASE SaveDraft(c)
  <2> DEFINE r == [req[c] EXCEPT !.pc = "check"]
  <2>1. /\ r \in Requests /\ r.pc = "check" /\ r.from = req[c].from /\ r.through = req[c].through
        /\ r.lines = req[c].lines /\ r.missed = req[c].missed
    BY <1>r DEF Requests
  <2>2. /\ req' = [req EXCEPT ![c] = r] /\ UNCHANGED <<balance, locks, closed>>
        /\ drafts' = drafts \cup {Draft(c)} /\ req[c].pc = "draft"
    BY <1>1 DEF SaveDraft
  <2>3. r.from <= r.through /\ Range(r) = Range(req[c])
    BY <2>1, <2>2 DEF Inv, Shape, Closes, Range
  <2>4. drafts' \subseteq [date : Dates, lines : Lines, by : Clients]
    BY <1>r, <2>2 DEF Inv, TypeOK, Draft, Requests
  <2>5. ~r.missed => \A a \in Accounts : r.lines[a] = -balance[Range(r)][a]
    BY <2>1, <2>2, <2>3 DEF Inv, LinesAreRight
  <2> HIDE DEF r
  <2>6. QED
    BY <2>1, <2>2, <2>3, <2>4, <2>5, QuietStep
<1>2. CASE CheckLock(c) /\ MayPost(req[c].through, req[c].override)
  <2> DEFINE r == [req[c] EXCEPT !.pc = "post"]
  <2>1. /\ r \in Requests /\ r.pc = "post" /\ r.from = req[c].from /\ r.through = req[c].through
        /\ r.lines = req[c].lines /\ r.missed = req[c].missed /\ r.override = req[c].override
    BY <1>r DEF Requests
  <2>2. /\ req' = [req EXCEPT ![c] = r] /\ UNCHANGED <<balance, drafts, locks, closed>>
        /\ req[c].pc = "check"
    BY <1>2 DEF CheckLock
  <2>3. r.from <= r.through /\ Range(r) = Range(req[c])
    BY <2>1, <2>2 DEF Inv, Shape, Closes, Range
  <2>4. drafts' \subseteq [date : Dates, lines : Lines, by : Clients]
    BY <2>2 DEF Inv, TypeOK
  <2>5. ~r.missed => \A a \in Accounts : r.lines[a] = -balance[Range(r)][a]
    BY <2>1, <2>2, <2>3 DEF Inv, LinesAreRight
  <2> HIDE DEF r
  <2>6. QED
    BY <1>2, <2>1, <2>2, <2>3, <2>4, <2>5, QuietStep
<1>3. CASE CheckLock(c) /\ ~MayPost(req[c].through, req[c].override)
  <2>1. req' = [req EXCEPT ![c] = Idle] /\ UNCHANGED <<balance, drafts, locks, closed>>
    BY <1>3 DEF CheckLock
  <2>2. drafts' \subseteq [date : Dates, lines : Lines, by : Clients]
    BY <2>1 DEF Inv, TypeOK
  <2>3. QED
    BY <2>1, <2>2, IdleType, QuietStep
<1>4. QED
  BY <1>1, <1>2, <1>3

\* Steps of a lock request that insert nothing, and crashes
LEMMA LockStep ==
  ASSUME Inv, NEW c \in Clients,
         (\E through \in Dates : BeginLock(c, through)) \/ Acquire(c) \/ Crash(c)
  PROVE  Inv'
<1>r. req[c] \in Requests
  BY DEF Inv, TypeOK
<1>1. PICK r \in Requests : /\ req' = [req EXCEPT ![c] = r] /\ r.pc \in {"idle", "select", "insert"}
                            /\ UNCHANGED <<balance, drafts, locks, closed>>
  <2>1. ASSUME NEW through \in Dates, BeginLock(c, through)
        PROVE  LET r == [Idle EXCEPT !.pc = "select", !.through = through, !.seen = Rows] IN
               r \in Requests /\ r.pc = "select" /\ req' = [req EXCEPT ![c] = r]
               /\ UNCHANGED <<balance, drafts, locks, closed>>
    BY <2>1, IdleType DEF BeginLock, Requests, Rows
  <2>2. CASE Acquire(c)
    <3> DEFINE current == {i \in req[c].seen : i \in Rows}
               r == [req[c] EXCEPT !.pc = "insert", !.seen = current]
    <3>1. r \in Requests /\ r.pc = "insert"
      BY <1>r DEF Requests
    <3>2. req' = [req EXCEPT ![c] = Idle] \/ req' = [req EXCEPT ![c] = r]
      BY <2>2 DEF Acquire
    <3>3. UNCHANGED <<balance, drafts, locks, closed>>
      BY <2>2 DEF Acquire
    <3> HIDE DEF r
    <3>4. QED
      BY <3>1, <3>2, <3>3, IdleType
  <2>3. CASE Crash(c)
    BY <2>3, IdleType DEF Crash
  <2>4. QED
    BY <2>1, <2>2, <2>3
<1>2. drafts' \subseteq [date : Dates, lines : Lines, by : Clients]
  BY <1>1 DEF Inv, TypeOK
<1>3. ~Closes(r) /\ r.pc \notin {"book", "post"}
  BY <1>1 DEF Closes
<1>4. QED
  BY <1>1, <1>2, <1>3, QuietStep

\* Steps that book
LEMMA BookStep ==
  ASSUME Inv, NEW c \in Clients,
         \/ Book(c) \/ PostClosing(c)
         \/ \E draft \in drafts, override \in BOOLEAN : PostDraft(c, draft, override)
  PROVE  Inv'
<1>r. req[c] \in Requests /\ drafts \subseteq [date : Dates, lines : Lines, by : Clients]
  BY DEF Inv, TypeOK
<1>1. CASE Book(c)
  <2>1. req[c].through \in Dates /\ req[c].lines \in Lines
    BY <1>r DEF Requests
  <2>2. /\ Add(req[c].through, req[c].lines) /\ req' = Noticed(c, req[c].through, Idle)
        /\ closed' = Undisturbed(c, req[c].through) /\ drafts' = drafts /\ locks' = locks
        /\ req[c].pc = "book"
    BY <1>1 DEF Book
  <2>3. closed' \subseteq closed /\ \A k \in closed' : ~Covers(k, req[c].through)
    BY <2>2, Uncovered
  <2>4. QED
    BY <1>r, <2>1, <2>2, <2>3, IdleType, BookingStep
<1>2. CASE PostClosing(c)
  <2> DEFINE r == [Idle EXCEPT !.pc = "lock", !.from = req[c].from, !.through = req[c].through,
                               !.missed = req[c].missed]
  <2>1. req[c].through \in Dates /\ req[c].lines \in Lines
    BY <1>r DEF Requests
  <2>2. /\ Add(req[c].through, req[c].lines) /\ req' = Noticed(c, req[c].through, r)
        /\ closed' = Undisturbed(c, req[c].through) /\ drafts' = drafts \ {Draft(c)} /\ locks' = locks
        /\ req[c].pc = "post"
    BY <1>2 DEF PostClosing
  <2>3. closed' \subseteq closed /\ \A k \in closed' : ~Covers(k, req[c].through)
    BY <2>2, Uncovered
  <2>4. /\ r \in Requests /\ r.pc = "lock" /\ r.from = req[c].from /\ r.through = req[c].through
        /\ r.missed = req[c].missed /\ Range(r) = Range(req[c])
    BY <1>r, IdleType DEF Requests, Range
  <2>5. r.from <= r.through /\ r.from \in Dates /\ r.through \in Dates
    BY <1>r, <2>2, <2>4 DEF Inv, Shape, Closes, Requests
  <2>6. Covers(Range(r), req[c].through)
    BY <2>4, <2>5 DEF Covers, Range
  <2>7. r.missed \/ \A a \in Accounts : req[c].lines[a] = -balance[Range(r)][a]
    BY <2>2, <2>4 DEF Inv, LinesAreRight
  <2> HIDE DEF r
  <2>8. QED
    BY <1>r, <2>1, <2>2, <2>3, <2>4, <2>5, <2>6, <2>7, BookingStep
<1>3. ASSUME NEW draft \in drafts, NEW override \in BOOLEAN, PostDraft(c, draft, override)
      PROVE  Inv'
  <2>1. draft.date \in Dates /\ draft.lines \in Lines
    BY <1>r
  <2>2. /\ Add(draft.date, draft.lines) /\ req' = Noticed(c, draft.date, Idle)
        /\ closed' = {k \in closed : ~(Covers(k, draft.date) /\ override)}
        /\ drafts' = drafts \ {draft} /\ locks' = locks /\ MayPost(draft.date, override)
    BY <1>3 DEF PostDraft
  <2>3. ASSUME NEW k \in closed', Covers(k, draft.date)
        PROVE  FALSE
    <3>1. k \in closed /\ ~override /\ k \in Ranges
      BY <2>2, <2>3 DEF Inv, TypeOK
    <3>2. PICK i \in Rows : k.through <= locks[i]
      BY <3>1 DEF Inv, ClosedIsGuarded, Locked
    <3>3. locks[i] \in 0..MaxDate
      BY DEF Inv, TypeOK, Rows
    <3>4. draft.date <= locks[i]
      BY <2>1, <2>3, <3>1, <3>2, <3>3 DEF Covers
    <3>5. QED
      BY <2>2, <3>1, <3>4 DEF MayPost, Locked
  <2>4. closed' \subseteq closed /\ \A k \in closed' : ~Covers(k, draft.date)
    BY <2>2, <2>3
  <2>5. QED
    BY <1>r, <2>1, <2>2, <2>4, IdleType, BookingStep
<1>4. QED
  BY <1>1, <1>2, <1>3

\* Steps that change locks
LEMMA LocksStep ==
  ASSUME Inv, NEW c \in Clients, LockClosed(c) \/ InsertLock(c)
  PROVE  Inv'
<1>r. req[c] \in Requests /\ req[c].through \in Dates /\ closed \subseteq Ranges
  BY DEF Inv, TypeOK, Requests
<1>1. CASE LockClosed(c)
  <2>1. /\ Insert(c, req[c].through) /\ UNCHANGED <<balance, drafts>> /\ req[c].pc = "lock"
        /\ closed' = IF req[c].missed THEN closed ELSE closed \cup {Range(req[c])}
    BY <1>1 DEF LockClosed
  <2>2. Range(req[c]) \in Ranges /\ Range(req[c]).through = req[c].through
    BY <2>1, RangeType DEF Inv, Closes, Range
  <2>3. ~req[c].missed => \A a \in Accounts : balance[Range(req[c])][a] = 0
    BY <2>1 DEF Inv, LinesAreRight
  <2>4. closed' \subseteq Ranges
    BY <1>r, <2>1, <2>2
  <2>5. \A k \in closed' : k \in closed \/ (k.through = req[c].through /\ \A a \in Accounts : balance[k][a] = 0)
    BY <2>1, <2>2, <2>3
  <2>6. QED
    BY <1>r, <2>1, <2>4, <2>5, LockingStep
<1>2. CASE InsertLock(c)
  BY <1>r, <1>2, LockingStep DEF InsertLock
<1>3. QED
  BY <1>1, <1>2

LEMMA DeleteLockStep ==
  ASSUME Inv, NEW i \in LockIds, DeleteLock(i)
  PROVE  Inv'
<1>1. /\ locks' = [locks EXCEPT ![i] = 0] /\ UNCHANGED <<balance, drafts, req>>
      /\ closed' = {k \in closed : \E j \in Rows \ {i} : k.through <= locks[j]}
  BY DEF DeleteLock
<1>2. TypeOK'
  BY <1>1 DEF Inv, TypeOK
<1>3. Shape' /\ LinesAreRight'
  BY <1>1 DEF Inv, Shape, Closes, LinesAreRight, Range
<1>4. ClosedIsGuarded'
  <2> SUFFICES ASSUME NEW k \in closed'
               PROVE  /\ Locked(k.through)'
                      /\ \A o \in Clients :
                           req'[o].pc \in {"book", "post"} /\ Covers(k, req'[o].through) =>
                             req'[o].override \/ req'[o].raced
    BY DEF ClosedIsGuarded, Covers
  <2>1. PICK j \in Rows \ {i} : k.through <= locks[j]
    BY <1>1
  <2>2. j \in Rows' /\ locks'[j] = locks[j]
    BY <1>1, <2>1 DEF Rows, Inv, TypeOK
  <2>3. Locked(k.through)'
    BY <2>1, <2>2 DEF Locked
  <2>4. QED
    BY <1>1, <2>3 DEF Inv, ClosedIsGuarded
<1>5. ClosedIsZero'
  BY <1>1 DEF Inv, ClosedIsZero
<1>6. QED
  BY <1>2, <1>3, <1>4, <1>5 DEF Inv

-----------------------------------------------------------------------------
LEMMA InvInit == Init => Inv
<1> SUFFICES ASSUME Init PROVE Inv
  OBVIOUS
<1>1. \A c \in Clients : req[c].pc = "idle" /\ req[c] \in Requests
  BY IdleType DEF Init
<1>2. TypeOK
  BY IdleType, ZeroType DEF Init, TypeOK
<1>3. Shape /\ LinesAreRight
  BY <1>1 DEF Shape, LinesAreRight, Closes
<1>4. ClosedIsGuarded /\ ClosedIsZero
  BY DEF Init, ClosedIsGuarded, ClosedIsZero
<1>5. QED
  BY <1>2, <1>3, <1>4 DEF Inv

LEMMA InvStep ==
  ASSUME Inv, Next
  PROVE  Inv'
  BY BeginBookStep, BeginCloseStep, CloseStep, LockStep, BookStep, LocksStep, DeleteLockStep DEF Next

LEMMA InvStutter == Inv /\ UNCHANGED vars => Inv'
<1> SUFFICES ASSUME Inv, UNCHANGED vars PROVE Inv'
  OBVIOUS
<1>1. QED
  BY DEF Inv, vars, TypeOK, Shape, Closes, LinesAreRight, Range, ClosedIsGuarded, Locked, Rows, Covers,
         ClosedIsZero

\* Every variable keeps its type, whatever overlaps and crashes.
THEOREM TypeCorrect == Spec => []TypeOK
<1>1. Inv /\ [Next]_vars => Inv'
  BY InvStep, InvStutter
<1>2. Inv => TypeOK
  BY DEF Inv
<1>3. QED
  BY <1>1, <1>2, InvInit, PTL DEF Spec

\* A range that close_year has closed and locked holds no profit or loss, for
\* any number of closes, postings and lock changes at once, apart from the
\* entries that are named: missed by the preview, overriding, or under way
\* when the lock was set.
THEOREM ClosedStaysZero == Spec => []ClosedIsZero
<1>1. Inv /\ [Next]_vars => Inv'
  BY InvStep, InvStutter
<1>2. Inv => ClosedIsZero
  BY DEF Inv
<1>3. QED
  BY <1>1, <1>2, InvInit, PTL DEF Spec

=============================================================================
