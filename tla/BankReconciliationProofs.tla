---------------------- MODULE BankReconciliationProofs ----------------------
(***************************************************************************)
(* What holds of bank statement lines and their matches for any number of  *)
(* lines, entries and requests, whatever overlaps and crashes.             *)
(***************************************************************************)
EXTENDS BankReconciliation, FiniteSetTheorems, TLAPS

USE BankReconciliationAssumption

-----------------------------------------------------------------------------
(***************************************************************************)
(* The inductive invariant                                                 *)
(***************************************************************************)

HasBooked(q) == q.by \in {"split", "compound", "rule"} /\ q.pc \in {"match", "save", "mark"}

\* What a request may rely on: the match it is about to save fits what it has
\* read, the line it books an entry for was not MATCHED when it was read, the
\* entry it has booked is booked by it for its line, and the matches it is about
\* to remove are its line's.
SessionOK(q) ==
  /\ q.pc = "save" => Fits(q.line, Cardinality(q.live))
  /\ q.pc = "book" => /\ q.by \in {"split", "compound", "rule"}
                     /\ q.seen[q.line].status # "MATCHED"
  /\ q.pc = "unmatch" => \A m \in q.live : m.line = q.line
  /\ HasBooked(q) => /\ entry[q.entry].status # "ABSENT" /\ entry[q.entry].line = q.line
                     /\ entry[q.entry].by = q.by

SessionsOK == \A r \in Requests : SessionOK(req[r])

\* An entry that is not booked yet belongs to no line.
EntriesOK == \A e \in Entries : entry[e].status = "ABSENT" => entry[e].line = None

\* PARTIAL and IGNORED are set by hand only.
Plain == \A l \in Lines \ edited : row[l].status \in {"UNMATCHED", "MATCHED"}

Inv ==
  /\ TypeOK /\ SessionsOK /\ EntriesOK /\ Plain /\ IsFiniteSet(matches)
  /\ NeverOverMatched /\ JunctionFollowed /\ BookedForOnce

-----------------------------------------------------------------------------
LEMMA IdleOK ==
  /\ Idle \in Sessions /\ Placed(Idle) /\ SessionOK(Idle) /\ ~HasBooked(Idle)
  BY DEF Idle, Sessions, Placed, SessionOK, HasBooked, Fresh, Rows, Statuses, Kinds

LEMMA OnwardOK ==
  ASSUME TypeOK, NEW r \in Requests, NEW l \in Lines
  PROVE  /\ Onward(r, l) \in Sessions /\ Placed(Onward(r, l))
         /\ SessionOK(Onward(r, l)) /\ ~HasBooked(Onward(r, l))
         /\ Onward(r, l).pc \in {"idle", "run"}
<1>1. req[r] \in Sessions
  BY DEF TypeOK
<1>2. CASE req[r].todo \subseteq {l}
  BY <1>2, IdleOK DEF Onward, Idle, SessionOK, HasBooked
<1>3. CASE ~(req[r].todo \subseteq {l})
  BY <1>1, <1>3 DEF Onward, Sessions, Placed, SessionOK, HasBooked
<1>4. QED
  BY <1>2, <1>3

LEMMA ReadOK ==
  ASSUME TypeOK, NEW r \in Requests, NEW l \in Lines,
         NEW pc \in {"match", "book", "unmatch", "edit"}, NEW by \in Kinds
  PROVE  /\ Read(r, l, pc, by) \in Sessions
         /\ Read(r, l, pc, by).pc = pc /\ Read(r, l, pc, by).by = by
         /\ Read(r, l, pc, by).line = l /\ Read(r, l, pc, by).seen[l] = row[l]
<1>1. row[l] \in Rows
  BY DEF TypeOK
<1>2. Idle \in Sessions /\ Idle.seen \in [Lines -> Rows]
  BY IdleOK DEF Sessions
<1>3. [Idle.seen EXCEPT ![l] = row[l]] \in [Lines -> Rows]
  BY <1>1, <1>2
<1>4. QED
  BY <1>1, <1>2, <1>3 DEF Read, Idle, Sessions

LEMMA FlushedOK ==
  ASSUME TypeOK, NEW r \in Requests, NEW l \in Lines, NEW s \in Statuses, row' = Flushed(r, l, s)
  PROVE  /\ row' \in [Lines -> Rows]
         /\ \A k \in Lines : k # l => row'[k] = row[k]
         /\ row'[l].status = IF s = req[r].seen[l].status THEN row[l].status ELSE s
  BY DEF TypeOK, Flushed, Rows

\* The state of requests after r has become q
LEMMA Becomes ==
  ASSUME TypeOK, NEW r \in Requests, NEW q \in Sessions, Placed(q), Go(r, q)
  PROVE  /\ req' \in [Requests -> Sessions] /\ \A o \in Requests : Placed(req'[o])
         /\ req'[r] = q /\ \A o \in Requests : o # r => req'[o] = req[o]
  BY DEF TypeOK, Go, Placed

\* A step of r that touches no table.  It may not forget what it owes, unless
\* it is noted.
LEMMA QuietStep ==
  ASSUME Inv, NEW r \in Requests, NEW q \in Sessions, Placed(q), SessionOK(q), Go(r, q),
         UNCHANGED <<row, matches, entry, raced, edited>>,
         troubles' \in 0..MaxTroubles,
         torn \subseteq torn', torn' \subseteq Lines,
         \A l \in Lines \ torn' : Owes(r, l) => HasBooked(q) /\ q.line = l
  PROVE  Inv'
<1>1. /\ req' \in [Requests -> Sessions] /\ \A o \in Requests : Placed(req'[o])
      /\ req'[r] = q /\ \A o \in Requests : o # r => req'[o] = req[o]
  BY Becomes DEF Inv
<1>2. TypeOK'
  BY <1>1 DEF Inv, TypeOK
<1>3. SessionsOK'
  <2> SUFFICES ASSUME NEW o \in Requests PROVE SessionOK(req[o])'
    BY DEF SessionsOK
  <2>1. CASE o = r
    BY <1>1, <2>1 DEF SessionOK, Fits, HasBooked
  <2>2. CASE o # r
    BY <1>1, <2>2 DEF Inv, SessionsOK, SessionOK, Fits, HasBooked
  <2>3. QED
    BY <2>1, <2>2
<1>4. BookedForOnce'
  <2> SUFFICES ASSUME NEW l \in Lines \ (raced' \cup edited' \cup torn')
               PROVE  /\ \A d, e \in Booked(l)' : d = e
                      /\ Booked(l)' # {} => row'[l].status = "MATCHED" \/ \E o \in Requests : Owes(o, l)'
    BY DEF BookedForOnce
  <2>1. Booked(l)' = Booked(l) /\ row' = row
    BY DEF Booked
  <2>2. ASSUME NEW o \in Requests, Owes(o, l) PROVE Owes(o, l)'
    BY <1>1, <2>2 DEF Owes, HasBooked
  <2>3. /\ \A d, e \in Booked(l) : d = e
        /\ Booked(l) # {} => row[l].status = "MATCHED" \/ \E o \in Requests : Owes(o, l)
    BY DEF Inv, BookedForOnce
  <2>4. QED
    BY <2>1, <2>2, <2>3
<1>5. /\ EntriesOK' /\ Plain' /\ IsFiniteSet(matches')
      /\ NeverOverMatched' /\ JunctionFollowed'
  BY DEF Inv, EntriesOK, Plain, NeverOverMatched, JunctionFollowed, RuleBooked, Live
<1>6. QED
  BY <1>2, <1>3, <1>4, <1>5 DEF Inv

-----------------------------------------------------------------------------
(***************************************************************************)
(* The steps that touch no table                                           *)
(***************************************************************************)

LEMMA NotOwing ==
  ASSUME NEW r \in Requests, req[r].pc \in {"idle", "run", "book", "unmatch", "edit"}, NEW l \in Lines
  PROVE  ~Owes(r, l)
  BY DEF Owes

LEMMA BeginMatchKeeps ==
  ASSUME Inv, NEW r \in Requests, NEW l \in Lines, NEW e \in Entries, BeginMatch(r, l, e)
  PROVE  Inv'
<1> DEFINE p == Read(r, l, "match", "hand")
<1> DEFINE q == [p EXCEPT !.entry = e]
<1>0. p \in Sessions /\ p.pc = "match" /\ p.by = "hand" /\ p.line = l
  BY ReadOK DEF Inv, Kinds
<1> HIDE DEF p
<1>1. /\ q \in Sessions /\ q.pc = "match" /\ q.by = "hand" /\ q.line = l /\ q.entry = e
  BY <1>0 DEF Sessions
<1>2. Placed(q) /\ SessionOK(q)
  BY <1>1 DEF Placed, SessionOK, HasBooked
<1>3. \A k \in Lines : ~Owes(r, k)
  BY NotOwing DEF BeginMatch
<1>4. Go(r, q) /\ UNCHANGED <<row, matches, entry, troubles, raced, edited, torn>>
  BY DEF BeginMatch, p
<1> HIDE DEF q
<1>5. QED
  BY <1>1, <1>2, <1>3, <1>4, QuietStep DEF Inv, TypeOK

LEMMA AllocateKeeps ==
  ASSUME Inv, NEW r \in Requests, Allocate(r)
  PROVE  Inv'
<1> DEFINE q == [req[r] EXCEPT !.pc = "save", !.live = Live(req[r].line)]
<1>1. req[r] \in Sessions /\ Placed(req[r]) /\ SessionOK(req[r]) /\ req[r].pc = "match"
  BY DEF Inv, TypeOK, SessionsOK, Allocate
<1>2. Live(req[r].line) \in SUBSET Match
  BY DEF Live, Inv, TypeOK
<1>3. /\ q \in Sessions /\ q.pc = "save" /\ q.by = req[r].by /\ q.line = req[r].line
      /\ q.entry = req[r].entry /\ q.live = Live(req[r].line)
  BY <1>1, <1>2 DEF Sessions
<1>4. Placed(q)
  BY <1>1, <1>3 DEF Placed
<1>5. SessionOK(q)
  BY <1>1, <1>3 DEF SessionOK, HasBooked, Allocate, Acceptable
<1>6. \A k \in Lines : Owes(r, k) => HasBooked(q) /\ q.line = k
  BY <1>3 DEF Owes, HasBooked
<1>7. Go(r, q) /\ UNCHANGED <<row, matches, entry, troubles, raced, edited, torn>>
  BY DEF Allocate
<1>8. QED
  BY <1>3, <1>4, <1>5, <1>6, <1>7, QuietStep DEF Inv, TypeOK

LEMMA RefuseKeeps ==
  ASSUME Inv, NEW r \in Requests, Refuse(r)
  PROVE  Inv'
<1> DEFINE l == req[r].line
<1> DEFINE q == Onward(r, l)
<1>1. req[r] \in Sessions /\ l \in Lines
  BY DEF Inv, TypeOK, Refuse, Placed
<1>2. q \in Sessions /\ Placed(q) /\ SessionOK(q)
  BY <1>1, OnwardOK DEF Inv
<1>3. \A k \in Lines \ torn' : ~Owes(r, k)
  BY <1>1 DEF Refuse, Owes
<1>4. torn \subseteq torn' /\ torn' \subseteq Lines
  BY <1>1 DEF Refuse, Inv, TypeOK
<1>5. Go(r, q) /\ UNCHANGED <<row, matches, entry, troubles, raced, edited>>
  BY DEF Refuse
<1> HIDE DEF q
<1>6. QED
  BY <1>2, <1>3, <1>4, <1>5, QuietStep DEF Inv, TypeOK

LEMMA CrashKeeps ==
  ASSUME Inv, NEW r \in Requests, Crash(r)
  PROVE  Inv'
<1>1. req[r] \in Sessions /\ req[r].line \in Lines \cup {None}
  BY DEF Inv, TypeOK, Sessions
<1>2. \A k \in Lines \ torn' : ~Owes(r, k)
  BY <1>1 DEF Crash, Owes
<1>3. torn \subseteq torn' /\ torn' \subseteq Lines /\ troubles' \in 0..MaxTroubles
  BY <1>1 DEF Crash, Inv, TypeOK
<1>4. Go(r, Idle) /\ UNCHANGED <<row, matches, entry, raced, edited>>
  BY DEF Crash
<1>5. QED
  BY <1>2, <1>3, <1>4, IdleOK, QuietStep DEF Inv

LEMMA BeginBookKeeps ==
  ASSUME Inv, NEW r \in Requests, NEW l \in Lines, NEW by \in {"split", "compound"}, BeginBook(r, l, by)
  PROVE  Inv'
<1> DEFINE q == Read(r, l, "book", by)
<1>1. /\ q \in Sessions /\ q.pc = "book" /\ q.by = by /\ q.line = l /\ q.seen[l] = row[l]
  BY ReadOK DEF Inv, Kinds
<1>2. Placed(q) /\ SessionOK(q)
  BY <1>1 DEF Placed, SessionOK, HasBooked, BeginBook, Bookable
<1>3. \A k \in Lines : ~Owes(r, k)
  BY NotOwing DEF BeginBook
<1>4. Go(r, q) /\ UNCHANGED <<row, matches, entry, troubles, raced, edited, torn>>
  BY DEF BeginBook
<1> HIDE DEF q
<1>5. QED
  BY <1>1, <1>2, <1>3, <1>4, QuietStep DEF Inv, TypeOK

LEMMA BeginRunKeeps ==
  ASSUME Inv, NEW r \in Requests, NEW by \in {"auto", "rule"}, NEW ls \in SUBSET Lines,
         BeginRun(r, by, ls)
  PROVE  Inv'
<1> DEFINE seen == [l \in Lines |-> IF l \in ls THEN row[l] ELSE Fresh]
<1> DEFINE q == [Idle EXCEPT !.pc = "run", !.by = by, !.todo = ls, !.seen = seen]
<1>1. seen \in [Lines -> Rows]
  BY DEF Inv, TypeOK, Fresh, Rows, Statuses
<1> HIDE DEF seen
<1>2. q \in Sessions /\ q.pc = "run"
  BY <1>1, IdleOK DEF Sessions, Idle, Kinds
<1>3. Placed(q) /\ SessionOK(q)
  BY <1>2 DEF Placed, SessionOK, HasBooked
<1>4. \A k \in Lines : ~Owes(r, k)
  BY NotOwing DEF BeginRun
<1>5. Go(r, q) /\ UNCHANGED <<row, matches, entry, troubles, raced, edited, torn>>
  BY DEF BeginRun, seen
<1> HIDE DEF q
<1>6. QED
  BY <1>2, <1>3, <1>4, <1>5, QuietStep DEF Inv, TypeOK

LEMMA AutoNextKeeps ==
  ASSUME Inv, NEW r \in Requests, NEW l \in Lines, NEW e \in Entries, AutoNext(r, l, e)
  PROVE  Inv'
<1> DEFINE q == [req[r] EXCEPT !.pc = "match", !.line = l, !.entry = e]
<1>1. req[r] \in Sessions /\ req[r].by = "auto"
  BY DEF Inv, TypeOK, AutoNext
<1>2. q \in Sessions /\ q.pc = "match" /\ q.by = "auto" /\ q.line = l /\ q.entry = e
  BY <1>1 DEF Sessions
<1>3. Placed(q) /\ SessionOK(q)
  BY <1>2 DEF Placed, SessionOK, HasBooked
<1>4. \A k \in Lines : ~Owes(r, k)
  BY NotOwing DEF AutoNext
<1>5. Go(r, q) /\ UNCHANGED <<row, matches, entry, troubles, raced, edited, torn>>
  BY DEF AutoNext
<1> HIDE DEF q
<1>6. QED
  BY <1>2, <1>3, <1>4, <1>5, QuietStep DEF Inv, TypeOK

LEMMA RuleNextKeeps ==
  ASSUME Inv, NEW r \in Requests, NEW l \in Lines, RuleNext(r, l)
  PROVE  Inv'
<1> DEFINE q == [req[r] EXCEPT !.pc = "book", !.line = l]
<1>1. req[r] \in Sessions /\ req[r].by = "rule"
  BY DEF Inv, TypeOK, RuleNext
<1>2. q \in Sessions /\ q.pc = "book" /\ q.by = "rule" /\ q.line = l /\ q.seen = req[r].seen
  BY <1>1 DEF Sessions
<1>3. Placed(q) /\ SessionOK(q)
  BY <1>2 DEF Placed, SessionOK, HasBooked, RuleNext
<1>4. \A k \in Lines : ~Owes(r, k)
  BY NotOwing DEF RuleNext
<1>5. Go(r, q) /\ UNCHANGED <<row, matches, entry, troubles, raced, edited, torn>>
  BY DEF RuleNext
<1> HIDE DEF q
<1>6. QED
  BY <1>2, <1>3, <1>4, <1>5, QuietStep DEF Inv, TypeOK

LEMMA SkipKeeps ==
  ASSUME Inv, NEW r \in Requests, NEW l \in Lines, Skip(r, l)
  PROVE  Inv'
<1>1. Onward(r, l) \in Sessions /\ Placed(Onward(r, l)) /\ SessionOK(Onward(r, l))
  BY OnwardOK DEF Inv
<1>2. \A k \in Lines : ~Owes(r, k)
  BY NotOwing DEF Skip
<1>3. Go(r, Onward(r, l)) /\ UNCHANGED <<row, matches, entry, troubles, raced, edited, torn>>
  BY DEF Skip
<1>4. QED
  BY <1>1, <1>2, <1>3, QuietStep DEF Inv, TypeOK

LEMMA BeginUnmatchKeeps ==
  ASSUME Inv, NEW r \in Requests, NEW l \in Lines, BeginUnmatch(r, l)
  PROVE  Inv'
<1> DEFINE p == Read(r, l, "unmatch", "hand")
<1> DEFINE q == [p EXCEPT !.live = Live(l)]
<1>1. Live(l) \in SUBSET Match
  BY DEF Live, Inv, TypeOK
<1>0. p \in Sessions /\ p.pc = "unmatch" /\ p.line = l
  BY ReadOK DEF Inv, Kinds
<1> HIDE DEF p
<1>2. q \in Sessions /\ q.pc = "unmatch" /\ q.line = l /\ q.live = Live(l)
  BY <1>0, <1>1 DEF Sessions
<1>3. Placed(q) /\ SessionOK(q)
  BY <1>2 DEF Placed, SessionOK, HasBooked, Live
<1>4. \A k \in Lines : ~Owes(r, k)
  BY NotOwing DEF BeginUnmatch
<1>5. Go(r, q) /\ UNCHANGED <<row, matches, entry, troubles, raced, edited, torn>>
  BY DEF BeginUnmatch, p
<1> HIDE DEF q
<1>6. QED
  BY <1>2, <1>3, <1>4, <1>5, QuietStep DEF Inv, TypeOK

LEMMA BeginEditKeeps ==
  ASSUME Inv, NEW r \in Requests, NEW l \in Lines, NEW to \in Statuses \cup {"archived"},
         BeginEdit(r, l, to)
  PROVE  Inv'
<1> DEFINE p == Read(r, l, "edit", "hand")
<1> DEFINE q == [p EXCEPT !.to = to]
<1>0. p \in Sessions /\ p.pc = "edit" /\ p.line = l
  BY ReadOK DEF Inv, Kinds
<1> HIDE DEF p
<1>1. q \in Sessions /\ q.pc = "edit" /\ q.line = l /\ q.to = to
  BY <1>0 DEF Sessions
<1>2. Placed(q) /\ SessionOK(q)
  BY <1>1 DEF Placed, SessionOK, HasBooked, Statuses
<1>3. \A k \in Lines : ~Owes(r, k)
  BY NotOwing DEF BeginEdit
<1>4. Go(r, q) /\ UNCHANGED <<row, matches, entry, raced, edited, torn>>
  BY DEF BeginEdit, p
<1>5. troubles' \in 0..MaxTroubles
  BY DEF BeginEdit, Inv, TypeOK
<1> HIDE DEF q
<1>6. QED
  BY <1>1, <1>2, <1>3, <1>4, <1>5, QuietStep DEF Inv, TypeOK

-----------------------------------------------------------------------------
(***************************************************************************)
(* The steps that write, line by line                                      *)
(***************************************************************************)

\* What the invariant says of one line
LineOK(l) ==
  /\ l \notin edited => row[l].status \in {"UNMATCHED", "MATCHED"}
  /\ l \notin raced => Cardinality(Live(l)) * Amount[l] <= Amount[l] + Tolerance
  /\ l \notin raced \cup edited =>
       /\ row[l].status = "MATCHED" => Live(l) # {} \/ RuleBooked(l)
       /\ Live(l) # {} => row[l].status = "MATCHED"
  /\ l \notin raced \cup edited \cup torn =>
       /\ \A d, e \in Booked(l) : d = e
       /\ Booked(l) # {} => row[l].status = "MATCHED" \/ \E r \in Requests : Owes(r, l)

LEMMA OfLine ==
  ASSUME Inv, NEW l \in Lines
  PROVE  LineOK(l)
  BY DEF Inv, LineOK, Plain, NeverOverMatched, JunctionFollowed, BookedForOnce

LEMMA ByLines ==
  ASSUME TypeOK', SessionsOK', EntriesOK', IsFiniteSet(matches'), \A l \in Lines : LineOK(l)'
  PROVE  Inv'
<1>1. Plain'
  BY DEF LineOK, Plain
<1>2. NeverOverMatched'
  BY DEF LineOK, NeverOverMatched
<1>3. JunctionFollowed'
  BY DEF LineOK, JunctionFollowed
<1>4. BookedForOnce'
  BY DEF LineOK, BookedForOnce
<1>5. QED
  BY <1>1, <1>2, <1>3, <1>4 DEF Inv

\* A line that a step leaves alone
LEMMA Untouched ==
  ASSUME Inv, NEW k \in Lines,
         row'[k].status = row[k].status, Live(k)' = Live(k), Booked(k)' = Booked(k),
         RuleBooked(k) => RuleBooked(k)',
         \A r \in Requests : Owes(r, k) => Owes(r, k)',
         raced \subseteq raced', edited \subseteq edited', torn \subseteq torn'
  PROVE  LineOK(k)'
  BY OfLine DEF LineOK

\* A request that writes the line or its matches, and no entry
LEMMA Writes ==
  ASSUME Inv, NEW r \in Requests, NEW q \in Sessions, Placed(q), SessionOK(q), ~HasBooked(q), Go(r, q),
         UNCHANGED <<entry, troubles, torn>>,
         row' \in [Lines -> Rows],
         matches' \subseteq Match, \A m, n \in matches' : m.id = n.id => m = n,
         raced' \subseteq Lines, edited' \subseteq Lines
  PROVE  /\ TypeOK' /\ SessionsOK' /\ EntriesOK'
         /\ \A l \in Lines : Booked(l)' = Booked(l)
         /\ \A l \in Lines : ~Owes(r, l) => \A o \in Requests : Owes(o, l) => Owes(o, l)'
<1>1. /\ req' \in [Requests -> Sessions] /\ \A o \in Requests : Placed(req'[o])
      /\ req'[r] = q /\ \A o \in Requests : o # r => req'[o] = req[o]
  BY Becomes DEF Inv
<1>2. TypeOK'
  BY <1>1 DEF Inv, TypeOK
<1>3. SessionsOK'
  <2> SUFFICES ASSUME NEW o \in Requests PROVE SessionOK(req[o])'
    BY DEF SessionsOK
  <2>1. CASE o = r
    BY <1>1, <2>1 DEF SessionOK, Fits, HasBooked
  <2>2. CASE o # r
    BY <1>1, <2>2 DEF Inv, SessionsOK, SessionOK, Fits, HasBooked
  <2>3. QED
    BY <2>1, <2>2
<1>4. EntriesOK' /\ \A l \in Lines : Booked(l)' = Booked(l)
  BY DEF Inv, EntriesOK, Booked
<1>5. \A l \in Lines : ~Owes(r, l) => \A o \in Requests : Owes(o, l) => Owes(o, l)'
  BY <1>1 DEF Owes
<1>6. QED
  BY <1>2, <1>3, <1>4, <1>5

LEMMA SaveMatchKeeps ==
  ASSUME Inv, NEW r \in Requests, NEW id \in MatchIds, SaveMatch(r, id)
  PROVE  Inv'
<1>0. PICK l \in Lines : l = req[r].line
  BY DEF Inv, TypeOK, SaveMatch, Placed
<1> DEFINE s == req[r].seen[l].status
<1> DEFINE n == [id |-> id, line |-> l, entry |-> req[r].entry, by |-> req[r].by]
<1> DEFINE q == Onward(r, l)
<1>1. /\ req[r] \in Sessions /\ req[r].entry \in Entries /\ s \in Statuses
      /\ SessionOK(req[r]) /\ req[r].pc = "save"
  BY <1>0 DEF Inv, TypeOK, SaveMatch, Placed, SessionsOK, Sessions, Rows
<1>2. n \in Match /\ n.line = l /\ n.id = id /\ matches' = matches \cup {n} /\ n \notin matches
  BY <1>0, <1>1 DEF SaveMatch, Match, Sessions, Inv, TypeOK
<1>3. /\ row' \in [Lines -> Rows] /\ \A k \in Lines : k # l => row'[k] = row[k]
      /\ row'[l].status = IF AfterMatch(s) = s THEN row[l].status ELSE AfterMatch(s)
  <2>1. AfterMatch(s) \in Statuses /\ row' = Flushed(r, l, AfterMatch(s))
    BY <1>0, <1>1 DEF SaveMatch, AfterMatch, Statuses
  <2>2. QED
    BY <2>1, FlushedOK DEF Inv
<1>4. q \in Sessions /\ Placed(q) /\ SessionOK(q) /\ ~HasBooked(q) /\ Go(r, q)
  BY <1>0, OnwardOK DEF Inv, SaveMatch
<1>5. /\ UNCHANGED <<entry, troubles, edited, torn>>
      /\ raced' = IF Stale(r, l) \/ Live(l) # req[r].live THEN raced \cup {l} ELSE raced
  BY <1>0 DEF SaveMatch
<1>6. /\ matches' \subseteq Match /\ \A m, o \in matches' : m.id = o.id => m = o
      /\ raced' \subseteq Lines /\ edited' \subseteq Lines
  <2>1. \A m \in matches : m.id # id
    BY DEF SaveMatch
  <2>2. QED
    BY <1>1, <1>2, <1>5, <2>1 DEF Inv, TypeOK
<1> HIDE DEF q, n, s
<1>7. /\ TypeOK' /\ SessionsOK' /\ EntriesOK' /\ \A k \in Lines : Booked(k)' = Booked(k)
      /\ \A k \in Lines : ~Owes(r, k) => \A o \in Requests : Owes(o, k) => Owes(o, k)'
  BY <1>3, <1>4, <1>5, <1>6, Writes
<1>8. IsFiniteSet(matches')
  BY <1>2, FS_AddElement DEF Inv
<1>9. Live(l)' = Live(l) \cup {n} /\ n \notin Live(l) /\ \A k \in Lines : k # l => Live(k)' = Live(k)
  BY <1>2 DEF Live
<1>10. ASSUME NEW k \in Lines, k # l PROVE LineOK(k)'
  <2>1. ~Owes(r, k)
    BY <1>0, <1>10 DEF Owes
  <2>2. QED
    BY <1>3, <1>5, <1>7, <1>9, <1>10, <2>1, Untouched DEF RuleBooked
<1>11. LineOK(l)'
  <2>1. l \notin edited' => row'[l].status \in {"UNMATCHED", "MATCHED"}
    BY <1>0, <1>3, <1>5, OfLine DEF LineOK, AfterMatch
  <2>2. CASE l \in raced'
    BY <2>1, <2>2 DEF LineOK
  <2>3. CASE l \notin raced'
    <3>1. l \notin raced /\ row[l].status = s /\ Live(l) = req[r].live
      BY <1>5, <2>3 DEF Stale, s
    <3>2. IsFiniteSet(Live(l)) /\ Cardinality(Live(l)) \in Nat
      <4>1. Live(l) \subseteq matches
        BY DEF Live
      <4>2. QED
        BY <4>1, FS_Subset, FS_CardinalityType DEF Inv
    <3>3. Cardinality(Live(l)') = Cardinality(Live(l)) + 1
      BY <1>9, <3>2, FS_AddElement
    <3>4. Cardinality(Live(l)') * Amount[l] <= Amount[l] + Tolerance
      BY <1>0, <1>1, <3>1, <3>3 DEF SessionOK, Fits
    <3>5. l \notin edited' => row'[l].status = "MATCHED"
      BY <1>1, <1>3, <1>5, <3>1, OfLine DEF LineOK, AfterMatch
    <3>6. l \notin edited \cup torn => \A d, e \in Booked(l) : d = e
      BY <3>1, OfLine DEF LineOK
    <3>7. QED
      BY <1>5, <1>7, <1>9, <2>1, <3>4, <3>5, <3>6 DEF LineOK
  <2>4. QED
    BY <2>2, <2>3
<1>12. QED
  BY <1>7, <1>8, <1>10, <1>11, ByLines

LEMMA MarkKeeps ==
  ASSUME Inv, NEW r \in Requests, Mark(r)
  PROVE  Inv'
<1>0. PICK l \in Lines : l = req[r].line
  BY DEF Inv, TypeOK, Mark, Placed
<1> DEFINE s == req[r].seen[l].status
<1> DEFINE q == Onward(r, l)
<1>1. /\ req[r].entry \in Entries /\ entry[req[r].entry].line = l
      /\ entry[req[r].entry].by = "rule"
  BY <1>0 DEF Inv, TypeOK, Mark, Placed, SessionsOK, SessionOK, HasBooked
<1>2. /\ row' \in [Lines -> Rows] /\ \A k \in Lines : k # l => row'[k] = row[k]
      /\ row'[l].status = IF "MATCHED" = s THEN row[l].status ELSE "MATCHED"
  <2>1. "MATCHED" \in Statuses /\ row' = Flushed(r, l, "MATCHED")
    BY <1>0 DEF Mark, Statuses
  <2>2. QED
    BY <2>1, FlushedOK DEF Inv
<1>3. q \in Sessions /\ Placed(q) /\ SessionOK(q) /\ ~HasBooked(q) /\ Go(r, q)
  BY <1>0, OnwardOK DEF Inv, Mark
<1>4. /\ UNCHANGED <<matches, entry, troubles, edited, torn>>
      /\ raced' = IF Stale(r, l) \/ Live(l) # {} THEN raced \cup {l} ELSE raced
  BY <1>0 DEF Mark
<1>5. /\ matches' \subseteq Match /\ \A m, o \in matches' : m.id = o.id => m = o
      /\ raced' \subseteq Lines /\ edited' \subseteq Lines /\ IsFiniteSet(matches')
  BY <1>4 DEF Inv, TypeOK
<1> HIDE DEF q
<1>6. /\ TypeOK' /\ SessionsOK' /\ EntriesOK' /\ \A k \in Lines : Booked(k)' = Booked(k)
      /\ \A k \in Lines : ~Owes(r, k) => \A o \in Requests : Owes(o, k) => Owes(o, k)'
  BY <1>2, <1>3, <1>4, <1>5, Writes
<1>7. \A k \in Lines : Live(k)' = Live(k)
  BY <1>4 DEF Live
<1>8. ASSUME NEW k \in Lines, k # l PROVE LineOK(k)'
  <2>1. ~Owes(r, k)
    BY <1>0, <1>8 DEF Owes
  <2>2. QED
    BY <1>2, <1>4, <1>6, <1>7, <1>8, <2>1, Untouched DEF RuleBooked
<1>9. LineOK(l)'
  <2>1. l \notin edited' => row'[l].status \in {"UNMATCHED", "MATCHED"}
    BY <1>2, <1>4, OfLine DEF LineOK
  <2>2. l \notin raced' => row'[l].status = "MATCHED" /\ Live(l) = {}
    BY <1>2, <1>4 DEF Stale
  <2>3. RuleBooked(l)'
    BY <1>1, <1>4 DEF RuleBooked
  <2>4. QED
    BY <1>4, <1>6, <1>7, <2>1, <2>2, <2>3, OfLine DEF LineOK
<1>10. QED
  BY <1>5, <1>6, <1>8, <1>9, ByLines

LEMMA SaveUnmatchKeeps ==
  ASSUME Inv, NEW r \in Requests, SaveUnmatch(r)
  PROVE  Inv'
<1>0. PICK l \in Lines : l = req[r].line
  BY DEF Inv, TypeOK, SaveUnmatch, Placed
<1> DEFINE s == req[r].seen[l].status
<1>1. req[r] \in Sessions /\ s \in Statuses /\ req[r].pc = "unmatch" /\ \A m \in req[r].live : m.line = l
  BY <1>0 DEF Inv, TypeOK, SaveUnmatch, SessionsOK, SessionOK, Sessions, Rows
<1>2. /\ row' \in [Lines -> Rows] /\ \A k \in Lines : k # l => row'[k] = row[k]
      /\ row'[l].status = IF AfterUnmatch(s) = s THEN row[l].status ELSE AfterUnmatch(s)
  <2>1. AfterUnmatch(s) \in Statuses /\ row' = Flushed(r, l, AfterUnmatch(s))
    BY <1>0, <1>1 DEF SaveUnmatch, AfterUnmatch, Statuses
  <2>2. QED
    BY <2>1, FlushedOK DEF Inv
<1>3. /\ UNCHANGED <<entry, troubles, torn>> /\ Go(r, Idle)
      /\ matches' = matches \ req[r].live
      /\ raced' = IF Stale(r, l) \/ Live(l) # req[r].live THEN raced \cup {l} ELSE raced
      /\ edited' = IF Booked(l) # {} THEN edited \cup {l} ELSE edited
  BY <1>0 DEF SaveUnmatch
<1>4. /\ matches' \subseteq Match /\ \A m, o \in matches' : m.id = o.id => m = o
      /\ raced' \subseteq Lines /\ edited' \subseteq Lines
  BY <1>3 DEF Inv, TypeOK
<1>5. IsFiniteSet(matches')
  <2>1. matches' \subseteq matches
    BY <1>3
  <2>2. QED
    BY <2>1, FS_Subset DEF Inv
<1>6. /\ TypeOK' /\ SessionsOK' /\ EntriesOK' /\ \A k \in Lines : Booked(k)' = Booked(k)
      /\ \A k \in Lines : ~Owes(r, k) => \A o \in Requests : Owes(o, k) => Owes(o, k)'
  BY <1>2, <1>3, <1>4, IdleOK, Writes
<1>7. \A k \in Lines : k # l => Live(k)' = Live(k)
  BY <1>1, <1>3 DEF Live
<1>8. ASSUME NEW k \in Lines, k # l PROVE LineOK(k)'
  <2>1. ~Owes(r, k)
    BY <1>1 DEF Owes
  <2>2. QED
    BY <1>2, <1>3, <1>6, <1>7, <1>8, <2>1, Untouched DEF RuleBooked
<1>9. LineOK(l)'
  <2>1. l \notin edited' => row'[l].status \in {"UNMATCHED", "MATCHED"}
    BY <1>1, <1>2, <1>3, OfLine DEF LineOK, AfterUnmatch
  <2>2. CASE l \in raced'
    BY <2>1, <2>2 DEF LineOK
  <2>3. CASE l \notin raced'
    <3>1. row[l].status = s /\ Live(l)' = {}
      BY <1>3, <2>3 DEF Stale, Live
    <3>2. Cardinality(Live(l)') * Amount[l] <= Amount[l] + Tolerance
      <4>1. Cardinality(Live(l)') = 0 /\ Amount[l] \in Nat /\ Tolerance \in Nat
        BY <3>1, FS_EmptySet
      <4>2. QED
        BY <4>1
    <3>3. l \notin edited' => row'[l].status = "UNMATCHED" /\ Booked(l) = {}
      BY <1>1, <1>2, <1>3, <3>1, OfLine DEF LineOK, AfterUnmatch
    <3>4. QED
      BY <1>6, <3>1, <3>2, <3>3 DEF LineOK
  <2>4. QED
    BY <2>2, <2>3
<1>10. QED
  BY <1>5, <1>6, <1>8, <1>9, ByLines

LEMMA SaveEditKeeps ==
  ASSUME Inv, NEW r \in Requests, SaveEdit(r)
  PROVE  Inv'
<1>0. PICK l \in Lines : l = req[r].line
  BY DEF Inv, TypeOK, SaveEdit, Placed
<1>1. req[r] \in Sessions /\ Placed(req[r]) /\ req[r].pc = "edit"
  BY DEF Inv, TypeOK, SaveEdit
<1>2. UNCHANGED <<matches, entry, troubles, raced, torn>> /\ Go(r, Idle)
  BY DEF SaveEdit
<1>3. /\ row' \in [Lines -> Rows] /\ \A k \in Lines : k # l => row'[k] = row[k]
      /\ \/ row'[l].status = row[l].status /\ edited' = edited
         \/ edited' = edited \cup {l}
  <2>1. CASE req[r].to = "archived"
    <3>1. row' = [row EXCEPT ![l].archived = TRUE] /\ edited' = edited
      BY <1>0, <2>1 DEF SaveEdit
    <3>2. row \in [Lines -> Rows] /\ row[l] \in Rows
      BY DEF Inv, TypeOK
    <3>3. [row[l] EXCEPT !.archived = TRUE] \in Rows /\ [row[l] EXCEPT !.archived = TRUE].status = row[l].status
      BY <3>2 DEF Rows
    <3>4. QED
      BY <3>1, <3>2, <3>3
  <2>2. CASE req[r].to # "archived"
    <3>1. req[r].to \in Statuses /\ row' = Flushed(r, l, req[r].to) /\ edited' = edited \cup {l}
      BY <1>0, <1>1, <2>2 DEF SaveEdit, Sessions, Placed
    <3>2. QED
      BY <3>1, FlushedOK DEF Inv
  <2>3. QED
    BY <2>1, <2>2
<1>4. /\ matches' \subseteq Match /\ \A m, o \in matches' : m.id = o.id => m = o
      /\ raced' \subseteq Lines /\ edited' \subseteq Lines /\ IsFiniteSet(matches')
  BY <1>2, <1>3 DEF Inv, TypeOK
<1>5. /\ TypeOK' /\ SessionsOK' /\ EntriesOK' /\ \A k \in Lines : Booked(k)' = Booked(k)
      /\ \A k \in Lines : ~Owes(r, k) => \A o \in Requests : Owes(o, k) => Owes(o, k)'
  BY <1>2, <1>3, <1>4, IdleOK, Writes
<1>6. \A k \in Lines : Live(k)' = Live(k) /\ ~Owes(r, k)
  BY <1>1, <1>2 DEF Live, Owes
<1>7. ASSUME NEW k \in Lines PROVE LineOK(k)'
  <2>1. CASE row'[k].status = row[k].status
    BY <1>2, <1>3, <1>5, <1>6, <2>1, Untouched DEF RuleBooked
  <2>2. CASE row'[k].status # row[k].status
    <3>1. k \in edited'
      BY <1>3, <2>2
    <3>2. QED
      BY <1>2, <1>6, <3>1, OfLine DEF LineOK
  <2>3. QED
    BY <2>1, <2>2
<1>8. QED
  BY <1>4, <1>5, <1>7, ByLines

LEMMA BookKeeps ==
  ASSUME Inv, NEW r \in Requests, NEW e \in Entries, Book(r, e)
  PROVE  Inv'
<1>0. PICK l \in Lines : l = req[r].line
  BY DEF Inv, TypeOK, Book, Placed
<1> DEFINE q == [req[r] EXCEPT !.pc = IF req[r].by = "rule" THEN "mark" ELSE "match", !.entry = e]
<1>1. /\ req[r] \in Sessions /\ SessionOK(req[r]) /\ req[r].pc = "book"
      /\ entry[e].status = "ABSENT" /\ entry[e].line = None
  BY DEF Inv, TypeOK, SessionsOK, EntriesOK, Book
<1>2. /\ q \in Sessions /\ q.line = l /\ q.entry = e /\ q.by = req[r].by /\ q.by \in Kinds
      /\ q.pc = IF q.by = "rule" THEN "mark" ELSE "match"
  BY <1>0, <1>1 DEF Sessions
<1>3. /\ UNCHANGED <<row, matches, troubles, edited, torn>> /\ Go(r, q)
      /\ entry' = [entry EXCEPT ![e] = [status |-> "POSTED", line |-> l, by |-> q.by]]
      /\ raced' = IF Stale(r, l) \/ \E o \in Requests : Owes(o, l) THEN raced \cup {l} ELSE raced
  BY <1>0, <1>2 DEF Book
<1> HIDE DEF q
<1>4. /\ req' \in [Requests -> Sessions] /\ \A o \in Requests : Placed(req'[o])
      /\ req'[r] = q /\ \A o \in Requests : o # r => req'[o] = req[o]
  <2>1. Placed(q)
    BY <1>2 DEF Placed
  <2>2. QED
    BY <1>2, <1>3, <2>1, Becomes DEF Inv
<1>5. /\ entry'[e].status = "POSTED" /\ entry'[e].line = l /\ entry'[e].by = q.by
      /\ \A d \in Entries : d # e => entry'[d] = entry[d]
      /\ entry' \in [Entries -> [status : {"ABSENT", "POSTED", "REVERSED"},
                                line : Lines \cup {None}, by : Kinds]]
  BY <1>2, <1>3 DEF Inv, TypeOK
<1>6. TypeOK' /\ EntriesOK' /\ IsFiniteSet(matches')
  <2>1. raced' \subseteq Lines
    BY <1>3 DEF Inv, TypeOK
  <2>2. TypeOK'
    BY <1>3, <1>4, <1>5, <2>1 DEF Inv, TypeOK
  <2>3. QED
    BY <1>3, <1>5, <2>2 DEF Inv, EntriesOK
<1>7. SessionsOK'
  <2> SUFFICES ASSUME NEW o \in Requests PROVE SessionOK(req[o])'
    BY DEF SessionsOK
  <2>1. CASE o = r
    BY <1>2, <1>4, <1>5, <2>1 DEF SessionOK, HasBooked
  <2>2. CASE o # r
    <3>1. SessionOK(req[o]) /\ Placed(req[o]) /\ req'[o] = req[o]
      BY <1>4, <2>2 DEF Inv, TypeOK, SessionsOK
    <3>2. HasBooked(req[o]) => entry'[req[o].entry] = entry[req[o].entry]
      BY <1>1, <1>5, <3>1 DEF SessionOK, HasBooked, Placed
    <3>3. QED
      BY <3>1, <3>2 DEF SessionOK, HasBooked, Fits
  <2>3. QED
    BY <2>1, <2>2
<1>8. \A k \in Lines : Live(k)' = Live(k)
  BY <1>3 DEF Live
<1>9. Booked(l)' = Booked(l) \cup {e} /\ \A k \in Lines : k # l => Booked(k)' = Booked(k)
  BY <1>1, <1>3 DEF Booked, Inv, TypeOK
<1>10. ASSUME NEW k \in Lines, k # l PROVE LineOK(k)'
  <2>1. \A o \in Requests : Owes(o, k) => Owes(o, k)'
    BY <1>1, <1>4 DEF Owes
  <2>2. RuleBooked(k) => RuleBooked(k)'
    BY <1>1, <1>5 DEF RuleBooked
  <2>3. QED
    BY <1>3, <1>8, <1>9, <1>10, <2>1, <2>2, Untouched
<1>11. LineOK(l)'
  <2>1. l \notin edited' => row'[l].status \in {"UNMATCHED", "MATCHED"}
    BY <1>3, OfLine DEF LineOK
  <2>2. CASE l \in raced'
    BY <2>1, <2>2 DEF LineOK
  <2>3. CASE l \notin raced'
    <3>1. l \notin raced /\ row[l].status # "MATCHED" /\ \A o \in Requests : ~Owes(o, l)
      BY <1>0, <1>1, <1>3, <2>3 DEF Stale, SessionOK
    <3>2. l \notin edited' \cup torn' => Booked(l)' = {e}
      BY <1>3, <1>9, <3>1, OfLine DEF LineOK
    <3>3. Owes(r, l)'
      BY <1>1, <1>2, <1>4 DEF Owes, SessionOK
    <3>4. row' = row /\ Live(l)' = Live(l)
      BY <1>3, <1>8
    <3>5. Cardinality(Live(l)') * Amount[l] <= Amount[l] + Tolerance
      BY <3>1, <3>4, OfLine DEF LineOK
    <3>6. l \notin edited' => Live(l) = {}
      BY <1>3, <3>1, OfLine DEF LineOK
    <3>7. QED
      BY <2>1, <3>1, <3>2, <3>3, <3>4, <3>5, <3>6 DEF LineOK
  <2>4. QED
    BY <2>2, <2>3
<1>12. QED
  BY <1>6, <1>7, <1>10, <1>11, ByLines

LEMMA ReverseKeeps ==
  ASSUME Inv, NEW e \in Entries, Reverse(e)
  PROVE  Inv'
<1>1. /\ UNCHANGED <<row, matches, req, troubles, raced, edited, torn>>
      /\ entry[e].status = "POSTED" /\ entry' = [entry EXCEPT ![e].status = "REVERSED"]
  BY DEF Reverse
<1>2. /\ entry' \in [Entries -> [status : {"ABSENT", "POSTED", "REVERSED"},
                                line : Lines \cup {None}, by : Kinds]]
      /\ \A d \in Entries : entry'[d].line = entry[d].line /\ entry'[d].by = entry[d].by
      /\ \A d \in Entries : entry'[d].status = "ABSENT" <=> entry[d].status = "ABSENT"
      /\ \A d \in Entries : entry'[d].status = "POSTED" => entry'[d] = entry[d]
  BY <1>1 DEF Inv, TypeOK
<1>3. TypeOK' /\ EntriesOK' /\ IsFiniteSet(matches')
  BY <1>1, <1>2 DEF Inv, TypeOK, EntriesOK
<1>4. SessionsOK'
  <2> SUFFICES ASSUME NEW o \in Requests PROVE SessionOK(req[o])'
    BY DEF SessionsOK
  <2>1. SessionOK(req[o]) /\ Placed(req[o])
    BY DEF Inv, TypeOK, SessionsOK
  <2>2. QED
    BY <1>1, <1>2, <2>1 DEF SessionOK, HasBooked, Placed, Fits
<1>5. ASSUME NEW l \in Lines PROVE LineOK(l)'
  <2>1. Live(l)' = Live(l) /\ \A o \in Requests : Owes(o, l)' <=> Owes(o, l)
    BY <1>1 DEF Live, Owes
  <2>2. Booked(l)' \subseteq Booked(l)
    BY <1>2 DEF Booked
  <2>3. RuleBooked(l) => RuleBooked(l)'
    BY <1>2 DEF RuleBooked
  <2>4. QED
    BY <1>1, <1>2, <2>1, <2>2, <2>3, OfLine DEF LineOK
<1>6. QED
  BY <1>3, <1>4, <1>5, ByLines

-----------------------------------------------------------------------------
LEMMA InitInv ==
  ASSUME Init
  PROVE  Inv
<1>1. TypeOK
  <2>1. Fresh \in Rows
    BY DEF Fresh, Rows, Statuses
  <2>2. QED
    BY <2>1, IdleOK DEF Init, TypeOK, Kinds
<1>2. SessionsOK /\ EntriesOK /\ Plain
  BY IdleOK DEF Init, SessionsOK, EntriesOK, Plain, Fresh
<1>3. \A l \in Lines : Live(l) = {} /\ Booked(l) = {} /\ row[l].status = "UNMATCHED"
  BY DEF Init, Live, Booked, Fresh
<1>4. NeverOverMatched
  <2> SUFFICES ASSUME NEW l \in Lines PROVE Cardinality(Live(l)) * Amount[l] <= Amount[l] + Tolerance
    BY DEF NeverOverMatched
  <2>1. Cardinality(Live(l)) = 0 /\ Amount[l] \in Nat /\ Tolerance \in Nat
    BY <1>3, FS_EmptySet
  <2>2. QED
    BY <2>1
<1>5. JunctionFollowed /\ BookedForOnce
  BY <1>3 DEF JunctionFollowed, BookedForOnce
<1>6. QED
  BY <1>1, <1>2, <1>4, <1>5, FS_EmptySet DEF Inv, Init

LEMMA InvStep ==
  ASSUME Inv, [Next]_vars
  PROVE  Inv'
<1>1. ASSUME NEW r \in Requests,
             \/ Allocate(r) \/ Refuse(r) \/ Mark(r) \/ SaveUnmatch(r) \/ SaveEdit(r) \/ Crash(r)
      PROVE  Inv'
  BY <1>1, AllocateKeeps, RefuseKeeps, MarkKeeps, SaveUnmatchKeeps, SaveEditKeeps, CrashKeeps
<1>2. ASSUME NEW r \in Requests, NEW l \in Lines,
             \/ RuleNext(r, l) \/ Skip(r, l) \/ BeginUnmatch(r, l)
             \/ \E e \in Entries : BeginMatch(r, l, e) \/ AutoNext(r, l, e)
             \/ \E by \in {"split", "compound"} : BeginBook(r, l, by)
             \/ \E to \in Statuses \cup {"archived"} : BeginEdit(r, l, to)
      PROVE  Inv'
  BY <1>2, RuleNextKeeps, SkipKeeps, BeginUnmatchKeeps, BeginMatchKeeps, AutoNextKeeps,
     BeginBookKeeps, BeginEditKeeps
<1>3. CASE UNCHANGED vars
  BY <1>3 DEF vars, Inv, TypeOK, SessionsOK, SessionOK, EntriesOK, Plain, NeverOverMatched,
     JunctionFollowed, RuleBooked, BookedForOnce, HasBooked, Live, Booked, Owes, Placed, Fits
<1>4. QED
  BY <1>1, <1>2, <1>3, SaveMatchKeeps, BookKeeps, BeginRunKeeps, ReverseKeeps DEF Next

\* The tables and the requests keep their types, for any number of lines.
THEOREM LineTypes == Spec => []TypeOK
<1>1. Init => Inv
  BY InitInv
<1>2. Inv /\ [Next]_vars => Inv'
  BY InvStep
<1>3. Inv => TypeOK
  BY DEF Inv
<1>4. QED
  BY <1>1, <1>2, <1>3, PTL DEF Spec

\* What is matched to a line stays within its amount and the tolerance, for any
\* amounts and tolerance, unless a commit was made over what it had not read.
THEOREM NeverOverMatchedAlways == Spec => []NeverOverMatched
<1>1. Init => Inv
  BY InitInv
<1>2. Inv /\ [Next]_vars => Inv'
  BY InvStep
<1>3. Inv => NeverOverMatched
  BY DEF Inv
<1>4. QED
  BY <1>1, <1>2, <1>3, PTL DEF Spec

\* The status of a line follows from its matches, or from the entry that a rule
\* has booked for it, with the exceptions that the histories record.
THEOREM JunctionIsFollowed == Spec => []JunctionFollowed
<1>1. Init => Inv
  BY InitInv
<1>2. Inv /\ [Next]_vars => Inv'
  BY InvStep
<1>3. Inv => JunctionFollowed
  BY DEF Inv
<1>4. QED
  BY <1>1, <1>2, <1>3, PTL DEF Spec

\* A bank line brings at most one standing entry into the books, with the
\* exceptions that the histories record.
THEOREM OneEntryPerLine == Spec => []BookedForOnce
<1>1. Init => Inv
  BY InitInv
<1>2. Inv /\ [Next]_vars => Inv'
  BY InvStep
<1>3. Inv => BookedForOnce
  BY DEF Inv
<1>4. QED
  BY <1>1, <1>2, <1>3, PTL DEF Spec
=============================================================================
