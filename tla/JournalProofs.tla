--------------------------- MODULE JournalProofs ----------------------------
(***************************************************************************)
(* What Journal guarantees for any number of requests, entries, dates and  *)
(* templates: first what the database guards carry however the requests    *)
(* interleave, then what the Python guards carry while no two requests     *)
(* work on one entry.                                                      *)
(***************************************************************************)
EXTENDS Journal, FiniteSetTheorems, TLAPS

-----------------------------------------------------------------------------
(***************************************************************************)
(* Rows                                                                    *)
(***************************************************************************)

\* The rows inserted for a request body are line rows.
LEMMA RowsOfType ==
  ASSUME NEW t \in Templates, NEW k \in Nat
  PROVE  RowsOf(t, k) \subseteq Rows
<1>1. t \in Seq(BodyLines)
  BY JournalAssumption
<1>2. ASSUME NEW i \in DOMAIN t
      PROVE  [id |-> <<k, i>>, acct |-> t[i].acct, amt |-> t[i].amt, gst |-> t[i].gst] \in Rows
  <2>1. i \in Nat /\ t[i] \in BodyLines
    BY <1>1, <1>2
  <2>2. <<k, i>> \in Seq(Nat)
    BY <2>1
  <2> QED
    BY <2>1, <2>2 DEF Rows, BodyLines
<1> QED
  BY <1>2 DEF RowsOf

\* So are the tax lines posting adds,
LEMMA GstRowsType ==
  ASSUME NEW rows \in SUBSET Rows, NEW k \in Nat
  PROVE  GstRows(rows, k) \subseteq Rows
<1>1. ASSUME NEW row \in Rows
      PROVE  [id |-> Append(row.id, k), acct |-> "gst", amt |-> row.gst, gst |-> 0] \in Rows
  <2>1. row.id \in Seq(Nat) /\ row.gst \in Int
    BY <1>1 DEF Rows
  <2>2. Append(row.id, k) \in Seq(Nat)
    BY <2>1
  <2> DEFINE id == Append(row.id, k)
  <2> HIDE DEF id
  <2>3. [id |-> id, acct |-> "gst", amt |-> row.gst, gst |-> 0] \in Rows
    BY <2>1, <2>2 DEF Rows, id
  <2> QED
    BY <2>3 DEF id
<1> QED
  BY <1>1 DEF GstRows

\* and the lines of a reversal.
LEMMA MirrorType ==
  ASSUME NEW rows \in SUBSET Rows
  PROVE  Mirror(rows) \subseteq Rows
<1>1. ASSUME NEW row \in Rows
      PROVE  [id |-> row.id, acct |-> row.acct, amt |-> -row.amt, gst |-> 0] \in Rows
  BY <1>1 DEF Rows
<1> QED
  BY <1>1 DEF Mirror

\* A new draft is an entry row.
LEMMA DraftType ==
  ASSUME NEW date \in Dates, NEW t, RowsOf(t, 1) \subseteq Rows
  PROVE  /\ Draft(date, t) \in EntryRows
         /\ Draft(date, t).status = "DRAFT"
         /\ Draft(date, t).of = None
<1>1. date \in Nat
  BY JournalAssumption DEF Dates
<1>2. Absent \in EntryRows /\ Absent.of = None
  BY DEF Absent, EntryRows
<1> QED
  BY <1>1, <1>2 DEF Draft, EntryRows

\* Posting touches the lines, the status and the origin only.
LEMMA PostedRowType ==
  ASSUME NEW entry \in EntryRows, NEW read \in SUBSET Rows,
         NEW origin \in {"MANUAL", "RECORD", "REVERSAL"}
  PROVE  /\ PostedRow(entry, read, origin) \in EntryRows
         /\ PostedRow(entry, read, origin).status = "POSTED"
         /\ PostedRow(entry, read, origin).origin = origin
         /\ PostedRow(entry, read, origin).of = entry.of
         /\ PostedRow(entry, read, origin).date = entry.date
<1>1. entry.batches + 1 \in Nat /\ entry.rows \in SUBSET Rows
  BY DEF EntryRows
<1>2. GstRows(read, entry.batches + 1) \subseteq Rows
  BY <1>1, GstRowsType
<1> QED
  BY <1>1, <1>2 DEF PostedRow, EntryRows

-----------------------------------------------------------------------------
(***************************************************************************)
(* The inductive invariant                                                 *)
(*                                                                         *)
(* The properties alone do not survive a step: a commit acts on what its   *)
(* request read, perhaps long ago.  RequestOK says what a request in       *)
(* flight may still rely on.  It works because the kind of an entry is     *)
(* settled by the step that creates it: whatever was once read as a draft  *)
(* is not a reversal, and what was once read as booked stays booked.       *)
(***************************************************************************)

RequestOK(r) ==
  LET q == req[r] IN
  q.pc # "idle" =>
    /\ q.e \in Entries
    /\ je[q.e].status # "ABSENT"
    /\ q.op \in {"post", "delete"} => je[q.e].of = None
    /\ q.op = "update" /\ mode = "immutable" => je[q.e].of = None
    /\ q.op = "reverse" => q.date \in Dates /\ je[q.e].status \in Booked
    /\ q.pc = "reversed" => q.m \in Entries

\* A reversal is never a draft.
ReversalsBooked == \A e \in Entries : je[e].of # None => je[e].status \in Booked

IInv ==
  /\ TypeOK
  /\ \A r \in Requests : RequestOK(r)
  /\ ReversalsBooked
  /\ ProvenanceDeclared

\* What a step may make of an entry row
Wrote(old, new) ==
  \/ new = old
  \/ /\ Accepted(old, new)
     /\ new \in EntryRows
     /\ new.status # "ABSENT"
     /\ old.status # "ABSENT" => new.of = old.of
     /\ old.status \in Booked => new.status \in Booked
     /\ new.of # None => new.status \in Booked
     /\ new.status \in Booked => (new.origin = "REVERSAL" <=> new.of # None)
     /\ mode = "immutable" /\ old.of # None => new.rows = old.rows

\* A step that writes: every entry is rewritten lawfully, and a row that
\* becomes a reversal reverses a booked entry.
Lawful ==
  /\ mode' = mode
  /\ je' \in [Entries -> EntryRows]
  /\ \A e \in Entries : Wrote(je[e], je'[e])
  /\ \A e \in Entries : je'[e].of # je[e].of =>
       je'[e].of \in Entries /\ je'[je'[e].of].status \in Booked

-----------------------------------------------------------------------------
(***************************************************************************)
(* Every step is lawful                                                    *)
(***************************************************************************)

\* A step that leaves the entries alone is lawful.
LEMMA NoWrite ==
  ASSUME IInv, mode' = mode, je' = je
  PROVE  Lawful
BY DEF Lawful, IInv, TypeOK, Wrote

\* Writing one row that keeps its reversal link is lawful if the new row is.
LEMMA OneWrite ==
  ASSUME IInv, mode' = mode, NEW e \in Entries, NEW new,
         Write(e, new), Wrote(je[e], new), new.of = je[e].of
  PROVE  Lawful
<1>1. je \in [Entries -> EntryRows]
  BY DEF IInv, TypeOK
<1>2. new \in EntryRows
  BY <1>1 DEF Wrote
<1>3. /\ je' = [je EXCEPT ![e] = new]
      /\ je' \in [Entries -> EntryRows]
  BY <1>1, <1>2 DEF Write
<1>4. ASSUME NEW x \in Entries
      PROVE  Wrote(je[x], je'[x]) /\ je'[x].of = je[x].of
  <2>1. CASE x = e
    BY <1>1, <1>3, <2>1
  <2>2. CASE x # e
    BY <1>1, <1>3, <2>2 DEF Wrote
  <2> QED
    BY <2>1, <2>2
<1> QED
  BY <1>3, <1>4 DEF Lawful

\* A draft is created in a row that was absent, so it disturbs no booked entry.
LEMMA CreateLawful ==
  ASSUME IInv, NEW r \in Requests, NEW e \in Entries, NEW date \in Dates, NEW t \in Templates,
         Create(r, e, date, t) \/ CreateDraft(r, e, date, t)
  PROVE  Lawful
<1>1. /\ je[e] = Absent
      /\ mode' = mode
      /\ Write(e, Draft(date, t))
  BY DEF Create, CreateDraft, NewEntry
<1>2. /\ Draft(date, t) \in EntryRows
      /\ Draft(date, t).status = "DRAFT"
      /\ Draft(date, t).of = None
  BY RowsOfType, DraftType
<1>3. je[e].status = "ABSENT" /\ je[e].of = None
  BY <1>1 DEF Absent
<1>4. Wrote(je[e], Draft(date, t))
  BY <1>1, <1>2, <1>3 DEF Wrote, Write, Booked
<1> QED
  BY <1>1, <1>2, <1>3, <1>4, OneWrite

\* The entry a request works on, as the invariant knows it
LEMMA RequestFacts ==
  ASSUME IInv, NEW r \in Requests, req[r].pc # "idle"
  PROVE  /\ req[r] \in RequestStates
         /\ req[r].e \in Entries
         /\ je[req[r].e] \in EntryRows
         /\ je[req[r].e].status # "ABSENT"
         /\ je[req[r].e].of # None => je[req[r].e].status \in Booked
         /\ je[req[r].e].status \in Booked =>
              (je[req[r].e].origin = "REVERSAL" <=> je[req[r].e].of # None)
         /\ req[r].snap \in EntryRows
<1>1. req[r] \in RequestStates /\ req[r].e \in Entries /\ je[req[r].e].status # "ABSENT"
  BY DEF IInv, TypeOK, RequestOK
<1>2. je[req[r].e] \in EntryRows
  BY <1>1 DEF IInv, TypeOK
<1>3. req[r].snap \in EntryRows
  BY <1>1 DEF RequestStates
<1> QED
  BY <1>1, <1>2, <1>3 DEF IInv, ReversalsBooked, ProvenanceDeclared

\* Bumping the version, setting archived or flipping the status of a row
\* leaves its lines, date, origin and links alone.
LEMMA CommitUpdateLawful ==
  ASSUME IInv, NEW r \in Requests, CommitUpdate(r)
  PROVE  Lawful
<1> DEFINE q == req[r]
           old == je[q.e]
           kept == old.rows \ q.snap.rows
           rows == IF q.body = None THEN old.rows
                   ELSE kept \cup RowsOf(q.body, old.batches + 1)
           new == [old EXCEPT !.date = NewDate(q, old), !.rows = rows,
                              !.batches = @ + 1, !.version = q.snap.version + 1]
<1>1. q.pc # "idle" /\ q.op = "update" /\ mode' = mode
  BY DEF CommitUpdate
<1>2. Write(q.e, new)
  BY DEF CommitUpdate
<1>3. /\ q \in RequestStates /\ q.e \in Entries
      /\ old \in EntryRows /\ q.snap \in EntryRows
      /\ old.status # "ABSENT"
      /\ old.of # None => old.status \in Booked
      /\ old.status \in Booked => (old.origin = "REVERSAL" <=> old.of # None)
  BY <1>1, RequestFacts
<1>4. NewDate(q, old) \in Nat
  <2>1. q.date \in Dates \cup {None} /\ old.date \in Nat
    BY <1>3 DEF RequestStates, EntryRows
  <2>2. Dates \subseteq Nat
    BY JournalAssumption DEF Dates
  <2> QED
    BY <2>1, <2>2 DEF NewDate
<1>5. rows \in SUBSET Rows
  <2>1. old.rows \in SUBSET Rows /\ old.batches + 1 \in Nat
    BY <1>3 DEF EntryRows
  <2>2. CASE q.body = None
    BY <2>1, <2>2
  <2>3. CASE q.body # None
    <3>1. q.body \in Templates
      BY <1>3, <2>3 DEF RequestStates
    <3>2. RowsOf(q.body, old.batches + 1) \subseteq Rows
      BY <2>1, <3>1, RowsOfType
    <3> QED
      BY <2>1, <2>3, <3>2
  <2> QED
    BY <2>2, <2>3
<1> HIDE DEF rows
<1>6. /\ new \in EntryRows
      /\ new.status = old.status /\ new.of = old.of /\ new.origin = old.origin
  <2>1. old.batches + 1 \in Nat /\ q.snap.version + 1 \in Nat
    BY <1>3 DEF EntryRows
  <2> QED
    BY <1>3, <1>4, <1>5, <2>1 DEF EntryRows
<1>7. mode = "immutable" => old.of = None
  BY <1>1, <1>3 DEF IInv, RequestOK
<1>8. Wrote(old, new)
  BY <1>2, <1>3, <1>6, <1>7 DEF Wrote, Write
<1> QED
  BY <1>1, <1>2, <1>3, <1>6, <1>8, OneWrite

\* Voiding writes the archive flag and the version only.
LEMMA CommitVoidLawful ==
  ASSUME IInv, NEW r \in Requests, CommitVoid(r)
  PROVE  Lawful
<1> DEFINE q == req[r]
           old == je[q.e]
           new == [old EXCEPT !.archived = TRUE, !.version = q.snap.version + 1]
<1>1. q.pc # "idle" /\ mode' = mode /\ Write(q.e, new)
  BY DEF CommitVoid
<1>2. /\ q.e \in Entries
      /\ old \in EntryRows /\ q.snap \in EntryRows
      /\ old.status # "ABSENT"
      /\ old.of # None => old.status \in Booked
      /\ old.status \in Booked => (old.origin = "REVERSAL" <=> old.of # None)
  BY <1>1, RequestFacts
<1>3. /\ new \in EntryRows
      /\ new.status = old.status /\ new.of = old.of /\ new.origin = old.origin
      /\ new.rows = old.rows
  <2> DEFINE v == q.snap.version + 1
  <2>1. v \in Nat
    BY <1>2 DEF EntryRows
  <2> HIDE DEF v
  <2>2. [old EXCEPT !.archived = TRUE, !.version = v] \in EntryRows
    BY <1>2, <2>1, Zenon DEF EntryRows
  <2>3. /\ new.status = old.status /\ new.of = old.of /\ new.origin = old.origin
        /\ new.rows = old.rows
    BY <1>2 DEF EntryRows
  <2> QED
    BY <2>2, <2>3 DEF v
<1>4. Wrote(old, new)
  BY <1>1, <1>2, <1>3 DEF Wrote, Write
<1> QED
  BY <1>1, <1>2, <1>3, <1>4, OneWrite

\* The second transactions of api_post and api_reverse
LEMMA LogLawful ==
  ASSUME IInv, NEW r \in Requests, LogPost(r) \/ LogReverse(r)
  PROVE  Lawful
<1> DEFINE q == req[r]
           old == je[q.e]
           new == [old EXCEPT !.version = q.snap.version + 1]
<1>1. q.pc # "idle" /\ mode' = mode /\ Write(q.e, new)
  BY DEF LogPost, LogReverse
<1>2. /\ q.e \in Entries
      /\ old \in EntryRows /\ q.snap \in EntryRows
      /\ old.status # "ABSENT"
      /\ old.of # None => old.status \in Booked
      /\ old.status \in Booked => (old.origin = "REVERSAL" <=> old.of # None)
  BY <1>1, RequestFacts
<1>3. /\ new \in EntryRows
      /\ new.status = old.status /\ new.of = old.of /\ new.origin = old.origin
      /\ new.rows = old.rows
  BY <1>2 DEF EntryRows
<1>4. Wrote(old, new)
  BY <1>1, <1>2, <1>3 DEF Wrote, Write
<1> QED
  BY <1>1, <1>2, <1>3, <1>4, OneWrite

\* A delete that commits found an entry that was not booked (je_engine_guard).
LEMMA CommitDeleteLawful ==
  ASSUME IInv, NEW r \in Requests, CommitDelete(r)
  PROVE  Lawful
<1> DEFINE q == req[r]
           new == [Absent EXCEPT !.status = "DELETED"]
<1>1. q.pc # "idle" /\ q.op = "delete" /\ mode' = mode /\ Write(q.e, new)
  BY DEF CommitDelete
<1>2. q.e \in Entries /\ je[q.e].status # "ABSENT" /\ je[q.e].of = None
  BY <1>1 DEF IInv, RequestOK
<1>3. new \in EntryRows /\ new.status = "DELETED" /\ new.of = None
  <2>1. Absent \in EntryRows /\ Absent.of = None
    BY DEF Absent, EntryRows
  <2> QED
    BY <2>1 DEF EntryRows
<1>4. je[q.e].status \notin Booked
  BY <1>1, <1>3 DEF Write, Accepted, EngineGuard
<1>5. Wrote(je[q.e], new)
  BY <1>1, <1>2, <1>3, <1>4 DEF Wrote, Write, Booked
<1> QED
  BY <1>1, <1>2, <1>3, <1>5, OneWrite

\* Posting books a row whose lines the commit-time trigger has added up, with an
\* origin that is neither UNKNOWN nor REVERSAL, unless the row is a reversal.
LEMMA CommitPostLawful ==
  ASSUME IInv, NEW r \in Requests, CommitPost(r)
  PROVE  Lawful
<1> DEFINE q == req[r]
           new == PostedRow(je[q.e], q.snap.rows, OriginOf(q.via))
<1>1. q.pc # "idle" /\ q.op = "post" /\ mode' = mode /\ Write(q.e, new)
  BY DEF CommitPost
<1>2. /\ q.e \in Entries
      /\ je[q.e] \in EntryRows /\ q.snap \in EntryRows
      /\ je[q.e].status # "ABSENT"
  BY <1>1, RequestFacts
<1>3. je[q.e].of = None
  BY <1>1, <1>2 DEF IInv, RequestOK
<1>4. OriginOf(q.via) \in {"MANUAL", "RECORD"}
  BY DEF OriginOf
<1>5. /\ new \in EntryRows
      /\ new.status = "POSTED" /\ new.of = None /\ new.origin = OriginOf(q.via)
  <2>1. q.snap.rows \in SUBSET Rows
    BY <1>2 DEF EntryRows
  <2> QED
    BY <1>2, <1>3, <1>4, <2>1, PostedRowType
<1>6. Wrote(je[q.e], new)
  BY <1>1, <1>2, <1>3, <1>4, <1>5 DEF Wrote, Write, Booked
<1> QED
  BY <1>1, <1>2, <1>3, <1>5, <1>6, OneWrite

\* The reversal is a new entry, so the two rows of the pair are different.
LEMMA CommitReverseLawful ==
  ASSUME IInv, NEW r \in Requests, NEW m \in Entries, CommitReverse(r, m)
  PROVE  Lawful
<1> DEFINE q == req[r]
           old == je[q.e]
           new == [old EXCEPT !.status = "REVERSED"]
           newM == ReversalRow(q.e, q.snap, q.date)
<1>1. /\ q.pc # "idle" /\ q.op = "reverse" /\ mode' = mode
      /\ je[m] = Absent
      /\ WritePair(q.e, new, m, newM)
  BY DEF CommitReverse
<1>2. /\ q.e \in Entries
      /\ old \in EntryRows /\ q.snap \in EntryRows
      /\ old.status # "ABSENT"
      /\ old.status \in Booked => (old.origin = "REVERSAL" <=> old.of # None)
  BY <1>1, RequestFacts
<1>3. q.date \in Dates /\ old.status \in Booked
  BY <1>1 DEF IInv, RequestOK
<1>4. je[m].status = "ABSENT" /\ je[m].of = None /\ m # q.e
  BY <1>1, <1>2 DEF Absent
<1>5. /\ new \in EntryRows
      /\ new.status = "REVERSED" /\ new.of = old.of /\ new.origin = old.origin
      /\ new.rows = old.rows
  BY <1>2 DEF EntryRows
<1>6. newM \in EntryRows /\ newM.status = "POSTED" /\ newM.origin = "REVERSAL" /\ newM.of = q.e
  <2> DEFINE blank == Draft(q.date, <<>>)
             mirrored == Mirror(q.snap.rows)
             draft == [blank EXCEPT !.rows = mirrored, !.of = q.e]
  <2>1. Mirror(q.snap.rows) \in SUBSET Rows
    BY <1>2, MirrorType DEF EntryRows
  <2>2. RowsOf(<<>>, 1) \subseteq Rows
    BY DEF RowsOf
  <2>3. Draft(q.date, <<>>) \in EntryRows
    BY <1>3, <2>2, DraftType
  <2>4. newM = PostedRow(draft, mirrored, "REVERSAL")
    BY DEF ReversalRow
  <2> HIDE DEF blank, mirrored, newM
  <2>5. draft \in EntryRows /\ draft.of = q.e
    BY <1>2, <2>1, <2>3 DEF EntryRows, blank, mirrored
  <2> QED
    BY <2>1, <2>4, <2>5, PostedRowType DEF mirrored
<1>7. Accepted(old, new) /\ Accepted(je[m], newM)
  BY <1>1 DEF WritePair
<1>8. Wrote(old, new)
  BY <1>2, <1>3, <1>5, <1>7 DEF Wrote, Booked
<1>9. Wrote(je[m], newM)
  <2>1. q.e # None
    BY <1>2, JournalAssumption
  <2> QED
    BY <1>4, <1>6, <1>7, <2>1 DEF Wrote, Booked
<1>10. je \in [Entries -> EntryRows]
  BY DEF IInv, TypeOK
<1> HIDE DEF q, old, new, newM
<1>11. /\ je' = [je EXCEPT ![q.e] = new, ![m] = newM]
       /\ je' \in [Entries -> EntryRows]
       /\ je'[q.e] = new /\ je'[m] = newM
  BY <1>1, <1>2, <1>4, <1>5, <1>6, <1>10 DEF WritePair
<1>12. ASSUME NEW x \in Entries
       PROVE  /\ Wrote(je[x], je'[x])
              /\ je'[x].of # je[x].of => je'[x].of \in Entries /\ je'[je'[x].of].status \in Booked
  <2>1. CASE x = q.e
    BY <1>5, <1>8, <1>11, <2>1 DEF old
  <2>2. CASE x = m
    BY <1>2, <1>5, <1>6, <1>9, <1>11, <2>2 DEF Booked
  <2>3. CASE x # q.e /\ x # m
    BY <1>2, <1>10, <1>11, <2>3 DEF Wrote
  <2> QED
    BY <2>1, <2>2, <2>3
<1> QED
  BY <1>1, <1>11, <1>12 DEF Lawful

\* Reading, giving up and the period locks leave the entries alone.
LEMMA ReadsOnly ==
  ASSUME NEW r \in Requests,
         \/ \E input : Begin(r, input)
         \/ Abort(r)
         \/ \E through \in Dates : Lock(r, through) \/ Unlock(r, through)
  PROVE  mode' = mode /\ je' = je
BY DEF Begin, Abort, Lock, Unlock

\* Every step of every request keeps the entries lawful: this is the part of the
\* invariant that does not depend on what a request remembers.
LEMMA NextLawful ==
  ASSUME IInv, [Next]_vars
  PROVE  Lawful
<1>1. CASE UNCHANGED vars
  BY <1>1, NoWrite DEF vars
<1>2. ASSUME NEW r \in Requests, NEW e \in Entries, NEW date \in Dates, NEW t \in Templates,
             Create(r, e, date, t) \/ CreateDraft(r, e, date, t)
      PROVE  Lawful
  BY <1>2, CreateLawful
<1>3. ASSUME NEW r \in Requests, NEW e \in Entries, NEW date \in Dates \cup {None},
             NEW body \in Templates \cup {None}, NEW ovr \in Overrides,
             BeginUpdate(r, e, date, body, ovr)
      PROVE  Lawful
  BY <1>3, ReadsOnly, NoWrite DEF BeginUpdate
<1>4. ASSUME NEW r \in Requests, NEW e \in Entries, BeginVoid(r, e) \/ BeginDelete(r, e)
      PROVE  Lawful
  BY <1>4, ReadsOnly, NoWrite DEF BeginVoid, BeginDelete
<1>5. ASSUME NEW r \in Requests, NEW e \in Entries, NEW ovr \in Overrides,
             NEW via \in {"api", "service"}, BeginPost(r, e, ovr, via)
      PROVE  Lawful
  BY <1>5, ReadsOnly, NoWrite DEF BeginPost
<1>6. ASSUME NEW r \in Requests, NEW e \in Entries, NEW date \in Dates, NEW ovr \in Overrides,
             NEW via \in {"api", "service"}, BeginReverse(r, e, date, ovr, via)
      PROVE  Lawful
  BY <1>6, ReadsOnly, NoWrite DEF BeginReverse
<1>7. ASSUME NEW r \in Requests,
             CommitUpdate(r) \/ CommitVoid(r) \/ CommitDelete(r) \/ CommitPost(r)
      PROVE  Lawful
  BY <1>7, CommitUpdateLawful, CommitVoidLawful, CommitDeleteLawful, CommitPostLawful
<1>8. ASSUME NEW r \in Requests, LogPost(r) \/ LogReverse(r)
      PROVE  Lawful
  BY <1>8, LogLawful
<1>9. ASSUME NEW r \in Requests, NEW m \in Entries, CommitReverse(r, m)
      PROVE  Lawful
  BY <1>9, CommitReverseLawful
<1>10. ASSUME NEW r \in Requests,
              \/ Abort(r)
              \/ \E through \in Dates : Lock(r, through) \/ Unlock(r, through)
       PROVE  Lawful
  BY <1>10, ReadsOnly, NoWrite
<1> QED
  BY <1>1, <1>2, <1>3, <1>4, <1>5, <1>6, <1>7, <1>8, <1>9, <1>10 DEF Next

-----------------------------------------------------------------------------
(***************************************************************************)
(* What requests rely on survives every step                               *)
(***************************************************************************)

RequestsKept ==
  /\ req' \in [Requests -> RequestStates]
  /\ \A r \in Requests : RequestOK(r)'

\* Lawful writes of others take nothing from a request that reads entry e for
\* operation op.
LEMMA StillOK ==
  ASSUME IInv, Lawful, NEW x \in Requests, NEW y \in Requests,
         req[x].pc # "idle", req'[y].e = req[x].e, req'[y].op = req[x].op,
         req'[y].date = req[x].date, req'[y].pc = "reversed" => req'[y].m \in Entries
  PROVE  RequestOK(y)'
<1> DEFINE e == req[x].e
<1>1. e \in Entries /\ je[e].status # "ABSENT"
  BY DEF IInv, RequestOK
<1>2. Wrote(je[e], je'[e]) /\ mode' = mode
  BY <1>1 DEF Lawful
<1>3. /\ je'[e].status # "ABSENT"
      /\ je'[e].of = je[e].of
      /\ je[e].status \in Booked => je'[e].status \in Booked
  BY <1>1, <1>2 DEF Wrote
<1> QED
  BY <1>1, <1>2, <1>3 DEF IInv, RequestOK, Booked, Dates

\* An idle request is a request state.
LEMMA IdleType == Idle \in RequestStates /\ Idle.pc = "idle"
<1>1. Absent \in EntryRows
  BY DEF Absent, EntryRows
<1> QED
  BY <1>1 DEF Idle, RequestStates, OverrideInputs

\* A step that leaves the requests alone and writes lawfully keeps what they know.
LEMMA UnchangedKeeps ==
  ASSUME IInv, Lawful, req' = req
  PROVE  RequestsKept
<1>1. ASSUME NEW x \in Requests
      PROVE  RequestOK(x)'
  <2>1. CASE req[x].pc = "idle"
    BY <2>1 DEF RequestOK
  <2>2. CASE req[x].pc # "idle"
    <3>1. req[x].pc = "reversed" => req[x].m \in Entries
      BY <2>2 DEF IInv, RequestOK
    <3> QED
      BY <2>2, <3>1, StillOK
  <2> QED
    BY <2>1, <2>2
<1> QED
  BY <1>1 DEF RequestsKept, IInv, TypeOK

\* A step in which request r moves to q keeps the invariant of all requests
\* if it keeps that of r.
LEMMA MoveKeeps ==
  ASSUME IInv, Lawful, NEW r \in Requests, NEW q \in RequestStates,
         req' = [req EXCEPT ![r] = q], RequestOK(r)'
  PROVE  RequestsKept
<1>1. req \in [Requests -> RequestStates]
  BY DEF IInv, TypeOK
<1>2. ASSUME NEW x \in Requests, x # r
      PROVE  RequestOK(x)'
  <2>1. req'[x] = req[x]
    BY <1>1, <1>2
  <2>2. CASE req[x].pc = "idle"
    BY <2>1, <2>2 DEF RequestOK
  <2>3. CASE req[x].pc # "idle"
    <3>1. req[x].pc = "reversed" => req[x].m \in Entries
      BY <2>3 DEF IInv, RequestOK
    <3> QED
      BY <2>1, <2>3, <3>1, StillOK
  <2> QED
    BY <2>2, <2>3
<1> QED
  BY <1>1, <1>2 DEF RequestsKept

\* Ending a request forgets what it knew.
LEMMA FinishKeeps ==
  ASSUME IInv, Lawful, NEW r \in Requests, Finish(r)
  PROVE  RequestsKept
<1>1. req' = [req EXCEPT ![r] = Idle] /\ req'[r] = Idle
  BY DEF Finish, IInv, TypeOK
<1>2. RequestOK(r)'
  BY <1>1, IdleType DEF RequestOK
<1> QED
  BY <1>1, <1>2, IdleType, MoveKeeps

\* Beginning a request: what it read justifies what it relies on.
LEMMA BeginKeeps ==
  ASSUME IInv, Lawful, NEW r \in Requests, NEW input \in RequestStates, Begin(r, input),
         input.e \in Entries,
         input.op \in {"post", "delete"} => je[input.e].status = "DRAFT",
         input.op = "update" /\ mode = "immutable" => je[input.e].status = "DRAFT",
         input.op = "reverse" => input.date \in Dates /\ je[input.e].status = "POSTED"
  PROVE  RequestsKept
<1> DEFINE q == [input EXCEPT !.pc = "read", !.snap = je[input.e]]
<1>1. je[input.e] \in EntryRows
  BY DEF IInv, TypeOK
<1>2. /\ q \in RequestStates
      /\ q.pc = "read" /\ q.e = input.e /\ q.op = input.op /\ q.date = input.date
  BY <1>1 DEF RequestStates
<1>3. req' = [req EXCEPT ![r] = q] /\ je' = je /\ mode' = mode
  BY DEF Begin
<1> HIDE DEF q
<1>4. req'[r] = q
  BY <1>3 DEF IInv, TypeOK
<1>5. je[input.e].status \in {"DRAFT"} \cup Booked
  BY DEF Begin
<1>6. je[input.e].status = "DRAFT" => je[input.e].of = None
  BY DEF IInv, ReversalsBooked, Booked
<1>7. RequestOK(r)'
  BY <1>2, <1>3, <1>4, <1>5, <1>6 DEF RequestOK, Booked, Dates
<1> QED
  BY <1>2, <1>3, <1>7, MoveKeeps

\* The committed half of an API request goes on to its second transaction.
LEMMA AdvanceKeeps ==
  ASSUME IInv, Lawful, NEW r \in Requests, req[r].pc # "idle", NEW q \in RequestStates,
         q.e = req[r].e, q.op = req[r].op, q.date = req[r].date,
         q.pc = "reversed" => q.m \in Entries,
         req' = [req EXCEPT ![r] = q]
  PROVE  RequestsKept
<1>1. req'[r] = q
  BY DEF IInv, TypeOK
<1>2. RequestOK(r)'
  BY <1>1, StillOK
<1> QED
  BY <1>2, MoveKeeps

\* The read half of journal_entries.update,
LEMMA BeginUpdateKeeps ==
  ASSUME IInv, Lawful, NEW r \in Requests, NEW e \in Entries, NEW date \in Dates \cup {None},
         NEW body \in Templates \cup {None}, NEW ovr \in Overrides,
         BeginUpdate(r, e, date, body, ovr)
  PROVE  RequestsKept
<1> DEFINE input == [Idle EXCEPT !.op = "update", !.e = e, !.date = date, !.body = body, !.ovr = ovr]
<1>1. ovr \in OverrideInputs
  BY JournalAssumption
<1>2. input \in RequestStates /\ input.op = "update" /\ input.e = e
  BY <1>1, IdleType DEF RequestStates
<1>3. Begin(r, input) /\ EditAllowed(je[e], ovr)
  BY DEF BeginUpdate
<1>4. mode = "immutable" => je[e].status = "DRAFT"
  BY <1>3 DEF EditAllowed
<1> HIDE DEF input
<1> QED
  BY <1>2, <1>3, <1>4, BeginKeeps

\* of void and delete,
LEMMA BeginVoidKeeps ==
  ASSUME IInv, Lawful, NEW r \in Requests, NEW e \in Entries, BeginVoid(r, e) \/ BeginDelete(r, e)
  PROVE  RequestsKept
<1>1. CASE BeginVoid(r, e)
  <2> DEFINE input == [Idle EXCEPT !.op = "void", !.e = e]
  <2>1. input \in RequestStates /\ input.op = "void" /\ input.e = e
    BY IdleType DEF RequestStates
  <2>2. Begin(r, input)
    BY <1>1 DEF BeginVoid
  <2> HIDE DEF input
  <2> QED
    BY <2>1, <2>2, BeginKeeps
<1>2. CASE BeginDelete(r, e)
  <2> DEFINE input == [Idle EXCEPT !.op = "delete", !.e = e]
  <2>1. input \in RequestStates /\ input.op = "delete" /\ input.e = e
    BY IdleType DEF RequestStates
  <2>2. Begin(r, input) /\ je[e].status = "DRAFT"
    BY <1>2 DEF BeginDelete
  <2> HIDE DEF input
  <2> QED
    BY <2>1, <2>2, BeginKeeps
<1> QED
  BY <1>1, <1>2

\* of posting,
LEMMA BeginPostKeeps ==
  ASSUME IInv, Lawful, NEW r \in Requests, NEW e \in Entries, NEW ovr \in Overrides,
         NEW via \in {"api", "service"}, BeginPost(r, e, ovr, via)
  PROVE  RequestsKept
<1> DEFINE input == [Idle EXCEPT !.op = "post", !.e = e, !.ovr = ovr, !.via = via]
<1>1. ovr \in OverrideInputs
  BY JournalAssumption
<1>2. input \in RequestStates /\ input.op = "post" /\ input.e = e
  BY <1>1, IdleType DEF RequestStates
<1>3. Begin(r, input) /\ je[e].status = "DRAFT"
  BY DEF BeginPost
<1> HIDE DEF input
<1> QED
  BY <1>2, <1>3, BeginKeeps

\* and of reversing.
LEMMA BeginReverseKeeps ==
  ASSUME IInv, Lawful, NEW r \in Requests, NEW e \in Entries, NEW date \in Dates,
         NEW ovr \in Overrides, NEW via \in {"api", "service"}, BeginReverse(r, e, date, ovr, via)
  PROVE  RequestsKept
<1> DEFINE input ==
      [Idle EXCEPT !.op = "reverse", !.e = e, !.date = date, !.ovr = ovr, !.via = via]
<1>1. ovr \in OverrideInputs
  BY JournalAssumption
<1>2. input \in RequestStates /\ input.op = "reverse" /\ input.e = e /\ input.date = date
  BY <1>1, IdleType DEF RequestStates
<1>3. Begin(r, input) /\ je[e].status = "POSTED"
  BY DEF BeginReverse
<1> HIDE DEF input
<1> QED
  BY <1>2, <1>3, BeginKeeps

\* A post the API asked for goes on to its change_log transaction.
LEMMA CommitPostKeeps ==
  ASSUME IInv, Lawful, NEW r \in Requests, CommitPost(r)
  PROVE  RequestsKept
<1>1. CASE Finish(r)
  BY <1>1, FinishKeeps
<1>2. CASE req' = [req EXCEPT ![r].pc = "posted"]
  <2> DEFINE q == [req[r] EXCEPT !.pc = "posted"]
  <2>1. req[r] \in RequestStates /\ req[r].pc # "idle"
    BY DEF CommitPost, IInv, TypeOK
  <2>2. /\ q \in RequestStates /\ q.pc = "posted"
        /\ q.e = req[r].e /\ q.op = req[r].op /\ q.date = req[r].date
    BY <2>1 DEF RequestStates
  <2>3. req' = [req EXCEPT ![r] = q]
    BY <1>2
  <2> HIDE DEF q
  <2> QED
    BY <2>1, <2>2, <2>3, AdvanceKeeps
<1> QED
  BY <1>1, <1>2 DEF CommitPost

\* So does a reversal, remembering the entry it inserted.
LEMMA CommitReverseKeeps ==
  ASSUME IInv, Lawful, NEW r \in Requests, NEW m \in Entries, CommitReverse(r, m)
  PROVE  RequestsKept
<1>1. CASE Finish(r)
  BY <1>1, FinishKeeps
<1>2. CASE req' = [req EXCEPT ![r].pc = "reversed", ![r].m = m]
  <2> DEFINE q == [req[r] EXCEPT !.pc = "reversed", !.m = m]
  <2>1. req[r] \in RequestStates /\ req[r].pc # "idle"
    BY DEF CommitReverse, IInv, TypeOK
  <2>2. /\ q \in RequestStates /\ q.pc = "reversed" /\ q.m = m
        /\ q.e = req[r].e /\ q.op = req[r].op /\ q.date = req[r].date
    BY <2>1 DEF RequestStates
  <2>3. req' = [req EXCEPT ![r] = q]
    BY <1>2 DEF IInv, TypeOK
  <2> HIDE DEF q
  <2> QED
    BY <2>1, <2>2, <2>3, AdvanceKeeps
<1> QED
  BY <1>1, <1>2 DEF CommitReverse

\* Every step keeps what the requests in flight know.
LEMMA NextKeeps ==
  ASSUME IInv, [Next]_vars
  PROVE  RequestsKept
<1> USE NextLawful
<1>1. CASE UNCHANGED vars
  BY <1>1, UnchangedKeeps DEF vars
<1>2. ASSUME NEW r \in Requests, NEW e \in Entries, NEW date \in Dates, NEW t \in Templates,
             Create(r, e, date, t) \/ CreateDraft(r, e, date, t)
      PROVE  RequestsKept
  BY <1>2, UnchangedKeeps DEF Create, CreateDraft
<1>3. ASSUME NEW r \in Requests, NEW e \in Entries, NEW date \in Dates \cup {None},
             NEW body \in Templates \cup {None}, NEW ovr \in Overrides,
             BeginUpdate(r, e, date, body, ovr)
      PROVE  RequestsKept
  BY <1>3, BeginUpdateKeeps
<1>4. ASSUME NEW r \in Requests, NEW e \in Entries, BeginVoid(r, e) \/ BeginDelete(r, e)
      PROVE  RequestsKept
  BY <1>4, BeginVoidKeeps
<1>5. ASSUME NEW r \in Requests, NEW e \in Entries, NEW ovr \in Overrides,
             NEW via \in {"api", "service"}, BeginPost(r, e, ovr, via)
      PROVE  RequestsKept
  BY <1>5, BeginPostKeeps
<1>6. ASSUME NEW r \in Requests, NEW e \in Entries, NEW date \in Dates, NEW ovr \in Overrides,
             NEW via \in {"api", "service"}, BeginReverse(r, e, date, ovr, via)
      PROVE  RequestsKept
  BY <1>6, BeginReverseKeeps
<1>7. ASSUME NEW r \in Requests,
             CommitUpdate(r) \/ CommitVoid(r) \/ CommitDelete(r) \/ LogPost(r) \/ LogReverse(r)
             \/ Abort(r)
      PROVE  RequestsKept
  BY <1>7, FinishKeeps DEF CommitUpdate, CommitVoid, CommitDelete, LogPost, LogReverse, Abort
<1>8. ASSUME NEW r \in Requests, CommitPost(r)
      PROVE  RequestsKept
  BY <1>8, CommitPostKeeps
<1>9. ASSUME NEW r \in Requests, NEW m \in Entries, CommitReverse(r, m)
      PROVE  RequestsKept
  BY <1>9, CommitReverseKeeps
<1>10. ASSUME NEW r \in Requests, NEW through \in Dates, Lock(r, through) \/ Unlock(r, through)
       PROVE  RequestsKept
  BY <1>10, UnchangedKeeps DEF Lock, Unlock
<1> QED
  BY <1>1, <1>2, <1>3, <1>4, <1>5, <1>6, <1>7, <1>8, <1>9, <1>10 DEF Next

-----------------------------------------------------------------------------
(***************************************************************************)
(* The other tables                                                        *)
(***************************************************************************)

\* Every step keeps the types of the tables.
LEMMA TablesType ==
  ASSUME IInv, [Next]_vars
  PROVE  locks' \subseteq Dates /\ log' \subseteq LogRows
<1>1. locks \subseteq Dates /\ log \subseteq LogRows
  BY DEF IInv, TypeOK
<1>2. ASSUME NEW r \in Requests, req[r].pc # "idle"
      PROVE  /\ req[r].e \in Entries
             /\ req[r].snap.version + 1 \in Nat
             /\ req[r].pc = "reversed" => req[r].m \in Entries
  BY <1>2, RequestFacts DEF IInv, RequestOK, EntryRows
<1>3. CASE UNCHANGED vars
  BY <1>1, <1>3 DEF vars
<1>4. ASSUME NEW r \in Requests, NEW e \in Entries, NEW date \in Dates, NEW t \in Templates,
             Create(r, e, date, t) \/ CreateDraft(r, e, date, t)
      PROVE  locks' = locks /\ log' \subseteq LogRows
  BY <1>1, <1>4 DEF Create, CreateDraft, Log, LogRows
<1>5. ASSUME NEW r \in Requests, NEW input, Begin(r, input)
      PROVE  locks' = locks /\ log' = log
  BY <1>5 DEF Begin
<1>6. ASSUME NEW r \in Requests, CommitUpdate(r)
      PROVE  locks' = locks /\ log' \subseteq LogRows
  <2> DEFINE v == req[r].snap.version + 1
  <2>1. req[r].pc # "idle" /\ locks' = locks /\ log' = log \cup {Log(req[r].e, "update", v)}
    BY <1>6 DEF CommitUpdate
  <2>2. req[r].e \in Entries /\ v \in Nat
    BY <1>2, <2>1
  <2> HIDE DEF v
  <2> QED
    BY <1>1, <2>1, <2>2 DEF Log, LogRows
<1>7. ASSUME NEW r \in Requests, CommitVoid(r)
      PROVE  locks' = locks /\ log' \subseteq LogRows
  <2> DEFINE v == req[r].snap.version + 1
  <2>1. req[r].pc # "idle" /\ locks' = locks /\ log' = log \cup {Log(req[r].e, "archive", v)}
    BY <1>7 DEF CommitVoid
  <2>2. req[r].e \in Entries /\ v \in Nat
    BY <1>2, <2>1
  <2> HIDE DEF v
  <2> QED
    BY <1>1, <2>1, <2>2 DEF Log, LogRows
<1>8. ASSUME NEW r \in Requests, LogPost(r)
      PROVE  locks' = locks /\ log' \subseteq LogRows
  <2> DEFINE v == req[r].snap.version + 1
  <2>1. req[r].pc # "idle" /\ locks' = locks /\ log' = log \cup {Log(req[r].e, "posted", v)}
    BY <1>8 DEF LogPost
  <2>2. req[r].e \in Entries /\ v \in Nat
    BY <1>2, <2>1
  <2> HIDE DEF v
  <2> QED
    BY <1>1, <2>1, <2>2 DEF Log, LogRows
<1>9. ASSUME NEW r \in Requests, LogReverse(r)
      PROVE  locks' = locks /\ log' \subseteq LogRows
  <2> DEFINE v == req[r].snap.version + 1
  <2>1. /\ req[r].pc = "reversed" /\ locks' = locks
        /\ log' = log \cup {Log(req[r].e, "reversed", v), Log(req[r].m, "create", 1)}
    BY <1>9 DEF LogReverse
  <2>2. req[r].e \in Entries /\ req[r].m \in Entries /\ v \in Nat
    BY <1>2, <2>1
  <2> HIDE DEF v
  <2> QED
    BY <1>1, <2>1, <2>2 DEF Log, LogRows
<1>10. ASSUME NEW r \in Requests,
              \/ CommitDelete(r) \/ CommitPost(r) \/ Abort(r)
              \/ \E m \in Entries : CommitReverse(r, m)
       PROVE  locks' = locks /\ log' = log
  BY <1>10 DEF CommitDelete, CommitPost, CommitReverse, Abort
<1>11. ASSUME NEW r \in Requests, NEW through \in Dates, Lock(r, through) \/ Unlock(r, through)
       PROVE  locks' \subseteq Dates /\ log' = log
  BY <1>1, <1>11 DEF Lock, Unlock
<1>12. ASSUME NEW r \in Requests,
              \/ \E e \in Entries, date \in Dates \cup {None}, body \in Templates \cup {None},
                    ovr \in Overrides : BeginUpdate(r, e, date, body, ovr)
              \/ \E e \in Entries : BeginVoid(r, e) \/ BeginDelete(r, e)
              \/ \E e \in Entries, ovr \in Overrides, via \in {"api", "service"} :
                   BeginPost(r, e, ovr, via)
              \/ \E e \in Entries, date \in Dates, ovr \in Overrides, via \in {"api", "service"} :
                   BeginReverse(r, e, date, ovr, via)
       PROVE  locks' = locks /\ log' = log
  BY <1>5, <1>12 DEF BeginUpdate, BeginVoid, BeginDelete, BeginPost, BeginReverse
<1> QED
  BY <1>1, <1>3, <1>4, <1>6, <1>7, <1>8, <1>9, <1>10, <1>11, <1>12 DEF Next

-----------------------------------------------------------------------------
(***************************************************************************)
(* The theorems                                                            *)
(***************************************************************************)

\* The empty books satisfy the invariant,
LEMMA InitInv == Init => IInv
<1> SUFFICES ASSUME Init PROVE IInv
  OBVIOUS
<1>1. Absent \in EntryRows /\ Absent.status = "ABSENT" /\ Absent.of = None
  BY DEF Absent, EntryRows
<1>2. \A e \in Entries : je[e] = Absent
  BY DEF Init
<1>3. TypeOK
  BY <1>1, IdleType DEF Init, TypeOK
<1>4. \A r \in Requests : RequestOK(r)
  BY IdleType DEF Init, RequestOK
<1>5. ReversalsBooked /\ ProvenanceDeclared
  BY <1>1, <1>2 DEF ReversalsBooked, ProvenanceDeclared, Booked
<1> QED
  BY <1>3, <1>4, <1>5 DEF IInv

\* every step keeps it,
LEMMA NextInv == IInv /\ [Next]_vars => IInv'
<1> SUFFICES ASSUME IInv, [Next]_vars PROVE IInv'
  OBVIOUS
<1>1. Lawful
  BY NextLawful
<1>2. RequestsKept
  BY NextKeeps
<1>3. TypeOK'
  BY <1>1, <1>2, TablesType DEF Lawful, RequestsKept, IInv, TypeOK, Dates
<1>4. ReversalsBooked'
  <2> SUFFICES ASSUME NEW e \in Entries, je'[e].of # None
               PROVE  je'[e].status \in Booked
    BY DEF ReversalsBooked, Booked
  <2> QED
    BY <1>1 DEF Lawful, Wrote, IInv, ReversalsBooked
<1>5. ProvenanceDeclared'
  <2> SUFFICES ASSUME NEW e \in Entries, je'[e].status \in Booked
               PROVE  /\ je'[e].origin # "UNKNOWN"
                      /\ je'[e].origin = "REVERSAL" <=> je'[e].of # None
                      /\ je'[e].of # None => je'[je'[e].of].status \in Booked
    BY DEF ProvenanceDeclared, Booked
  <2>1. Wrote(je[e], je'[e])
    BY <1>1 DEF Lawful
  <2>2. je'[e].origin # "UNKNOWN" /\ (je'[e].origin = "REVERSAL" <=> je'[e].of # None)
    BY <2>1 DEF Wrote, Accepted, EngineGuard, IInv, ProvenanceDeclared
  <2>3. ASSUME je'[e].of # None
        PROVE  je'[je'[e].of].status \in Booked
    <3>1. CASE je'[e].of # je[e].of
      BY <1>1, <3>1 DEF Lawful
    <3>2. CASE je'[e].of = je[e].of
      <4>1. je[e].status \in Booked /\ je[e].of \in Entries
        BY <2>3, <3>2 DEF IInv, TypeOK, EntryRows, ReversalsBooked
      <4>2. je[je[e].of].status \in Booked
        BY <2>3, <3>2, <4>1 DEF IInv, ProvenanceDeclared
      <4> QED
        BY <1>1, <3>2, <4>1, <4>2 DEF Lawful, Wrote
    <3> QED
      BY <3>1, <3>2
  <2> QED
    BY <2>2, <2>3
<1> QED
  BY <1>2, <1>3, <1>4, <1>5 DEF IInv, RequestsKept

\* so it holds throughout, however requests interleave (journal.py,
\* journal_entries.py, triggers 0101 and 0164).
THEOREM Invariance == Spec => []IInv
BY InitInv, NextInv, PTL DEF Spec

\* The tables and the requests in flight keep their types.
THEOREM TypeCorrect == Spec => []TypeOK
<1>1. IInv => TypeOK
  BY DEF IInv
<1> QED
  BY <1>1, Invariance, PTL

\* Booked entries declare their origin; reversals and only they name a booked
\* entry they reverse, however requests interleave.
THEOREM Provenance == Spec => []ProvenanceDeclared
<1>1. IInv => ProvenanceDeclared
  BY DEF IInv
<1> QED
  BY <1>1, Invariance, PTL

\* Every POSTED entry is balanced: the commit-time trigger of 0101 is enough,
\* whatever the Python guards in front of it have read.
THEOREM PostedIsBalanced == Spec => []PostedBalanced
<1>1. Init => PostedBalanced
  BY DEF Init, PostedBalanced, Absent
<1>2. IInv /\ PostedBalanced /\ [Next]_vars => PostedBalanced'
  <2> SUFFICES ASSUME IInv, PostedBalanced, [Next]_vars, NEW e \in Entries,
                      je'[e].status = "POSTED"
               PROVE  Balanced(je'[e].rows)
    BY DEF PostedBalanced
  <2>1. Wrote(je[e], je'[e])
    BY NextLawful DEF Lawful
  <2> QED
    BY <2>1 DEF Wrote, Accepted, BalanceTrigger, PostedBalanced
<1> QED
  BY <1>1, <1>2, Invariance, PTL DEF Spec

\* Once booked, always booked, on the same date.
THEOREM BookedStaysBooked == Spec => BookedFrozen
<1>1. IInv /\ [Next]_vars =>
        [\A e \in Entries : je[e].status \in Booked =>
           je'[e].status \in Booked /\ je'[e].date = je[e].date]_vars
  <2> SUFFICES ASSUME IInv, [Next]_vars, NEW e \in Entries, je[e].status \in Booked
               PROVE  je'[e].status \in Booked /\ je'[e].date = je[e].date
    OBVIOUS
  <2>1. Wrote(je[e], je'[e])
    BY NextLawful DEF Lawful
  <2> QED
    BY <2>1 DEF Wrote, Accepted, EngineGuard
<1> QED
  BY <1>1, Invariance, PTL DEF Spec, BookedFrozen

\* In an immutable company nothing touches the lines of a reversal.
THEOREM ReversalsUntouched == Spec => ReversalUntouched
<1>1. IInv /\ [Next]_vars =>
        [\A m \in Entries : mode = "immutable" /\ je[m].of # None =>
           je'[m].rows = je[m].rows /\ je'[m].of = je[m].of]_vars
  <2> SUFFICES ASSUME IInv, [Next]_vars, NEW m \in Entries, mode = "immutable", je[m].of # None
               PROVE  je'[m].rows = je[m].rows /\ je'[m].of = je[m].of
    OBVIOUS
  <2>1. Wrote(je[m], je'[m])
    BY NextLawful DEF Lawful
  <2>2. je[m].status # "ABSENT"
    BY DEF IInv, ReversalsBooked, Booked
  <2> QED
    BY <2>1, <2>2 DEF Wrote
<1> QED
  BY <1>1, Invariance, PTL DEF Spec, ReversalUntouched

-----------------------------------------------------------------------------
(***************************************************************************)
(* What the Python guards carry                                            *)
(*                                                                         *)
(* They act on what a request read, so they are right only while nobody    *)
(* else works on the entry: Apart.  A single request satisfies it, and so  *)
(* does any number of requests on different entries.                       *)
(***************************************************************************)

\* No two requests in flight work on one entry.
Apart ==
  \A r, s \in Requests : ~Free(r) /\ ~Free(s) /\ req[r].e = req[s].e => r = s

\* What a request read is then still true when it writes.
Relies(r) ==
  LET q == req[r] IN
  /\ q.pc = "read" =>
       /\ je[q.e] = q.snap
       /\ q.snap.status \in {"DRAFT"} \cup Booked
       /\ q.op \in {"delete", "post"} => q.snap.status = "DRAFT"
       /\ q.op = "update" /\ mode = "immutable" => q.snap.status = "DRAFT"
       /\ q.op = "reverse" => q.snap.status = "POSTED"
  /\ q.pc \in {"posted", "reversed"} =>
       je[q.e].status \in Booked /\ je[q.e].version = q.snap.version

\* Reversals and REVERSED entries come in pairs, mirror images of each other
\* where no booked line can be edited.
Pairs ==
  /\ \A x \in Entries : je[x].of # None => je[je[x].of].status = "REVERSED"
  /\ \A x, y \in Entries : je[x].of = je[y].of /\ je[x].of # None => x = y
  /\ \A e \in Entries : je[e].status = "REVERSED" => \E m \in Entries : je[m].of = e
  /\ mode = "immutable" =>
       \A m \in Entries : je[m].of # None => je[m].rows = Mirror(je[je[m].of].rows)

\* The logged changes of an entry
Changes(e) == {row \in log : row.e = e /\ row.op # "create"}

\* No logged change of an entry is ahead of the entry.
LogBehind ==
  \A e \in Entries :
    /\ IsFiniteSet(Changes(e))
    /\ \A row \in Changes(e) :
         /\ je[e].status # "ABSENT"
         /\ je[e].status # "DELETED" => row.version <= je[e].version

\* What holds while no two requests work on one entry
SInv ==
  /\ IInv
  /\ \A r \in Requests : Relies(r)
  /\ Pairs
  /\ LogBehind
  /\ VersionCountsLog

-----------------------------------------------------------------------------
(***************************************************************************)
(* What a step does to the books                                           *)
(***************************************************************************)

\* The statuses of entries that can still change
Live == {"DRAFT"} \cup Booked

\* Entries outside E stay as they are, and so do their logged changes.
Elsewhere(E) == \A x \in Entries \ E : je'[x] = je[x]
SameLog(E)   == \A x \in Entries \ E : Changes(x)' = Changes(x)

\* Nothing happens to the books;
Quiet == Elsewhere({}) /\ SameLog({})

\* a draft is created;
Drafting(e) ==
  /\ je[e].status = "ABSENT"
  /\ je'[e].status = "DRAFT" /\ je'[e].of = None /\ je'[e].version = 1
  /\ Elsewhere({e}) /\ SameLog({})

\* an entry is changed, its version and its logged changes in step;
Changing(e) ==
  /\ je[e].status \in Live
  /\ je'[e].status = je[e].status
  /\ je'[e].of = je[e].of
  /\ je'[e].origin = je[e].origin
  /\ je'[e].version = je[e].version + 1
  /\ je[e].status \in Booked => je'[e].date = je[e].date
  /\ je[e].status = "POSTED" => Balanced(je'[e].rows)
  /\ je[e].status \in Booked /\ mode = "immutable" => je'[e].rows = je[e].rows
  /\ \E row : row.version = je'[e].version /\ Changes(e)' = Changes(e) \cup {row}
  /\ Elsewhere({e}) /\ SameLog({e})

\* a draft is deleted;
Deleting(e) ==
  /\ je[e].status = "DRAFT"
  /\ je'[e].status = "DELETED" /\ je'[e].of = None
  /\ Elsewhere({e}) /\ SameLog({})

\* a draft is posted, balanced, its version not yet moved;
Posting(e) ==
  /\ je[e].status = "DRAFT" /\ je[e].of = None
  /\ je'[e].status = "POSTED" /\ je'[e].of = None
  /\ je'[e].origin \in {"MANUAL", "RECORD"}
  /\ je'[e].version = je[e].version
  /\ Balanced(je'[e].rows)
  /\ Elsewhere({e}) /\ SameLog({})

\* an entry is reversed by a new one, its mirror image.
Reversing(e, m) ==
  /\ je[e].status = "POSTED"
  /\ je[m].status = "ABSENT" /\ je[m].of = None
  /\ je'[e] = [je[e] EXCEPT !.status = "REVERSED"]
  /\ je'[m].status = "POSTED" /\ je'[m].origin = "REVERSAL" /\ je'[m].of = e
  /\ je'[m].version = 1
  /\ je'[m].rows = Mirror(je[e].rows)
  /\ Elsewhere({e, m}) /\ SameLog({})

\* Each step does one of these.
Effect ==
  \/ Quiet
  \/ \E e \in Entries : Drafting(e) \/ Changing(e) \/ Deleting(e) \/ Posting(e)
  \/ \E e, m \in Entries : Reversing(e, m)

\* A step of request r leaves the other requests alone, and of the entries it
\* writes only its own and absent ones.
Minds(r) ==
  /\ \A s \in Requests \ {r} : req'[s] = req[s]
  /\ \A x \in Entries : je[x].status # "ABSENT" /\ (Free(r) \/ x # req[r].e) => je'[x] = je[x]
  /\ Relies(r)'

-----------------------------------------------------------------------------
(***************************************************************************)
(* Lemmas about writes, rows and the log                                   *)
(***************************************************************************)

\* A write changes one row.
LEMMA WriteOne ==
  ASSUME IInv, NEW e \in Entries, NEW new, Write(e, new)
  PROVE  je'[e] = new /\ Elsewhere({e}) /\ Accepted(je[e], new)
BY DEF Write, IInv, TypeOK, Elsewhere

\* A step that logs one change of an entry, and any number of creations
Logs(e, op, v) ==
  /\ op # "create"
  /\ log \subseteq log'
  /\ Log(e, op, v) \in log'
  /\ \A row \in log' \ log : row.op = "create" \/ row = Log(e, op, v)

\* It makes that one more of the entry's changes.
LEMMA LogOne ==
  ASSUME NEW e \in Entries, NEW op, NEW v, Logs(e, op, v)
  PROVE  /\ \E row : row.version = v /\ Changes(e)' = Changes(e) \cup {row}
         /\ SameLog({e})
<1>1. Log(e, op, v).e = e /\ Log(e, op, v).op = op /\ Log(e, op, v).version = v
  BY DEF Log
<1>2. Changes(e)' = Changes(e) \cup {Log(e, op, v)}
  BY <1>1 DEF Changes, Logs
<1>3. ASSUME NEW x \in Entries \ {e} PROVE Changes(x)' = Changes(x)
  BY <1>1, <1>3 DEF Changes, Logs
<1> QED
  BY <1>1, <1>2, <1>3 DEF SameLog

\* A step that logs nothing but creations changes nobody's changes.
LEMMA LogNone ==
  ASSUME log \subseteq log', \A row \in log' \ log : row.op = "create"
  PROVE  SameLog({})
BY DEF SameLog, Changes

\* The lines of a reversal carry no tax, so posting it adds no tax line.
LEMMA MirrorUntaxed ==
  ASSUME NEW rows, NEW k
  PROVE  GstRows(Mirror(rows), k) = {}
BY DEF GstRows, Mirror

\* What the invariant knows of a request that has read its entry
LEMMA ReadFacts ==
  ASSUME SInv, NEW r \in Requests, req[r].pc = "read"
  PROVE  /\ req[r] \in RequestStates
         /\ req[r].e \in Entries
         /\ je[req[r].e] \in EntryRows
         /\ req[r].snap = je[req[r].e]
         /\ je[req[r].e].status \in Live
         /\ Relies(r)
         /\ je[req[r].e].version + 1 \in Nat
<1>1. req[r].pc # "idle" /\ IInv /\ Relies(r)
  BY DEF SInv
<1>2. req[r].snap = je[req[r].e] /\ je[req[r].e].status \in Live
  BY <1>1 DEF Relies, Live
<1>3. req[r] \in RequestStates /\ req[r].e \in Entries /\ je[req[r].e] \in EntryRows
  BY <1>1, RequestFacts
<1>4. je[req[r].e].version + 1 \in Nat
  BY <1>3 DEF EntryRows
<1> QED
  BY <1>1, <1>2, <1>3, <1>4

\* A request that finishes relies on nothing.
LEMMA FinishMinds ==
  ASSUME IInv, NEW r \in Requests, Finish(r)
  PROVE  /\ \A s \in Requests \ {r} : req'[s] = req[s]
         /\ Relies(r)'
<1>1. req' = [req EXCEPT ![r] = Idle] /\ req'[r] = Idle /\ \A s \in Requests \ {r} : req'[s] = req[s]
  BY DEF Finish, IInv, TypeOK
<1> QED
  BY <1>1 DEF Relies, Idle

-----------------------------------------------------------------------------
(***************************************************************************)
(* The effect of every operation                                           *)
(***************************************************************************)

\* A new draft, logged as a creation or not at all
LEMMA CreateEffect ==
  ASSUME SInv, NEW r \in Requests, NEW e \in Entries, NEW date \in Dates, NEW t \in Templates,
         Create(r, e, date, t) \/ CreateDraft(r, e, date, t)
  PROVE  Drafting(e) /\ Minds(r)
<1>1. /\ Free(r) /\ je[e] = Absent /\ Write(e, Draft(date, t)) /\ req' = req
      /\ log' = log \cup {Log(e, "create", 1)} \/ log' = log \cup {}
  BY DEF Create, CreateDraft, NewEntry
<1>2. /\ Draft(date, t).status = "DRAFT" /\ Draft(date, t).of = None
      /\ Draft(date, t).version = 1
  BY DEF Draft, Absent
<1>3. SameLog({})
  BY <1>1, LogNone DEF Log
<1>4. je'[e] = Draft(date, t) /\ Elsewhere({e})
  BY <1>1, WriteOne DEF SInv
<1>5. je[e].status = "ABSENT"
  BY <1>1 DEF Absent
<1>6. Drafting(e)
  BY <1>2, <1>3, <1>4, <1>5 DEF Drafting
<1>7. Relies(r)'
  BY <1>1 DEF Relies, Free
<1>8. \A x \in Entries : je[x].status # "ABSENT" => je'[x] = je[x]
  BY <1>4, <1>5 DEF Elsewhere
<1> QED
  BY <1>1, <1>6, <1>7, <1>8 DEF Minds

\* A request that writes its own entry and finishes minds its own business.
LEMMA WriteMinds ==
  ASSUME SInv, NEW r \in Requests, ~Free(r), Elsewhere({req[r].e}), Finish(r)
  PROVE  Minds(r)
<1>1. /\ \A s \in Requests \ {r} : req'[s] = req[s]
      /\ Relies(r)'
  BY FinishMinds DEF SInv
<1> QED
  BY <1>1 DEF Minds, Elsewhere

\* An edit: the rows of a booked entry stay where the company is immutable.
LEMMA CommitUpdateEffect ==
  ASSUME SInv, NEW r \in Requests, CommitUpdate(r), NEW e \in Entries, e = req[r].e
  PROVE  Changing(e) /\ Minds(r)
<1> DEFINE q == req[r]
           old == je[e]
           rows == IF q.body = None THEN old.rows
                   ELSE (old.rows \ q.snap.rows) \cup RowsOf(q.body, old.batches + 1)
           date == NewDate(q, old)
           new == [old EXCEPT !.date = date, !.rows = rows,
                              !.batches = @ + 1, !.version = q.snap.version + 1]
<1>1. /\ q.pc = "read" /\ q.op = "update"
      /\ Write(e, new)
      /\ log' = log \cup {Log(e, "update", new.version)}
      /\ Finish(r)
  BY DEF CommitUpdate
<1>2. /\ old \in EntryRows /\ q.snap = old
      /\ old.status \in Live /\ Relies(r)
      /\ old.version + 1 \in Nat
  BY <1>1, ReadFacts
<1>3. je'[e] = new /\ Elsewhere({e}) /\ Accepted(old, new)
  <2> HIDE DEF new
  <2> QED
    BY <1>1, WriteOne DEF SInv
<1>4. mode = "immutable" => old.status = "DRAFT"
  BY <1>1, <1>2 DEF Relies
<1> HIDE DEF rows, date
<1>5. /\ new.status = old.status /\ new.of = old.of /\ new.origin = old.origin
      /\ new.version = old.version + 1
  BY <1>2 DEF EntryRows
<1>6. /\ \E row : row.version = new.version /\ Changes(e)' = Changes(e) \cup {row}
      /\ SameLog({e})
  <2> DEFINE v == new.version
  <2>1. log' = log \cup {Log(e, "update", v)}
    BY <1>1
  <2> HIDE DEF v
  <2>2. Logs(e, "update", v)
    BY <2>1 DEF Logs
  <2>3. /\ \E row : row.version = v /\ Changes(e)' = Changes(e) \cup {row}
        /\ SameLog({e})
    BY <2>2, LogOne
  <2> QED
    BY <2>3 DEF v
<1>7. /\ old.status \in Booked => new.date = old.date
      /\ old.status = "POSTED" => Balanced(new.rows)
  BY <1>3, <1>5 DEF Accepted, EngineGuard, BalanceTrigger
<1>8. ~(old.status \in Booked /\ mode = "immutable")
  BY <1>4 DEF Booked
<1> HIDE DEF new
<1>9. Changing(e)
  BY <1>2, <1>3, <1>5, <1>6, <1>7, <1>8 DEF Changing
<1>10. Minds(r)
  BY <1>1, <1>3, WriteMinds DEF Free
<1> QED
  BY <1>9, <1>10

\* A void or the second transaction of a post or reversal: only the version
\* and the archive flag move.
LEMMA BumpEffect ==
  ASSUME SInv, NEW r \in Requests, CommitVoid(r) \/ LogPost(r) \/ LogReverse(r),
         NEW e \in Entries, e = req[r].e
  PROVE  Changing(e) /\ Minds(r) /\ je'[e].rows = je[e].rows
<1> DEFINE q == req[r]
           old == je[e]
           v == q.snap.version + 1
<1>1. ~Free(r) /\ IInv /\ Relies(r)
  BY DEF CommitVoid, LogPost, LogReverse, Free, SInv
<1>2. old \in EntryRows /\ q.snap \in EntryRows
  BY <1>1, RequestFacts DEF Free
<1>3. v = old.version + 1 /\ old.status \in Live
  BY <1>1 DEF Relies, Live, CommitVoid, LogPost, LogReverse
<1>4. \E archived \in BOOLEAN : Write(e, [old EXCEPT !.archived = archived, !.version = v])
  <2>1. CASE CommitVoid(r)
    BY <2>1 DEF CommitVoid
  <2>2. CASE LogPost(r) \/ LogReverse(r)
    <3>1. Write(e, [old EXCEPT !.version = v])
      BY <2>2 DEF LogPost, LogReverse
    <3> HIDE DEF v
    <3>2. [old EXCEPT !.version = v] = [old EXCEPT !.archived = old.archived, !.version = v]
      BY <1>2 DEF EntryRows
    <3>3. old.archived \in BOOLEAN
      BY <1>2, Zenon DEF EntryRows
    <3> QED
      BY <3>1, <3>2, <3>3
  <2> QED
    BY <2>1, <2>2
<1>5. PICK archived \in BOOLEAN : Write(e, [old EXCEPT !.archived = archived, !.version = v])
  BY <1>4
<1> DEFINE new == [old EXCEPT !.archived = archived, !.version = v]
<1>6. je'[e] = new /\ Elsewhere({e}) /\ Accepted(old, new)
  BY <1>1, <1>2, <1>5, WriteOne
<1> HIDE DEF v
<1>7. /\ new.status = old.status /\ new.of = old.of /\ new.origin = old.origin
      /\ new.version = v /\ new.date = old.date /\ new.rows = old.rows
  BY <1>2 DEF EntryRows
<1>8. Logs(e, "archive", v) \/ Logs(e, "posted", v) \/ Logs(e, "reversed", v)
  <2>1. CASE CommitVoid(r)
    <3>1. log' = log \cup {Log(e, "archive", v)}
      BY <2>1 DEF CommitVoid, v
    <3> QED
      BY <3>1 DEF Logs
  <2>2. CASE LogPost(r)
    <3>1. log' = log \cup {Log(e, "posted", v)}
      BY <2>2 DEF LogPost, v
    <3> QED
      BY <3>1 DEF Logs
  <2>3. CASE LogReverse(r)
    <3>1. log' = log \cup {Log(e, "reversed", v), Log(q.m, "create", 1)}
      BY <2>3 DEF LogReverse, v
    <3>2. Log(q.m, "create", 1).op = "create"
      BY DEF Log
    <3> QED
      BY <3>1, <3>2 DEF Logs
  <2> QED
    BY <2>1, <2>2, <2>3
<1>9. /\ \E row : row.version = v /\ Changes(e)' = Changes(e) \cup {row}
      /\ SameLog({e})
  BY <1>8, LogOne
<1>10. old.status = "POSTED" => Balanced(new.rows)
  BY <1>6, <1>7 DEF Accepted, BalanceTrigger
<1> HIDE DEF new
<1>11. Changing(e)
  BY <1>2, <1>3, <1>6, <1>7, <1>9, <1>10 DEF Changing
<1>12. Finish(r)
  BY DEF CommitVoid, LogPost, LogReverse
<1>13. Minds(r)
  BY <1>1, <1>6, <1>12, WriteMinds
<1>14. je'[e].rows = je[e].rows
  BY <1>6, <1>7
<1> QED
  BY <1>11, <1>13, <1>14

\* A delete finds the draft it read.
LEMMA CommitDeleteEffect ==
  ASSUME SInv, NEW r \in Requests, CommitDelete(r), NEW e \in Entries, e = req[r].e
  PROVE  Deleting(e) /\ Minds(r)
<1> DEFINE new == [Absent EXCEPT !.status = "DELETED"]
<1>1. /\ req[r].pc = "read" /\ req[r].op = "delete"
      /\ Write(e, new) /\ Finish(r) /\ log' = log
  BY DEF CommitDelete
<1>2. je[e].status = "DRAFT"
  BY <1>1 DEF SInv, Relies
<1>3. new.status = "DELETED" /\ new.of = None
  BY DEF Absent
<1> HIDE DEF new
<1>4. je'[e] = new /\ Elsewhere({e})
  BY <1>1, WriteOne DEF SInv
<1>5. SameLog({})
  BY <1>1, LogNone
<1>6. Minds(r)
  BY <1>1, <1>4, WriteMinds DEF Free
<1> QED
  BY <1>2, <1>3, <1>4, <1>5, <1>6 DEF Deleting

\* A post books the draft it read, balanced, and tells its own second
\* transaction the version it left.
LEMMA CommitPostEffect ==
  ASSUME SInv, NEW r \in Requests, CommitPost(r), NEW e \in Entries, e = req[r].e
  PROVE  Posting(e) /\ Minds(r) /\ je'[e].date = je[e].date
<1> DEFINE old == je[e]
           new == PostedRow(old, req[r].snap.rows, OriginOf(req[r].via))
<1>1. /\ req[r].pc = "read" /\ req[r].op = "post"
      /\ Write(e, new) /\ log' = log
      /\ Finish(r) \/ req' = [req EXCEPT ![r].pc = "posted"]
  BY DEF CommitPost
<1>2. /\ req[r] \in RequestStates /\ old \in EntryRows /\ req[r].snap = old /\ Relies(r)
      /\ IInv
  BY <1>1, ReadFacts DEF SInv
<1>3. old.status = "DRAFT"
  BY <1>1, <1>2 DEF Relies
<1>4. old.of = None
  BY <1>2, <1>3 DEF IInv, ReversalsBooked, Booked
<1>5. OriginOf(req[r].via) \in {"MANUAL", "RECORD"}
  BY DEF OriginOf
<1>6. /\ new.status = "POSTED" /\ new.of = None /\ new.origin \in {"MANUAL", "RECORD"}
      /\ new.version = old.version /\ new.date = old.date
  <2> DEFINE read == req[r].snap.rows
             origin == OriginOf(req[r].via)
             row == PostedRow(old, read, origin)
  <2>1. read \in SUBSET Rows /\ origin \in {"MANUAL", "RECORD"}
    BY <1>2, <1>5 DEF EntryRows
  <2>4. old \in EntryRows /\ read \in SUBSET Rows /\ origin \in {"MANUAL", "RECORD", "REVERSAL"}
    BY <1>2, <2>1
  <2> HIDE DEF read, origin, old
  <2>2. row.status = "POSTED" /\ row.of = old.of /\ row.origin = origin /\ row.date = old.date
    BY <2>4, PostedRowType
  <2>3. row.version = old.version
    BY <1>2 DEF PostedRow, EntryRows
  <2> QED
    BY <1>4, <2>1, <2>2, <2>3 DEF read, origin, old
<1> HIDE DEF new
<1>7. je'[e] = new /\ Elsewhere({e}) /\ Accepted(old, new)
  BY <1>1, <1>2, WriteOne
<1>8. SameLog({})
  BY <1>1, LogNone
<1>9. Balanced(new.rows)
  BY <1>6, <1>7 DEF Accepted, BalanceTrigger
<1>10. Posting(e)
  BY <1>3, <1>4, <1>6, <1>7, <1>8, <1>9 DEF Posting
<1>11. CASE Finish(r)
  BY <1>1, <1>6, <1>7, <1>10, <1>11, WriteMinds DEF Free
<1>12. CASE req' = [req EXCEPT ![r].pc = "posted"]
  <2>1. /\ req'[r].pc = "posted" /\ req'[r].e = e /\ req'[r].snap = old
        /\ \A s \in Requests \ {r} : req'[s] = req[s]
    BY <1>2, <1>12 DEF IInv, TypeOK, RequestStates
  <2>2. Relies(r)'
    BY <1>6, <1>7, <2>1 DEF Relies, Booked
  <2> QED
    BY <1>1, <1>6, <1>7, <1>10, <2>1, <2>2 DEF Minds, Elsewhere, Free
<1> QED
  BY <1>1, <1>11, <1>12

\* The row a reversal inserts is the mirror image of what was read.
LEMMA ReversalRowFacts ==
  ASSUME NEW e \in Entries, NEW snap \in EntryRows, NEW date \in Dates
  PROVE  /\ ReversalRow(e, snap, date).status = "POSTED"
         /\ ReversalRow(e, snap, date).origin = "REVERSAL"
         /\ ReversalRow(e, snap, date).of = e
         /\ ReversalRow(e, snap, date).version = 1
         /\ ReversalRow(e, snap, date).rows = Mirror(snap.rows)
         /\ ReversalRow(e, snap, date).date = date
<1> DEFINE blank == Draft(date, <<>>)
           mirrored == Mirror(snap.rows)
           draft == [blank EXCEPT !.rows = mirrored, !.of = e]
<1>1. RowsOf(<<>>, 1) \subseteq Rows
  BY DEF RowsOf
<1>2. blank \in EntryRows /\ blank.version = 1 /\ blank.date = date
  BY <1>1, DraftType DEF Draft, Absent
<1>3. ReversalRow(e, snap, date) = PostedRow(draft, mirrored, "REVERSAL")
  BY DEF ReversalRow
<1>4. \A k : GstRows(mirrored, k) = {}
  BY MirrorUntaxed
<1>5. mirrored \in SUBSET Rows
  BY MirrorType DEF EntryRows
<1> HIDE DEF blank, mirrored
<1>6. /\ draft \in EntryRows /\ draft.of = e /\ draft.rows = mirrored /\ draft.version = 1
      /\ draft.date = date
  BY <1>2, <1>5 DEF EntryRows
<1> HIDE DEF draft
<1>7. /\ PostedRow(draft, mirrored, "REVERSAL").rows = mirrored
      /\ PostedRow(draft, mirrored, "REVERSAL").version = 1
      /\ PostedRow(draft, mirrored, "REVERSAL").date = date
      /\ PostedRow(draft, mirrored, "REVERSAL").of = e
      /\ PostedRow(draft, mirrored, "REVERSAL").origin = "REVERSAL"
      /\ PostedRow(draft, mirrored, "REVERSAL").status = "POSTED"
  BY <1>4, <1>6 DEF PostedRow, EntryRows
<1> QED
  BY <1>3, <1>7 DEF mirrored

\* A reversal flips the entry it read as POSTED and books its mirror image.
LEMMA CommitReverseEffect ==
  ASSUME SInv, NEW r \in Requests, NEW m \in Entries, CommitReverse(r, m),
         NEW e \in Entries, e = req[r].e
  PROVE  Reversing(e, m) /\ Minds(r) /\ je'[m].date = req[r].date
<1> DEFINE old == je[e]
           new == [old EXCEPT !.status = "REVERSED"]
           newM == ReversalRow(e, req[r].snap, req[r].date)
<1>1. /\ req[r].pc = "read" /\ req[r].op = "reverse" /\ je[m] = Absent
      /\ WritePair(e, new, m, newM) /\ log' = log
      /\ Finish(r) \/ req' = [req EXCEPT ![r].pc = "reversed", ![r].m = m]
  BY DEF CommitReverse
<1>2. /\ req[r] \in RequestStates /\ old \in EntryRows /\ req[r].snap = old /\ Relies(r)
      /\ IInv
  BY <1>1, ReadFacts DEF SInv
<1>3. old.status = "POSTED" /\ req[r].date \in Dates
  BY <1>1, <1>2 DEF Relies, IInv, RequestOK
<1>4. /\ newM.status = "POSTED" /\ newM.origin = "REVERSAL" /\ newM.of = e /\ newM.version = 1
      /\ newM.rows = Mirror(old.rows) /\ newM.date = req[r].date
  BY <1>2, <1>3, ReversalRowFacts
<1>5. je[m].status = "ABSENT" /\ je[m].of = None /\ m # e
  BY <1>1, <1>3 DEF Absent
<1>6. new.status = "REVERSED" /\ new.version = old.version
  BY <1>2 DEF EntryRows
<1> HIDE DEF new, newM
<1>7. je'[e] = new /\ je'[m] = newM /\ Elsewhere({e, m})
  BY <1>1, <1>2, <1>5 DEF WritePair, IInv, TypeOK, Elsewhere
<1>8. SameLog({})
  BY <1>1, LogNone
<1>9. Reversing(e, m)
  BY <1>3, <1>4, <1>5, <1>7, <1>8 DEF Reversing, new
<1>10. \A x \in Entries : je[x].status # "ABSENT" /\ x # e => je'[x] = je[x]
  BY <1>5, <1>7 DEF Elsewhere
<1>11. CASE Finish(r)
  <2>1. /\ \A s \in Requests \ {r} : req'[s] = req[s]
        /\ Relies(r)'
    BY <1>2, <1>11, FinishMinds
  <2> QED
    BY <1>1, <1>4, <1>7, <1>9, <1>10, <2>1 DEF Minds, Free
<1>12. CASE req' = [req EXCEPT ![r].pc = "reversed", ![r].m = m]
  <2>1. /\ req'[r].pc = "reversed" /\ req'[r].e = e /\ req'[r].snap = old
        /\ \A s \in Requests \ {r} : req'[s] = req[s]
    BY <1>2, <1>12 DEF IInv, TypeOK, RequestStates
  <2>2. Relies(r)'
    BY <1>6, <1>7, <2>1 DEF Relies, Booked
  <2> QED
    BY <1>1, <1>4, <1>7, <1>9, <1>10, <2>1, <2>2 DEF Minds, Free
<1> QED
  BY <1>1, <1>11, <1>12

\* What a request reads, it may rely on.
LEMMA BeginEffect ==
  ASSUME SInv, NEW r \in Requests, NEW input \in RequestStates, Begin(r, input),
         input.op \in {"post", "delete"} => je[input.e].status = "DRAFT",
         input.op = "update" /\ mode = "immutable" => je[input.e].status = "DRAFT",
         input.op = "reverse" => je[input.e].status = "POSTED"
  PROVE  Quiet /\ Minds(r)
<1> DEFINE q == [input EXCEPT !.pc = "read", !.snap = je[input.e]]
<1>1. /\ Free(r) /\ je[input.e].status \in {"DRAFT"} \cup Booked
      /\ req' = [req EXCEPT ![r] = q] /\ je' = je /\ mode' = mode /\ log' = log
  BY DEF Begin
<1>2. q.pc = "read" /\ q.e = input.e /\ q.op = input.op /\ q.snap = je[input.e]
  BY DEF RequestStates
<1> HIDE DEF q
<1>3. req'[r] = q /\ \A s \in Requests \ {r} : req'[s] = req[s]
  BY <1>1 DEF SInv, IInv, TypeOK
<1>4. Relies(r)'
  BY <1>1, <1>2, <1>3 DEF Relies, Booked
<1> QED
  BY <1>1, <1>3, <1>4 DEF Quiet, Minds, Elsewhere, SameLog, Changes

\* Every operation begins by reading: the guards of each are what it relies on.
LEMMA BeginsEffect ==
  ASSUME SInv, NEW r \in Requests,
         \/ \E e \in Entries, date \in Dates \cup {None}, body \in Templates \cup {None},
               ovr \in Overrides : BeginUpdate(r, e, date, body, ovr)
         \/ \E e \in Entries : BeginVoid(r, e) \/ BeginDelete(r, e)
         \/ \E e \in Entries, ovr \in Overrides, via \in {"api", "service"} :
              BeginPost(r, e, ovr, via)
         \/ \E e \in Entries, date \in Dates, ovr \in Overrides, via \in {"api", "service"} :
              BeginReverse(r, e, date, ovr, via)
  PROVE  Quiet /\ Minds(r)
<1>1. ASSUME NEW e \in Entries, NEW date \in Dates \cup {None}, NEW body \in Templates \cup {None},
             NEW ovr \in Overrides, BeginUpdate(r, e, date, body, ovr)
      PROVE  Quiet /\ Minds(r)
  <2> DEFINE input == [Idle EXCEPT !.op = "update", !.e = e, !.date = date,
                                   !.body = body, !.ovr = ovr]
  <2>1. input \in RequestStates /\ input.op = "update" /\ input.e = e
    BY JournalAssumption, IdleType DEF RequestStates
  <2>2. Begin(r, input) /\ (mode = "immutable" => je[e].status = "DRAFT")
    BY <1>1 DEF BeginUpdate, EditAllowed
  <2> HIDE DEF input
  <2> QED
    BY <2>1, <2>2, BeginEffect
<1>2. ASSUME NEW e \in Entries, BeginVoid(r, e)
      PROVE  Quiet /\ Minds(r)
  <2> DEFINE input == [Idle EXCEPT !.op = "void", !.e = e]
  <2>1. input \in RequestStates /\ input.op = "void" /\ input.e = e
    BY JournalAssumption, IdleType DEF RequestStates
  <2>2. Begin(r, input)
    BY <1>2 DEF BeginVoid
  <2> HIDE DEF input
  <2> QED
    BY <2>1, <2>2, BeginEffect
<1>3. ASSUME NEW e \in Entries, BeginDelete(r, e)
      PROVE  Quiet /\ Minds(r)
  <2> DEFINE input == [Idle EXCEPT !.op = "delete", !.e = e]
  <2>1. input \in RequestStates /\ input.op = "delete" /\ input.e = e
    BY JournalAssumption, IdleType DEF RequestStates
  <2>2. Begin(r, input) /\ je[e].status = "DRAFT"
    BY <1>3 DEF BeginDelete
  <2> HIDE DEF input
  <2> QED
    BY <2>1, <2>2, BeginEffect
<1>4. ASSUME NEW e \in Entries, NEW ovr \in Overrides, NEW via \in {"api", "service"},
             BeginPost(r, e, ovr, via)
      PROVE  Quiet /\ Minds(r)
  <2> DEFINE input == [Idle EXCEPT !.op = "post", !.e = e, !.ovr = ovr, !.via = via]
  <2>1. input \in RequestStates /\ input.op = "post" /\ input.e = e
    BY JournalAssumption, IdleType DEF RequestStates
  <2>2. Begin(r, input) /\ je[e].status = "DRAFT"
    BY <1>4 DEF BeginPost
  <2> HIDE DEF input
  <2> QED
    BY <2>1, <2>2, BeginEffect
<1>5. ASSUME NEW e \in Entries, NEW date \in Dates, NEW ovr \in Overrides,
             NEW via \in {"api", "service"}, BeginReverse(r, e, date, ovr, via)
      PROVE  Quiet /\ Minds(r)
  <2> DEFINE input ==
        [Idle EXCEPT !.op = "reverse", !.e = e, !.date = date, !.ovr = ovr, !.via = via]
  <2>1. input \in RequestStates /\ input.op = "reverse" /\ input.e = e
    BY JournalAssumption, IdleType DEF RequestStates
  <2>2. Begin(r, input) /\ je[e].status = "POSTED"
    BY <1>5 DEF BeginReverse
  <2> HIDE DEF input
  <2> QED
    BY <2>1, <2>2, BeginEffect
<1> QED
  BY <1>1, <1>2, <1>3, <1>4, <1>5

\* Giving up and the period locks leave the books and everyone's view of them alone.
LEMMA AsideEffect ==
  ASSUME SInv, NEW r \in Requests,
         Abort(r) \/ \E through \in Dates : Lock(r, through) \/ Unlock(r, through)
  PROVE  Quiet /\ Minds(r)
<1>1. mode' = mode /\ je' = je /\ log' = log
  BY DEF Abort, Lock, Unlock
<1>2. CASE Abort(r)
  <2>1. (\A s \in Requests \ {r} : req'[s] = req[s]) /\ Relies(r)'
    BY <1>2, FinishMinds DEF Abort, SInv
  <2> QED
    BY <1>1, <2>1 DEF Quiet, Minds, Elsewhere, SameLog, Changes
<1>3. CASE \E through \in Dates : Lock(r, through) \/ Unlock(r, through)
  <2>1. Free(r) /\ req' = req
    BY <1>3 DEF Lock, Unlock
  <2>2. Relies(r)'
    BY <2>1 DEF Relies, Free
  <2> QED
    BY <1>1, <2>1, <2>2 DEF Quiet, Minds, Elsewhere, SameLog, Changes
<1> QED
  BY <1>2, <1>3

\* Every step of a request has one of these effects.
LEMMA NextEffect ==
  ASSUME SInv, Next
  PROVE  Effect /\ \E r \in Requests : Minds(r)
<1>1. PICK r \in Requests :
        \/ \E e \in Entries, date \in Dates, t \in Templates :
             Create(r, e, date, t) \/ CreateDraft(r, e, date, t)
        \/ \/ \E e \in Entries, date \in Dates \cup {None}, body \in Templates \cup {None},
                 ovr \in Overrides : BeginUpdate(r, e, date, body, ovr)
           \/ \E e \in Entries : BeginVoid(r, e) \/ BeginDelete(r, e)
           \/ \E e \in Entries, ovr \in Overrides, via \in {"api", "service"} :
                BeginPost(r, e, ovr, via)
           \/ \E e \in Entries, date \in Dates, ovr \in Overrides, via \in {"api", "service"} :
                BeginReverse(r, e, date, ovr, via)
        \/ CommitUpdate(r) \/ CommitVoid(r) \/ LogPost(r) \/ LogReverse(r)
        \/ CommitDelete(r)
        \/ CommitPost(r)
        \/ \E m \in Entries : CommitReverse(r, m)
        \/ Abort(r) \/ \E through \in Dates : Lock(r, through) \/ Unlock(r, through)
  BY DEF Next
<1>2. ASSUME req[r].pc # "idle"
      PROVE  \E e \in Entries : e = req[r].e
  BY <1>2 DEF SInv, IInv, RequestOK
<1>3. CASE \E e \in Entries, date \in Dates, t \in Templates :
             Create(r, e, date, t) \/ CreateDraft(r, e, date, t)
  BY <1>3, CreateEffect DEF Effect
<1>4. CASE \/ \E e \in Entries, date \in Dates \cup {None}, body \in Templates \cup {None},
                 ovr \in Overrides : BeginUpdate(r, e, date, body, ovr)
           \/ \E e \in Entries : BeginVoid(r, e) \/ BeginDelete(r, e)
           \/ \E e \in Entries, ovr \in Overrides, via \in {"api", "service"} :
                BeginPost(r, e, ovr, via)
           \/ \E e \in Entries, date \in Dates, ovr \in Overrides, via \in {"api", "service"} :
                BeginReverse(r, e, date, ovr, via)
  BY <1>4, BeginsEffect DEF Effect
<1>5. CASE CommitUpdate(r) \/ CommitVoid(r) \/ LogPost(r) \/ LogReverse(r)
  <2>1. req[r].pc # "idle"
    BY <1>5 DEF CommitUpdate, CommitVoid, LogPost, LogReverse
  <2> QED
    BY <1>2, <1>5, <2>1, CommitUpdateEffect, BumpEffect DEF Effect
<1>6. CASE CommitDelete(r)
  <2>1. req[r].pc # "idle"
    BY <1>6 DEF CommitDelete
  <2> QED
    BY <1>2, <1>6, <2>1, CommitDeleteEffect DEF Effect
<1>7. CASE CommitPost(r)
  <2>1. req[r].pc # "idle"
    BY <1>7 DEF CommitPost
  <2> QED
    BY <1>2, <1>7, <2>1, CommitPostEffect DEF Effect
<1>8. CASE \E m \in Entries : CommitReverse(r, m)
  <2>1. req[r].pc # "idle"
    BY <1>8 DEF CommitReverse
  <2> QED
    BY <1>2, <1>8, <2>1, CommitReverseEffect DEF Effect
<1>9. CASE Abort(r) \/ \E through \in Dates : Lock(r, through) \/ Unlock(r, through)
  BY <1>9, AsideEffect DEF Effect
<1> QED
  BY <1>1, <1>3, <1>4, <1>5, <1>6, <1>7, <1>8, <1>9

-----------------------------------------------------------------------------
(***************************************************************************)
(* Every step keeps the invariant while requests stay apart                *)
(***************************************************************************)

\* The entry of another request is not the one this step writes.
LEMMA OthersRely ==
  ASSUME SInv, Apart, mode' = mode, NEW r \in Requests, Minds(r), NEW s \in Requests
  PROVE  Relies(s)'
<1>1. CASE s = r
  BY <1>1 DEF Minds
<1>2. CASE s # r
  <2>1. req'[s] = req[s] /\ Relies(s)
    BY <1>2 DEF Minds, SInv
  <2>2. CASE Free(s)
    BY <2>1, <2>2 DEF Relies, Free
  <2>3. CASE ~Free(s)
    <3>1. req[s].e \in Entries /\ je[req[s].e].status # "ABSENT"
      BY <2>3 DEF SInv, IInv, RequestOK, Free
    <3>2. Free(r) \/ req[s].e # req[r].e
      BY <1>2, <2>3 DEF Apart
    <3>3. je'[req[s].e] = je[req[s].e]
      BY <3>1, <3>2 DEF Minds
    <3> QED
      BY <2>1, <3>3 DEF Relies, Booked
  <2> QED
    BY <2>2, <2>3
<1> QED
  BY <1>1, <1>2

\* Every step has one of the effects, and everyone can go on relying on what
\* they read.
LEMMA StepEffect ==
  ASSUME SInv, Apart, [Next]_vars
  PROVE  Effect /\ \A s \in Requests : Relies(s)'
<1>1. CASE UNCHANGED vars
  <2>1. Quiet
    BY <1>1 DEF vars, Quiet, Elsewhere, SameLog, Changes
  <2>2. ASSUME NEW s \in Requests PROVE Relies(s)'
    BY <1>1 DEF vars, SInv, Relies, Booked
  <2> QED
    BY <2>1, <2>2 DEF Effect
<1>2. CASE Next
  <2>1. mode' = mode
    BY NextLawful DEF Lawful, SInv
  <2> QED
    BY <1>2, <2>1, NextEffect, OthersRely
<1> QED
  BY <1>1, <1>2

\* Only a reversal makes or touches a pair.
LEMMA SamePairs ==
  ASSUME SInv, mode' = mode,
         \A x \in Entries :
           /\ je'[x].of = je[x].of
           /\ je'[x].status = "REVERSED" <=> je[x].status = "REVERSED"
           /\ mode = "immutable" /\ je[x].status \in Booked => je'[x].rows = je[x].rows
  PROVE  Pairs'
<1>1. \A x \in Entries : je[x].of # None =>
        /\ je[x].status \in Booked
        /\ je[x].of \in Entries /\ je[je[x].of].status = "REVERSED"
  BY DEF SInv, Pairs, IInv, TypeOK, EntryRows, ReversalsBooked
<1>2. \A x \in Entries : je'[x].of # None => je'[je'[x].of].status = "REVERSED"
  BY <1>1
<1>3. \A x, y \in Entries : je'[x].of = je'[y].of /\ je'[x].of # None => x = y
  BY DEF SInv, Pairs
<1>4. \A e \in Entries : je'[e].status = "REVERSED" => \E m \in Entries : je'[m].of = e
  BY DEF SInv, Pairs
<1>5. ASSUME mode' = "immutable", NEW m \in Entries, je'[m].of # None
      PROVE  je'[m].rows = Mirror(je'[je'[m].of].rows)
  <2>1. je[m].rows = Mirror(je[je[m].of].rows)
    BY <1>5 DEF SInv, Pairs
  <2>2. je'[m].rows = je[m].rows /\ je'[je[m].of].rows = je[je[m].of].rows
    BY <1>1, <1>5 DEF Booked
  <2> QED
    BY <2>1, <2>2
<1> QED
  BY <1>2, <1>3, <1>4, <1>5 DEF Pairs

\* A reversal makes one new pair: the entry it flips was in none, and the row
\* it fills was nobody's reversal.
LEMMA ReversingPairs ==
  ASSUME SInv, mode' = mode, NEW e \in Entries, NEW m \in Entries, Reversing(e, m)
  PROVE  Pairs'
<1>1. /\ je[e].status = "POSTED" /\ je[m].status = "ABSENT" /\ je[m].of = None /\ e # m
      /\ je'[e].status = "REVERSED" /\ je'[e].of = je[e].of /\ je'[e].rows = je[e].rows
      /\ je'[m].of = e /\ je'[m].rows = Mirror(je[e].rows) /\ je'[m].status = "POSTED"
  <2>1. je[e] \in EntryRows
    BY DEF SInv, IInv, TypeOK
  <2> QED
    BY <2>1 DEF Reversing, EntryRows
<1>2. \A x \in Entries : x # e /\ x # m => je'[x] = je[x]
  BY DEF Reversing, Elsewhere
<1>3. \A x \in Entries : je[x].of # None =>
        je[x].of \in Entries /\ je[je[x].of].status = "REVERSED"
  BY DEF SInv, Pairs, IInv, TypeOK, EntryRows
<1>4. \A x \in Entries : x # m => je'[x].of = je[x].of /\ je'[x].rows = je[x].rows
  BY <1>1, <1>2
<1>5. \A x \in Entries : je[x].status = "REVERSED" => je'[x] = je[x]
  BY <1>1, <1>2
<1>6. \A x \in Entries : je'[x].of # None => je'[je'[x].of].status = "REVERSED"
  BY <1>1, <1>3, <1>4, <1>5
<1>7. ASSUME NEW x \in Entries, NEW y \in Entries, je'[x].of = je'[y].of, je'[x].of # None
      PROVE  x = y
  <2>1. \A z \in Entries : z # m => je'[z].of # e
    BY <1>1, <1>3, <1>4, JournalAssumption
  <2>2. CASE x = m \/ y = m
    BY <1>1, <1>7, <2>1, <2>2
  <2>3. CASE x # m /\ y # m
    BY <1>4, <1>7, <2>3 DEF SInv, Pairs
  <2> QED
    BY <2>2, <2>3
<1>8. ASSUME NEW x \in Entries, je'[x].status = "REVERSED"
      PROVE  \E y \in Entries : je'[y].of = x
  <2>1. CASE x = e
    BY <1>1, <2>1
  <2>2. CASE x # e
    <3>1. je[x].status = "REVERSED"
      BY <1>1, <1>2, <1>8, <2>2
    <3>2. PICK y \in Entries : je[y].of = x
      BY <3>1 DEF SInv, Pairs
    <3>3. y # m
      BY <1>1, <3>2, JournalAssumption
    <3> QED
      BY <1>4, <3>2, <3>3
  <2> QED
    BY <2>1, <2>2
<1>9. ASSUME mode' = "immutable", NEW x \in Entries, je'[x].of # None
      PROVE  je'[x].rows = Mirror(je'[je'[x].of].rows)
  <2>1. CASE x = m
    BY <1>1, <2>1
  <2>2. CASE x # m
    <3>1. je'[x].of = je[x].of /\ je'[x].rows = je[x].rows
      BY <1>4, <2>2
    <3>2. je[x].rows = Mirror(je[je[x].of].rows)
      BY <1>9, <3>1 DEF SInv, Pairs
    <3>3. je'[je[x].of] = je[je[x].of]
      BY <1>3, <1>5, <1>9, <3>1
    <3> QED
      BY <3>1, <3>2, <3>3
  <2> QED
    BY <2>1, <2>2
<1> QED
  BY <1>6, <1>7, <1>8, <1>9 DEF Pairs

\* So the pairs stay pairs.
LEMMA PairsKept ==
  ASSUME SInv, mode' = mode, Effect
  PROVE  Pairs'
<1> DEFINE Same ==
      \A x \in Entries :
        /\ je'[x].of = je[x].of
        /\ je'[x].status = "REVERSED" <=> je[x].status = "REVERSED"
        /\ mode = "immutable" /\ je[x].status \in Booked => je'[x].rows = je[x].rows
<1>1. \A x \in Entries : je[x].status \notin Booked => je[x].of = None
  BY DEF SInv, IInv, ReversalsBooked
<1>2. CASE Quiet
  <2>1. Same
    BY <1>2 DEF Quiet, Elsewhere
  <2> QED
    BY <2>1, SamePairs
<1>3. ASSUME NEW e \in Entries, Drafting(e) \/ Deleting(e) \/ Posting(e)
      PROVE  Pairs'
  <2>1. \A x \in Entries : x # e => je'[x] = je[x]
    BY <1>3 DEF Drafting, Deleting, Posting, Elsewhere
  <2>2. je[e].status \notin Booked /\ je'[e].status # "REVERSED" /\ je'[e].of = None
    BY <1>3 DEF Drafting, Deleting, Posting, Booked
  <2>3. je[e].of = None /\ je[e].status # "REVERSED"
    BY <1>1, <2>2 DEF Booked
  <2>4. Same
    BY <2>1, <2>2, <2>3
  <2> QED
    BY <2>4, SamePairs
<1>4. ASSUME NEW e \in Entries, Changing(e)
      PROVE  Pairs'
  <2>1. Same
    BY <1>4 DEF Changing, Elsewhere
  <2> QED
    BY <2>1, SamePairs
<1> QED
  BY <1>2, <1>3, <1>4, ReversingPairs DEF Effect

\* The version and the log move together.
LEMMA LogKept ==
  ASSUME SInv, Effect
  PROVE  LogBehind' /\ VersionCountsLog'
<1> DEFINE Fits(v, changes) ==
             /\ IsFiniteSet(changes)
             /\ \A row \in changes : row.version <= v
             /\ v = 1 + Cardinality(changes)
           Good(x) ==
             /\ IsFiniteSet(Changes(x)')
             /\ je'[x].status = "ABSENT" => Changes(x)' = {}
             /\ je'[x].status \in Live => Fits(je'[x].version, Changes(x)')
             /\ je'[x].status \in {"ABSENT", "DELETED"} \cup Live
<1>1. ASSUME NEW x \in Entries
      PROVE  /\ je[x] \in EntryRows
             /\ je[x].version \in Nat
             /\ je[x].status \in {"ABSENT", "DELETED"} \cup Live
             /\ IsFiniteSet(Changes(x))
             /\ je[x].status = "ABSENT" => Changes(x) = {}
             /\ je[x].status \in Live => Fits(je[x].version, Changes(x))
  <2>1. je[x] \in EntryRows
    BY DEF SInv, IInv, TypeOK
  <2>2. je[x].version \in Nat /\ je[x].status \in {"ABSENT", "DELETED"} \cup Live
    BY <2>1 DEF EntryRows, Live, Booked
  <2>3. IsFiniteSet(Changes(x)) /\ (je[x].status = "ABSENT" => Changes(x) = {})
    BY DEF SInv, LogBehind
  <2>4. je[x].status \in Live => Fits(je[x].version, Changes(x))
    BY <2>3 DEF SInv, LogBehind, VersionCountsLog, Live, Booked, Changes
  <2> QED
    BY <2>1, <2>2, <2>3, <2>4
<1>2. ASSUME NEW x \in Entries, je'[x] = je[x], Changes(x)' = Changes(x)
      PROVE  Good(x)
  BY <1>1, <1>2
<1>3. ASSUME NEW x \in Entries, je[x].status = "ABSENT", Changes(x)' = Changes(x),
             je'[x].version = 1, je'[x].status \in {"DRAFT", "POSTED"}
      PROVE  Good(x)
  <2>1. Changes(x)' = {} /\ IsFiniteSet({}) /\ Cardinality({}) = 0
    BY <1>1, <1>3, FS_EmptySet
  <2> QED
    BY <1>3, <2>1 DEF Live, Booked
<1>4. ASSUME NEW x \in Entries, je[x].status \in Live, Changes(x)' = Changes(x),
             je'[x].version = je[x].version, je'[x].status \in Live
      PROVE  Good(x)
  <2>1. je'[x].status # "ABSENT"
    BY <1>4 DEF Live, Booked
  <2> QED
    BY <1>1, <1>4, <2>1
<1>5. ASSUME NEW x \in Entries, je'[x].status = "DELETED", Changes(x)' = Changes(x)
      PROVE  Good(x)
  BY <1>1, <1>5 DEF Live, Booked
<1>6. ASSUME NEW x \in Entries, je[x].status \in Live, je'[x].status \in Live,
             je'[x].version = je[x].version + 1,
             NEW row, row.version = je'[x].version, Changes(x)' = Changes(x) \cup {row}
      PROVE  Good(x)
  <2> DEFINE v == je[x].version
             changes == Changes(x)
  <2>1. v \in Nat /\ Fits(v, changes)
    BY <1>1, <1>6
  <2>2. row \notin changes
    BY <1>6, <2>1
  <2>3. /\ IsFiniteSet(changes \cup {row})
        /\ Cardinality(changes \cup {row}) = Cardinality(changes) + 1
    BY <2>1, <2>2, FS_AddElement
  <2>4. \A c \in changes : c.version \in Nat
    BY DEF SInv, IInv, TypeOK, LogRows, Changes
  <2>5. je'[x].status # "ABSENT"
    BY <1>6 DEF Live, Booked
  <2>6. \A c \in changes \cup {row} : c.version <= v + 1
    BY <1>6, <2>1, <2>4
  <2>7. v + 1 = 1 + (Cardinality(changes) + 1)
    BY <2>1, FS_CardinalityType
  <2> HIDE DEF v, changes
  <2>8. Fits(v + 1, changes \cup {row})
    BY <2>3, <2>6, <2>7
  <2> HIDE DEF Fits
  <2>9. Fits(je'[x].version, Changes(x)') /\ IsFiniteSet(Changes(x)')
    BY <1>6, <2>3, <2>8 DEF v, changes
  <2> QED
    BY <1>6, <2>5, <2>9
<1>7. \A x \in Entries : Good(x)
  <2> HIDE DEF Good
  <2>1. CASE Quiet
    BY <1>2, <2>1 DEF Quiet, Elsewhere, SameLog
  <2>2. ASSUME NEW e \in Entries, Drafting(e) PROVE \A x \in Entries : Good(x)
    BY <1>2, <1>3, <2>2 DEF Drafting, Elsewhere, SameLog
  <2>3. ASSUME NEW e \in Entries, Changing(e) PROVE \A x \in Entries : Good(x)
    BY <1>2, <1>6, <2>3 DEF Changing, Elsewhere, SameLog
  <2>4. ASSUME NEW e \in Entries, Deleting(e) PROVE \A x \in Entries : Good(x)
    BY <1>2, <1>5, <2>4 DEF Deleting, Elsewhere, SameLog
  <2>5. ASSUME NEW e \in Entries, Posting(e) PROVE \A x \in Entries : Good(x)
    <3>1. Good(e)
      BY <1>4, <2>5 DEF Posting, SameLog, Live, Booked
    <3>2. ASSUME NEW x \in Entries, x # e PROVE Good(x)
      BY <1>2, <2>5, <3>2 DEF Posting, Elsewhere, SameLog
    <3> QED
      BY <3>1, <3>2
  <2>6. ASSUME NEW e \in Entries, NEW m \in Entries, Reversing(e, m)
        PROVE  \A x \in Entries : Good(x)
    <3>1. je'[e].status = "REVERSED" /\ je'[e].version = je[e].version
      BY <1>1, <2>6 DEF Reversing, EntryRows
    <3>2. Good(e)
      BY <1>4, <2>6, <3>1 DEF Reversing, SameLog, Live, Booked
    <3>3. Good(m)
      BY <1>3, <2>6 DEF Reversing, SameLog
    <3>4. ASSUME NEW x \in Entries, x # e, x # m PROVE Good(x)
      BY <1>2, <2>6, <3>4 DEF Reversing, Elsewhere, SameLog
    <3> QED
      BY <3>2, <3>3, <3>4
  <2> QED
    BY <2>1, <2>2, <2>3, <2>4, <2>5, <2>6 DEF Effect
<1>8. LogBehind'
  BY <1>7 DEF LogBehind, Live, Booked
<1>9. VersionCountsLog'
  BY <1>7 DEF VersionCountsLog, Live, Booked, Changes
<1> QED
  BY <1>8, <1>9

-----------------------------------------------------------------------------
(***************************************************************************)
(* The theorems that hold while requests stay apart                        *)
(***************************************************************************)

\* The empty books satisfy the invariant,
LEMMA InitSInv == Init => SInv
<1> SUFFICES ASSUME Init PROVE SInv
  OBVIOUS
<1>1. \A e \in Entries : je[e].status = "ABSENT" /\ je[e].of = None /\ Changes(e) = {}
  BY DEF Init, Absent, Changes
<1>2. \A r \in Requests : Relies(r)
  BY DEF Init, Relies, Idle
<1>3. Pairs
  BY <1>1 DEF Pairs
<1>4. LogBehind
  BY <1>1, FS_EmptySet DEF LogBehind
<1>5. VersionCountsLog
  BY <1>1 DEF VersionCountsLog, Booked
<1> QED
  BY <1>2, <1>3, <1>4, <1>5, InitInv DEF SInv

\* and every step keeps it while requests stay apart.
LEMMA NextSInv == SInv /\ Apart /\ [Next]_vars => SInv'
<1> SUFFICES ASSUME SInv, Apart, [Next]_vars PROVE SInv'
  OBVIOUS
<1>1. mode' = mode /\ IInv'
  BY NextLawful, NextInv DEF Lawful, SInv
<1>2. Effect /\ \A r \in Requests : Relies(r)'
  BY StepEffect
<1>3. Pairs' /\ LogBehind' /\ VersionCountsLog'
  BY <1>1, <1>2, PairsKept, LogKept
<1> QED
  BY <1>1, <1>2, <1>3 DEF SInv

\* While no two requests work on one entry, what a request read stays true
\* until it writes; reversals pair up with what they reverse; versions and
\* log move together.
THEOREM ApartInvariance == Spec /\ []Apart => []SInv
BY InitSInv, NextSInv, PTL DEF Spec

\* Then, in an immutable company, every REVERSED entry has exactly one
\* reversal and the two cancel line by line.
THEOREM ReversalsCancel == Spec /\ []Apart => []ReversedCancels
<1>1. SInv => ReversedCancels
  <2> SUFFICES ASSUME SInv, mode = "immutable", NEW e \in Entries, je[e].status = "REVERSED"
               PROVE  \E m \in Entries :
                        /\ {x \in Entries : je[x].of = e} = {m}
                        /\ je[m].rows = Mirror(je[e].rows)
    BY DEF ReversedCancels
  <2>1. PICK m \in Entries : je[m].of = e
    BY DEF SInv, Pairs
  <2>2. e # None
    BY JournalAssumption
  <2>3. \A x \in Entries : je[x].of = e => x = m
    BY <2>1, <2>2 DEF SInv, Pairs
  <2>4. je[m].rows = Mirror(je[e].rows)
    BY <2>1, <2>2 DEF SInv, Pairs
  <2> QED
    BY <2>1, <2>3, <2>4
<1> QED
  BY <1>1, ApartInvariance, PTL

\* Then the version of an entry counts its logged changes, whatever crashes
\* between the two transactions of a request.
THEOREM VersionsCountLog == Spec /\ []Apart => []VersionCountsLog
<1>1. SInv => VersionCountsLog
  BY DEF SInv
<1> QED
  BY <1>1, ApartInvariance, PTL

\* Then nobody edits a posted line of an immutable company: the claim of
\* journal.py:6, which overlapping requests break.
THEOREM PostedStaysPut == Spec /\ []Apart => PostedNeverEdited
<1>1. SInv /\ Apart /\ [Next]_vars =>
        [\A e \in Entries : mode = "immutable" /\ je[e].status \in Booked =>
           je'[e].rows = je[e].rows]_vars
  <2> SUFFICES ASSUME SInv, Apart, [Next]_vars, NEW x \in Entries,
                      mode = "immutable", je[x].status \in Booked
               PROVE  je'[x].rows = je[x].rows
    OBVIOUS
  <2>1. Effect /\ je[x] \in EntryRows
    BY StepEffect DEF SInv, IInv, TypeOK
  <2>2. CASE Quiet
    BY <2>2 DEF Quiet, Elsewhere
  <2>3. ASSUME NEW e \in Entries, Drafting(e) \/ Changing(e) \/ Deleting(e) \/ Posting(e)
        PROVE  je'[x].rows = je[x].rows
    BY <2>3 DEF Drafting, Changing, Deleting, Posting, Elsewhere, Booked
  <2>4. ASSUME NEW e \in Entries, NEW m \in Entries, Reversing(e, m)
        PROVE  je'[x].rows = je[x].rows
    BY <2>1, <2>4 DEF Reversing, Elsewhere, Booked, EntryRows
  <2> QED
    BY <2>1, <2>2, <2>3, <2>4 DEF Effect
<1> QED
  BY <1>1, ApartInvariance, PTL DEF Spec, PostedNeverEdited

-----------------------------------------------------------------------------
(***************************************************************************)
(* The services implement the ledger                                       *)
(***************************************************************************)

\* The ledger and the services weigh lines alike.
LEMMA SameBalance ==
  ASSUME NEW rows
  PROVE  GeneralLedger!Balanced(rows) <=> Balanced(rows)
<1>1. GeneralLedger!Cardinality(rows) = Cardinality(rows)
  BY DEF GeneralLedger!Cardinality, Cardinality
<1>2. GeneralLedger!Net(rows) = Net(rows)
  BY DEF GeneralLedger!Net, GeneralLedger!MapThenSumSet, GeneralLedger!MapThenFoldSet,
         Net, MapThenSumSet, MapThenFoldSet
<1> QED
  BY <1>1, <1>2 DEF GeneralLedger!Balanced, Balanced

\* What the ledger's reader sees of an entry row
Booking(entry) ==
  IF entry.status \in Booked
  THEN [state |-> IF entry.status = "POSTED" THEN "posted" ELSE "reversed",
        date |-> entry.date, rows |-> entry.rows, origin |-> entry.origin, of |-> entry.of]
  ELSE GeneralLedger!Unbooked

\* The refinement mapping, entry by entry
LEMMA BookIsBooking ==
  /\ Book = [e \in Entries |-> Booking(je[e])]
  /\ Book' = [e \in Entries |-> Booking(je'[e])]
BY DEF Book, Booking, Booked, GeneralLedger!Unbooked

\* The empty books are an empty ledger.
LEMMA InitLedger == Init => GeneralLedger!Init
<1> SUFFICES ASSUME Init PROVE GeneralLedger!Init
  OBVIOUS
<1>1. mode \in {"immutable", "hybrid", "open"}
  BY JournalAssumption DEF Init
<1>2. \A e \in Entries : Booking(je[e]) = GeneralLedger!Unbooked
  BY DEF Init, Booking, Booked, Absent
<1> QED
  BY <1>1, <1>2, BookIsBooking DEF GeneralLedger!Init

\* Every step of the services is a step of the ledger or moves nothing in it.
LEMMA NextLedger ==
  SInv /\ Apart /\ [Next]_vars => [GeneralLedger!Next]_(GeneralLedger!lvars)
<1> SUFFICES ASSUME SInv, Apart, [Next]_vars
             PROVE  GeneralLedger!Next \/ (mode' = mode /\ Book' = Book)
  BY DEF GeneralLedger!lvars
<1> DEFINE Ok == GeneralLedger!Next \/ (mode' = mode /\ Book' = Book)
<1>1. /\ mode' = mode /\ Effect
      /\ je \in [Entries -> EntryRows] /\ je' \in [Entries -> EntryRows]
  BY StepEffect, NextLawful DEF Lawful, SInv, IInv, TypeOK
<1>2. /\ Book = [e \in Entries |-> Booking(je[e])]
      /\ Book' = [e \in Entries |-> Booking(je'[e])]
  BY BookIsBooking
<1>3. \A e \in Entries : je[e].status \notin Booked => Book[e] = GeneralLedger!Unbooked
  BY <1>2 DEF Booking
<1>4. ASSUME NEW E, \A x \in Entries \ E : je'[x] = je[x]
      PROVE  \A x \in Entries \ E : Book'[x] = Book[x]
  BY <1>2, <1>4
<1>5. ASSUME \A x \in Entries : Booking(je'[x]) = Booking(je[x])
      PROVE  Ok
  <2>1. Book' = Book
    BY <1>2, <1>5
  <2> QED
    BY <1>1, <2>1
<1>6. CASE Quiet
  BY <1>5, <1>6 DEF Quiet, Elsewhere
<1>7. ASSUME NEW e \in Entries, Drafting(e) \/ Deleting(e)
      PROVE  Ok
  <2>1. je[e].status \notin Booked /\ je'[e].status \notin Booked
    BY <1>7 DEF Drafting, Deleting, Booked
  <2>2. \A x \in Entries : x # e => je'[x] = je[x]
    BY <1>7 DEF Drafting, Deleting, Elsewhere
  <2>3. \A x \in Entries : Booking(je'[x]) = Booking(je[x])
    BY <2>1, <2>2 DEF Booking
  <2> QED
    BY <1>5, <2>3
<1>8. ASSUME NEW e \in Entries, Changing(e)
      PROVE  Ok
  <2>1. \A x \in Entries : x # e => je'[x] = je[x]
    BY <1>8 DEF Changing, Elsewhere
  <2>2. CASE je[e].status \notin Booked \/ je'[e].rows = je[e].rows
    <3>1. Booking(je'[e]) = Booking(je[e])
      BY <1>8, <2>2 DEF Changing, Booking
    <3> QED
      BY <1>5, <2>1, <3>1
  <2>3. CASE je[e].status \in Booked /\ je'[e].rows # je[e].rows
    <3>1. mode # "immutable"
      BY <1>8, <2>3 DEF Changing
    <3>2. /\ Book[e] = [state |-> IF je[e].status = "POSTED" THEN "posted" ELSE "reversed",
                        date |-> je[e].date, rows |-> je[e].rows, origin |-> je[e].origin,
                        of |-> je[e].of]
          /\ Book'[e] = [state |-> IF je[e].status = "POSTED" THEN "posted" ELSE "reversed",
                         date |-> je[e].date, rows |-> je'[e].rows, origin |-> je[e].origin,
                         of |-> je[e].of]
      BY <1>2, <1>8, <2>3 DEF Changing, Booking
    <3>3. Book[e] # GeneralLedger!Unbooked
      BY <3>2 DEF GeneralLedger!Unbooked
    <3>4. Book'[e] = [Book[e] EXCEPT !.rows = Book'[e].rows]
      BY <3>2
    <3>5. Book' = [Book EXCEPT ![e].rows = Book'[e].rows]
      BY <1>2, <2>1, <3>4
    <3>6. Book[e].state = "posted" => Balanced(Book'[e].rows)
      BY <1>8, <3>2 DEF Changing
    <3>7. GeneralLedger!Amend(e)
      BY <1>1, <3>1, <3>3, <3>5, <3>6, SameBalance DEF GeneralLedger!Amend
    <3> QED
      BY <3>7 DEF GeneralLedger!Next
  <2> QED
    BY <2>2, <2>3
<1>9. ASSUME NEW e \in Entries, Posting(e)
      PROVE  Ok
  <2>1. Book[e] = GeneralLedger!Unbooked
    BY <1>3, <1>9 DEF Posting, Booked
  <2>2. Book'[e] = [state |-> "posted", date |-> je'[e].date, rows |-> je'[e].rows,
                    origin |-> je'[e].origin, of |-> None]
    BY <1>2, <1>9 DEF Posting, Booking, Booked
  <2>3. Book' = [Book EXCEPT ![e] = Book'[e]]
    <3>1. \A x \in Entries : x # e => je'[x] = je[x]
      BY <1>9 DEF Posting, Elsewhere
    <3> QED
      BY <1>2, <3>1
  <2>4. GeneralLedger!Post(e)
    BY <1>1, <1>9, <2>1, <2>2, <2>3, SameBalance DEF Posting, GeneralLedger!Post
  <2> QED
    BY <2>4 DEF GeneralLedger!Next
<1>10. ASSUME NEW e \in Entries, NEW m \in Entries, Reversing(e, m)
       PROVE  Ok
  <2>1. je[e].status = "POSTED" /\ je[m].status = "ABSENT" /\ e # m
    BY <1>10 DEF Reversing
  <2>2. Book[e] = [state |-> "posted", date |-> je[e].date, rows |-> je[e].rows,
                   origin |-> je[e].origin, of |-> je[e].of]
    BY <1>2, <2>1 DEF Booking, Booked
  <2>3. Book[m] = GeneralLedger!Unbooked
    BY <1>3, <2>1 DEF Booked
  <2>4. Book'[e] = [Book[e] EXCEPT !.state = "reversed"]
    <3>1. /\ je'[e].status = "REVERSED" /\ je'[e].date = je[e].date /\ je'[e].rows = je[e].rows
          /\ je'[e].origin = je[e].origin /\ je'[e].of = je[e].of
      BY <1>1, <1>10 DEF Reversing, EntryRows
    <3>2. Book'[e] = [state |-> "reversed", date |-> je[e].date, rows |-> je[e].rows,
                      origin |-> je[e].origin, of |-> je[e].of]
      BY <1>2, <3>1 DEF Booking, Booked
    <3> QED
      BY <2>2, <3>2
  <2>5. Book'[m] = [state |-> "posted", date |-> Book'[m].date, rows |-> Mirror(Book[e].rows),
                    origin |-> "REVERSAL", of |-> e]
    <3>1. Book'[m] = [state |-> "posted", date |-> je'[m].date, rows |-> je'[m].rows,
                      origin |-> je'[m].origin, of |-> je'[m].of]
      BY <1>2, <1>10 DEF Reversing, Booking, Booked
    <3> QED
      BY <1>10, <2>2, <3>1 DEF Reversing
  <2>6. Book' = [Book EXCEPT ![e].state = "reversed", ![m] = Book'[m]]
    <3>1. \A x \in Entries : x # e /\ x # m => je'[x] = je[x]
      BY <1>10 DEF Reversing, Elsewhere
    <3> QED
      BY <1>2, <2>1, <2>4, <3>1
  <2>7. GeneralLedger!Reverse(e, m)
    BY <1>1, <2>2, <2>3, <2>5, <2>6 DEF GeneralLedger!Reverse, GeneralLedger!Mirror, Mirror
  <2> QED
    BY <2>7 DEF GeneralLedger!Next
<1> QED
  BY <1>1, <1>6, <1>7, <1>8, <1>9, <1>10 DEF Effect

\* While no two requests work on one entry, the services implement the
\* general ledger: entries enter it balanced, leave its balance only with
\* their mirror image, and are amended only where the audit mode allows.
THEOREM LedgerKept == Spec /\ []Apart => KeepsLedger
<1>1. Init => GeneralLedger!Init
  BY InitLedger
<1>2. SInv /\ Apart /\ [Next]_vars => [GeneralLedger!Next]_(GeneralLedger!lvars)
  BY NextLedger
<1> QED
  BY <1>1, <1>2, ApartInvariance, PTL DEF Spec, KeepsLedger, GeneralLedger!Spec

-----------------------------------------------------------------------------
(***************************************************************************)
(* The period gate                                                         *)
(*                                                                         *)
(* The gate is asked when a request reads.  It holds at the commit if no   *)
(* period closes while a request is in flight: LocksWait.                  *)
(***************************************************************************)

\* No period closes while a request is in flight.
LocksWait == [][(\E r \in Requests : ~Free(r)) => locks' \subseteq locks]_vars

\* What is about to be written into a closed period has a privileged override.
Gated(r) ==
  LET q == req[r] IN
  q.pc = "read" =>
    /\ q.op = "post" /\ Closed(q.snap.date) => q.ovr = "privileged"
    /\ q.op = "reverse" /\ Closed(q.date) => q.ovr = "privileged"
    /\ q.op = "update" /\ mode = "hybrid" /\ q.snap.status \in Booked /\ Closed(q.snap.date) =>
         q.ovr = "privileged"

\* A request that begins has passed the gate.
LEMMA BeginGated ==
  ASSUME SInv, NEW r \in Requests, NEW input \in RequestStates, Begin(r, input),
         input.op = "post" => PeriodOpen(je[input.e].date, input.ovr),
         input.op = "reverse" => PeriodOpen(input.date, input.ovr),
         input.op = "update" => EditAllowed(je[input.e], input.ovr)
  PROVE  Gated(r)'
<1> DEFINE q == [input EXCEPT !.pc = "read", !.snap = je[input.e]]
<1>1. req' = [req EXCEPT ![r] = q] /\ mode' = mode /\ locks' = locks
  BY DEF Begin
<1>2. /\ q.pc = "read" /\ q.e = input.e /\ q.op = input.op /\ q.snap = je[input.e]
      /\ q.date = input.date /\ q.ovr = input.ovr
  BY DEF RequestStates
<1> HIDE DEF q
<1>3. req'[r] = q
  BY <1>1 DEF SInv, IInv, TypeOK
<1>4. \A date : Closed(date)' <=> Closed(date)
  BY <1>1 DEF Closed
<1>5. q.op = "post" /\ Closed(q.snap.date) => q.ovr = "privileged"
  BY <1>2 DEF PeriodOpen
<1>6. q.op = "reverse" /\ Closed(q.date) => q.ovr = "privileged"
  BY <1>2 DEF PeriodOpen
<1>7. q.op = "update" /\ mode = "hybrid" /\ q.snap.status \in Booked /\ Closed(q.snap.date) =>
        q.ovr = "privileged"
  BY <1>2 DEF PeriodOpen, EditAllowed, Booked
<1> QED
  BY <1>1, <1>3, <1>5, <1>6, <1>7 DEF Gated, Closed, Booked

\* So has every request that has read its entry.
LEMMA BeginsGated ==
  ASSUME SInv, NEW r \in Requests,
         \/ \E e \in Entries, date \in Dates \cup {None}, body \in Templates \cup {None},
               ovr \in Overrides : BeginUpdate(r, e, date, body, ovr)
         \/ \E e \in Entries : BeginVoid(r, e) \/ BeginDelete(r, e)
         \/ \E e \in Entries, ovr \in Overrides, via \in {"api", "service"} :
              BeginPost(r, e, ovr, via)
         \/ \E e \in Entries, date \in Dates, ovr \in Overrides, via \in {"api", "service"} :
              BeginReverse(r, e, date, ovr, via)
  PROVE  Gated(r)'
<1>1. ASSUME NEW e \in Entries, NEW date \in Dates \cup {None}, NEW body \in Templates \cup {None},
             NEW ovr \in Overrides, BeginUpdate(r, e, date, body, ovr)
      PROVE  Gated(r)'
  <2> DEFINE input == [Idle EXCEPT !.op = "update", !.e = e, !.date = date,
                                   !.body = body, !.ovr = ovr]
  <2>1. input \in RequestStates /\ input.op = "update" /\ input.e = e /\ input.ovr = ovr
    BY JournalAssumption, IdleType DEF RequestStates
  <2>2. Begin(r, input) /\ EditAllowed(je[e], ovr)
    BY <1>1 DEF BeginUpdate
  <2> HIDE DEF input
  <2> QED
    BY <2>1, <2>2, BeginGated
<1>2. ASSUME NEW e \in Entries, NEW op \in {"void", "delete"},
             Begin(r, [Idle EXCEPT !.op = op, !.e = e])
      PROVE  Gated(r)'
  <2> DEFINE input == [Idle EXCEPT !.op = op, !.e = e]
  <2>1. input \in RequestStates /\ input.op = op /\ input.e = e
    BY JournalAssumption, IdleType DEF RequestStates
  <2>2. Begin(r, input)
    BY <1>2
  <2> HIDE DEF input
  <2> QED
    BY <2>1, <2>2, BeginGated
<1>3. ASSUME NEW e \in Entries, NEW ovr \in Overrides, NEW via \in {"api", "service"},
             BeginPost(r, e, ovr, via)
      PROVE  Gated(r)'
  <2> DEFINE input == [Idle EXCEPT !.op = "post", !.e = e, !.ovr = ovr, !.via = via]
  <2>1. input \in RequestStates /\ input.op = "post" /\ input.e = e /\ input.ovr = ovr
    BY JournalAssumption, IdleType DEF RequestStates
  <2>2. Begin(r, input) /\ PeriodOpen(je[e].date, ovr)
    BY <1>3 DEF BeginPost
  <2> HIDE DEF input
  <2> QED
    BY <2>1, <2>2, BeginGated
<1>4. ASSUME NEW e \in Entries, NEW date \in Dates, NEW ovr \in Overrides,
             NEW via \in {"api", "service"}, BeginReverse(r, e, date, ovr, via)
      PROVE  Gated(r)'
  <2> DEFINE input ==
        [Idle EXCEPT !.op = "reverse", !.e = e, !.date = date, !.ovr = ovr, !.via = via]
  <2>1. /\ input \in RequestStates /\ input.op = "reverse" /\ input.e = e
        /\ input.date = date /\ input.ovr = ovr
    BY JournalAssumption, IdleType DEF RequestStates
  <2>2. Begin(r, input) /\ PeriodOpen(date, ovr)
    BY <1>4 DEF BeginReverse
  <2> HIDE DEF input
  <2> QED
    BY <2>1, <2>2, BeginGated
<1>5. ASSUME NEW e \in Entries, BeginVoid(r, e) \/ BeginDelete(r, e)
      PROVE  Gated(r)'
  BY <1>2, <1>5 DEF BeginVoid, BeginDelete
<1>6. CASE \E e \in Entries, date \in Dates \cup {None}, body \in Templates \cup {None},
              ovr \in Overrides : BeginUpdate(r, e, date, body, ovr)
  BY <1>1, <1>6
<1>7. CASE \E e \in Entries : BeginVoid(r, e) \/ BeginDelete(r, e)
  BY <1>5, <1>7
<1>8. CASE \E e \in Entries, ovr \in Overrides, via \in {"api", "service"} :
             BeginPost(r, e, ovr, via)
  BY <1>3, <1>8
<1>9. CASE \E e \in Entries, date \in Dates, ovr \in Overrides, via \in {"api", "service"} :
             BeginReverse(r, e, date, ovr, via)
  BY <1>4, <1>9
<1> QED
  BY <1>6, <1>7, <1>8, <1>9

\* Nobody loses the gate's leave while no period closes.
LEMMA StillGated ==
  ASSUME NEW s \in Requests, Gated(s), req'[s] = req[s], mode' = mode,
         ~Free(s) => locks' \subseteq locks
  PROVE  Gated(s)'
<1>1. CASE req[s].pc # "read"
  BY <1>1 DEF Gated
<1>2. CASE req[s].pc = "read"
  <2>1. locks' \subseteq locks
    BY <1>2 DEF Free
  <2> QED
    BY <2>1 DEF Gated, Closed, Booked
<1> QED
  BY <1>1, <1>2

\* The leave stays good until the request writes.
LEMMA NextGated ==
  ASSUME SInv, \A s \in Requests : Gated(s), [Next]_vars,
         (\E r \in Requests : ~Free(r)) => locks' \subseteq locks \/ UNCHANGED vars
  PROVE  \A s \in Requests : Gated(s)'
<1>1. mode' = mode
  BY NextLawful DEF Lawful, SInv
<1>2. CASE UNCHANGED vars
  BY <1>1, <1>2, StillGated DEF vars
<1>3. CASE Next /\ ((\E r \in Requests : ~Free(r)) => locks' \subseteq locks)
  <2>1. PICK r \in Requests :
        \/ \/ \E e \in Entries, date \in Dates \cup {None}, body \in Templates \cup {None},
                 ovr \in Overrides : BeginUpdate(r, e, date, body, ovr)
           \/ \E e \in Entries : BeginVoid(r, e) \/ BeginDelete(r, e)
           \/ \E e \in Entries, ovr \in Overrides, via \in {"api", "service"} :
                BeginPost(r, e, ovr, via)
           \/ \E e \in Entries, date \in Dates, ovr \in Overrides, via \in {"api", "service"} :
                BeginReverse(r, e, date, ovr, via)
        \/ req' = req
        \/ Finish(r)
        \/ req' = [req EXCEPT ![r].pc = "posted"]
        \/ \E m \in Entries : req' = [req EXCEPT ![r].pc = "reversed", ![r].m = m]
    BY <1>3 DEF Next, Create, CreateDraft, CommitUpdate, CommitVoid, CommitDelete, CommitPost,
         LogPost, CommitReverse, LogReverse, Abort, Lock, Unlock
  <2>2. req \in [Requests -> RequestStates]
    BY DEF SInv, IInv, TypeOK
  <2>3. ASSUME NEW s \in Requests, req'[s] = req[s] PROVE Gated(s)'
    BY <1>1, <1>3, <2>3, StillGated
  <2>4. CASE req' = req
    BY <2>3, <2>4
  <2>5. ASSUME req'[r].pc # "read" \/ Gated(r)', \A s \in Requests \ {r} : req'[s] = req[s]
        PROVE  \A s \in Requests : Gated(s)'
    <3>1. Gated(r)'
      BY <2>5 DEF Gated
    <3> QED
      BY <2>3, <2>5, <3>1
  <2>6. CASE \/ \E e \in Entries, date \in Dates \cup {None}, body \in Templates \cup {None},
                   ovr \in Overrides : BeginUpdate(r, e, date, body, ovr)
             \/ \E e \in Entries : BeginVoid(r, e) \/ BeginDelete(r, e)
             \/ \E e \in Entries, ovr \in Overrides, via \in {"api", "service"} :
                  BeginPost(r, e, ovr, via)
             \/ \E e \in Entries, date \in Dates, ovr \in Overrides, via \in {"api", "service"} :
                  BeginReverse(r, e, date, ovr, via)
    <3>1. Minds(r) /\ Gated(r)'
      BY <2>6, BeginsEffect, BeginsGated
    <3> QED
      BY <2>5, <3>1 DEF Minds
  <2>7. CASE Finish(r)
    BY <2>2, <2>5, <2>7 DEF Finish, Idle
  <2>8. CASE req' = [req EXCEPT ![r].pc = "posted"]
    BY <2>2, <2>5, <2>8 DEF RequestStates
  <2>9. CASE \E m \in Entries : req' = [req EXCEPT ![r].pc = "reversed", ![r].m = m]
    BY <2>2, <2>5, <2>9 DEF RequestStates
  <2> QED
    BY <2>1, <2>4, <2>6, <2>7, <2>8, <2>9
<1> QED
  BY <1>2, <1>3

\* A step that books an entry, or rewrites a booked one of a hybrid company.
Enters(e)  == je[e].status \notin Booked /\ je'[e].status \in Booked
Amending(e) == je[e].status \in Booked /\ je'[e].rows # je[e].rows /\ mode = "hybrid"

\* A write into a closed period is the write of a request that had leave.
LEMMA GateHolds ==
  ASSUME SInv, \A s \in Requests : Gated(s), Next, NEW x \in Entries,
         Enters(x) \/ Amending(x), Closed(je'[x].date)
  PROVE  \E r \in Requests :
           req[r].pc = "read" /\ req'[r] # req[r] /\ req[r].ovr = "privileged"
<1> DEFINE Goal == \E r \in Requests :
             req[r].pc = "read" /\ req'[r] # req[r] /\ req[r].ovr = "privileged"
<1>0. je[x] \in EntryRows /\ je'[x] # je[x] /\ req \in [Requests -> RequestStates] /\ Lawful
  BY NextLawful DEF Enters, Amending, SInv, IInv, TypeOK
<1>1. PICK r \in Requests :
        \/ \E e \in Entries, date \in Dates, t \in Templates :
             Create(r, e, date, t) \/ CreateDraft(r, e, date, t)
        \/ \/ \E e \in Entries, date \in Dates \cup {None}, body \in Templates \cup {None},
                ovr \in Overrides : BeginUpdate(r, e, date, body, ovr)
           \/ \E e \in Entries : BeginVoid(r, e) \/ BeginDelete(r, e)
           \/ \E e \in Entries, ovr \in Overrides, via \in {"api", "service"} :
                BeginPost(r, e, ovr, via)
           \/ \E e \in Entries, date \in Dates, ovr \in Overrides, via \in {"api", "service"} :
                BeginReverse(r, e, date, ovr, via)
        \/ CommitUpdate(r)
        \/ CommitVoid(r) \/ LogPost(r) \/ LogReverse(r)
        \/ CommitDelete(r)
        \/ CommitPost(r)
        \/ \E m \in Entries : CommitReverse(r, m)
        \/ Abort(r) \/ \E through \in Dates : Lock(r, through) \/ Unlock(r, through)
  BY DEF Next
<1>2. ASSUME req[r].pc # "idle"
      PROVE  \E e \in Entries : e = req[r].e
  BY <1>2 DEF SInv, IInv, RequestOK
<1>3. ASSUME req[r].pc = "read",
             \/ Finish(r)
             \/ req' = [req EXCEPT ![r].pc = "posted"]
             \/ \E m \in Entries : req' = [req EXCEPT ![r].pc = "reversed", ![r].m = m]
      PROVE  req'[r] # req[r]
  <2>1. req'[r].pc # "read"
    BY <1>0, <1>3 DEF Finish, Idle, RequestStates
  <2> QED
    BY <1>3, <2>1
<1>4. CASE \E e \in Entries, date \in Dates, t \in Templates :
             Create(r, e, date, t) \/ CreateDraft(r, e, date, t)
  <2>1. PICK e \in Entries : Drafting(e)
    BY <1>4, CreateEffect
  <2> QED
    BY <1>0, <2>1 DEF Drafting, Elsewhere, Enters, Amending, Booked
<1>5. CASE CommitUpdate(r)
  <2>1. req[r].pc = "read" /\ req[r].op = "update" /\ Finish(r)
    BY <1>5 DEF CommitUpdate
  <2>2. PICK e \in Entries : e = req[r].e
    BY <1>2, <2>1
  <2>3. Changing(e) /\ req[r].snap = je[e]
    BY <1>5, <2>1, <2>2, CommitUpdateEffect, ReadFacts
  <2>4. x = e
    BY <1>0, <2>3 DEF Changing, Elsewhere
  <2>5. mode = "hybrid" /\ je[e].status \in Booked /\ je'[e].date = je[e].date
    BY <2>3, <2>4 DEF Changing, Enters, Amending
  <2>6. req[r].ovr = "privileged"
    BY <2>1, <2>3, <2>4, <2>5 DEF Gated
  <2> QED
    BY <1>3, <2>1, <2>6
<1>6. CASE CommitVoid(r) \/ LogPost(r) \/ LogReverse(r)
  <2>1. req[r].pc # "idle"
    BY <1>6 DEF CommitVoid, LogPost, LogReverse
  <2>2. PICK e \in Entries : e = req[r].e
    BY <1>2, <2>1
  <2>3. Changing(e) /\ je'[e].rows = je[e].rows
    BY <1>6, <2>2, BumpEffect
  <2> QED
    BY <1>0, <2>3 DEF Changing, Elsewhere, Enters, Amending
<1>7. CASE CommitDelete(r)
  <2>1. req[r].pc # "idle"
    BY <1>7 DEF CommitDelete
  <2>2. PICK e \in Entries : e = req[r].e
    BY <1>2, <2>1
  <2>3. Deleting(e)
    BY <1>7, <2>2, CommitDeleteEffect
  <2> QED
    BY <1>0, <2>3 DEF Deleting, Elsewhere, Enters, Amending, Booked
<1>8. CASE CommitPost(r)
  <2>1. /\ req[r].pc = "read" /\ req[r].op = "post"
        /\ Finish(r) \/ req' = [req EXCEPT ![r].pc = "posted"]
    BY <1>8 DEF CommitPost
  <2>2. PICK e \in Entries : e = req[r].e
    BY <1>2, <2>1
  <2>3. Posting(e) /\ je'[e].date = je[e].date /\ req[r].snap = je[e]
    BY <1>8, <2>1, <2>2, CommitPostEffect, ReadFacts
  <2>4. x = e
    BY <1>0, <2>3 DEF Posting, Elsewhere
  <2>5. req[r].ovr = "privileged"
    BY <2>1, <2>3, <2>4 DEF Gated
  <2> QED
    BY <1>3, <2>1, <2>5
<1>9. CASE \E m \in Entries : CommitReverse(r, m)
  <2>0. PICK m \in Entries : CommitReverse(r, m)
    BY <1>9
  <2>1. /\ req[r].pc = "read" /\ req[r].op = "reverse"
        /\ Finish(r) \/ req' = [req EXCEPT ![r].pc = "reversed", ![r].m = m]
    BY <2>0 DEF CommitReverse
  <2>2. PICK e \in Entries : e = req[r].e
    BY <1>2, <2>1
  <2>3. Reversing(e, m) /\ je'[m].date = req[r].date
    BY <2>0, <2>2, CommitReverseEffect
  <2>4. x # e
    <3>1. je[e] \in EntryRows
      BY DEF SInv, IInv, TypeOK
    <3> QED
      BY <2>3, <3>1 DEF Reversing, Enters, Amending, Booked, EntryRows
  <2>5. x = m
    BY <1>0, <2>3, <2>4 DEF Reversing, Elsewhere
  <2>6. req[r].ovr = "privileged"
    BY <2>1, <2>3, <2>5 DEF Gated
  <2> QED
    BY <1>3, <2>1, <2>6
<1>10. ~Quiet
  BY <1>0 DEF Quiet, Elsewhere
<1>11. CASE \/ \E e \in Entries, date \in Dates \cup {None}, body \in Templates \cup {None},
                 ovr \in Overrides : BeginUpdate(r, e, date, body, ovr)
            \/ \E e \in Entries : BeginVoid(r, e) \/ BeginDelete(r, e)
            \/ \E e \in Entries, ovr \in Overrides, via \in {"api", "service"} :
                 BeginPost(r, e, ovr, via)
            \/ \E e \in Entries, date \in Dates, ovr \in Overrides, via \in {"api", "service"} :
                 BeginReverse(r, e, date, ovr, via)
  BY <1>10, <1>11, BeginsEffect
<1>12. CASE Abort(r) \/ \E through \in Dates : Lock(r, through) \/ Unlock(r, through)
  BY <1>10, <1>12, AsideEffect
<1> QED
  BY <1>1, <1>4, <1>5, <1>6, <1>7, <1>8, <1>9, <1>11, <1>12

GInv == SInv /\ \A r \in Requests : Gated(r)

\* While no two requests work on one entry and no period closes under a
\* request in flight, nothing enters a closed period, and no booked line of
\* one changes in a hybrid company, without a privileged override.
THEOREM PeriodGateHolds == Spec /\ []Apart /\ LocksWait => ClosedPeriodGate
<1>1. Init => GInv
  BY InitSInv DEF Init, GInv, Gated, Idle
<1>2. /\ GInv /\ Apart /\ [Next]_vars
      /\ [(\E r \in Requests : ~Free(r)) => locks' \subseteq locks]_vars
      => GInv'
  BY NextSInv, NextGated DEF GInv
<1>3. GInv /\ [Next]_vars =>
        [\A e \in Entries :
           LET booking == je[e].status \notin Booked /\ je'[e].status \in Booked
               amending == je[e].status \in Booked /\ je'[e].rows # je[e].rows /\ mode = "hybrid"
               closed == \E through \in locks : je'[e].date <= through
           IN  (booking \/ amending) /\ closed =>
                 \E r \in Requests :
                   req[r].pc = "read" /\ req'[r] # req[r] /\ req[r].ovr = "privileged"]_vars
  BY GateHolds DEF GInv, Enters, Amending, Closed
<1> QED
  BY <1>1, <1>2, <1>3, PTL DEF Spec, LocksWait, ClosedPeriodGate

\* One request at a time keeps both hypotheses, so without overlap the
\* Python guards carry everything they promise.
THEOREM OneAtATime ==
  ASSUME \A r, s \in Requests : r = s
  PROVE  Spec => /\ []ReversedCancels
                 /\ []VersionCountsLog
                 /\ KeepsLedger
                 /\ PostedNeverEdited
                 /\ ClosedPeriodGate
<1>1. Apart
  BY DEF Apart
<1>2. [Next]_vars => [(\E r \in Requests : ~Free(r)) => locks' \subseteq locks]_vars
  <2> SUFFICES ASSUME Next, NEW s \in Requests, ~Free(s)
               PROVE  locks' \subseteq locks
    BY DEF vars
  <2>1. ASSUME NEW r \in Requests, NEW through \in Dates
        PROVE  ~Lock(r, through) /\ ~Unlock(r, through)
    <3>1. ~Free(r)
      OBVIOUS
    <3> QED
      BY <3>1 DEF Lock, Unlock
  <2>2. ASSUME NEW r \in Requests, NEW input, Begin(r, input)
        PROVE  locks' = locks
    BY <2>2 DEF Begin
  <2>3. ASSUME NEW r \in Requests,
               \/ \E e \in Entries, date \in Dates \cup {None}, body \in Templates \cup {None},
                    ovr \in Overrides : BeginUpdate(r, e, date, body, ovr)
               \/ \E e \in Entries : BeginVoid(r, e) \/ BeginDelete(r, e)
               \/ \E e \in Entries, ovr \in Overrides, via \in {"api", "service"} :
                    BeginPost(r, e, ovr, via)
               \/ \E e \in Entries, date \in Dates, ovr \in Overrides, via \in {"api", "service"} :
                    BeginReverse(r, e, date, ovr, via)
        PROVE  locks' = locks
    BY <2>2, <2>3 DEF BeginUpdate, BeginVoid, BeginDelete, BeginPost, BeginReverse
  <2>4. ASSUME NEW r \in Requests,
               \/ CommitUpdate(r) \/ CommitVoid(r) \/ CommitDelete(r) \/ CommitPost(r)
               \/ LogPost(r) \/ LogReverse(r) \/ Abort(r)
               \/ \E m \in Entries : CommitReverse(r, m)
               \/ \E e \in Entries, date \in Dates, t \in Templates :
                    Create(r, e, date, t) \/ CreateDraft(r, e, date, t)
        PROVE  locks' = locks
    BY <2>4 DEF CommitUpdate, CommitVoid, CommitDelete, CommitPost, LogPost, LogReverse, Abort,
         CommitReverse, Create, CreateDraft
  <2> QED
    BY <2>1, <2>3, <2>4 DEF Next
<1>3. Spec => []Apart
  BY <1>1, PTL
<1>4. Spec => LocksWait
  BY <1>2, PTL DEF Spec, LocksWait
<1> QED
  BY <1>3, <1>4, ReversalsCancel, VersionsCountLog, LedgerKept, PostedStaysPut, PeriodGateHolds, PTL

=============================================================================
