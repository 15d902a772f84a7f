------------------------ MODULE DocumentInboxProofs ------------------------
(***************************************************************************)
(* Proofs about DocumentInbox, for any number of requests, jobs and        *)
(* documents.                                                              *)
(*                                                                         *)
(* The properties are about rows; what keeps them is what the sessions     *)
(* hold.  A session that will insert has its row for itself; one that will *)
(* update has read a row that was neither absent nor closed, and what it   *)
(* means to save is neither of these, is READY only when complete and      *)
(* EXTRACTING only with a claim; one that rejects has locked a reviewable  *)
(* row.                                                                    *)
(***************************************************************************)
EXTENDS DocumentInbox, TLAPS

\* What a session may mean to save over what it read
Legitimate(old, new) ==
  /\ old.status \in Extractable \cup {"EXTRACTING"}
  /\ new.status \in Extractable \cup {"EXTRACTING"}
  /\ new.status = "READY" => Complete(new)
  /\ new.status = old.status => new.claim = old.claim
  /\ new.status = "EXTRACTING" /\ new.status # old.status =>
       new.claim = "fresh" /\ old.claim # "fresh"

\* No other session works on the row of w.
Alone(w) == \A o \in Workers \ {w} : req[o].pc = "idle" \/ req[o].on # req[w].on

Inserting(w) ==
  req[w].pc \in {"upload", "attach"} =>
    /\ row[req[w].on].status = "ABSENT"
    /\ Alone(w)
    /\ \/ req[w].new = Captured /\ blob[req[w].on] = req[w].on /\ req[w].on \notin gone
       \/ req[w].new = Recorded /\ req[w].pc = "attach"

Updating(w) ==
  /\ req[w].pc \in {"claim", "patch"} => Legitimate(req[w].old, req[w].new)
  /\ req[w].pc = "claim" => req[w].new.status = "EXTRACTING"
  /\ req[w].pc = "extract" => req[w].old.status = "EXTRACTING"
  /\ req[w].pc \in {"claim", "patch", "extract"} => row[req[w].on].status # "ABSENT"

Rejecting(w) ==
  req[w].pc = "reject" =>
    /\ row[req[w].on].status \in Reviewable
    /\ \A o \in Workers \ {w} : req[o].pc = "reject" => req[o].on # req[w].on

\* A shared blob is that of a document whose row is in the table.
Blobs == \A d \in Docs : blob[d] = d \/ row[blob[d]].status # "ABSENT"

SessionsOK == \A w \in Workers : Inserting(w) /\ Updating(w) /\ Rejecting(w)

Inv ==
  /\ TypeOK /\ SessionsOK /\ Blobs
  /\ PublishedOnce /\ ReadyIsComplete /\ ExtractingIsClaimed /\ BlobKept

-----------------------------------------------------------------------------
(***************************************************************************)
(* Types                                                                   *)
(***************************************************************************)

LEMMA RowTypes ==
  /\ NoRow \in Rows /\ NoRow.status = "ABSENT"
  /\ Captured \in Rows /\ Captured.status = "RECEIVED" /\ Captured.claim = "none"
  /\ Recorded \in Rows /\ Recorded.status = "DUPLICATE" /\ Captured # Recorded
  BY DEF NoRow, Captured, Recorded, Rows, Statuses

LEMMA IdleType == Idle \in Sessions /\ Idle.pc = "idle" /\ Idle.on \in Docs
  BY RowTypes, DocumentInboxAssumption DEF Idle, Sessions

LEMMA ReadType ==
  ASSUME TypeOK, NEW d \in Docs
  PROVE  /\ Read(d) \in Rows
         /\ Read(d).status = row[d].status /\ Read(d).claim = "old"
         /\ Read(d).extract = row[d].extract /\ Read(d).override = row[d].override
  BY DEF TypeOK, Read, Rows

LEMMA ClaimedType ==
  ASSUME NEW r \in Rows
  PROVE  /\ Claimed(r) \in Rows
         /\ Claimed(r).status = "EXTRACTING" /\ Claimed(r).claim = "fresh"
  BY DEF Claimed, Rows, Statuses

\* What the columns of a saved row are
LEMMA FlushedType ==
  ASSUME TypeOK, NEW d \in Docs, NEW old \in Rows, NEW new \in Rows
  PROVE  /\ Flushed(d, old, new) \in Rows
         /\ Flushed(d, old, new).status =
              IF new.status = old.status THEN row[d].status ELSE new.status
         /\ Flushed(d, old, new).claim = IF new.claim = old.claim THEN row[d].claim ELSE new.claim
         /\ Flushed(d, old, new).extract =
              IF new.extract = old.extract THEN row[d].extract ELSE new.extract
         /\ Flushed(d, old, new).override =
              IF new.override = old.override THEN row[d].override ELSE new.override
  BY DEF TypeOK, Flushed, Rows

\* What an extraction leaves to be saved
LEMMA OutcomeType ==
  ASSUME NEW r \in Rows, NEW new \in Outcomes(r)
  PROVE  new \in Rows /\ new.status \in Extractable /\ (new.status = "READY" => Complete(new))
<1> DEFINE tried == [r EXCEPT !.attempts = @ + 1, !.claim = "none"]
           full  == [tried EXCEPT !.extract = TRUE]
           poor  == [tried EXCEPT !.extract = FALSE]
<1>0. r.attempts \in Nat /\ r.attempts + 1 \in Nat
  BY DEF Rows
<1>1. tried \in Rows
  BY <1>0 DEF Rows
<1>2. full \in Rows /\ poor \in Rows
  BY <1>1 DEF Rows
<1>3. \A x \in Rows : /\ [x EXCEPT !.status = Completeness(x)] \in Rows
                      /\ [x EXCEPT !.status = Completeness(x)].status = Completeness(x)
                      /\ Complete([x EXCEPT !.status = Completeness(x)]) = Complete(x)
  BY DEF Rows, Statuses, Completeness, Complete
<1>4. \A x \in Rows : Completeness(x) \in Extractable /\ (Completeness(x) = "READY" => Complete(x))
  BY DEF Completeness, Extractable
<1>5. Failed(tried) \in Rows /\ Failed(tried).status \in Extractable \ {"READY"}
  BY <1>1 DEF Failed, Rows, Statuses, Extractable
<1>6. /\ [poor EXCEPT !.status = "NEEDS_REVIEW"] \in Rows
      /\ [poor EXCEPT !.status = "NEEDS_REVIEW"].status = "NEEDS_REVIEW"
  BY <1>2 DEF Rows, Statuses
<1>7. /\ [r EXCEPT !.claim = "none", !.status = "NEEDS_REVIEW"] \in Rows
      /\ [r EXCEPT !.claim = "none", !.status = "NEEDS_REVIEW"].status = "NEEDS_REVIEW"
  BY DEF Rows, Statuses
<1>8. new \in {[full EXCEPT !.status = Completeness(full)],
               [poor EXCEPT !.status = Completeness(poor)],
               [poor EXCEPT !.status = "NEEDS_REVIEW"], Failed(tried),
               [r EXCEPT !.claim = "none", !.status = "NEEDS_REVIEW"]}
  BY DEF Outcomes
<1> HIDE DEF tried, full, poor
<1>9. "NEEDS_REVIEW" \in Extractable
  BY DEF Extractable
<1>10. CASE new = [full EXCEPT !.status = Completeness(full)]
  BY <1>10, <1>2, <1>3, <1>4
<1>11. CASE new = [poor EXCEPT !.status = Completeness(poor)]
  BY <1>11, <1>2, <1>3, <1>4
<1>12. CASE new \in {[poor EXCEPT !.status = "NEEDS_REVIEW"],
                     [r EXCEPT !.claim = "none", !.status = "NEEDS_REVIEW"]}
  BY <1>12, <1>6, <1>7, <1>9
<1>13. CASE new = Failed(tried)
  BY <1>13, <1>5
<1> QED
  BY <1>8, <1>10, <1>11, <1>12, <1>13

\* A session that becomes r while the others keep everything
LEMMA Becomes ==
  ASSUME TypeOK, NEW w \in Workers, NEW r \in Sessions, req' = [req EXCEPT ![w] = r]
  PROVE  /\ req' \in [Workers -> Sessions] /\ req'[w] = r
         /\ \A o \in Workers : o # w => req'[o] = req[o]
  BY DEF TypeOK

LEMMA Loaded ==
  ASSUME NEW d \in Docs, NEW old \in Rows, NEW new \in Rows,
         NEW pc \in {"upload", "attach", "claim", "extract", "patch"}
  PROVE  [pc |-> pc, on |-> d, old |-> old, new |-> new] \in Sessions
  BY DEF Sessions

LEMMA WorkerTypes ==
  /\ \A w \in Requests : w \in Workers
  /\ \A w \in Jobs : w \in Workers
  BY DEF Workers

\* Saving: either the row takes the columns that were changed, or nothing happens.
LEMMA SaveCases ==
  ASSUME TypeOK, NEW w \in Workers, NEW d \in Docs, NEW old \in Rows, NEW new \in Rows,
         NEW r \in Sessions, Save(w, d, old, new, r)
  PROVE  /\ ~Held(d)
         /\ UNCHANGED <<blob, gone, records, troubles, orphaned>>
         /\ \/ /\ row' = [row EXCEPT ![d] = Flushed(d, old, new)]
               /\ req' = [req EXCEPT ![w] = r]
               /\ raced' = IF Behind(d, old) THEN raced \cup {d} ELSE raced
            \/ row' = row /\ raced' = raced /\ req' = [req EXCEPT ![w] = Idle]
  BY DEF Save

-----------------------------------------------------------------------------
(***************************************************************************)
(* Steps that leave the rows alone                                         *)
(***************************************************************************)

\* The properties of rows stay while only sessions, blobs that no row has and
\* histories change.
LEMMA RowsAlone ==
  ASSUME Inv, row' = row, records' = records, raced' = raced
  PROVE  PublishedOnce' /\ ReadyIsComplete' /\ ExtractingIsClaimed'
  BY DEF Inv, PublishedOnce, ReadyIsComplete, ExtractingIsClaimed

\* A session that is idle, or neither inserts nor rejects, changes to r.
LEMMA Switches ==
  ASSUME Inv, NEW w \in Workers, NEW r \in Sessions, req' = [req EXCEPT ![w] = r],
         UNCHANGED <<row, blob, gone, records, raced>>, troubles' \in 0..MaxTroubles,
         orphaned \subseteq orphaned', orphaned' \subseteq Docs,
         req[w].pc # "reject" \/ req[w].on \in orphaned',
         r.pc \in {"idle", "claim", "claimed", "extract", "patch"},
         r.pc \in {"claim", "patch"} => Legitimate(r.old, r.new),
         r.pc = "claim" => r.new.status = "EXTRACTING",
         r.pc = "extract" => r.old.status = "EXTRACTING",
         r.pc # "idle" => r.on \in Docs /\ row[r.on].status # "ABSENT"
  PROVE  Inv'
<1>1. /\ req' \in [Workers -> Sessions] /\ req'[w] = r
      /\ \A o \in Workers : o # w => req'[o] = req[o]
  BY Becomes DEF Inv
<1>2. TypeOK'
  BY <1>1 DEF Inv, TypeOK
<1>3. ASSUME NEW o \in Workers PROVE Inserting(o)' /\ Updating(o)' /\ Rejecting(o)'
  <2>1. CASE o = w
    BY <2>1, <1>1 DEF Inserting, Updating, Rejecting
  <2>2. CASE o # w
    BY <2>2, <1>1 DEF Inv, SessionsOK, Inserting, Updating, Rejecting, Alone
  <2> QED
    BY <2>1, <2>2
<1>4. SessionsOK'
  BY <1>3 DEF SessionsOK
<1>5. Blobs'
  BY DEF Inv, Blobs
<1>6. BlobKept'
  BY <1>1 DEF Inv, BlobKept, Held
<1> QED
  BY <1>2, <1>4, <1>5, <1>6, RowsAlone DEF Inv

LEMMA RetryStep ==
  ASSUME Inv, NEW w \in Workers, NEW d \in Docs, BeginRetry(w, d)
  PROVE  Inv'
<1> DEFINE old == [Read(d) EXCEPT !.backoff = TRUE]
           new == Recounted(Claimed(Read(d)))
           r   == [pc |-> "claim", on |-> d, old |-> old, new |-> new]
<1>1. Read(d) \in Rows /\ Read(d).status = row[d].status /\ Read(d).claim = "old"
  BY ReadType DEF Inv
<1>2. old \in Rows /\ old.status = row[d].status /\ old.claim = "old"
  BY <1>1 DEF Rows
<1>3. /\ Claimed(Read(d)) \in Rows /\ Claimed(Read(d)).status = "EXTRACTING"
      /\ Claimed(Read(d)).claim = "fresh"
  BY <1>1, ClaimedType
<1>4. new \in Rows /\ new.status = "EXTRACTING" /\ new.claim = "fresh"
  BY <1>3 DEF Recounted, Rows
<1>5. row[d].status \in Extractable /\ troubles' \in 0..MaxTroubles
  BY DocumentInboxAssumption DEF BeginRetry, Inv, TypeOK
<1>6. Legitimate(old, new)
  BY <1>2, <1>4, <1>5 DEF Legitimate, Extractable
<1> HIDE DEF old, new
<1>7. r \in Sessions
  BY <1>2, <1>4, Loaded
<1>8. req' = [req EXCEPT ![w] = r] /\ UNCHANGED <<row, blob, gone, records, raced, orphaned>>
  BY DEF BeginRetry, Load, old, new
<1>9. req[w].pc = "idle" /\ row[d].status # "ABSENT" /\ orphaned \subseteq Docs
  BY <1>5 DEF BeginRetry, Extractable, Inv, TypeOK
<1> QED
  BY <1>4, <1>5, <1>6, <1>7, <1>8, <1>9, Switches

LEMMA PatchedType ==
  ASSUME TypeOK, NEW d \in Docs, NEW override \in BOOLEAN,
         row[d].status \in Extractable \cup {"EXTRACTING"},
         NEW edited, edited = [Read(d) EXCEPT !.override = override],
         NEW new, new = IF row[d].status \in {"NEEDS_REVIEW", "READY"}
                        THEN [edited EXCEPT !.status = Completeness(edited)] ELSE edited
  PROVE  new \in Rows /\ Legitimate(Read(d), new)
<1>1. Read(d) \in Rows /\ Read(d).status = row[d].status
  BY ReadType
<1>2. /\ edited \in Rows /\ edited.status = row[d].status /\ edited.claim = Read(d).claim
  BY <1>1 DEF Rows
<1>3. CASE row[d].status \in {"NEEDS_REVIEW", "READY"}
  <2>1. /\ new \in Rows /\ new.claim = Read(d).claim
        /\ new.status = Completeness(edited) /\ Complete(new) = Complete(edited)
    BY <1>2, <1>3 DEF Rows, Statuses, Completeness, Complete
  <2>2. new.status \in {"NEEDS_REVIEW", "READY"} /\ (new.status = "READY" => Complete(edited))
    BY <2>1 DEF Completeness
  <2> QED
    BY <2>1, <2>2, <1>1 DEF Legitimate, Extractable
<1>4. CASE row[d].status \notin {"NEEDS_REVIEW", "READY"}
  BY <1>4, <1>1, <1>2 DEF Legitimate, Extractable
<1> QED
  BY <1>3, <1>4

LEMMA EditStep ==
  ASSUME Inv, NEW w \in Workers, NEW d \in Docs, NEW override \in BOOLEAN,
         BeginPatch(w, d, override)
  PROVE  Inv'
<1> DEFINE edited == [Read(d) EXCEPT !.override = override]
           new == IF row[d].status \in {"NEEDS_REVIEW", "READY"}
                  THEN [edited EXCEPT !.status = Completeness(edited)] ELSE edited
           r   == [pc |-> "patch", on |-> d, old |-> Read(d), new |-> new]
<1>1. row[d].status \in Extractable \cup {"EXTRACTING"} /\ troubles' \in 0..MaxTroubles
  BY DocumentInboxAssumption DEF BeginPatch, Inv, TypeOK
<1>2. new \in Rows /\ Legitimate(Read(d), new)
  BY <1>1, PatchedType DEF Inv
<1>3. req' = [req EXCEPT ![w] = r] /\ UNCHANGED <<row, blob, gone, records, raced, orphaned>>
  BY DEF BeginPatch, Load
<1>4. Read(d) \in Rows
  BY ReadType DEF Inv
<1> HIDE DEF new
<1>5. r \in Sessions
  BY <1>2, <1>4, Loaded
<1>6. req[w].pc = "idle" /\ row[d].status # "ABSENT" /\ orphaned \subseteq Docs
  BY <1>1 DEF BeginPatch, Extractable, Inv, TypeOK
<1> QED
  BY <1>1, <1>2, <1>3, <1>5, <1>6, Switches

LEMMA StartStep ==
  ASSUME Inv, NEW w \in Workers, SweepStart(w)
  PROVE  Inv'
<1> DEFINE d == req[w].on
           r == [pc |-> "extract", on |-> d, old |-> Read(d), new |-> NoRow]
<1>1. d \in Docs /\ orphaned \subseteq Docs /\ troubles \in 0..MaxTroubles /\ req[w].pc = "claimed"
  BY DEF SweepStart, Inv, TypeOK, Sessions
<1>2. UNCHANGED <<row, blob, gone, records, troubles, raced, orphaned>>
  BY DEF SweepStart
<1>3. CASE row[d].status = "EXTRACTING"
  <2>1. Read(d) \in Rows /\ Read(d).status = "EXTRACTING"
    BY <1>1, <1>3, ReadType DEF Inv
  <2>2. r \in Sessions
    BY <1>1, <2>1, RowTypes, Loaded
  <2>3. req' = [req EXCEPT ![w] = r]
    BY <1>3 DEF SweepStart, Load
  <2> QED
    BY <1>1, <1>2, <1>3, <2>1, <2>2, <2>3, Switches
<1>4. CASE row[d].status # "EXTRACTING"
  <2>1. req' = [req EXCEPT ![w] = Idle]
    BY <1>4 DEF SweepStart
  <2> QED
    BY <1>1, <1>2, <2>1, IdleType, Switches
<1> QED
  BY <1>3, <1>4

LEMMA CrashStep ==
  ASSUME Inv, NEW w \in Workers, Crash(w)
  PROVE  Inv'
<1>1. req[w].on \in Docs /\ orphaned \subseteq Docs /\ troubles' \in 0..MaxTroubles
  BY DocumentInboxAssumption DEF Crash, Inv, TypeOK, Sessions
<1>2. /\ orphaned \subseteq orphaned' /\ orphaned' \subseteq Docs
      /\ req[w].pc # "reject" \/ req[w].on \in orphaned'
      /\ req' = [req EXCEPT ![w] = Idle] /\ UNCHANGED <<row, blob, gone, records, raced>>
  BY <1>1 DEF Crash
<1> QED
  BY <1>1, <1>2, IdleType, Switches

\* A session begins an insertion: it has the row, which is absent, for itself.
LEMMA CaptureStep ==
  ASSUME Inv, NEW w \in Workers, NEW d \in Docs, NEW pc \in {"upload", "attach"},
         BeginCapture(w, d, pc)
  PROVE  Inv'
<1> DEFINE r == [pc |-> pc, on |-> d, old |-> NoRow, new |-> Captured]
<1>1. /\ req[w].pc = "idle" /\ Unused(d)
      /\ req' = [req EXCEPT ![w] = r]
      /\ blob' = [blob EXCEPT ![d] = d] /\ gone' = gone \ {d}
      /\ UNCHANGED <<row, records, troubles, raced, orphaned>>
  BY DEF BeginCapture, Load
<1>2. r \in Sessions
  BY RowTypes, Loaded
<1>3. /\ req' \in [Workers -> Sessions] /\ req'[w] = r
      /\ \A o \in Workers : o # w => req'[o] = req[o]
  BY <1>1, <1>2, Becomes DEF Inv
<1>4. TypeOK'
  BY <1>1, <1>3 DEF Inv, TypeOK
<1>5. blob'[d] = d /\ \A e \in Docs : e # d => blob'[e] = blob[e]
  BY <1>1 DEF Inv, TypeOK
<1>6. row[d].status = "ABSENT" /\ \A o \in Workers : req[o].pc # "idle" => req[o].on # d
  BY <1>1 DEF Unused
<1>7. ASSUME NEW o \in Workers PROVE Inserting(o)' /\ Updating(o)' /\ Rejecting(o)'
  <2>1. CASE o = w
    BY <2>1, <1>1, <1>3, <1>5, <1>6 DEF Inserting, Updating, Rejecting, Alone
  <2>2. CASE o # w
    <3>1. Inserting(o) /\ Updating(o) /\ Rejecting(o)
      BY DEF Inv, SessionsOK
    <3>2. req'[o] = req[o] /\ (req[o].pc # "idle" => req[o].on # d) /\ req[o].on \in Docs
      BY <2>2, <1>3, <1>6 DEF Inv, TypeOK, Sessions
    <3>3. Inserting(o)'
      BY <3>1, <3>2, <1>1, <1>3, <1>5 DEF Inserting, Alone
    <3>4. Updating(o)'
      BY <3>1, <3>2, <1>1 DEF Updating
    <3>5. Rejecting(o)'
      BY <3>1, <3>2, <1>1, <1>3 DEF Rejecting
    <3> QED
      BY <3>3, <3>4, <3>5
  <2> QED
    BY <2>1, <2>2
<1>8. SessionsOK'
  BY <1>7 DEF SessionsOK
<1>9. Blobs'
  BY <1>1, <1>5 DEF Inv, Blobs
<1>10. BlobKept'
  <2> SUFFICES ASSUME NEW e \in Docs \ (raced \cup orphaned), row[e].status \notin {"ABSENT", "REJECTED"}
               PROVE  Held(e)' \/ blob'[e] \notin gone'
    BY <1>1 DEF BlobKept
  <2>1. e # d /\ (Held(e) \/ blob[e] \notin gone)
    BY <1>6 DEF Inv, BlobKept
  <2>2. Held(e) => Held(e)'
    BY <1>1, <1>3 DEF Held
  <2> QED
    BY <2>1, <2>2, <1>1, <1>5
<1> QED
  BY <1>1, <1>4, <1>8, <1>9, <1>10, RowsAlone DEF Inv

LEMMA DuplicateStep ==
  ASSUME Inv, NEW w \in Workers, NEW d \in Docs, NEW o \in Docs, BeginDuplicate(w, d, o)
  PROVE  Inv'
<1> DEFINE r == [pc |-> "attach", on |-> d, old |-> NoRow, new |-> Recorded]
<1>1. /\ req[w].pc = "idle" /\ Unused(d) /\ Live(row[o].status)
      /\ req' = [req EXCEPT ![w] = r]
      /\ blob' = [blob EXCEPT ![d] = blob[o]]
      /\ UNCHANGED <<row, gone, records, troubles, raced, orphaned>>
  BY DEF BeginDuplicate, Load
<1>2. r \in Sessions
  BY RowTypes, Loaded
<1>3. /\ req' \in [Workers -> Sessions] /\ req'[w] = r
      /\ \A v \in Workers : v # w => req'[v] = req[v]
  BY <1>1, <1>2, Becomes DEF Inv
<1>4. TypeOK'
  BY <1>1, <1>3 DEF Inv, TypeOK
<1>5. blob'[d] = blob[o] /\ \A e \in Docs : e # d => blob'[e] = blob[e]
  BY <1>1 DEF Inv, TypeOK
<1>6. row[d].status = "ABSENT" /\ \A v \in Workers : req[v].pc # "idle" => req[v].on # d
  BY <1>1 DEF Unused
<1>7. ASSUME NEW v \in Workers PROVE Inserting(v)' /\ Updating(v)' /\ Rejecting(v)'
  <2>1. CASE v = w
    BY <2>1, <1>1, <1>3, <1>6 DEF Inserting, Updating, Rejecting, Alone
  <2>2. CASE v # w
    <3>1. Inserting(v) /\ Updating(v) /\ Rejecting(v)
      BY DEF Inv, SessionsOK
    <3>2. req'[v] = req[v] /\ (req[v].pc # "idle" => req[v].on # d) /\ req[v].on \in Docs
      BY <2>2, <1>3, <1>6 DEF Inv, TypeOK, Sessions
    <3>3. Inserting(v)'
      BY <3>1, <3>2, <1>1, <1>3, <1>5 DEF Inserting, Alone
    <3>4. Updating(v)'
      BY <3>1, <3>2, <1>1 DEF Updating
    <3>5. Rejecting(v)'
      BY <3>1, <3>2, <1>1, <1>3 DEF Rejecting
    <3> QED
      BY <3>3, <3>4, <3>5
  <2> QED
    BY <2>1, <2>2
<1>8. SessionsOK'
  BY <1>7 DEF SessionsOK
<1>9. Blobs'
  <2>1. blob[o] = o \/ row[blob[o]].status # "ABSENT"
    BY DEF Inv, Blobs
  <2>2. row[o].status # "ABSENT"
    BY <1>1 DEF Live
  <2>3. row[blob'[d]].status # "ABSENT"
    BY <2>1, <2>2, <1>5
  <2> QED
    BY <2>3, <1>1, <1>5 DEF Inv, Blobs
<1>10. BlobKept'
  <2> SUFFICES ASSUME NEW e \in Docs \ (raced \cup orphaned), row[e].status \notin {"ABSENT", "REJECTED"}
               PROVE  Held(e)' \/ blob'[e] \notin gone'
    BY <1>1 DEF BlobKept
  <2>1. e # d /\ (Held(e) \/ blob[e] \notin gone)
    BY <1>6 DEF Inv, BlobKept
  <2>2. Held(e) => Held(e)'
    BY <1>1, <1>3 DEF Held
  <2> QED
    BY <2>1, <2>2, <1>1, <1>5
<1> QED
  BY <1>1, <1>4, <1>8, <1>9, <1>10, RowsAlone DEF Inv

-----------------------------------------------------------------------------
(***************************************************************************)
(* Steps that change a row                                                 *)
(***************************************************************************)

\* What the sessions other than w know stays true when the row of d, which
\* was neither absent nor locked, becomes another that is not absent.
LEMMA OthersKeep ==
  ASSUME Inv, NEW w \in Workers, NEW d \in Docs, row[d].status # "ABSENT", ~Held(d),
         NEW saved \in Rows, saved.status # "ABSENT",
         row' = [row EXCEPT ![d] = saved], UNCHANGED <<blob, gone>>,
         \A o \in Workers : o # w => req'[o] = req[o],
         req'[w] = req[w] \/ req'[w].pc \in {"idle", "extract", "claimed"},
         req'[w].pc # "idle" => req'[w].on = d,
         NEW o \in Workers, o # w
  PROVE  Inserting(o)' /\ Updating(o)' /\ Rejecting(o)'
<1>1. Inserting(o) /\ Updating(o) /\ Rejecting(o) /\ req[o].on \in Docs
  BY DEF Inv, SessionsOK, TypeOK, Sessions
<1>2. \A e \in Docs : e # d => row'[e] = row[e]
  BY DEF Inv, TypeOK
<1>3. req[o].pc = "reject" => req[o].on # d
  BY DEF Held
<1>4. req[o].pc \in {"upload", "attach"} => req[o].on # d
  BY <1>1 DEF Inserting
<1>5. Inserting(o)'
  BY <1>1, <1>2, <1>4 DEF Inserting, Alone
<1>6. Updating(o)'
  BY <1>1, <1>2 DEF Updating, Inv, TypeOK
<1>7. Rejecting(o)'
  BY <1>1, <1>2, <1>3 DEF Rejecting
<1> QED
  BY <1>5, <1>6, <1>7

\* The other rows keep their properties, and d keeps its own or is raced.
LEMMA Saved ==
  ASSUME Inv, NEW w \in Workers, NEW d \in Docs, NEW old \in Rows, NEW new \in Rows,
         Legitimate(old, new), row[d].status # "ABSENT", ~Held(d),
         NEW r \in Sessions, r.pc \in {"idle", "extract"},
         r.pc = "extract" => r.old.status = "EXTRACTING" /\ r.on = d,
         req[w].pc # "reject",
         UNCHANGED <<blob, gone, records, troubles, orphaned>>,
         row' = [row EXCEPT ![d] = Flushed(d, old, new)],
         req' = [req EXCEPT ![w] = r],
         raced' = IF Behind(d, old) THEN raced \cup {d} ELSE raced
  PROVE  Inv'
<1> DEFINE saved == Flushed(d, old, new)
<1>1. /\ saved \in Rows
      /\ saved.status = IF new.status = old.status THEN row[d].status ELSE new.status
      /\ saved.claim = IF new.claim = old.claim THEN row[d].claim ELSE new.claim
      /\ saved.extract = IF new.extract = old.extract THEN row[d].extract ELSE new.extract
      /\ saved.override = IF new.override = old.override THEN row[d].override ELSE new.override
  BY FlushedType DEF Inv
<1>2. row' = [row EXCEPT ![d] = saved]
  OBVIOUS
<1> HIDE DEF saved
<1>3. /\ req' \in [Workers -> Sessions] /\ req'[w] = r
      /\ \A o \in Workers : o # w => req'[o] = req[o]
  BY Becomes DEF Inv
<1>4. row'[d] = saved /\ \A e \in Docs : e # d => row'[e] = row[e]
  BY <1>2 DEF Inv, TypeOK
<1>5. TypeOK'
  BY <1>1, <1>2, <1>3 DEF Inv, TypeOK
<1>6. saved.status # "ABSENT"
  BY <1>1 DEF Legitimate, Extractable
<1>16. /\ UNCHANGED <<blob, gone>>
       /\ req'[w].pc \in {"idle", "extract", "claimed"}
       /\ req'[w].pc # "idle" => req'[w].on = d
  BY <1>3
<1>7. ASSUME NEW o \in Workers PROVE Inserting(o)' /\ Updating(o)' /\ Rejecting(o)'
  <2>1. CASE o = w
    BY <2>1, <1>3, <1>4, <1>6 DEF Inserting, Updating, Rejecting
  <2>2. CASE o # w
    BY <2>2, <1>1, <1>2, <1>3, <1>6, <1>16, OthersKeep
  <2> QED
    BY <2>1, <2>2
<1>8. SessionsOK'
  BY <1>7 DEF SessionsOK
<1>9. Blobs'
  BY <1>4, <1>6 DEF Inv, Blobs, TypeOK
<1>10. ASSUME d \notin raced'
       PROVE  /\ row[d].status = old.status /\ row[d].extract = old.extract
              /\ row[d].override = old.override
              /\ saved.status = new.status /\ saved.extract = new.extract
              /\ saved.override = new.override
  <2>1. ~Behind(d, old)
    BY <1>10
  <2> QED
    BY <2>1, <1>1 DEF Behind
<1>11. \A e \in Docs \ raced' : e \in Docs \ raced
  OBVIOUS
<1>12. PublishedOnce'
  <2>1. d \notin raced' => row[d].status # "PUBLISHED" /\ saved.status # "PUBLISHED"
    BY <1>10 DEF Legitimate, Extractable
  <2> QED
    BY <2>1, <1>4, <1>11 DEF Inv, PublishedOnce
<1>13. ReadyIsComplete'
  <2>1. d \notin raced' => (saved.status = "READY" => Complete(saved))
    BY <1>10 DEF Legitimate, Complete
  <2> QED
    BY <2>1, <1>4, <1>11 DEF Inv, ReadyIsComplete, Complete
<1>14. ExtractingIsClaimed'
  <2>1. saved.status = "EXTRACTING" => saved.claim # "none"
    BY <1>1 DEF Legitimate, Inv, ExtractingIsClaimed
  <2> QED
    BY <2>1, <1>4 DEF Inv, ExtractingIsClaimed
<1>15. BlobKept'
  <2> SUFFICES ASSUME NEW e \in Docs \ (raced' \cup orphaned),
                      row'[e].status \notin {"ABSENT", "REJECTED"}
               PROVE  Held(e)' \/ blob[e] \notin gone
    BY DEF BlobKept
  <2>1. CASE e = d
    <3>1. row[d].status \notin {"ABSENT", "REJECTED"}
      BY <2>1, <1>10 DEF Legitimate, Extractable
    <3> QED
      BY <2>1, <3>1, <1>11 DEF Inv, BlobKept
  <2>2. CASE e # d
    <3>1. Held(e) \/ blob[e] \notin gone
      BY <2>2, <1>4, <1>11 DEF Inv, BlobKept
    <3>2. Held(e) => Held(e)'
      BY <1>3 DEF Held
    <3> QED
      BY <3>1, <3>2
  <2> QED
    BY <2>1, <2>2
<1> QED
  BY <1>5, <1>8, <1>9, <1>12, <1>13, <1>14, <1>15 DEF Inv

\* Claim, Finish and Patch are savings.
LEMMA SaveStep ==
  ASSUME Inv, NEW w \in Workers, Claim(w) \/ Finish(w) \/ Patch(w)
  PROVE  Inv'
<1>1. /\ req[w] \in Sessions /\ req[w].on \in Docs /\ req[w].old \in Rows /\ req[w].new \in Rows
      /\ Inserting(w) /\ Updating(w) /\ orphaned \subseteq Docs /\ troubles \in 0..MaxTroubles
  BY DEF Inv, TypeOK, Sessions, SessionsOK
<1>2. PICK new \in Rows, r \in Sessions :
         /\ Save(w, req[w].on, req[w].old, new, r)
         /\ Legitimate(req[w].old, new)
         /\ r.pc \in {"idle", "extract"}
         /\ r.pc = "extract" => r.old.status = "EXTRACTING" /\ r.on = req[w].on
         /\ req[w].pc \in {"claim", "extract", "patch"}
  <2>1. CASE Claim(w)
    <3> DEFINE r == [req[w] EXCEPT !.pc = "extract", !.old = [req[w].new EXCEPT !.claim = "old"],
                                   !.new = NoRow]
    <3>1. [req[w].new EXCEPT !.claim = "old"] \in Rows
      BY <1>1 DEF Rows
    <3>2. r \in Sessions /\ r.pc = "extract" /\ r.on = req[w].on
          /\ r.old = [req[w].new EXCEPT !.claim = "old"]
      BY <1>1, <3>1, RowTypes DEF Sessions
    <3>3. /\ req[w].pc = "claim" /\ req[w].new.status = "EXTRACTING"
          /\ Legitimate(req[w].old, req[w].new)
      BY <2>1, <1>1 DEF Claim, Updating
    <3>4. r.old.status = "EXTRACTING"
      BY <3>2, <3>3, <1>1 DEF Rows
    <3>5. Save(w, req[w].on, req[w].old, req[w].new, r)
      BY <2>1 DEF Claim
    <3> QED
      BY <3>2, <3>3, <3>4, <3>5, <1>1
  <2>2. CASE Finish(w)
    <3>1. PICK new \in Outcomes(req[w].old) : Save(w, req[w].on, req[w].old, new, Idle)
      BY <2>2 DEF Finish
    <3>2. req[w].pc = "extract" /\ req[w].old.status = "EXTRACTING"
      BY <2>2, <1>1 DEF Finish, Updating
    <3>3. new \in Rows /\ Legitimate(req[w].old, new)
      BY <3>2, <1>1, OutcomeType DEF Legitimate, Extractable
    <3> QED
      BY <3>1, <3>2, <3>3, IdleType
  <2>3. CASE Patch(w)
    <3>1. /\ req[w].pc = "patch" /\ Save(w, req[w].on, req[w].old, req[w].new, Idle)
          /\ Legitimate(req[w].old, req[w].new)
      BY <2>3, <1>1 DEF Patch, Updating
    <3> QED
      BY <3>1, <1>1, IdleType
  <2> QED
    BY <2>1, <2>2, <2>3
<1>3. /\ ~Held(req[w].on)
      /\ UNCHANGED <<blob, gone, records, troubles, orphaned>>
      /\ \/ /\ row' = [row EXCEPT ![req[w].on] = Flushed(req[w].on, req[w].old, new)]
            /\ req' = [req EXCEPT ![w] = r]
            /\ raced' = IF Behind(req[w].on, req[w].old) THEN raced \cup {req[w].on} ELSE raced
         \/ row' = row /\ raced' = raced /\ req' = [req EXCEPT ![w] = Idle]
  BY <1>1, <1>2, SaveCases DEF Inv
<1>4. CASE row' = row /\ raced' = raced /\ req' = [req EXCEPT ![w] = Idle]
  BY <1>1, <1>2, <1>3, <1>4, IdleType, Switches
<1>5. CASE /\ row' = [row EXCEPT ![req[w].on] = Flushed(req[w].on, req[w].old, new)]
           /\ req' = [req EXCEPT ![w] = r]
           /\ raced' = IF Behind(req[w].on, req[w].old) THEN raced \cup {req[w].on} ELSE raced
  <2>1. row[req[w].on].status # "ABSENT"
    BY <1>1, <1>2 DEF Updating
  <2> QED
    BY <1>1, <1>2, <1>3, <1>5, <2>1, Saved
<1> QED
  BY <1>3, <1>4, <1>5

\* A sweep takes or returns a claim, and a document is published: by a
\* transaction that has read the row as it is.
LEMMA SerialStep ==
  ASSUME Inv, NEW d \in Docs, NEW saved \in Rows,
         row[d].status \in Extractable \cup {"EXTRACTING"}, ~Held(d),
         saved.status \in {"RECEIVED", "EXTRACTING", "PUBLISHED"},
         saved.status = "EXTRACTING" => saved.claim # "none",
         records' = [records EXCEPT ![d] = IF saved.status = "PUBLISHED" THEN @ + 1 ELSE @],
         row' = [row EXCEPT ![d] = saved],
         \/ req' = req
         \/ \E w \in Workers, r \in Sessions :
              /\ req[w].pc # "reject" /\ r.pc = "claimed" /\ r.on = d
              /\ req' = [req EXCEPT ![w] = r],
         UNCHANGED <<blob, gone, troubles, raced, orphaned>>
  PROVE  Inv'
<1>1. /\ req' \in [Workers -> Sessions]
      /\ \A o \in Workers : \/ req'[o] = req[o]
                            \/ req[o].pc # "reject" /\ req'[o].pc = "claimed" /\ req'[o].on = d
  BY DEF Inv, TypeOK
<1>2. row'[d] = saved /\ \A e \in Docs : e # d => row'[e] = row[e]
  BY DEF Inv, TypeOK
<1>3. /\ records \in [Docs -> Nat] /\ records' \in [Docs -> Nat]
      /\ records'[d] = IF saved.status = "PUBLISHED" THEN records[d] + 1 ELSE records[d]
      /\ \A e \in Docs : e # d => records'[e] = records[e]
  BY DEF Inv, TypeOK
<1>4. TypeOK'
  BY <1>1, <1>3 DEF Inv, TypeOK
<1>5. row[d].status \notin {"ABSENT", "PUBLISHED", "REJECTED"} /\ saved.status # "ABSENT"
  BY DEF Extractable
<1>6. UNCHANGED <<blob, gone>>
  OBVIOUS
<1>7. ASSUME NEW o \in Workers PROVE Inserting(o)' /\ Updating(o)' /\ Rejecting(o)'
  <2>1. CASE req'[o].pc = "claimed"
    BY <2>1 DEF Inserting, Updating, Rejecting
  <2>2. CASE req'[o] = req[o]
    <3>1. Inserting(o) /\ Updating(o) /\ Rejecting(o) /\ req[o].on \in Docs
      BY DEF Inv, SessionsOK, TypeOK, Sessions
    <3>2. req'[o] = req[o]
      BY <2>2
    <3>3. req[o].pc = "reject" => req[o].on # d
      BY DEF Held
    <3>4. req[o].pc \in {"upload", "attach"} => req[o].on # d
      BY <3>1, <1>5 DEF Inserting
    <3>5. Inserting(o)'
      BY <3>1, <3>2, <3>4, <1>1, <1>2, <1>6 DEF Inserting, Alone
    <3>6. Updating(o)'
      BY <3>1, <3>2, <1>2, <1>5 DEF Updating
    <3>7. Rejecting(o)'
      BY <3>1, <3>2, <3>3, <1>1, <1>2 DEF Rejecting
    <3> QED
      BY <3>5, <3>6, <3>7
  <2> QED
    BY <2>1, <2>2, <1>1
<1>8. SessionsOK'
  BY <1>7 DEF SessionsOK
<1>9. Blobs'
  BY <1>2, <1>5, <1>6 DEF Inv, Blobs, TypeOK
<1>10. PublishedOnce'
  BY <1>2, <1>3, <1>5 DEF Inv, PublishedOnce
<1>11. ReadyIsComplete'
  BY <1>2 DEF Inv, ReadyIsComplete
<1>12. ExtractingIsClaimed'
  BY <1>2 DEF Inv, ExtractingIsClaimed
<1>13. BlobKept'
  <2> SUFFICES ASSUME NEW e \in Docs \ (raced \cup orphaned),
                      row'[e].status \notin {"ABSENT", "REJECTED"}
               PROVE  Held(e)' \/ blob[e] \notin gone
    BY DEF BlobKept
  <2>1. Held(e) \/ blob[e] \notin gone
    BY <1>2, <1>5 DEF Inv, BlobKept
  <2>2. Held(e) => Held(e)'
    BY <1>1 DEF Held
  <2> QED
    BY <2>1, <2>2
<1> QED
  BY <1>4, <1>8, <1>9, <1>10, <1>11, <1>12, <1>13 DEF Inv

\* What is locked for a rejection is reviewable.
LEMMA HeldReviewable ==
  ASSUME Inv, NEW d \in Docs, Held(d)
  PROVE  row[d].status \in Reviewable
  BY DEF Inv, SessionsOK, Rejecting, Held

LEMMA SweepClaimStep ==
  ASSUME Inv, NEW w \in Workers, NEW d \in Docs, SweepClaim(w, d)
  PROVE  Inv'
<1> DEFINE r == [Idle EXCEPT !.pc = "claimed", !.on = d]
<1>1. /\ row[d] \in Rows /\ row[d].status = "RECEIVED" /\ req[w].pc = "idle"
      /\ row' = [row EXCEPT ![d] = Claimed(row[d])] /\ req' = [req EXCEPT ![w] = r]
      /\ UNCHANGED <<blob, gone, records, troubles, raced, orphaned>>
  BY DEF SweepClaim, Inv, TypeOK
<1>2. r \in Sessions /\ r.pc = "claimed" /\ r.on = d
  BY IdleType DEF Sessions
<1>3. ~Held(d)
  BY <1>1, HeldReviewable DEF Reviewable
<1>4. /\ Claimed(row[d]) \in Rows /\ Claimed(row[d]).status = "EXTRACTING"
      /\ Claimed(row[d]).claim # "none"
  BY <1>1, ClaimedType
<1>5. records' = [records EXCEPT ![d] = IF Claimed(row[d]).status = "PUBLISHED" THEN @ + 1 ELSE @]
  BY <1>1, <1>4 DEF Inv, TypeOK
<1>6. row[d].status \in Extractable
  BY <1>1 DEF Extractable
<1> HIDE DEF r
<1> QED
  BY <1>1, <1>2, <1>3, <1>4, <1>5, <1>6, SerialStep

LEMMA ReclaimStep ==
  ASSUME Inv, NEW w \in Workers, NEW d \in Docs, Reclaim(w, d)
  PROVE  Inv'
<1> DEFINE saved == [row[d] EXCEPT !.status = "RECEIVED", !.claim = "none"]
<1>1. /\ row[d] \in Rows /\ row[d].status = "EXTRACTING" /\ req[w].pc = "idle"
      /\ UNCHANGED <<blob, gone, records, req, troubles, raced, orphaned>>
  BY DEF Reclaim, Reclaimable, Inv, TypeOK
<1>2. row' = [row EXCEPT ![d] = saved]
  BY DEF Reclaim, Inv, TypeOK
<1>3. saved \in Rows /\ saved.status = "RECEIVED"
  BY <1>1 DEF Rows, Statuses
<1>4. ~Held(d)
  BY <1>1, HeldReviewable DEF Reviewable
<1>5. row[d].status \in Extractable \cup {"EXTRACTING"}
  BY <1>1
<1> HIDE DEF saved
<1>6. records' = [records EXCEPT ![d] = IF saved.status = "PUBLISHED" THEN @ + 1 ELSE @]
  BY <1>1, <1>3 DEF Inv, TypeOK
<1> QED
  BY <1>1, <1>2, <1>3, <1>4, <1>5, <1>6, SerialStep

LEMMA PublishStep ==
  ASSUME Inv, NEW d \in Docs, Publish(d)
  PROVE  Inv'
<1> DEFINE saved == [row[d] EXCEPT !.status = "PUBLISHED"]
<1>1. /\ row[d] \in Rows /\ row[d].status \in Reviewable /\ ~Held(d)
      /\ UNCHANGED <<blob, gone, req, troubles, raced, orphaned>>
  BY DEF Publish, Publishable, Inv, TypeOK
<1>2. row' = [row EXCEPT ![d] = saved]
  BY DEF Publish, Inv, TypeOK
<1>3. saved \in Rows /\ saved.status = "PUBLISHED"
  BY <1>1 DEF Rows, Statuses
<1> HIDE DEF saved
<1>5. records' = [records EXCEPT ![d] = IF saved.status = "PUBLISHED" THEN @ + 1 ELSE @]
  BY <1>3 DEF Publish, Inv, TypeOK
<1>6. row[d].status \in Extractable
  BY <1>1 DEF Reviewable, Extractable
<1> QED
  BY <1>1, <1>2, <1>3, <1>5, <1>6, SerialStep

\* Time passes: nothing is read of a row but what it keeps.
LEMMA PassStep ==
  ASSUME Inv, NEW d \in Docs, Pass(d)
  PROVE  Inv'
<1> DEFINE saved == [row[d] EXCEPT !.claim = IF @ = "fresh" THEN "old" ELSE @, !.backoff = FALSE]
<1>1. row[d] \in Rows /\ UNCHANGED <<blob, gone, records, req, troubles, raced, orphaned>>
  BY DEF Pass, Inv, TypeOK
<1>2. row' = [row EXCEPT ![d] = saved]
  BY DEF Pass, Inv, TypeOK
<1>3. /\ saved \in Rows /\ saved.status = row[d].status
      /\ saved.extract = row[d].extract /\ saved.override = row[d].override
      /\ row[d].claim # "none" => saved.claim # "none"
  BY <1>1 DEF Rows
<1> HIDE DEF saved
<1>4. row'[d] = saved /\ \A e \in Docs : e # d => row'[e] = row[e]
  BY <1>2 DEF Inv, TypeOK
<1>5. \A e \in Docs : row'[e].status = row[e].status
  BY <1>3, <1>4
<1>6. TypeOK'
  BY <1>1, <1>2, <1>3 DEF Inv, TypeOK
<1>7. SessionsOK'
  <2> SUFFICES ASSUME NEW o \in Workers PROVE Inserting(o)' /\ Updating(o)' /\ Rejecting(o)'
    BY DEF SessionsOK
  <2>1. Inserting(o) /\ Updating(o) /\ Rejecting(o) /\ req[o].on \in Docs
    BY DEF Inv, SessionsOK, TypeOK, Sessions
  <2> QED
    BY <2>1, <1>1, <1>5 DEF Inserting, Updating, Rejecting, Alone
<1>8. Blobs'
  BY <1>1, <1>5 DEF Inv, Blobs, TypeOK
<1>9. PublishedOnce'
  BY <1>1, <1>5 DEF Inv, PublishedOnce
<1>10. ReadyIsComplete'
  BY <1>1, <1>3, <1>4 DEF Inv, ReadyIsComplete, Complete
<1>11. ExtractingIsClaimed'
  BY <1>3, <1>4 DEF Inv, ExtractingIsClaimed
<1>12. BlobKept'
  BY <1>1, <1>5 DEF Inv, BlobKept, Held
<1> QED
  BY <1>6, <1>7, <1>8, <1>9, <1>10, <1>11, <1>12 DEF Inv

\* The session after its insertion
LEMMA AfterInsertType ==
  ASSUME NEW r \in Sessions, NEW enabled \in BOOLEAN,
         \/ r.new = Captured
         \/ r.new = Recorded /\ r.pc = "attach"
  PROVE  /\ AfterInsert(r, enabled) \in Sessions
         /\ \/ AfterInsert(r, enabled).pc = "idle"
            \/ /\ AfterInsert(r, enabled).pc \in {"claim", "patch"}
               /\ AfterInsert(r, enabled).on = r.on
               /\ Legitimate(AfterInsert(r, enabled).old, AfterInsert(r, enabled).new)
               /\ AfterInsert(r, enabled).pc = "claim" =>
                    AfterInsert(r, enabled).new.status = "EXTRACTING"
<1>1. CASE r.pc = "attach"
  BY <1>1, IdleType DEF AfterInsert
<1>2. CASE r.pc # "attach" /\ enabled
  <2> DEFINE a == [r EXCEPT !.pc = "claim", !.old = r.new, !.new = Claimed(r.new)]
  <2>1. AfterInsert(r, enabled) = a
    BY <1>2 DEF AfterInsert
  <2>2. r.new \in Rows /\ r.new.status = "RECEIVED" /\ r.new.claim = "none"
    BY <1>2, RowTypes
  <2>3. /\ Claimed(r.new) \in Rows /\ Claimed(r.new).status = "EXTRACTING"
        /\ Claimed(r.new).claim = "fresh"
    BY <2>2, ClaimedType
  <2>4. /\ a \in Sessions /\ a.pc = "claim" /\ a.on = r.on
        /\ a.old = r.new /\ a.new = Claimed(r.new)
    BY <2>2, <2>3 DEF Sessions
  <2>5. Legitimate(r.new, Claimed(r.new))
    BY <2>2, <2>3 DEF Legitimate, Extractable
  <2> HIDE DEF a
  <2> QED
    BY <2>1, <2>3, <2>4, <2>5
<1>3. CASE r.pc # "attach" /\ ~enabled
  <2> DEFINE a == [r EXCEPT !.pc = "patch", !.old = r.new, !.new.status = "NEEDS_REVIEW"]
             n == [r.new EXCEPT !.status = "NEEDS_REVIEW"]
  <2>1. AfterInsert(r, enabled) = a
    BY <1>3 DEF AfterInsert
  <2>2. r.new \in Rows /\ r.new.status = "RECEIVED" /\ r.new.claim = "none"
    BY <1>3, RowTypes
  <2>3. n \in Rows /\ n.status = "NEEDS_REVIEW" /\ n.claim = "none"
    BY <2>2 DEF Rows, Statuses
  <2>4. a \in Sessions /\ a.pc = "patch" /\ a.on = r.on /\ a.old = r.new /\ a.new = n
    BY <2>2, <2>3 DEF Sessions
  <2>5. Legitimate(r.new, n)
    BY <2>2, <2>3 DEF Legitimate, Extractable
  <2> HIDE DEF a, n
  <2> QED
    BY <2>1, <2>4, <2>5
<1> QED
  BY <1>1, <1>2, <1>3

LEMMA InsertStep ==
  ASSUME Inv, NEW w \in Workers, NEW enabled \in BOOLEAN, Insert(w, enabled)
  PROVE  Inv'
<1> DEFINE d == req[w].on
           a == AfterInsert(req[w], enabled)
<1>1. /\ req[w] \in Sessions /\ d \in Docs /\ req[w].new \in Rows
      /\ row[d].status = "ABSENT" /\ Alone(w)
      /\ \/ req[w].new = Captured /\ blob[d] = d /\ d \notin gone
         \/ req[w].new = Recorded /\ req[w].pc = "attach"
      /\ req[w].pc \in {"upload", "attach"}
  BY DEF Insert, Inv, TypeOK, Sessions, SessionsOK, Inserting
<1>2. /\ a \in Sessions
      /\ a.pc = "idle" \/ /\ a.pc \in {"claim", "patch"} /\ a.on = d /\ Legitimate(a.old, a.new)
                          /\ a.pc = "claim" => a.new.status = "EXTRACTING"
  BY <1>1, AfterInsertType
<1>3. /\ UNCHANGED <<blob, records, troubles, raced>>
      /\ orphaned' = IF req[w].new = Recorded /\ blob[d] \in gone THEN orphaned \cup {d} ELSE orphaned
      /\ \/ /\ row' = [row EXCEPT ![d] = req[w].new] /\ gone' = gone
            /\ req' = [req EXCEPT ![w] = a]
         \/ /\ row' = row /\ gone' = gone \cup {blob[d]}
            /\ req' = [req EXCEPT ![w] = Idle]
            /\ req[w].new # Recorded
  BY RowTypes DEF Insert, IndexHolds, Live
<1> HIDE DEF a, d
<1>4. \A o \in Workers \ {w} : req[o].pc = "idle" \/ req[o].on # d
  BY <1>1 DEF Alone, d
<1>5. orphaned \subseteq orphaned' /\ orphaned' \subseteq Docs
  BY <1>1, <1>3 DEF Inv, TypeOK
<1>6. CASE row' = [row EXCEPT ![d] = req[w].new] /\ gone' = gone /\ req' = [req EXCEPT ![w] = a]
  <2>1. /\ req' \in [Workers -> Sessions] /\ req'[w] = a
        /\ \A o \in Workers : o # w => req'[o] = req[o]
    BY <1>2, <1>6, Becomes DEF Inv
  <2>2. row'[d] = req[w].new /\ \A e \in Docs : e # d => row'[e] = row[e]
    BY <1>1, <1>6 DEF Inv, TypeOK
  <2>3. req[w].new.status \in {"RECEIVED", "DUPLICATE"}
    BY <1>1, RowTypes
  <2>4. TypeOK'
    BY <1>1, <1>3, <1>5, <1>6, <2>1 DEF Inv, TypeOK
  <2>5. ASSUME NEW o \in Workers PROVE Inserting(o)' /\ Updating(o)' /\ Rejecting(o)'
    <3>1. CASE o = w
      BY <3>1, <1>2, <2>1, <2>2, <2>3 DEF Inserting, Updating, Rejecting
    <3>2. CASE o # w
      <4>1. /\ Inserting(o) /\ Updating(o) /\ Rejecting(o) /\ req[o].on \in Docs
            /\ req'[o] = req[o] /\ (req[o].pc # "idle" => req[o].on # d)
        BY <3>2, <2>1, <1>4 DEF Inv, SessionsOK, TypeOK, Sessions
      <4>2. Inserting(o)'
        BY <4>1, <1>2, <1>3, <1>6, <2>1, <2>2 DEF Inserting, Alone
      <4>3. Updating(o)' /\ Rejecting(o)'
        BY <4>1, <1>2, <2>1, <2>2 DEF Updating, Rejecting
      <4> QED
        BY <4>2, <4>3
    <3> QED
      BY <3>1, <3>2
  <2>6. SessionsOK'
    BY <2>5 DEF SessionsOK
  <2>7. Blobs'
    BY <1>3, <2>2, <2>3 DEF Inv, Blobs, TypeOK
  <2>8. PublishedOnce' /\ ReadyIsComplete' /\ ExtractingIsClaimed'
    BY <1>1, <1>3, <2>2, <2>3
       DEF Inv, PublishedOnce, ReadyIsComplete, ExtractingIsClaimed
  <2>9. BlobKept'
    <3> SUFFICES ASSUME NEW e \in Docs \ (raced \cup orphaned'),
                        row'[e].status \notin {"ABSENT", "REJECTED"}
                 PROVE  Held(e)' \/ blob[e] \notin gone
      BY <1>3, <1>6 DEF BlobKept
    <3>1. CASE e = d
      BY <3>1, <1>1, <1>3, RowTypes DEF d
    <3>2. CASE e # d
      <4>1. Held(e) \/ blob[e] \notin gone
        BY <3>2, <1>5, <2>2 DEF Inv, BlobKept
      <4>2. Held(e) => Held(e)'
        BY <1>1, <2>1 DEF Held
      <4> QED
        BY <4>1, <4>2
    <3> QED
      BY <3>1, <3>2
  <2> QED
    BY <2>4, <2>6, <2>7, <2>8, <2>9 DEF Inv
<1>7. CASE /\ row' = row /\ gone' = gone \cup {blob[d]} /\ req' = [req EXCEPT ![w] = Idle]
           /\ req[w].new # Recorded
  <2>1. /\ req' \in [Workers -> Sessions] /\ req'[w] = Idle
        /\ \A o \in Workers : o # w => req'[o] = req[o]
    BY <1>7, IdleType, Becomes DEF Inv
  <2>2. blob[d] = d /\ orphaned' = orphaned
    BY <1>1, <1>3, <1>7 DEF d
  <2>3. TypeOK'
    BY <1>1, <1>3, <1>5, <1>7, <2>1, <2>2 DEF Inv, TypeOK
  <2>4. ASSUME NEW o \in Workers PROVE Inserting(o)' /\ Updating(o)' /\ Rejecting(o)'
    <3>1. CASE o = w
      BY <3>1, <2>1, IdleType DEF Inserting, Updating, Rejecting
    <3>2. CASE o # w
      <4>1. /\ Inserting(o) /\ Updating(o) /\ Rejecting(o)
            /\ req'[o] = req[o] /\ (req[o].pc # "idle" => req[o].on # d)
        BY <3>2, <2>1, <1>4 DEF Inv, SessionsOK
      <4> QED
        BY <4>1, <1>3, <1>7, <2>1, <2>2, IdleType DEF Inserting, Updating, Rejecting, Alone
    <3> QED
      BY <3>1, <3>2
  <2>5. SessionsOK'
    BY <2>4 DEF SessionsOK
  <2>6. Blobs'
    BY <1>3, <1>7 DEF Inv, Blobs
  <2>7. BlobKept'
    <3> SUFFICES ASSUME NEW e \in Docs \ (raced \cup orphaned),
                        row[e].status \notin {"ABSENT", "REJECTED"}
                 PROVE  Held(e)' \/ blob[e] \notin gone \cup {d}
      BY <1>3, <1>7, <2>2 DEF BlobKept
    <3>1. Held(e) \/ blob[e] \notin gone
      BY DEF Inv, BlobKept
    <3>2. blob[e] # d
      BY <1>1 DEF Inv, Blobs, d
    <3>3. Held(e) => Held(e)'
      BY <1>1, <2>1 DEF Held
    <3> QED
      BY <3>1, <3>2, <3>3
  <2> QED
    BY <1>3, <1>7, <2>3, <2>5, <2>6, <2>7, RowsAlone DEF Inv
<1> QED
  BY <1>3, <1>6, <1>7

\* A blob that is archived for a rejection is no other row's, nor that of an
\* insertion to come: the latter's is its own, or one that a row shares.
LEMMA BeginRejectStep ==
  ASSUME Inv, NEW w \in Workers, NEW d \in Docs, BeginReject(w, d)
  PROVE  Inv'
<1> DEFINE r == [Idle EXCEPT !.pc = "reject", !.on = d]
<1>1. /\ req[w].pc = "idle" /\ ~Held(d) /\ row[d].status \in Reviewable
      /\ gone' = IF Siblings(d) = {} THEN gone \cup {blob[d]} ELSE gone
      /\ req' = [req EXCEPT ![w] = r]
      /\ UNCHANGED <<row, blob, records, troubles, raced, orphaned>>
  BY DEF BeginReject
<1>2. r \in Sessions /\ r.pc = "reject" /\ r.on = d
  BY IdleType DEF Sessions
<1> HIDE DEF r
<1>3. /\ req' \in [Workers -> Sessions] /\ req'[w] = r
      /\ \A o \in Workers : o # w => req'[o] = req[o]
  BY <1>1, <1>2, Becomes DEF Inv
<1>4. blob[d] \in Docs /\ row[d].status # "ABSENT"
  BY <1>1 DEF Inv, TypeOK, Reviewable
<1>5. TypeOK'
  BY <1>1, <1>3, <1>4 DEF Inv, TypeOK
<1>6. \A e \in Docs : row[e].status = "ABSENT" => blob[d] # e
  BY <1>4 DEF Inv, Blobs
<1>7. ASSUME NEW o \in Workers PROVE Inserting(o)' /\ Updating(o)' /\ Rejecting(o)'
  <2>1. CASE o = w
    <3>1. \A v \in Workers \ {w} : req[v].pc = "reject" => req[v].on # d
      BY <1>1 DEF Held
    <3> QED
      BY <2>1, <3>1, <1>1, <1>2, <1>3 DEF Inserting, Updating, Rejecting
  <2>2. CASE o # w
    <3>1. /\ Inserting(o) /\ Updating(o) /\ Rejecting(o)
          /\ req'[o] = req[o] /\ req[o].on \in Docs
      BY <2>2, <1>3 DEF Inv, SessionsOK, TypeOK, Sessions
    <3>2. Inserting(o)'
      BY <3>1, <1>1, <1>2, <1>3, <1>4, <1>6 DEF Inserting, Alone
    <3>3. Updating(o)'
      BY <3>1, <1>1 DEF Updating
    <3>4. Rejecting(o)'
      BY <2>2, <3>1, <1>1, <1>2, <1>3 DEF Rejecting, Held
    <3> QED
      BY <3>2, <3>3, <3>4
  <2> QED
    BY <2>1, <2>2
<1>8. SessionsOK'
  BY <1>7 DEF SessionsOK
<1>9. Blobs'
  BY <1>1 DEF Inv, Blobs
<1>10. BlobKept'
  <2> SUFFICES ASSUME NEW e \in Docs \ (raced \cup orphaned), row[e].status \notin {"ABSENT", "REJECTED"}
               PROVE  Held(e)' \/ blob[e] \notin gone'
    BY <1>1 DEF BlobKept
  <2>1. Held(e) \/ blob[e] \notin gone
    BY DEF Inv, BlobKept
  <2>2. Held(d)' /\ (Held(e) => Held(e)')
    BY <1>1, <1>2, <1>3 DEF Held
  <2>3. e # d /\ Siblings(d) = {} => blob[e] # blob[d]
    BY DEF Siblings
  <2> QED
    BY <2>1, <2>2, <2>3, <1>1
<1> QED
  BY <1>1, <1>5, <1>8, <1>9, <1>10, RowsAlone DEF Inv

LEMMA RejectStep ==
  ASSUME Inv, NEW w \in Workers, Reject(w)
  PROVE  Inv'
<1> DEFINE d == req[w].on
           saved == [Remembered(w, d) EXCEPT !.status = "REJECTED"]
<1>1. /\ req[w].pc = "reject" /\ d \in Docs /\ Rejecting(w)
      /\ row' = [row EXCEPT ![d] = saved] /\ req' = [req EXCEPT ![w] = Idle]
      /\ UNCHANGED <<blob, gone, records, troubles, raced, orphaned>>
  BY DEF Reject, Inv, TypeOK, Sessions, SessionsOK
<1>2. row[d].status \in Reviewable /\ \A o \in Workers \ {w} : req[o].pc = "reject" => req[o].on # d
  BY <1>1 DEF Rejecting
<1>3. Remembered(w, d) \in Rows
  BY <1>1, RowTypes DEF Remembered, Inv, TypeOK
<1>4. saved \in Rows /\ saved.status = "REJECTED"
  BY <1>3 DEF Rows, Statuses
<1> HIDE DEF saved, d
<1>5. /\ req' \in [Workers -> Sessions] /\ req'[w] = Idle
      /\ \A o \in Workers : o # w => req'[o] = req[o]
  BY <1>1, IdleType, Becomes DEF Inv
<1>6. row'[d] = saved /\ \A e \in Docs : e # d => row'[e] = row[e]
  BY <1>1 DEF Inv, TypeOK
<1>7. TypeOK'
  BY <1>1, <1>4, <1>5 DEF Inv, TypeOK
<1>8. ASSUME NEW o \in Workers PROVE Inserting(o)' /\ Updating(o)' /\ Rejecting(o)'
  <2>1. CASE o = w
    BY <2>1, <1>5, IdleType DEF Inserting, Updating, Rejecting
  <2>2. CASE o # w
    <3>1. /\ Inserting(o) /\ Updating(o) /\ Rejecting(o)
          /\ req'[o] = req[o] /\ req[o].on \in Docs
      BY <2>2, <1>5 DEF Inv, SessionsOK, TypeOK, Sessions
    <3>2. req[o].pc \in {"upload", "attach"} => req[o].on # d
      BY <3>1, <1>2 DEF Inserting, Reviewable
    <3>3. Inserting(o)'
      BY <3>1, <3>2, <1>1, <1>5, <1>6, IdleType DEF Inserting, Alone
    <3>4. Updating(o)'
      BY <3>1, <1>4, <1>6 DEF Updating
    <3>5. Rejecting(o)'
      BY <2>2, <3>1, <1>2, <1>5, <1>6, IdleType DEF Rejecting
    <3> QED
      BY <3>3, <3>4, <3>5
  <2> QED
    BY <2>1, <2>2
<1>9. SessionsOK'
  BY <1>8 DEF SessionsOK
<1>10. Blobs'
  BY <1>1, <1>4, <1>6 DEF Inv, Blobs, TypeOK
<1>11. PublishedOnce' /\ ReadyIsComplete' /\ ExtractingIsClaimed'
  BY <1>1, <1>2, <1>4, <1>6
     DEF Inv, PublishedOnce, ReadyIsComplete, ExtractingIsClaimed, Reviewable
<1>12. BlobKept'
  <2> SUFFICES ASSUME NEW e \in Docs \ (raced \cup orphaned),
                      row'[e].status \notin {"ABSENT", "REJECTED"}
               PROVE  Held(e)' \/ blob[e] \notin gone
    BY <1>1 DEF BlobKept
  <2>1. e # d /\ (Held(e) \/ blob[e] \notin gone)
    BY <1>4, <1>6 DEF Inv, BlobKept
  <2>2. Held(e) => Held(e)'
    BY <2>1, <1>5 DEF Held, d
  <2> QED
    BY <2>1, <2>2
<1> QED
  BY <1>7, <1>9, <1>10, <1>11, <1>12 DEF Inv

-----------------------------------------------------------------------------
(***************************************************************************)
(* The invariant, and what follows                                         *)
(***************************************************************************)

LEMMA InvInit == Init => Inv
<1> SUFFICES ASSUME Init PROVE Inv
  OBVIOUS
<1>1. /\ \A d \in Docs : row[d] = NoRow /\ blob[d] = d /\ records[d] = 0
      /\ \A w \in Workers : req[w] = Idle
  BY DEF Init
<1>2. TypeOK
  BY RowTypes, IdleType, DocumentInboxAssumption DEF Init, TypeOK
<1>3. SessionsOK
  BY <1>1, IdleType DEF SessionsOK, Inserting, Updating, Rejecting
<1>4. Blobs /\ PublishedOnce /\ ReadyIsComplete /\ ExtractingIsClaimed /\ BlobKept
  BY <1>1, RowTypes DEF Blobs, PublishedOnce, ReadyIsComplete, ExtractingIsClaimed, BlobKept
<1> QED
  BY <1>2, <1>3, <1>4 DEF Inv

LEMMA InvNext == Inv /\ [Next]_vars => Inv'
<1> SUFFICES ASSUME Inv, [Next]_vars PROVE Inv'
  OBVIOUS
<1>1. CASE UNCHANGED vars
  BY <1>1 DEF vars, Inv, TypeOK, SessionsOK, Inserting, Updating, Rejecting, Alone, Blobs,
     PublishedOnce, ReadyIsComplete, ExtractingIsClaimed, BlobKept, Held
<1>2. ASSUME NEW w \in Jobs, Job(w) PROVE Inv'
  <2>1. w \in Workers
    BY WorkerTypes
  <2>2. ASSUME NEW d \in Docs, SweepClaim(w, d) PROVE Inv'
    BY <2>1, <2>2, SweepClaimStep
  <2>3. ASSUME NEW d \in Docs, Reclaim(w, d) PROVE Inv'
    BY <2>1, <2>3, ReclaimStep
  <2>4. ASSUME NEW d \in Docs, BeginCapture(w, d, "attach") PROVE Inv'
    BY <2>1, <2>4, CaptureStep
  <2>5. ASSUME NEW d \in Docs, NEW o \in Docs, BeginDuplicate(w, d, o) PROVE Inv'
    BY <2>1, <2>5, DuplicateStep
  <2>6. CASE SweepStart(w)
    BY <2>1, <2>6, StartStep
  <2>7. CASE Finish(w)
    BY <2>1, <2>7, SaveStep
  <2>8. CASE Insert(w, FALSE)
    BY <2>1, <2>8, InsertStep
  <2> QED
    BY <1>2, <2>2, <2>3, <2>4, <2>5, <2>6, <2>7, <2>8 DEF Job
<1>3. ASSUME NEW w \in Requests, Request(w) PROVE Inv'
  <2>1. w \in Workers
    BY WorkerTypes
  <2>2. ASSUME NEW d \in Docs, BeginCapture(w, d, "upload") PROVE Inv'
    BY <2>1, <2>2, CaptureStep
  <2>3. ASSUME NEW d \in Docs, NEW override \in BOOLEAN, BeginPatch(w, d, override) PROVE Inv'
    BY <2>1, <2>3, EditStep
  <2>4. ASSUME NEW d \in Docs, BeginRetry(w, d) PROVE Inv'
    BY <2>1, <2>4, RetryStep
  <2>5. ASSUME NEW d \in Docs, BeginReject(w, d) PROVE Inv'
    BY <2>1, <2>5, BeginRejectStep
  <2>6. ASSUME NEW enabled \in BOOLEAN, Insert(w, enabled) PROVE Inv'
    BY <2>1, <2>6, InsertStep
  <2>7. CASE Claim(w) \/ Finish(w) \/ Patch(w)
    BY <2>1, <2>7, SaveStep
  <2>8. CASE Reject(w)
    BY <2>1, <2>8, RejectStep
  <2> QED
    BY <1>3, <2>2, <2>3, <2>4, <2>5, <2>6, <2>7, <2>8 DEF Request
<1>4. ASSUME NEW w \in Workers, Crash(w) PROVE Inv'
  BY <1>4, CrashStep
<1>5. ASSUME NEW d \in Docs, Publish(d) PROVE Inv'
  BY <1>5, PublishStep
<1>6. ASSUME NEW d \in Docs, Pass(d) PROVE Inv'
  BY <1>6, PassStep
<1> QED
  BY <1>1, <1>2, <1>3, <1>4, <1>5, <1>6 DEF Next

LEMMA Invariant == Spec => []Inv
  BY InvInit, InvNext, PTL DEF Spec

\* The tables and the sessions keep their shape.
THEOREM TypeCorrect == Spec => []TypeOK
<1>1. Inv => TypeOK
  BY DEF Inv
<1> QED
  BY Invariant, <1>1, PTL

\* publish_document: a document is published once and then says so, but where
\* a session has committed over a row that had changed since it was read.
THEOREM PublishesOnce == Spec => []PublishedOnce
<1>1. Inv => PublishedOnce
  BY DEF Inv
<1> QED
  BY Invariant, <1>1, PTL

\* recompute_completeness and the outcome of an extraction: what is READY has
\* all that a draft record needs, with the same exception.
THEOREM ReadyHasAll == Spec => []ReadyIsComplete
<1>1. Inv => ReadyIsComplete
  BY DEF Inv
<1> QED
  BY Invariant, <1>1, PTL

\* sweep_reclaim finds every row that an extraction may have been cut on,
\* whoever has committed over it.
THEOREM NothingStaysExtracting == Spec => []ExtractingIsClaimed
<1>1. Inv => ExtractingIsClaimed
  BY DEF Inv
<1> QED
  BY Invariant, <1>1, PTL

\* reject_document archives no blob that another row still shows.
THEOREM KeepsBlobs == Spec => []BlobKept
<1>1. Inv => BlobKept
  BY DEF Inv
<1> QED
  BY Invariant, <1>1, PTL
=============================================================================
