--------------------------- MODULE DocumentInbox ---------------------------
(***************************************************************************)
(* The document inbox (services/document_inbox.py, api/v1/                 *)
(* document_inbox.py, the inbox-extract sweep of cli/__init__.py and the   *)
(* attachments of services/inbox_mail.py): captured documents are          *)
(* extracted by the request that captured them or by a sweep, reviewed and *)
(* published as draft records, or rejected.                                *)
(*                                                                         *)
(* Publishing and rejecting lock the row.  Every other writer works on     *)
(* what its session read, and its UPDATE names the columns it has changed. *)
(* A sweep claims a row for ten minutes; then any sweep may take it back   *)
(* while the first worker is still busy with it.                           *)
(*                                                                         *)
(* All documents have the same bytes here, which is where the partial      *)
(* unique index acts.  What an extraction, and a reviewer's override, says *)
(* is reduced to whether it makes the document complete.  Left out:        *)
(* supplier rules, the version (whose check is like the journal's), the    *)
(* link of the blob to the record, the replay guard of an e-mail, and the  *)
(* idempotency key of a publish (module PoConversion).                     *)
(***************************************************************************)
EXTENDS Integers, FiniteSets

CONSTANTS
  Requests,     \* request sessions that may run at once
  Jobs,         \* runs of the cron jobs inbox-extract and inbox-poll-mail at one time
  Docs,         \* rows of inbox_documents, also the names of their blobs
  MaxAttempts,  \* SWEEP_MAX_ATTEMPTS
  MaxTroubles,  \* bound on the crashes, the retries by hand and the overrides, together
  MaxRecords    \* bound on the records created from one document

ASSUME DocumentInboxAssumption ==
  /\ Requests \cap Jobs = {} /\ Docs # {}
  /\ MaxAttempts \in Nat \ {0} /\ MaxTroubles \in Nat /\ MaxRecords \in Nat

VARIABLES
  row,       \* table inbox_documents: extract and override say whether each would make the
             \* document complete
  blob,      \* vault_file_id of every row
  gone,      \* the blobs archived in the vault
  records,   \* draft records created from a document
  req,       \* the running requests and sweeps
  troubles,  \* crashes, retries and overrides so far
  raced,     \* history: rows over which a session committed what it had worked out from
             \* an older status, extract or override
  orphaned   \* history: rows whose rejection was cut after the blob was archived, and
             \* duplicates recorded when their original's blob was archived already

vars == <<row, blob, gone, records, req, troubles, raced, orphaned>>

Workers == Requests \cup Jobs

NoRow == [status |-> "ABSENT", attempts |-> 0, claim |-> "none", backoff |-> FALSE,
          extract |-> FALSE, override |-> FALSE]
Idle  == [pc |-> "idle", on |-> CHOOSE d \in Docs : TRUE, old |-> NoRow, new |-> NoRow]

Init ==
  /\ row = [d \in Docs |-> NoRow]
  /\ blob = [d \in Docs |-> d]
  /\ gone = {}
  /\ records = [d \in Docs |-> 0]
  /\ req = [w \in Workers |-> Idle]
  /\ troubles = 0
  /\ raced = {} /\ orphaned = {}

-----------------------------------------------------------------------------
(***************************************************************************)
(* Rows                                                                    *)
(***************************************************************************)

\* The rows that the partial unique index on the bytes' hash holds
Live(status) == status \notin {"ABSENT", "REJECTED", "DUPLICATE"}

IndexHolds(d, status) == Live(status) => \A o \in Docs \ {d} : ~Live(row[o].status)

\* A rejection has the row locked.
Held(d) == \E w \in Workers : req[w].pc = "reject" /\ req[w].on = d

\* The UPDATE writes the columns that the session has changed.  Times always
\* differ from those that were read, for which old has a value of its own.
Flushed(d, old, new) ==
  LET Column(f) == IF new[f] = old[f] THEN row[d][f] ELSE new[f] IN
  [status   |-> Column("status"),  attempts |-> Column("attempts"),
   claim    |-> Column("claim"),   backoff  |-> Column("backoff"),
   extract  |-> Column("extract"), override |-> Column("override")]

Behind(d, old) == \E f \in {"status", "extract", "override"} : row[d][f] # old[f]

\* w commits new over d, of which it had read old, and goes on as r; or it
\* fails on the unique index and is done.
Save(w, d, old, new, r) ==
  LET saved == Flushed(d, old, new)
      fits  == IndexHolds(d, saved.status) IN
  /\ ~Held(d)
  /\ row'   = IF fits THEN [row EXCEPT ![d] = saved] ELSE row
  /\ raced' = IF fits /\ Behind(d, old) THEN raced \cup {d} ELSE raced
  /\ req'   = [req EXCEPT ![w] = IF fits THEN r ELSE Idle]
  /\ UNCHANGED <<blob, gone, records, troubles, orphaned>>

\* What w reads of d
Read(d) == [row[d] EXCEPT !.claim = "old", !.backoff = FALSE]

\* w has read d as old and means to save it as new.
Load(w, d, pc, old, new) ==
  req' = [req EXCEPT ![w] = [pc |-> pc, on |-> d, old |-> old, new |-> new]]

\* mutant: the claim is not stamped
Unstamped(r) == [r EXCEPT !.status = "EXTRACTING"]

Claimed(r) == [r EXCEPT !.status = "EXTRACTING", !.claim = "fresh"]

\* The statuses with a legal transition to EXTRACTING, and the reviewable ones
Extractable == {"RECEIVED", "NEEDS_REVIEW", "READY", "FAILED"}
Reviewable  == {"NEEDS_REVIEW", "READY", "FAILED"}

\* is_ready, of the extract overlaid by the override
Complete(r) == r.override \/ r.extract

\* mutant: what was READY stays so
CompletenessOnce(r) == IF r.status = "READY" \/ Complete(r) THEN "READY" ELSE "NEEDS_REVIEW"

Completeness(r) == IF Complete(r) THEN "READY" ELSE "NEEDS_REVIEW"

-----------------------------------------------------------------------------
(***************************************************************************)
(* Capture: ingest, ingest_email_attachment                                *)
(***************************************************************************)

Unused(d) == row[d].status = "ABSENT" /\ \A w \in Workers : req[w].pc # "idle" => req[w].on # d

Captured == [NoRow EXCEPT !.status = "RECEIVED"]
Recorded == [NoRow EXCEPT !.status = "DUPLICATE"]

\* The pre-check has found no live row of these bytes, and the blob is stored.
BeginCapture(w, d, pc) ==
  /\ req[w].pc = "idle" /\ Unused(d)
  /\ \A o \in Docs : ~Live(row[o].status)
  /\ Load(w, d, pc, NoRow, Captured)
  /\ blob' = [blob EXCEPT ![d] = d] /\ gone' = gone \ {d}
  /\ UNCHANGED <<row, records, troubles, raced, orphaned>>

\* The attachment's bytes are live already: a row for the audit, on the same
\* blob.  (An upload answers with the live row and changes nothing.)
BeginDuplicate(w, d, o) ==
  /\ req[w].pc = "idle" /\ Unused(d)
  /\ Live(row[o].status)
  /\ Load(w, d, "attach", NoRow, Recorded)
  /\ blob' = [blob EXCEPT ![d] = blob[o]]
  /\ UNCHANGED <<row, gone, records, troubles, raced, orphaned>>

\* The request of an upload goes on to the extraction, or to manual keying in
\* an edition without it.  An attachment waits for the sweep.
AfterInsert(r, enabled) ==
  CASE r.pc = "attach"            -> Idle
    [] r.pc # "attach" /\ enabled  -> [r EXCEPT !.pc = "claim", !.old = r.new, !.new = Claimed(r.new)]
    [] r.pc # "attach" /\ ~enabled -> [r EXCEPT !.pc = "patch", !.old = r.new,
                                                !.new.status = "NEEDS_REVIEW"]

\* The row is inserted, unless another was first: then the blob is archived.
Insert(w, enabled) ==
  LET r == req[w]
      fits == IndexHolds(r.on, r.new.status) IN
  /\ r.pc \in {"upload", "attach"}
  /\ row'  = IF fits THEN [row EXCEPT ![r.on] = r.new] ELSE row
  /\ gone' = IF fits THEN gone ELSE gone \cup {blob[r.on]}
  /\ req'  = [req EXCEPT ![w] = IF fits THEN AfterInsert(r, enabled) ELSE Idle]
  /\ orphaned' = IF r.new = Recorded /\ blob[r.on] \in gone THEN orphaned \cup {r.on} ELSE orphaned
  /\ UNCHANGED <<blob, records, troubles, raced>>

-----------------------------------------------------------------------------
(***************************************************************************)
(* Extraction: run_extraction, the sweep, _extract_claimed                 *)
(***************************************************************************)

\* mutant: so that the attempt of the retry is not counted
Uncounted(r) == [r EXCEPT !.attempts = -1]

Recounted(r) == [r EXCEPT !.attempts = 0]

\* retry_extraction
BeginRetry(w, d) ==
  /\ req[w].pc = "idle"
  /\ row[d].status \in Extractable
  /\ troubles < MaxTroubles /\ troubles' = troubles + 1
  /\ Load(w, d, "claim", [Read(d) EXCEPT !.backoff = TRUE], Recounted(Claimed(Read(d))))
  /\ UNCHANGED <<row, blob, gone, records, raced, orphaned>>

Claim(w) ==
  LET r == req[w] IN
  /\ r.pc = "claim"
  /\ Save(w, r.on, r.old, r.new,
          [r EXCEPT !.pc = "extract", !.old = [r.new EXCEPT !.claim = "old"], !.new = NoRow])

\* sweep_claim: FOR UPDATE SKIP LOCKED
SweepClaim(w, d) ==
  /\ req[w].pc = "idle"
  /\ row[d].status = "RECEIVED" /\ ~row[d].backoff
  /\ row' = [row EXCEPT ![d] = Claimed(row[d])]
  /\ req' = [req EXCEPT ![w] = [Idle EXCEPT !.pc = "claimed", !.on = d]]
  /\ UNCHANGED <<blob, gone, records, troubles, raced, orphaned>>

\* sweep_process_claimed, when the batch gets to d: the claim it finds may be
\* another worker's by now.
SweepStart(w) ==
  LET d == req[w].on IN
  /\ req[w].pc = "claimed"
  /\ IF row[d].status = "EXTRACTING" THEN Load(w, d, "extract", Read(d), NoRow)
     ELSE req' = [req EXCEPT ![w] = Idle]
  /\ UNCHANGED <<row, blob, gone, records, troubles, raced, orphaned>>

\* Back to RECEIVED with a backoff, or given up
Failed(r) ==
  IF r.attempts >= MaxAttempts THEN [r EXCEPT !.status = "FAILED"]
  ELSE [r EXCEPT !.status = "RECEIVED", !.backoff = TRUE]

\* What becomes of a row that was read as r: extracted; extracted with an
\* error of the model; a transport failure; not extracted in this edition.
Outcomes(r) ==
  LET tried == [r EXCEPT !.attempts = @ + 1, !.claim = "none"]
      full  == [tried EXCEPT !.extract = TRUE]
      poor  == [tried EXCEPT !.extract = FALSE] IN
  {[full EXCEPT !.status = Completeness(full)],
   [poor EXCEPT !.status = Completeness(poor)],
   [poor EXCEPT !.status = "NEEDS_REVIEW"],
   Failed(tried),
   [r EXCEPT !.claim = "none", !.status = "NEEDS_REVIEW"]}

Finish(w) ==
  LET r == req[w] IN
  /\ r.pc = "extract"
  /\ \E new \in Outcomes(r.old) : Save(w, r.on, r.old, new, Idle)

\* mutant: only rows that are claimed and not yet extracting
Unclaimed(r) == r.status = "RECEIVED" /\ r.claim = "old"

Reclaimable(r) == r.status = "EXTRACTING" /\ r.claim = "old"

\* sweep_reclaim, at the start of a sweep
Reclaim(w, d) ==
  /\ req[w].pc = "idle"
  /\ Reclaimable(row[d])
  /\ row' = [row EXCEPT ![d].status = "RECEIVED", ![d].claim = "none"]
  /\ UNCHANGED <<blob, gone, records, req, troubles, raced, orphaned>>

\* Ten minutes have passed since the claim, or the backoff is over.
Pass(d) ==
  /\ row[d].claim = "fresh" \/ row[d].backoff
  /\ row' = [row EXCEPT ![d].claim = IF @ = "fresh" THEN "old" ELSE @, ![d].backoff = FALSE]
  /\ UNCHANGED <<blob, gone, records, req, troubles, raced, orphaned>>

-----------------------------------------------------------------------------
(***************************************************************************)
(* Review                                                                  *)
(***************************************************************************)

\* patch_document: an override, and recompute_completeness
BeginPatch(w, d, override) ==
  LET edited == [Read(d) EXCEPT !.override = override] IN
  /\ req[w].pc = "idle"
  /\ row[d].status \in Extractable \cup {"EXTRACTING"}
  /\ IF override THEN troubles < MaxTroubles ELSE row[d].override
  /\ troubles' = IF override THEN troubles + 1 ELSE troubles
  /\ Load(w, d, "patch", Read(d), IF row[d].status \in {"NEEDS_REVIEW", "READY"}
                                 THEN [edited EXCEPT !.status = Completeness(edited)] ELSE edited)
  /\ UNCHANGED <<row, blob, gone, records, raced, orphaned>>

Patch(w) ==
  LET r == req[w] IN
  /\ r.pc = "patch"
  /\ Save(w, r.on, r.old, r.new, Idle)

\* mutant: a published document may be published again
PublishableAgain(status) == status \in Reviewable \cup {"PUBLISHED"}

Publishable(status) == status \in Reviewable

\* publish_document: the record and the status commit together, with the row
\* locked since it was read.
Publish(d) ==
  /\ ~Held(d)
  /\ Publishable(row[d].status)
  /\ records[d] < MaxRecords
  /\ row' = [row EXCEPT ![d].status = "PUBLISHED"]
  /\ records' = [records EXCEPT ![d] = @ + 1]
  /\ UNCHANGED <<blob, gone, req, troubles, raced, orphaned>>

\* mutant: the blob is archived whoever shares it
NoSiblings(d) == {}

\* count_blob_siblings
Siblings(d) == {o \in Docs \ {d} : row[o].status # "ABSENT" /\ blob[o] = blob[d]}

\* reject_document: the row is locked and the blob archived,
BeginReject(w, d) ==
  /\ req[w].pc = "idle" /\ ~Held(d)
  /\ row[d].status \in Reviewable
  /\ gone' = IF Siblings(d) = {} THEN gone \cup {blob[d]} ELSE gone
  /\ req' = [req EXCEPT ![w] = [Idle EXCEPT !.pc = "reject", !.on = d]]
  /\ UNCHANGED <<row, blob, records, troubles, raced, orphaned>>

\* What anybody will still read of d when it is closed: all of it while
\* another session works on it, or nothing, which keeps the state space small.
Remembered(w, d) ==
  IF \E other \in Workers \ {w} : req[other].pc # "idle" /\ req[other].on = d
  THEN row[d] ELSE NoRow

\* and the status committed.
Reject(w) ==
  /\ req[w].pc = "reject"
  /\ row' = [row EXCEPT ![req[w].on] = [Remembered(w, req[w].on) EXCEPT !.status = "REJECTED"]]
  /\ req' = [req EXCEPT ![w] = Idle]
  /\ UNCHANGED <<blob, gone, records, troubles, raced, orphaned>>

-----------------------------------------------------------------------------
\* The worker dies, or an error rolls the open transaction back.
Crash(w) ==
  /\ req[w].pc # "idle"
  /\ troubles < MaxTroubles /\ troubles' = troubles + 1
  /\ orphaned' = IF req[w].pc = "reject" THEN orphaned \cup {req[w].on} ELSE orphaned
  /\ req' = [req EXCEPT ![w] = Idle]
  /\ UNCHANGED <<row, blob, gone, records, raced>>

Job(w) ==
  \/ \E d \in Docs :
       \/ SweepClaim(w, d) \/ Reclaim(w, d)
       \/ BeginCapture(w, d, "attach")
       \/ \E o \in Docs : BeginDuplicate(w, d, o)
  \/ SweepStart(w) \/ Finish(w) \/ Insert(w, FALSE)

Request(w) ==
  \/ \E d \in Docs :
       \/ BeginCapture(w, d, "upload")
       \/ \E override \in BOOLEAN : BeginPatch(w, d, override)
       \/ BeginRetry(w, d) \/ BeginReject(w, d)
  \/ \E enabled \in BOOLEAN : Insert(w, enabled)
  \/ Claim(w) \/ Finish(w) \/ Patch(w) \/ Reject(w)

Next ==
  \/ \E w \in Jobs : Job(w)
  \/ \E w \in Requests : Request(w)
  \/ \E w \in Workers : Crash(w)
  \/ \E d \in Docs : Publish(d) \/ Pass(d)

Spec == Init /\ [][Next]_vars

\* Cron starts the jobs again and again, every call it makes times out, and
\* time passes.  Of requests nothing is assumed but that a rejection, whose
\* call of the vault times out too, does not keep its lock for ever.
Fairness ==
  /\ \A w \in Jobs : WF_vars(Job(w))
  /\ \A w \in Requests : WF_vars(Reject(w))
  /\ \A d \in Docs : WF_vars(Pass(d))

FairSpec == Spec /\ Fairness

-----------------------------------------------------------------------------
(***************************************************************************)
(* Properties                                                              *)
(***************************************************************************)

Statuses == {"ABSENT", "RECEIVED", "EXTRACTING", "NEEDS_REVIEW", "READY", "FAILED",
             "PUBLISHED", "REJECTED", "DUPLICATE"}

Rows ==
  [status : Statuses, attempts : Nat, claim : {"none", "fresh", "old"}, backoff : BOOLEAN,
   extract : BOOLEAN, override : BOOLEAN]

Sessions ==
  [pc : {"idle", "upload", "attach", "claim", "claimed", "extract", "patch", "reject"},
   on : Docs, old : Rows, new : Rows]

\* The shape of the tables and the requests.
TypeOK ==
  /\ row \in [Docs -> Rows]
  /\ blob \in [Docs -> Docs]
  /\ gone \subseteq Docs
  /\ records \in [Docs -> Nat]
  /\ req \in [Workers -> Sessions]
  /\ troubles \in 0..MaxTroubles
  /\ raced \subseteq Docs /\ orphaned \subseteq Docs

\* A document becomes a draft record once, and a document that has become one
\* says so: unless a retry, an edit or a late extraction has committed over a
\* row that had changed since it was read.
PublishedOnce ==
  \A d \in Docs \ raced : records[d] = IF row[d].status = "PUBLISHED" THEN 1 ELSE 0

\* READY means one-click-publishable: the override and the extract make the
\* document complete, whichever of the review and the extraction was saved
\* last, with the same exception.
ReadyIsComplete ==
  \A d \in Docs \ raced : row[d].status = "READY" => Complete(row[d])

\* What is EXTRACTING is claimed, however late workers and retries commit over
\* it: without a claim that ages no sweep would take it back, and no route
\* lets a human touch it.
ExtractingIsClaimed ==
  \A d \in Docs : row[d].status = "EXTRACTING" => row[d].claim # "none"

\* Every row but the rejected ones has its blob, also the duplicates that
\* share one, with the same exception and two more: a rejection that was cut
\* after it had archived the blob, and a duplicate recorded of an original
\* whose rejection had archived it.
BlobKept ==
  \A d \in Docs \ (raced \cup orphaned) :
    row[d].status \in {"ABSENT", "REJECTED"} \/ Held(d) \/ blob[d] \notin gone

\* A captured document is always settled, whatever becomes of the request that
\* captured it: it comes to be reviewed or closed, or has FAILED.
EventuallySettled ==
  \A d \in Docs :
    row[d].status \in {"RECEIVED", "EXTRACTING"} ~> row[d].status \notin {"RECEIVED", "EXTRACTING"}

\* _LEGAL_TRANSITIONS: "DUPLICATE, PUBLISHED, REJECTED terminal."
TerminalForever ==
  [][\A d \in Docs : row[d].status \in {"PUBLISHED", "REJECTED", "DUPLICATE"} =>
       row'[d].status = row[d].status]_vars
=============================================================================
