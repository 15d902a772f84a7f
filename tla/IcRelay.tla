------------------------------ MODULE IcRelay -------------------------------
(***************************************************************************)
(* The intercompany relay between two stacks: the originator's outbox      *)
(* (services/intercompany.py post_remote_originator), its dispatchers      *)
(* (services/ic_relay/dispatcher.py), the broker between the stacks and    *)
(* the receiver's webhook (api/v1/intercompany.py accept_relay with        *)
(* services/intercompany.py accept_remote_counterparty).                   *)
(*                                                                         *)
(* A dispatcher pass is one transaction: it locks the due outbox rows,     *)
(* calls the broker for each, notes the outcomes in its session and        *)
(* commits them all at the end.  A crash before that commit releases the   *)
(* rows as they were, whatever has been sent meanwhile.                    *)
(*                                                                         *)
(* The broker is not in this repository.  It is modelled from how the      *)
(* dispatcher reads its answers: a nonce it has seen is answered           *)
(* "duplicate" and not forwarded; "delivered" is answered only for a       *)
(* forwarded message the partner has posted; a call may always fail.  What *)
(* it has accepted it may hand to the partner late and more than once.     *)
(* It is assumed to set the flag "delivered" in every 2xx answer: one      *)
(* without it, or that is no JSON, counts as a delivery                    *)
(* (dispatcher.py:173-179, broker_client.py:95-99), whatever became of it. *)
(*                                                                         *)
(* Time is counted in ticks: age[t] since issued_at, wait until            *)
(* next_attempt_at.  A message is signed once, so its age only grows.      *)
(***************************************************************************)
EXTENDS Integers, FiniteSets

CONSTANTS
  Txns,          \* intercompany events; each has one nonce
  Tokenless,     \* those whose edge has no relay token
  Dispatchers,   \* dispatcher processes
  Handlers,      \* concurrent calls of the receiver's webhook
  MaxAttempts,   \* ic_relay_max_attempts
  Window,        \* ic_relay_freshness_seconds, in ticks
  Base, Cap,     \* _BACKOFF_BASE_SECONDS and _BACKOFF_CAP_SECONDS, in ticks
  MaxCrashes,    \* bound on dispatcher crashes
  None           \* "no event"

ASSUME RelayAssumption ==
  /\ Tokenless \subseteq Txns
  /\ MaxAttempts \in Nat \ {0}
  /\ Window \in Nat
  /\ Base \in Nat \ {0}
  /\ Cap \in Nat
  /\ MaxCrashes \in Nat
  /\ None \notin Txns

VARIABLES
  outbox,        \* table ic_outbox: status, attempts and ticks to the next attempt
  age,           \* ticks since issued_at, counted up to Window + 1
  session,       \* what each dispatcher's open transaction makes of the rows it locked
                 \* (NoRow for the others)
  todo,          \* the locked rows a dispatcher's pass has still to handle
  call,          \* the broker call a dispatcher is waiting for
  crashes,       \* how many passes have crashed
  sends,         \* history: broker calls made for each event
  late,          \* messages under way to the broker whose sender no longer waits
  seen,          \* broker: the nonces it has accepted
  handler,       \* the events the webhook calls are about to post
  inbox,         \* table ic_inbox: the events accepted
  legs           \* the reciprocal journal entries posted for each event

originator == <<outbox, age, session, todo, call, crashes, sends>>
broker     == <<late, seen>>
receiver   == <<handler, inbox, legs>>
vars       == <<originator, broker, receiver>>

NoRow  == [status |-> "NONE", attempts |-> 0, wait |-> 0]
NoCall == [t |-> None, stage |-> "none"]

\* attempts is not bounded in the code; past MaxAttempts + 1 nothing depends
\* on it but the backoff, which Cap bounds.
Bump(attempts) == IF attempts > MaxAttempts THEN attempts ELSE attempts + 1

\* _next_backoff
Backoff(attempts) ==
  LET delay == Base * 2 ^ (attempts - 1) IN IF delay < Cap THEN delay ELSE Cap

Open(row)    == row.status \in {"PENDING", "FAILED"}
Settled(row) == row.status \in {"ACKED", "DEAD"}

-----------------------------------------------------------------------------
(***************************************************************************)
(* The originator posts                                                    *)
(***************************************************************************)

\* post_remote_originator: the leg and the signed outbox row in one commit
Originate(t) ==
  /\ outbox[t] = NoRow
  /\ outbox' = [outbox EXCEPT ![t].status = "PENDING"]
  /\ UNCHANGED <<age, session, todo, call, crashes, sends, broker, receiver>>

Sooner(row) == [row EXCEPT !.wait = IF @ > 0 THEN @ - 1 ELSE 0]

Tick ==
  /\ age' = [t \in Txns |-> IF outbox[t] # NoRow /\ age[t] <= Window THEN age[t] + 1 ELSE age[t]]
  /\ outbox' = [t \in Txns |-> Sooner(outbox[t])]
  /\ session' = [d \in Dispatchers |-> [t \in Txns |-> Sooner(session[d][t])]]
  /\ UNCHANGED <<todo, call, crashes, sends, broker, receiver>>

-----------------------------------------------------------------------------
(***************************************************************************)
(* A dispatcher pass                                                       *)
(***************************************************************************)

Locked(d, t) == session[d][t] # NoRow
InPass(d)    == \E t \in Txns : Locked(d, t)

\* mutant: no FOR UPDATE SKIP LOCKED
UnlockedAlways(t) == TRUE

Unlocked(t) == \A d \in Dispatchers : ~Locked(d, t)

\* mutant: failed rows are never polled again
DuePending(t) == outbox[t].status = "PENDING" /\ outbox[t].wait <= 0

Due(t) == Open(outbox[t]) /\ outbox[t].wait <= 0

\* _drain_tenant, the claim (of at most 50 rows, far more than are due here)
Claim(d) ==
  LET claimed == {t \in Txns : Due(t) /\ Unlocked(t)} IN
  /\ ~InPass(d)
  /\ claimed # {}
  /\ session' = [session EXCEPT ![d] =
                   [t \in Txns |-> IF t \in claimed THEN outbox[t] ELSE NoRow]]
  /\ todo' = [todo EXCEPT ![d] = claimed]
  /\ UNCHANGED <<outbox, age, call, crashes, sends, broker, receiver>>

\* Every failure costs an attempt and a wait; only a call's failure can be
\* the last one.
Failed(row) ==
  [status |-> "FAILED", attempts |-> Bump(row.attempts), wait |-> Backoff(Bump(row.attempts))]

\* mutant: the last attempt is not the last
DeadLate(row) ==
  IF Bump(row.attempts) > MaxAttempts
  THEN [row EXCEPT !.status = "DEAD", !.attempts = Bump(@)]
  ELSE Failed(row)

CallFailed(row) ==
  IF Bump(row.attempts) >= MaxAttempts
  THEN [row EXCEPT !.status = "DEAD", !.attempts = Bump(@)]
  ELSE Failed(row)

\* mutant: SENT, which IcOutboxStatus has and the code never writes
Sent(row) == [status |-> "SENT", attempts |-> Bump(row.attempts), wait |-> 0]

Acked(row) == [status |-> "ACKED", attempts |-> Bump(row.attempts), wait |-> 0]

\* The pass notes in its session that row t becomes `row', and goes on.
Note(d, t, row) ==
  /\ session' = [session EXCEPT ![d][t] = row]
  /\ todo' = [todo EXCEPT ![d] = @ \ {t}]
  /\ call' = [call EXCEPT ![d] = NoCall]
  /\ UNCHANGED <<outbox, age, crashes, sends, seen, receiver>>

\* The edge is gone or no token resolves: backed off, never DEAD.
Skip(d, t) ==
  /\ t \in todo[d] /\ call[d].stage = "none"
  /\ t \in Tokenless
  /\ Note(d, t, Failed(session[d][t]))
  /\ UNCHANGED late

Send(d, t) ==
  /\ t \in todo[d] /\ call[d].stage = "none"
  /\ t \notin Tokenless
  /\ call' = [call EXCEPT ![d] = [t |-> t, stage |-> "sent"]]
  /\ sends' = [sends EXCEPT ![t] = @ + 1]
  /\ UNCHANGED <<outbox, age, session, todo, crashes, broker, receiver>>

\* The sender of d's call gives up on it; a message not yet taken stays under
\* way.
GiveUp(d) == late' = late \cup (IF call[d].stage = "sent" THEN {call[d].t} ELSE {})

\* The call ends in a transport error, a timeout or a status other than 2xx,
\* or in a 2xx that says it was not delivered.
Fail(d) ==
  LET t == call[d].t IN
  /\ call[d].stage # "none"
  /\ Note(d, t, CallFailed(session[d][t]))
  /\ GiveUp(d)

\* mutant: any 2xx is taken for a delivery
AnyAnswer == {"forwarded", "replayed"}

\* the answers that are taken for a delivery
Delivering == {"forwarded"}

\* The broker answers 2xx, with its flags: a replay at once, a first delivery
\* when the partner has accepted it.
Answer(d) ==
  LET t == call[d].t IN
  /\ \/ call[d].stage = "replayed"
     \/ call[d].stage = "forwarded" /\ t \in inbox
  /\ Note(d, t, IF call[d].stage \in Delivering THEN Acked(session[d][t])
                ELSE CallFailed(session[d][t]))
  /\ UNCHANGED late

Commit(d) ==
  /\ InPass(d) /\ todo[d] = {}
  /\ outbox' = [t \in Txns |-> IF Locked(d, t) THEN session[d][t] ELSE outbox[t]]
  /\ session' = [session EXCEPT ![d] = [t \in Txns |-> NoRow]]
  /\ UNCHANGED <<age, todo, call, crashes, sends, broker, receiver>>

\* A crash, a restart or an exception that ends the pass (dispatcher_loop)
Crash(d) ==
  /\ InPass(d)
  /\ crashes < MaxCrashes
  /\ crashes' = crashes + 1
  /\ session' = [session EXCEPT ![d] = [t \in Txns |-> NoRow]]
  /\ todo' = [todo EXCEPT ![d] = {}]
  /\ call' = [call EXCEPT ![d] = NoCall]
  /\ GiveUp(d)
  /\ UNCHANGED <<outbox, age, sends, seen, receiver>>

-----------------------------------------------------------------------------
(***************************************************************************)
(* The broker takes a message (external)                                   *)
(***************************************************************************)

Take(d) ==
  LET t == call[d].t IN
  /\ call[d].stage = "sent"
  /\ seen' = seen \cup {t}
  /\ call' = [call EXCEPT ![d].stage = IF t \in seen THEN "replayed" ELSE "forwarded"]
  /\ UNCHANGED <<outbox, age, session, todo, crashes, sends, late, receiver>>

TakeLate(t) ==
  /\ t \in late
  /\ late' = late \ {t}
  /\ seen' = seen \cup {t}
  /\ UNCHANGED <<originator, receiver>>

-----------------------------------------------------------------------------
(***************************************************************************)
(* The receiver                                                            *)
(***************************************************************************)

\* accept_relay up to the idempotency pre-check.  A stale message ends in
\* 400, a known one in the prior ack, and neither changes anything.
Receive(h, t) ==
  /\ handler[h] = None
  /\ t \in seen
  /\ age[t] <= Window
  /\ t \notin inbox
  /\ handler' = [handler EXCEPT ![h] = t]
  /\ UNCHANGED <<originator, broker, inbox, legs>>

\* mutant: the pre-check is all there is
InsertUnchecked(t) == TRUE

\* UNIQUE(tenant_id, ic_txn_id) and UNIQUE(tenant_id, nonce)
Insert(t) == t \notin inbox

\* accept_remote_counterparty: leg, link and inbox row in one commit
Post(h) ==
  LET t == handler[h] IN
  /\ t # None
  /\ Insert(t)
  /\ inbox' = inbox \cup {t}
  /\ legs' = [legs EXCEPT ![t] = @ + 1]
  /\ handler' = [handler EXCEPT ![h] = None]
  /\ UNCHANGED <<originator, broker>>

\* IntegrityError, a refusal of the posting engine or a crash: rolled back
Refuse(h) ==
  /\ handler[h] # None
  /\ handler' = [handler EXCEPT ![h] = None]
  /\ UNCHANGED <<originator, broker, inbox, legs>>

-----------------------------------------------------------------------------

Init ==
  /\ outbox = [t \in Txns |-> NoRow]
  /\ age = [t \in Txns |-> 0]
  /\ session = [d \in Dispatchers |-> [t \in Txns |-> NoRow]]
  /\ todo = [d \in Dispatchers |-> {}]
  /\ call = [d \in Dispatchers |-> NoCall]
  /\ crashes = 0
  /\ sends = [t \in Txns |-> 0]
  /\ late = {}
  /\ seen = {}
  /\ handler = [h \in Handlers |-> None]
  /\ inbox = {}
  /\ legs = [t \in Txns |-> 0]

Pass(d) ==
  \/ Claim(d)
  \/ \E t \in Txns : Skip(d, t) \/ Send(d, t)
  \/ Fail(d)
  \/ Answer(d)
  \/ Commit(d)

Next ==
  \/ \E t \in Txns : Originate(t) \/ TakeLate(t)
  \/ Tick
  \/ \E d \in Dispatchers : Pass(d) \/ Crash(d) \/ Take(d)
  \/ \E h \in Handlers : (\E t \in Txns : Receive(h, t)) \/ Post(h) \/ Refuse(h)

Spec == Init /\ [][Next]_vars

\* The dispatcher loop polls for ever and every broker call times out, so a
\* pass goes on as long as it can, and time passes.  Nothing is assumed of
\* the broker or of the receiver.
Fairness == WF_vars(Tick) /\ \A d \in Dispatchers : WF_vars(Pass(d))

FairSpec == Spec /\ Fairness

-----------------------------------------------------------------------------
(***************************************************************************)
(* Properties                                                              *)
(***************************************************************************)

OutboxRows ==
  [status : {"NONE", "PENDING", "FAILED", "ACKED", "DEAD"}, attempts : Nat, wait : Int]

CallStates == {NoCall} \cup [t : Txns, stage : {"sent", "forwarded", "replayed"}]

\* The shape of the tables, the passes and the calls.
TypeOK ==
  /\ outbox \in [Txns -> OutboxRows]
  /\ age \in [Txns -> 0..(Window + 1)]
  /\ session \in [Dispatchers -> [Txns -> OutboxRows]]
  /\ todo \in [Dispatchers -> SUBSET Txns]
  /\ call \in [Dispatchers -> CallStates]
  /\ crashes \in 0..MaxCrashes
  /\ sends \in [Txns -> Nat]
  /\ late \subseteq Txns
  /\ seen \subseteq Txns
  /\ handler \in [Handlers -> Txns \cup {None}]
  /\ inbox \subseteq Txns
  /\ legs \in [Txns -> Nat]

\* However often an event is sent, handed over and raced between webhook
\* calls, the partner books it at most once, and only if it was originated
\* (accept_remote_counterparty, the unique constraints of ic_inbox).
OneReciprocalLeg ==
  \A t \in Txns :
    /\ legs[t] = IF t \in inbox THEN 1 ELSE 0
    /\ t \in inbox => outbox[t].status # "NONE"

\* An acknowledged event has been booked by the partner, also when the ack
\* follows lost answers and replays (dispatcher.py:165).
AckedIsPosted == \A t \in Txns : outbox[t].status = "ACKED" => t \in inbox

\* A settled outbox row is never touched again, in particular not by another
\* dispatcher that read it while it was due (FOR UPDATE SKIP LOCKED).
SettledForever ==
  [][\A t \in Txns : Settled(outbox[t]) =>
       outbox'[t].status = outbox[t].status /\ outbox'[t].attempts = outbox[t].attempts]_vars

\* An event is sent at most ic_relay_max_attempts times, and once more for
\* every pass that crashed before its commit.
BoundedSends == \A t \in Txns : sends[t] <= MaxAttempts + crashes

\* The originator always learns what became of an event that could be sent:
\* its row ends ACKED, or DEAD for a human to look at.
EventuallySettled ==
  \A t \in Txns \ Tokenless : outbox[t].status = "PENDING" ~> Settled(outbox[t])

-----------------------------------------------------------------------------
(***************************************************************************)
(* What the documentation says and the code does not do                    *)
(***************************************************************************)

\* "DEAD (max attempts exhausted; surfaced as an unmatched leg for human
\* action" (models/ic.py:111): no DEAD event has been booked by the partner.
DeadIsUnmatched == \A t \in Txns : outbox[t].status = "DEAD" => t \notin inbox

\* "After ic_relay_max_attempts the row goes DEAD" (dispatcher.py:6).
ExhaustedIsDead ==
  \A t \in Txns : outbox[t].attempts >= MaxAttempts => Settled(outbox[t])

=============================================================================
