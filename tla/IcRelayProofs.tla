--------------------------- MODULE IcRelayProofs ----------------------------
(***************************************************************************)
(* What the relay guarantees for every number of events, dispatchers and   *)
(* webhook calls, every freshness window and backoff, and any number of    *)
(* lost, late and repeated messages.                                       *)
(*                                                                         *)
(* The invariant is built in three layers: the types; what a pass knows of *)
(* the rows it has locked (PassOK) and where events can be (ReachOK); and  *)
(* how many calls can have been made for an event (SendsOK).               *)
(***************************************************************************)
EXTENDS IcRelay, TLAPS

USE RelayAssumption

-----------------------------------------------------------------------------
(***************************************************************************)
(* Rows                                                                    *)
(***************************************************************************)

\* A failed or acknowledged attempt leaves an outbox row, with an attempt more.
LEMMA RowsType ==
  ASSUME NEW row \in OutboxRows
  PROVE  /\ Failed(row) \in OutboxRows /\ Failed(row).status = "FAILED"
         /\ Acked(row) \in OutboxRows /\ Acked(row).status = "ACKED"
         /\ CallFailed(row) \in OutboxRows /\ CallFailed(row).status \in {"FAILED", "DEAD"}
<1>1. Bump(row.attempts) \in Nat /\ Bump(row.attempts) >= 1
  BY DEF Bump, OutboxRows
<1>2. Backoff(Bump(row.attempts)) \in Int
  BY <1>1 DEF Backoff
<1>3. Failed(row) \in OutboxRows /\ Failed(row).status = "FAILED"
  BY <1>1, <1>2 DEF Failed, OutboxRows
<1>4. Acked(row) \in OutboxRows /\ Acked(row).status = "ACKED"
  BY <1>1 DEF Acked, OutboxRows
<1>5. [row EXCEPT !.status = "DEAD", !.attempts = Bump(@)] \in OutboxRows
  BY <1>1 DEF OutboxRows
<1>6. [row EXCEPT !.status = "DEAD", !.attempts = Bump(@)].status = "DEAD"
  BY DEF OutboxRows
<1> QED
  BY <1>3, <1>4, <1>5, <1>6 DEF CallFailed

\* So does the passing of time.
LEMMA SoonerType ==
  ASSUME NEW row \in OutboxRows
  PROVE  /\ Sooner(row) \in OutboxRows
         /\ Sooner(row).status = row.status
         /\ Sooner(row).attempts = row.attempts
         /\ row = NoRow => Sooner(row) = NoRow
<1> QED
  BY DEF Sooner, OutboxRows, NoRow

\* A row that was never written is an outbox row.
LEMMA NoRowType == NoRow \in OutboxRows
<1> QED
  BY DEF NoRow, OutboxRows

-----------------------------------------------------------------------------
(***************************************************************************)
(* Types                                                                   *)
(***************************************************************************)

\* An outcome a pass notes keeps the types.
LEMMA NoteType ==
  ASSUME TypeOK, NEW d \in Dispatchers, NEW t \in Txns, NEW row \in OutboxRows,
         Note(d, t, row), late' \subseteq Txns
  PROVE  TypeOK'
<1>1. session' \in [Dispatchers -> [Txns -> OutboxRows]]
  BY DEF TypeOK, Note
<1>2. todo' \in [Dispatchers -> SUBSET Txns]
  BY DEF TypeOK, Note
<1>3. call' \in [Dispatchers -> CallStates]
  BY DEF TypeOK, Note, CallStates
<1> QED
  BY <1>1, <1>2, <1>3 DEF TypeOK, Note, receiver

\* A call that is under way is about an event.
LEMMA CallTyped ==
  ASSUME TypeOK, NEW d \in Dispatchers, call[d].stage # "none"
  PROVE  /\ call[d] \in [t : Txns, stage : {"sent", "forwarded", "replayed"}]
         /\ call[d].t \in Txns
<1> QED
  BY DEF TypeOK, CallStates, NoCall

\* The tables, passes and calls keep their types.
LEMMA TypeInv == TypeOK /\ [Next]_vars => TypeOK'
<1> SUFFICES ASSUME TypeOK, [Next]_vars PROVE TypeOK'
  OBVIOUS
<1> USE NoRowType
<1>1. ASSUME NEW t \in Txns, Originate(t) PROVE TypeOK'
  <2>1. outbox' \in [Txns -> OutboxRows]
    BY <1>1 DEF TypeOK, Originate, OutboxRows
  <2> QED
    BY <1>1, <2>1 DEF TypeOK, Originate, broker, receiver
<1>2. ASSUME Tick PROVE TypeOK'
  <2>1. outbox' \in [Txns -> OutboxRows]
    BY <1>2, SoonerType DEF TypeOK, Tick
  <2>2. session' \in [Dispatchers -> [Txns -> OutboxRows]]
    BY <1>2, SoonerType DEF TypeOK, Tick
  <2>3. age' \in [Txns -> 0..(Window + 1)]
    BY <1>2 DEF TypeOK, Tick
  <2> QED
    BY <1>2, <2>1, <2>2, <2>3 DEF TypeOK, Tick, broker, receiver
<1>3. ASSUME NEW d \in Dispatchers, Claim(d) PROVE TypeOK'
  <2>1. session' \in [Dispatchers -> [Txns -> OutboxRows]]
    BY <1>3 DEF TypeOK, Claim
  <2>2. todo' \in [Dispatchers -> SUBSET Txns]
    BY <1>3 DEF TypeOK, Claim
  <2> QED
    BY <1>3, <2>1, <2>2 DEF TypeOK, Claim, broker, receiver
<1>4. ASSUME NEW d \in Dispatchers, NEW t \in Txns, Skip(d, t) PROVE TypeOK'
  BY <1>4, RowsType, NoteType DEF TypeOK, Skip
<1>5. ASSUME NEW d \in Dispatchers, NEW t \in Txns, Send(d, t) PROVE TypeOK'
  <2>1. call' \in [Dispatchers -> CallStates]
    BY <1>5 DEF TypeOK, Send, CallStates
  <2>2. sends' \in [Txns -> Nat]
    BY <1>5 DEF TypeOK, Send
  <2> QED
    BY <1>5, <2>1, <2>2 DEF TypeOK, Send, broker, receiver
<1>6. ASSUME NEW d \in Dispatchers, Fail(d) PROVE TypeOK'
  BY <1>6, CallTyped, RowsType, NoteType DEF TypeOK, Fail, GiveUp
<1>7. ASSUME NEW d \in Dispatchers, Answer(d) PROVE TypeOK'
  BY <1>7, CallTyped, RowsType, NoteType DEF TypeOK, Answer
<1>8. ASSUME NEW d \in Dispatchers, Commit(d) PROVE TypeOK'
  <2>1. outbox' \in [Txns -> OutboxRows]
    BY <1>8 DEF TypeOK, Commit
  <2>2. session' \in [Dispatchers -> [Txns -> OutboxRows]]
    BY <1>8 DEF TypeOK, Commit
  <2> QED
    BY <1>8, <2>1, <2>2 DEF TypeOK, Commit, broker, receiver
<1>9. ASSUME NEW d \in Dispatchers, Crash(d) PROVE TypeOK'
  <2>1. session' \in [Dispatchers -> [Txns -> OutboxRows]]
    BY <1>9 DEF TypeOK, Crash
  <2>2. todo' \in [Dispatchers -> SUBSET Txns] /\ crashes' \in 0..MaxCrashes
    BY <1>9 DEF TypeOK, Crash
  <2>3. call' \in [Dispatchers -> CallStates]
    BY <1>9 DEF TypeOK, Crash, CallStates
  <2> QED
    BY <1>9, <2>1, <2>2, <2>3, CallTyped DEF TypeOK, Crash, GiveUp, receiver
<1>10. ASSUME NEW d \in Dispatchers, Take(d) PROVE TypeOK'
  <2>1. call' \in [Dispatchers -> CallStates]
    BY <1>10, CallTyped DEF TypeOK, Take, CallStates
  <2> QED
    BY <1>10, <2>1, CallTyped DEF TypeOK, Take, receiver
<1>11. ASSUME NEW t \in Txns, TakeLate(t) PROVE TypeOK'
  BY <1>11 DEF TypeOK, TakeLate, originator, receiver
<1>12. ASSUME NEW h \in Handlers, NEW t \in Txns, Receive(h, t) PROVE TypeOK'
  BY <1>12 DEF TypeOK, Receive, originator, broker
<1>13. ASSUME NEW h \in Handlers, Post(h) PROVE TypeOK'
  BY <1>13 DEF TypeOK, Post, originator, broker
<1>14. ASSUME NEW h \in Handlers, Refuse(h) PROVE TypeOK'
  BY <1>14 DEF TypeOK, Refuse, originator, broker
<1>15. ASSUME UNCHANGED vars PROVE TypeOK'
  BY <1>15 DEF TypeOK, vars, originator, broker, receiver
<1> QED
  BY <1>1, <1>2, <1>3, <1>4, <1>5, <1>6, <1>7, <1>8, <1>9, <1>10, <1>11, <1>12,
     <1>13, <1>14, <1>15 DEF Next, Pass

-----------------------------------------------------------------------------
(***************************************************************************)
(* Locks                                                                   *)
(***************************************************************************)

\* What dispatcher d's pass may rely on: the rows it holds are still open and
\* nobody else holds them, those it has not handled are as in the table, an
\* ack it noted is true, and its call is about a row it has still to handle.
PassOK(d) ==
  /\ \A t \in Txns : Locked(d, t) =>
       /\ Open(outbox[t])
       /\ session[d][t].status # "NONE"
       /\ session[d][t].status = "ACKED" => t \in inbox
       /\ \A c \in Dispatchers : Locked(c, t) => c = d
  /\ \A t \in todo[d] : Locked(d, t) /\ session[d][t] = outbox[t]
  /\ call[d].stage # "none" => call[d].t \in todo[d]

\* Where an event can have got to
ReachOK ==
  /\ \A t \in seen \cup late : outbox[t].status # "NONE"
  /\ \A h \in Handlers : handler[h] # None => handler[h] \in seen
  /\ OneReciprocalLeg
  /\ AckedIsPosted

PassesOK == \A d \in Dispatchers : PassOK(d)

RelayInv == TypeOK /\ PassesOK /\ ReachOK

\* Noting an outcome keeps what the passes know, if an ack that is noted is true.
LEMMA NoteKeeps ==
  ASSUME RelayInv, NEW d \in Dispatchers, NEW t \in todo[d], NEW row \in OutboxRows,
         Note(d, t, row), row.status # "NONE", row.status = "ACKED" => t \in inbox
  PROVE  PassesOK'
<1> SUFFICES ASSUME NEW c \in Dispatchers PROVE PassOK(c)'
  BY DEF PassesOK
<1>1. TypeOK /\ t \in Txns /\ row # NoRow
  BY DEF RelayInv, TypeOK, NoRow
<1>2. PassOK(d) /\ PassOK(c) /\ \A e \in Dispatchers : PassOK(e)
  BY DEF RelayInv, PassesOK
<1>3. /\ session'[d][t] = row
      /\ \A e \in Dispatchers, x \in Txns : <<e, x>> # <<d, t>> => session'[e][x] = session[e][x]
      /\ outbox' = outbox /\ inbox' = inbox
      /\ \A e \in Dispatchers : e # d => todo'[e] = todo[e] /\ call'[e] = call[e]
      /\ todo'[d] = todo[d] \ {t}
      /\ call'[d].stage = "none"
  BY <1>1 DEF TypeOK, Note, receiver, NoCall
<1>4. Locked(d, t)
  BY <1>2 DEF PassOK
<1>5. \A e \in Dispatchers, x \in Txns : Locked(e, x)' <=> Locked(e, x)
  BY <1>1, <1>3, <1>4 DEF Locked
<1>6. todo[d] \subseteq Txns /\ todo[c] \subseteq Txns
  BY <1>1 DEF TypeOK
<1>7. \A x \in Txns : Locked(c, x)' =>
       /\ Open(outbox[x])'
       /\ session'[c][x].status # "NONE"
       /\ (session[c][x].status = "ACKED" => x \in inbox)'
       /\ \A e \in Dispatchers : Locked(e, x)' => e = c
  BY <1>1, <1>2, <1>3, <1>4, <1>5 DEF PassOK
<1>8. \A x \in todo'[c] : Locked(c, x)' /\ session'[c][x] = outbox'[x]
  BY <1>1, <1>2, <1>3, <1>4, <1>5, <1>6 DEF PassOK
<1>9. call'[c].stage # "none" => call'[c].t \in todo'[c]
  BY <1>1, <1>2, <1>3, <1>4, <1>5, <1>6 DEF PassOK
<1> QED
  BY <1>7, <1>8, <1>9 DEF PassOK

\* A step that leaves the dispatchers and the outbox alone keeps what the
\* passes know.
LEMMA PassesStay ==
  ASSUME RelayInv, UNCHANGED <<outbox, session, todo>>, inbox \subseteq inbox',
         \A d \in Dispatchers : call'[d].stage # "none" => call'[d].t \in todo[d]
  PROVE  PassesOK'
<1> QED
  BY DEF RelayInv, PassesOK, PassOK, Locked

\* Opening a pass locks rows nobody holds.
LEMMA ClaimKeeps ==
  ASSUME RelayInv, NEW d \in Dispatchers, Claim(d)
  PROVE  PassesOK'
<1> SUFFICES ASSUME NEW c \in Dispatchers PROVE PassOK(c)'
  BY DEF PassesOK
<1> DEFINE claimed == {t \in Txns : Due(t) /\ Unlocked(t)}
<1>1. \A e \in Dispatchers : PassOK(e)
  BY DEF RelayInv, PassesOK
<1>2. /\ \A e \in Dispatchers, x \in Txns : e # d => session'[e][x] = session[e][x]
      /\ \A x \in Txns : session'[d][x] = IF x \in claimed THEN outbox[x] ELSE NoRow
      /\ todo'[d] = claimed
      /\ \A e \in Dispatchers : e # d => todo'[e] = todo[e]
      /\ outbox' = outbox /\ inbox' = inbox /\ call' = call
  BY DEF RelayInv, TypeOK, Claim, receiver
<1>3. \A x \in claimed : Open(outbox[x]) /\ outbox[x] # NoRow
  BY DEF Due, Open, NoRow
<1>4. call[d].stage = "none"
  <2>1. \A x \in Txns : ~Locked(d, x)
    BY DEF Claim, InPass
  <2>2. todo[d] \subseteq Txns
    BY DEF RelayInv, TypeOK
  <2> QED
    BY <1>1, <2>1, <2>2 DEF PassOK
<1>5. todo[c] \subseteq Txns
  BY DEF RelayInv, TypeOK
<1>6. CASE c = d
  <2>1. \A x \in Txns : Locked(c, x)' <=> x \in claimed
    BY <1>2, <1>3, <1>6 DEF Locked
  <2>2. \A x \in claimed, e \in Dispatchers : Locked(e, x)' => e = d
    BY <1>2 DEF Locked, Unlocked
  <2>3. \A x \in claimed : outbox[x].status \notin {"ACKED", "NONE"}
    BY <1>3 DEF Open
  <2> QED
    BY <1>2, <1>3, <1>4, <1>6, <2>1, <2>2, <2>3 DEF PassOK
<1>7. CASE c # d
  <2>1. \A x \in Txns : Locked(c, x)' <=> Locked(c, x)
    BY <1>2, <1>7 DEF Locked
  <2>2. \A x \in Txns : Locked(c, x) => x \notin claimed
    BY DEF Unlocked
  <2>3. \A x \in Txns, e \in Dispatchers : Locked(c, x) /\ Locked(e, x)' => e = c
    BY <1>1, <1>2, <2>2 DEF Locked, PassOK
  <2> QED
    BY <1>1, <1>2, <1>5, <1>7, <2>1, <2>3 DEF PassOK
<1> QED
  BY <1>6, <1>7

\* Closing a pass, with or without writing its rows, frees them: nobody else
\* relies on them.
LEMMA CloseKeeps ==
  ASSUME RelayInv, NEW d \in Dispatchers,
         session' = [session EXCEPT ![d] = [t \in Txns |-> NoRow]],
         todo' = [todo EXCEPT ![d] = {}],
         call' = [call EXCEPT ![d] = NoCall],
         inbox' = inbox,
         \A t \in Txns : ~Locked(d, t) => outbox'[t] = outbox[t]
  PROVE  PassesOK'
<1> SUFFICES ASSUME NEW c \in Dispatchers PROVE PassOK(c)'
  BY DEF PassesOK
<1>1. \A e \in Dispatchers : PassOK(e)
  BY DEF RelayInv, PassesOK
<1>2. /\ \A e \in Dispatchers, x \in Txns : e # d => session'[e][x] = session[e][x]
      /\ \A x \in Txns : session'[d][x] = NoRow
      /\ todo'[d] = {} /\ call'[d].stage = "none"
      /\ \A e \in Dispatchers : e # d => todo'[e] = todo[e] /\ call'[e] = call[e]
  BY DEF RelayInv, TypeOK, NoCall
<1>3. todo[c] \subseteq Txns
  BY DEF RelayInv, TypeOK
<1>4. CASE c = d
  BY <1>2, <1>4 DEF PassOK, Locked
<1>5. CASE c # d
  <2>1. \A x \in Txns : Locked(c, x)' <=> Locked(c, x)
    BY <1>2, <1>5 DEF Locked
  <2>2. \A x \in Txns : Locked(c, x) => outbox'[x] = outbox[x]
    BY <1>1, <1>5 DEF PassOK
  <2>3. \A x \in Txns, e \in Dispatchers : Locked(e, x)' => Locked(e, x)
    BY <1>2 DEF Locked
  <2> QED
    BY <1>1, <1>2, <1>3, <1>5, <2>1, <2>2, <2>3 DEF PassOK
<1> QED
  BY <1>4, <1>5

\* Every step keeps what the passes know.
LEMMA PassesInv == RelayInv /\ [Next]_vars => PassesOK'
<1> SUFFICES ASSUME RelayInv, [Next]_vars PROVE PassesOK'
  OBVIOUS
<1> USE DEF originator, broker, receiver
<1>a. TypeOK /\ \A d \in Dispatchers : PassOK(d)
  BY DEF RelayInv, PassesOK
<1>b. \A d \in Dispatchers : todo[d] \subseteq Txns
  BY <1>a DEF TypeOK
<1>c. \A d \in Dispatchers : call[d].stage # "none" => call[d].t \in todo[d]
  BY <1>a DEF PassOK
<1>d. \A d \in Dispatchers : \A t \in todo[d] : session[d][t] \in OutboxRows
  BY <1>a, <1>b DEF TypeOK
<1>1. ASSUME NEW t \in Txns, Originate(t) PROVE PassesOK'
  <2>1. \A x \in Txns : x # t => outbox'[x] = outbox[x]
    BY <1>1, <1>a DEF Originate, TypeOK
  <2>2. \A d \in Dispatchers : ~Locked(d, t)
    BY <1>1, <1>a DEF Originate, PassOK, Open, NoRow
  <2> QED
    BY <1>1, <1>a, <1>b, <2>1, <2>2 DEF Originate, PassesOK, PassOK, Locked, Open
<1>2. ASSUME Tick PROVE PassesOK'
  <2>1. \A t \in Txns : outbox'[t] = Sooner(outbox[t]) /\ outbox'[t].status = outbox[t].status
    BY <1>2, <1>a, SoonerType DEF Tick, TypeOK
  <2>2. \A d \in Dispatchers, t \in Txns :
          /\ session'[d][t] = Sooner(session[d][t])
          /\ session'[d][t].status = session[d][t].status
          /\ Locked(d, t)' => Locked(d, t)
    BY <1>2, <1>a, SoonerType DEF Tick, TypeOK, Locked
  <2>3. \A t \in Txns : Open(outbox[t])' <=> Open(outbox[t])
    BY <2>1 DEF Open
  <2>4. todo' = todo /\ call' = call /\ inbox' = inbox
    BY <1>2 DEF Tick
  <2>5. \A d \in Dispatchers : \A t \in todo[d] : Locked(d, t)' /\ session'[d][t] = outbox'[t]
    <3> SUFFICES ASSUME NEW d \in Dispatchers, NEW t \in todo[d]
                 PROVE  Locked(d, t)' /\ session'[d][t] = outbox'[t]
      OBVIOUS
    <3>1. t \in Txns /\ Locked(d, t) /\ session[d][t] = outbox[t] /\ Open(outbox[t])
      BY <1>a, <1>b DEF PassOK
    <3> QED
      BY <2>1, <2>2, <3>1 DEF Locked, Open, NoRow
  <2> QED
    BY <1>a, <2>2, <2>3, <2>4, <2>5 DEF PassesOK, PassOK
<1>3. ASSUME NEW d \in Dispatchers, Claim(d) PROVE PassesOK'
  BY <1>3, ClaimKeeps
<1>4. ASSUME NEW d \in Dispatchers, NEW t \in Txns, Skip(d, t) PROVE PassesOK'
  BY <1>4, <1>d, RowsType, NoteKeeps DEF Skip
<1>5. ASSUME NEW d \in Dispatchers, NEW t \in Txns, Send(d, t) PROVE PassesOK'
  <2>1. \A c \in Dispatchers : call'[c].stage # "none" => call'[c].t \in todo[c]
    BY <1>5, <1>a, <1>c DEF Send, TypeOK
  <2> QED
    BY <1>5, <2>1, PassesStay DEF Send
<1>6. ASSUME NEW d \in Dispatchers, Fail(d) PROVE PassesOK'
  BY <1>6, <1>c, <1>d, RowsType, NoteKeeps DEF Fail
<1>7. ASSUME NEW d \in Dispatchers, Answer(d) PROVE PassesOK'
  <2> DEFINE t == call[d].t
  <2>1. t \in todo[d] /\ session[d][t] \in OutboxRows
    BY <1>7, <1>c, <1>d DEF Answer
  <2>2. CASE call[d].stage = "replayed"
    <3>1. Note(d, t, CallFailed(session[d][t]))
      BY <1>7, <2>2 DEF Answer, Delivering
    <3> QED
      BY <2>1, <3>1, RowsType, NoteKeeps
  <2>3. CASE call[d].stage = "forwarded" /\ t \in inbox
    <3>1. Note(d, t, Acked(session[d][t]))
      BY <1>7, <2>3 DEF Answer, Delivering
    <3> QED
      BY <2>1, <2>3, <3>1, RowsType, NoteKeeps
  <2> QED
    BY <1>7, <2>2, <2>3 DEF Answer
<1>8. ASSUME NEW d \in Dispatchers, Commit(d) PROVE PassesOK'
  <2>1. call[d].stage = "none"
    BY <1>8, <1>c DEF Commit
  <2>2. call[d] = NoCall
    BY <1>a, <2>1 DEF TypeOK, CallStates
  <2>3. call' = [call EXCEPT ![d] = NoCall] /\ todo' = [todo EXCEPT ![d] = {}]
    BY <1>8, <1>a, <2>2 DEF Commit, TypeOK
  <2>4. \A t \in Txns : ~Locked(d, t) => outbox'[t] = outbox[t]
    BY <1>8 DEF Commit
  <2> QED
    BY <1>8, <2>3, <2>4, CloseKeeps DEF Commit
<1>9. ASSUME NEW d \in Dispatchers, Crash(d) PROVE PassesOK'
  BY <1>9, CloseKeeps DEF Crash
<1>10. ASSUME NEW d \in Dispatchers, Take(d) PROVE PassesOK'
  <2>1. \A c \in Dispatchers : call'[c].stage # "none" => call'[c].t \in todo[c]
    BY <1>10, <1>a, <1>c, CallTyped DEF Take, TypeOK
  <2> QED
    BY <1>10, <2>1, PassesStay DEF Take
<1>11. ASSUME NEW t \in Txns, TakeLate(t) PROVE PassesOK'
  BY <1>11, <1>c, PassesStay DEF TakeLate
<1>12. ASSUME NEW h \in Handlers, NEW t \in Txns, Receive(h, t) PROVE PassesOK'
  BY <1>12, <1>c, PassesStay DEF Receive
<1>13. ASSUME NEW h \in Handlers, Post(h) PROVE PassesOK'
  BY <1>13, <1>c, PassesStay DEF Post
<1>14. ASSUME NEW h \in Handlers, Refuse(h) PROVE PassesOK'
  BY <1>14, <1>c, PassesStay DEF Refuse
<1>15. ASSUME UNCHANGED vars PROVE PassesOK'
  BY <1>15, <1>c, PassesStay DEF vars
<1> QED
  BY <1>1, <1>2, <1>3, <1>4, <1>5, <1>6, <1>7, <1>8, <1>9, <1>10, <1>11, <1>12,
     <1>13, <1>14, <1>15 DEF Next, Pass

-----------------------------------------------------------------------------
(***************************************************************************)
(* Where events get to                                                     *)
(***************************************************************************)

\* A step that moves no event keeps ReachOK: rows keep being originated, and
\* only true acks are written.
LEMMA ReachStays ==
  ASSUME ReachOK, UNCHANGED <<seen, receiver>>,
         \A t \in late' : outbox[t].status # "NONE",
         \A t \in seen \cup late' \cup inbox :
           outbox[t].status # "NONE" => outbox'[t].status # "NONE",
         \A t \in Txns : outbox'[t].status = "ACKED" => outbox[t].status = "ACKED" \/ t \in inbox
  PROVE  ReachOK'
<1> QED
  BY DEF ReachOK, OneReciprocalLeg, AckedIsPosted, receiver

\* Every step keeps ReachOK.
LEMMA ReachInv == RelayInv /\ [Next]_vars => ReachOK'
<1> SUFFICES ASSUME RelayInv, [Next]_vars PROVE ReachOK'
  OBVIOUS
<1> USE DEF originator, broker
<1>a. TypeOK /\ ReachOK /\ \A d \in Dispatchers : PassOK(d)
  BY DEF RelayInv, PassesOK
<1>b. seen \cup late \cup inbox \subseteq Txns
  BY <1>a DEF TypeOK
<1>c. \A d \in Dispatchers : call[d].stage # "none" =>
        call[d].t \in Txns /\ outbox[call[d].t].status # "NONE"
  BY <1>a, CallTyped DEF PassOK, Open
<1>d. \A d \in Dispatchers : GiveUp(d) => \A t \in late' : outbox[t].status # "NONE"
  BY <1>a, <1>c DEF GiveUp, ReachOK
<1>1. ASSUME NEW t \in Txns, Originate(t) PROVE ReachOK'
  <2>1. \A x \in Txns : x # t => outbox'[x] = outbox[x]
    BY <1>1, <1>a DEF Originate, TypeOK
  <2>2. outbox'[t].status = "PENDING"
    BY <1>1, <1>a DEF Originate, TypeOK, OutboxRows
  <2> QED
    BY <1>1, <1>a, <1>b, <2>1, <2>2, ReachStays DEF Originate, ReachOK
<1>2. ASSUME Tick PROVE ReachOK'
  <2>1. \A t \in Txns : outbox'[t].status = outbox[t].status
    BY <1>2, <1>a, SoonerType DEF Tick, TypeOK
  <2> QED
    BY <1>2, <1>a, <1>b, <2>1, ReachStays DEF Tick, ReachOK
<1>3. ASSUME NEW d \in Dispatchers, Claim(d) PROVE ReachOK'
  BY <1>3, <1>a, ReachStays DEF Claim, ReachOK
<1>4. ASSUME NEW d \in Dispatchers, NEW t \in Txns, Skip(d, t) PROVE ReachOK'
  BY <1>4, <1>a, ReachStays DEF Skip, Note, ReachOK
<1>5. ASSUME NEW d \in Dispatchers, NEW t \in Txns, Send(d, t) PROVE ReachOK'
  BY <1>5, <1>a, ReachStays DEF Send, ReachOK
<1>6. ASSUME NEW d \in Dispatchers, Fail(d) PROVE ReachOK'
  BY <1>6, <1>a, <1>d, ReachStays DEF Fail, Note
<1>7. ASSUME NEW d \in Dispatchers, Answer(d) PROVE ReachOK'
  BY <1>7, <1>a, ReachStays DEF Answer, Note, ReachOK
<1>8. ASSUME NEW d \in Dispatchers, Commit(d) PROVE ReachOK'
  <2>1. \A t \in Txns : outbox'[t] = IF Locked(d, t) THEN session[d][t] ELSE outbox[t]
    BY <1>8 DEF Commit
  <2>2. \A t \in Txns : Locked(d, t) => session[d][t].status # "NONE"
    BY <1>a DEF PassOK
  <2> QED
    BY <1>8, <1>a, <1>b, <2>1, <2>2, ReachStays DEF Commit, PassOK, ReachOK
<1>9. ASSUME NEW d \in Dispatchers, Crash(d) PROVE ReachOK'
  BY <1>9, <1>a, <1>d, ReachStays DEF Crash
<1>10. ASSUME NEW d \in Dispatchers, Take(d) PROVE ReachOK'
  BY <1>10, <1>a, <1>c DEF Take, ReachOK, OneReciprocalLeg, AckedIsPosted, receiver
<1>11. ASSUME NEW t \in Txns, TakeLate(t) PROVE ReachOK'
  BY <1>11, <1>a DEF TakeLate, ReachOK, OneReciprocalLeg, AckedIsPosted, receiver
<1>12. ASSUME NEW h \in Handlers, NEW t \in Txns, Receive(h, t) PROVE ReachOK'
  BY <1>12, <1>a DEF Receive, TypeOK, ReachOK, OneReciprocalLeg, AckedIsPosted
<1>13. ASSUME NEW h \in Handlers, Post(h) PROVE ReachOK'
  BY <1>13, <1>a DEF Post, Insert, TypeOK, ReachOK, OneReciprocalLeg, AckedIsPosted
<1>14. ASSUME NEW h \in Handlers, Refuse(h) PROVE ReachOK'
  BY <1>14, <1>a DEF Refuse, TypeOK, ReachOK, OneReciprocalLeg, AckedIsPosted
<1>15. ASSUME UNCHANGED vars PROVE ReachOK'
  BY <1>15, <1>a, ReachStays DEF vars, ReachOK
<1> QED
  BY <1>1, <1>2, <1>3, <1>4, <1>5, <1>6, <1>7, <1>8, <1>9, <1>10, <1>11, <1>12,
     <1>13, <1>14, <1>15 DEF Next, Pass

-----------------------------------------------------------------------------
(***************************************************************************)
(* How often events are sent                                               *)
(***************************************************************************)

InFlight(d, t) == IF call[d].stage # "none" /\ call[d].t = t THEN 1 ELSE 0

\* Every call made for event t is paid for: by an attempt in the table or in
\* the session of the pass that holds the row, by a crash, or by being the
\* one call under way.
Paid(t) ==
  /\ outbox[t].attempts <= MaxAttempts
  /\ Open(outbox[t]) => outbox[t].attempts < MaxAttempts
  /\ Unlocked(t) => sends[t] <= outbox[t].attempts + crashes
  /\ \A d \in Dispatchers :
       /\ t \in todo[d] => sends[t] <= outbox[t].attempts + crashes + InFlight(d, t)
       /\ Locked(d, t) /\ t \notin todo[d] =>
            /\ session[d][t].attempts = outbox[t].attempts + 1
            /\ session[d][t].attempts <= MaxAttempts
            /\ Open(session[d][t]) => session[d][t].attempts < MaxAttempts
            /\ sends[t] <= session[d][t].attempts + crashes

SendsOK ==
  /\ \A t \in Tokenless : sends[t] = 0
  /\ \A t \in Txns \ Tokenless : Paid(t)

\* A row with an attempt left has one attempt more after a failure, and is
\* settled by the last one.
LEMMA RowsCount ==
  ASSUME NEW row \in OutboxRows, row.attempts < MaxAttempts
  PROVE  /\ CallFailed(row).attempts = row.attempts + 1
         /\ Open(CallFailed(row)) => row.attempts + 1 < MaxAttempts
         /\ Acked(row).attempts = row.attempts + 1
         /\ ~Open(Acked(row))
<1>1. Bump(row.attempts) = row.attempts + 1
  BY DEF Bump, OutboxRows
<1>2. Failed(row).attempts = row.attempts + 1
  BY <1>1 DEF Failed
<1>3. [row EXCEPT !.status = "DEAD", !.attempts = Bump(@)].attempts = row.attempts + 1
  BY <1>1 DEF OutboxRows
<1>4. [row EXCEPT !.status = "DEAD", !.attempts = Bump(@)].status = "DEAD"
  BY DEF OutboxRows
<1>5. Acked(row).attempts = row.attempts + 1 /\ ~Open(Acked(row))
  BY <1>1 DEF Acked, Open
<1> QED
  BY <1>1, <1>2, <1>3, <1>4, <1>5 DEF CallFailed, Open, OutboxRows

\* The numbers Paid adds up
LEMMA SendsType ==
  ASSUME TypeOK, NEW t \in Txns
  PROVE  /\ sends[t] \in Nat /\ outbox[t].attempts \in Nat /\ crashes \in Nat
         /\ \A d \in Dispatchers : session[d][t].attempts \in Nat /\ InFlight(d, t) \in Nat
<1> QED
  BY DEF TypeOK, OutboxRows, InFlight

\* Noting an outcome pays for the call.
LEMMA NotePaid ==
  ASSUME RelayInv, SendsOK, NEW d \in Dispatchers, NEW t \in todo[d], NEW row \in OutboxRows,
         Note(d, t, row), row.status # "NONE",
         call[d].stage # "none" => call[d].t = t,
         t \notin Tokenless => /\ row.attempts = session[d][t].attempts + 1
                               /\ row.attempts <= MaxAttempts
                               /\ Open(row) => row.attempts < MaxAttempts
  PROVE  SendsOK'
<1>1. TypeOK /\ t \in Txns /\ \A e \in Dispatchers : PassOK(e)
  BY DEF RelayInv, TypeOK, PassesOK
<1>2. /\ session'[d][t] = row
      /\ \A e \in Dispatchers, y \in Txns : <<e, y>> # <<d, t>> => session'[e][y] = session[e][y]
      /\ outbox' = outbox /\ sends' = sends /\ crashes' = crashes
      /\ \A e \in Dispatchers : e # d => todo'[e] = todo[e] /\ call'[e] = call[e]
      /\ todo'[d] = todo[d] \ {t}
      /\ call'[d].stage = "none"
  BY <1>1 DEF TypeOK, Note, NoCall
<1>3. Locked(d, t) /\ session[d][t] = outbox[t]
  BY <1>1 DEF PassOK
<1>4. \A e \in Dispatchers, y \in Txns : Locked(e, y)' <=> Locked(e, y)
  BY <1>1, <1>2, <1>3 DEF Locked, NoRow
<1>5. \A y \in Txns : Unlocked(y)' <=> Unlocked(y)
  BY <1>4 DEF Unlocked
<1> SUFFICES ASSUME NEW x \in Txns \ Tokenless PROVE Paid(x)'
  BY <1>2 DEF SendsOK
<1>6. Paid(x)
  BY DEF SendsOK
<1>7. \A c \in Dispatchers :
        x \in todo'[c] => sends[x] <= outbox[x].attempts + crashes + InFlight(c, x)'
  BY <1>1, <1>2, <1>6 DEF Paid, InFlight
<1>8. ASSUME NEW c \in Dispatchers, Locked(c, x), x \notin todo'[c]
      PROVE  /\ session'[c][x].attempts = outbox[x].attempts + 1
             /\ session'[c][x].attempts <= MaxAttempts
             /\ Open(session'[c][x]) => session'[c][x].attempts < MaxAttempts
             /\ sends[x] <= session'[c][x].attempts + crashes
  <2>1. CASE c = d /\ x = t
    <3>1. sends[t] <= outbox[t].attempts + crashes + InFlight(d, t)
      BY <1>6, <2>1 DEF Paid
    <3>2. InFlight(d, t) \in {0, 1}
      BY DEF InFlight
    <3>3. row.attempts = outbox[t].attempts + 1
      BY <1>3, <2>1
    <3> QED
      BY <1>1, <1>2, <2>1, <3>1, <3>2, <3>3, SendsType
  <2>2. CASE <<c, x>> # <<d, t>>
    <3>1. session'[c][x] = session[c][x] /\ x \notin todo[c]
      BY <1>2, <1>8, <2>2
    <3> QED
      BY <1>6, <1>8, <3>1 DEF Paid
  <2> QED
    BY <2>1, <2>2
<1> QED
  BY <1>2, <1>4, <1>5, <1>6, <1>7, <1>8 DEF Paid

\* Closing a pass: what it noted is either written or lost to a crash.
LEMMA ClosePaid ==
  ASSUME RelayInv, SendsOK, NEW d \in Dispatchers,
         session' = [session EXCEPT ![d] = [t \in Txns |-> NoRow]],
         todo' = [todo EXCEPT ![d] = {}],
         call' = [call EXCEPT ![d] = NoCall],
         sends' = sends,
         \/ /\ todo[d] = {}
            /\ crashes' = crashes
            /\ \A t \in Txns : outbox'[t] = IF Locked(d, t) THEN session[d][t] ELSE outbox[t]
         \/ outbox' = outbox /\ crashes' = crashes + 1
  PROVE  SendsOK'
<1>1. TypeOK /\ \A e \in Dispatchers : PassOK(e)
  BY DEF RelayInv, PassesOK
<1>2. /\ \A e \in Dispatchers, y \in Txns : e # d => session'[e][y] = session[e][y]
      /\ \A y \in Txns : session'[d][y] = NoRow
      /\ todo'[d] = {} /\ call'[d].stage = "none"
      /\ \A e \in Dispatchers : e # d => todo'[e] = todo[e] /\ call'[e] = call[e]
  BY <1>1 DEF TypeOK, NoCall
<1> SUFFICES ASSUME NEW x \in Txns \ Tokenless PROVE Paid(x)'
  BY DEF SendsOK
<1>3. Paid(x)
  BY DEF SendsOK
<1>4. /\ ~Locked(d, x)'
      /\ \A e \in Dispatchers : e # d => (Locked(e, x)' <=> Locked(e, x))
  BY <1>2 DEF Locked
<1>5. /\ sends[x] \in Nat /\ outbox[x].attempts \in Nat /\ crashes \in Nat
      /\ \A e \in Dispatchers : session[e][x].attempts \in Nat
      /\ \A e \in Dispatchers : InFlight(e, x) \in {0, 1}
  BY <1>1, SendsType DEF InFlight
<1>6. CASE Locked(d, x)
  <2>1. \A e \in Dispatchers : e # d => ~Locked(e, x) /\ x \notin todo[e]
    BY <1>1, <1>6 DEF PassOK
  <2>2. \A e \in Dispatchers : ~Locked(e, x)' /\ x \notin todo'[e]
    BY <1>2, <1>4, <2>1
  <2>3. /\ outbox'[x].attempts <= MaxAttempts
        /\ Open(outbox'[x]) => outbox'[x].attempts < MaxAttempts
        /\ sends[x] <= outbox'[x].attempts + crashes'
    <3>1. CASE x \in todo[d]
      BY <1>3, <1>5, <3>1 DEF Paid
    <3>2. CASE x \notin todo[d]
      BY <1>3, <1>5, <1>6, <3>2 DEF Paid
    <3> QED
      BY <3>1, <3>2
  <2> QED
    BY <2>2, <2>3 DEF Paid
<1>7. CASE ~Locked(d, x)
  <2>1. outbox'[x] = outbox[x] /\ crashes' \in {crashes, crashes + 1}
    BY <1>7
  <2>2. Unlocked(x)' => Unlocked(x)
    BY <1>4, <1>7 DEF Unlocked
  <2>3. \A e \in Dispatchers : x \in todo'[e] => x \in todo[e] /\ InFlight(e, x)' = InFlight(e, x)
    BY <1>2 DEF InFlight
  <2>4. \A e \in Dispatchers : Locked(e, x)' /\ x \notin todo'[e] =>
          Locked(e, x) /\ x \notin todo[e] /\ session'[e][x] = session[e][x]
    BY <1>2, <1>4
  <2> QED
    BY <1>3, <1>5, <2>1, <2>2, <2>3, <2>4 DEF Paid
<1> QED
  BY <1>6, <1>7

\* A step that leaves attempts, locks and calls alone owes nothing.
LEMMA PaidStays ==
  ASSUME SendsOK, UNCHANGED <<todo, crashes, sends>>,
         \A d \in Dispatchers, t \in Txns :
           /\ Locked(d, t)' <=> Locked(d, t)
           /\ InFlight(d, t)' = InFlight(d, t)
           /\ session'[d][t].attempts = session[d][t].attempts
           /\ session'[d][t].status = session[d][t].status,
         \A t \in Txns :
           /\ outbox'[t].attempts = outbox[t].attempts
           /\ Open(outbox[t])' => Open(outbox[t]) \/ outbox[t] = NoRow
  PROVE  SendsOK'
<1> SUFFICES ASSUME NEW x \in Txns \ Tokenless PROVE Paid(x)'
  BY DEF SendsOK
<1>1. Paid(x)
  BY DEF SendsOK
<1>2. Unlocked(x)' <=> Unlocked(x)
  BY DEF Unlocked
<1>3. outbox[x] = NoRow => outbox[x].attempts < MaxAttempts
  BY DEF NoRow
<1> QED
  BY <1>1, <1>2, <1>3 DEF Paid, Open

\* Every step keeps the account of the calls.
LEMMA SendsInv == RelayInv /\ SendsOK /\ [Next]_vars => SendsOK'
<1> SUFFICES ASSUME RelayInv, SendsOK, [Next]_vars PROVE SendsOK'
  OBVIOUS
<1> USE DEF originator, broker, receiver
<1>a. TypeOK /\ \A d \in Dispatchers : PassOK(d)
  BY DEF RelayInv, PassesOK
<1>b. \A d \in Dispatchers : todo[d] \subseteq Txns
  BY <1>a DEF TypeOK
<1>c. \A d \in Dispatchers : call[d].stage # "none" => call[d].t \in todo[d]
  BY <1>a DEF PassOK
<1>d. \A d \in Dispatchers : \A t \in todo[d] :
        session[d][t] \in OutboxRows /\ Open(outbox[t]) /\ session[d][t] = outbox[t]
  BY <1>a, <1>b DEF TypeOK, PassOK
<1>e. \A d \in Dispatchers : \A t \in todo[d] \ Tokenless : session[d][t].attempts < MaxAttempts
  BY <1>b, <1>d DEF SendsOK, Paid
<1>f. \A t \in Txns : outbox[t] \in OutboxRows /\ outbox[t].attempts \in Nat
  BY <1>a DEF TypeOK, OutboxRows
<1>1. ASSUME NEW t \in Txns, Originate(t) PROVE SendsOK'
  <2>1. \A x \in Txns : x # t => outbox'[x] = outbox[x]
    BY <1>1, <1>a DEF Originate, TypeOK
  <2>2. outbox'[t].attempts = outbox[t].attempts /\ outbox[t] = NoRow
    BY <1>1, <1>a DEF Originate, TypeOK, OutboxRows
  <2> QED
    BY <1>1, <2>1, <2>2, PaidStays DEF Originate, Locked, InFlight
<1>2. ASSUME Tick PROVE SendsOK'
  <2>1. \A t \in Txns : outbox'[t].status = outbox[t].status /\ outbox'[t].attempts = outbox[t].attempts
    BY <1>2, <1>a, SoonerType DEF Tick, TypeOK
  <2>2. \A d \in Dispatchers, t \in Txns :
          /\ session'[d][t].status = session[d][t].status
          /\ session'[d][t].attempts = session[d][t].attempts
          /\ Locked(d, t)' => Locked(d, t)
    BY <1>2, <1>a, SoonerType DEF Tick, TypeOK, Locked
  <2>3. \A d \in Dispatchers, t \in Txns : Locked(d, t) => Locked(d, t)'
    BY <1>a, <2>2 DEF PassOK, Locked, NoRow
  <2> QED
    BY <1>2, <2>1, <2>2, <2>3, PaidStays DEF Tick, InFlight, Open
<1>3. ASSUME NEW d \in Dispatchers, Claim(d) PROVE SendsOK'
  <2> SUFFICES ASSUME NEW x \in Txns \ Tokenless PROVE Paid(x)'
    BY <1>3 DEF SendsOK, Claim
  <2> DEFINE claimed == {t \in Txns : Due(t) /\ Unlocked(t)}
  <2>1. /\ \A e \in Dispatchers, y \in Txns : e # d => session'[e][y] = session[e][y]
        /\ \A y \in Txns : session'[d][y] = IF y \in claimed THEN outbox[y] ELSE NoRow
        /\ todo'[d] = claimed
        /\ \A e \in Dispatchers : e # d => todo'[e] = todo[e]
        /\ outbox' = outbox /\ sends' = sends /\ crashes' = crashes /\ call' = call
    BY <1>3, <1>a DEF Claim, TypeOK
  <2>2. Paid(x)
    BY DEF SendsOK
  <2>3. \A e \in Dispatchers, t \in Txns : InFlight(e, t)' = InFlight(e, t)
    BY <2>1 DEF InFlight
  <2>4. \A e \in Dispatchers : InFlight(e, x) \in {0, 1}
    BY DEF InFlight
  <2>5. sends[x] \in Nat /\ outbox[x].attempts \in Nat /\ crashes \in Nat
    BY <1>a, SendsType
  <2>6. Unlocked(x)' => Unlocked(x)
    BY <1>3, <2>1 DEF Unlocked, Locked, Claim, InPass
  <2>7. \A e \in Dispatchers : x \in todo'[e] =>
          sends[x] <= outbox[x].attempts + crashes + InFlight(e, x)
    BY <2>1, <2>2, <2>4, <2>5 DEF Paid
  <2>8. \A e \in Dispatchers : Locked(e, x)' /\ x \notin todo'[e] =>
          e # d /\ Locked(e, x) /\ x \notin todo[e] /\ session'[e][x] = session[e][x]
    BY <2>1 DEF Locked
  <2> QED
    BY <2>1, <2>2, <2>3, <2>6, <2>7, <2>8 DEF Paid
<1>4. ASSUME NEW d \in Dispatchers, NEW t \in Txns, Skip(d, t) PROVE SendsOK'
  <2>1. /\ t \in todo[d] /\ t \in Tokenless /\ call[d].stage = "none"
        /\ session[d][t] \in OutboxRows
        /\ Note(d, t, Failed(session[d][t]))
    BY <1>4, <1>d DEF Skip
  <2>2. Failed(session[d][t]) \in OutboxRows /\ Failed(session[d][t]).status # "NONE"
    BY <2>1, RowsType
  <2> QED
    BY <2>1, <2>2, NotePaid
<1>5. ASSUME NEW d \in Dispatchers, NEW t \in Txns, Send(d, t) PROVE SendsOK'
  <2>1. /\ sends'[t] = sends[t] + 1 /\ \A y \in Txns : y # t => sends'[y] = sends[y]
        /\ call'[d].t = t /\ call'[d].stage # "none"
        /\ \A e \in Dispatchers : e # d => call'[e] = call[e]
        /\ t \in todo[d] /\ t \notin Tokenless /\ call[d].stage = "none"
        /\ UNCHANGED <<outbox, session, todo, crashes>>
    BY <1>5, <1>a DEF Send, TypeOK, CallStates
  <2>2. \A y \in Tokenless : sends'[y] = 0
    BY <2>1 DEF SendsOK
  <2> SUFFICES ASSUME NEW x \in Txns \ Tokenless PROVE Paid(x)'
    BY <2>2 DEF SendsOK
  <2>3. Paid(x)
    BY DEF SendsOK
  <2>4. \A e \in Dispatchers, y \in Txns : Locked(e, y)' <=> Locked(e, y)
    BY <2>1 DEF Locked
  <2>5. CASE x = t
    <3>1. Locked(d, t) /\ \A e \in Dispatchers : Locked(e, t) => e = d
      BY <1>a, <2>1 DEF PassOK
    <3>2. \A e \in Dispatchers : e # d => t \notin todo[e] /\ ~Locked(e, t)
      BY <1>a, <3>1 DEF PassOK
    <3>3. InFlight(d, t) = 0 /\ InFlight(d, t)' = 1
      BY <2>1 DEF InFlight
    <3>4. sends'[t] <= outbox[t].attempts + crashes + InFlight(d, t)'
      BY <1>a, <2>1, <2>3, <2>5, <3>3, SendsType DEF Paid
    <3>5. ~Unlocked(x)'
      BY <2>4, <2>5, <3>1 DEF Unlocked
    <3> QED
      BY <2>1, <2>3, <2>4, <2>5, <3>2, <3>4, <3>5 DEF Paid
  <2>6. CASE x # t
    <3>1. sends'[x] = sends[x]
      BY <2>1, <2>6
    <3>2. \A e \in Dispatchers : InFlight(e, x)' = InFlight(e, x)
      BY <2>1, <2>6 DEF InFlight
    <3>3. Unlocked(x)' <=> Unlocked(x)
      BY <2>4 DEF Unlocked
    <3> QED
      BY <2>1, <2>3, <2>4, <3>1, <3>2, <3>3 DEF Paid
  <2> QED
    BY <2>5, <2>6
<1>6. ASSUME NEW d \in Dispatchers, Fail(d) PROVE SendsOK'
  <2> DEFINE t == call[d].t
  <2>1. t \in todo[d] /\ session[d][t] \in OutboxRows /\ Note(d, t, CallFailed(session[d][t]))
    BY <1>6, <1>c, <1>d DEF Fail
  <2>2. CallFailed(session[d][t]) \in OutboxRows /\ CallFailed(session[d][t]).status # "NONE"
    BY <2>1, RowsType
  <2>3. t \notin Tokenless =>
          LET row == CallFailed(session[d][t]) IN
          /\ row.attempts = session[d][t].attempts + 1
          /\ row.attempts <= MaxAttempts
          /\ Open(row) => row.attempts < MaxAttempts
    BY <1>e, <2>1, RowsCount DEF OutboxRows
  <2> QED
    BY <2>1, <2>2, <2>3, NotePaid
<1>7. ASSUME NEW d \in Dispatchers, Answer(d) PROVE SendsOK'
  <2> DEFINE t == call[d].t
  <2>1. t \in todo[d] /\ session[d][t] \in OutboxRows
    BY <1>7, <1>c, <1>d DEF Answer
  <2>2. PICK row \in {CallFailed(session[d][t]), Acked(session[d][t])} : Note(d, t, row)
    BY <1>7 DEF Answer
  <2>3. row \in OutboxRows /\ row.status # "NONE"
    BY <2>1, <2>2, RowsType
  <2>4. t \notin Tokenless =>
          /\ row.attempts = session[d][t].attempts + 1
          /\ row.attempts <= MaxAttempts
          /\ Open(row) => row.attempts < MaxAttempts
    BY <1>e, <2>1, <2>2, RowsCount DEF OutboxRows
  <2> QED
    BY <2>1, <2>2, <2>3, <2>4, NotePaid
<1>8. ASSUME NEW d \in Dispatchers, Commit(d) PROVE SendsOK'
  <2>1. call[d] = NoCall
    BY <1>8, <1>a, <1>c DEF Commit, TypeOK, CallStates
  <2>2. call' = [call EXCEPT ![d] = NoCall] /\ todo' = [todo EXCEPT ![d] = {}]
    BY <1>8, <1>a, <2>1 DEF Commit, TypeOK
  <2> QED
    BY <1>8, <2>2, ClosePaid DEF Commit
<1>9. ASSUME NEW d \in Dispatchers, Crash(d) PROVE SendsOK'
  BY <1>9, ClosePaid DEF Crash
<1>10. ASSUME NEW d \in Dispatchers, Take(d) PROVE SendsOK'
  <2>1. \A e \in Dispatchers, y \in Txns : InFlight(e, y)' = InFlight(e, y)
    BY <1>10, <1>a, CallTyped DEF Take, TypeOK, InFlight
  <2> QED
    BY <1>10, <2>1, PaidStays DEF Take, Locked
<1>11. ASSUME NEW t \in Txns, TakeLate(t) PROVE SendsOK'
  BY <1>11, PaidStays DEF TakeLate, Locked, InFlight
<1>12. ASSUME NEW h \in Handlers, NEW t \in Txns, Receive(h, t) PROVE SendsOK'
  BY <1>12, PaidStays DEF Receive, Locked, InFlight
<1>13. ASSUME NEW h \in Handlers, Post(h) PROVE SendsOK'
  BY <1>13, PaidStays DEF Post, Locked, InFlight
<1>14. ASSUME NEW h \in Handlers, Refuse(h) PROVE SendsOK'
  BY <1>14, PaidStays DEF Refuse, Locked, InFlight
<1>15. ASSUME UNCHANGED vars PROVE SendsOK'
  BY <1>15, PaidStays DEF vars, Locked, InFlight
<1> QED
  BY <1>1, <1>2, <1>3, <1>4, <1>5, <1>6, <1>7, <1>8, <1>9, <1>10, <1>11, <1>12,
     <1>13, <1>14, <1>15 DEF Next, Pass

-----------------------------------------------------------------------------
(***************************************************************************)
(* The theorems                                                            *)
(***************************************************************************)

\* Nothing has been originated, sent or received at first.
LEMMA RelayInit == Init => RelayInv /\ SendsOK
<1> SUFFICES ASSUME Init PROVE RelayInv /\ SendsOK
  OBVIOUS
<1>1. TypeOK
  BY NoRowType DEF Init, TypeOK, CallStates
<1>2. PassesOK
  BY DEF Init, PassesOK, PassOK, Locked, NoCall
<1>3. ReachOK
  BY DEF Init, ReachOK, OneReciprocalLeg, AckedIsPosted, NoRow
<1>4. SendsOK
  BY DEF Init, SendsOK, Paid, Locked, Open, NoRow, InFlight, NoCall
<1> QED
  BY <1>1, <1>2, <1>3, <1>4 DEF RelayInv

\* The invariant holds throughout, for any number of processes, losses,
\* delays and crashes (dispatcher.py, api/v1/intercompany.py).
THEOREM RelayInvariance == Spec => [](RelayInv /\ SendsOK)
<1>1. RelayInv /\ SendsOK /\ [Next]_vars => (RelayInv /\ SendsOK)'
  BY TypeInv, PassesInv, ReachInv, SendsInv DEF RelayInv
<1> QED
  BY <1>1, RelayInit, PTL DEF Spec

\* The tables, passes and calls keep their types.
THEOREM RelayTypes == Spec => []TypeOK
<1>1. RelayInv => TypeOK
  BY DEF RelayInv
<1> QED
  BY <1>1, RelayInvariance, PTL

\* The partner books an event at most once, and only originated events.
THEOREM ReciprocalLegOnce == Spec => []OneReciprocalLeg
<1>1. RelayInv => OneReciprocalLeg
  BY DEF RelayInv, ReachOK
<1> QED
  BY <1>1, RelayInvariance, PTL

\* What the outbox says is acknowledged, the partner has booked.
THEOREM AcksAreTrue == Spec => []AckedIsPosted
<1>1. RelayInv => AckedIsPosted
  BY DEF RelayInv, ReachOK
<1> QED
  BY <1>1, RelayInvariance, PTL

\* An event is sent at most ic_relay_max_attempts times, not counting passes
\* that crashed.
THEOREM SendsAreBounded == Spec => []BoundedSends
<1>1. RelayInv /\ SendsOK => BoundedSends
  <2> SUFFICES ASSUME RelayInv, SendsOK, NEW t \in Txns
               PROVE  sends[t] <= MaxAttempts + crashes
    BY DEF BoundedSends
  <2>1. TypeOK /\ \A d \in Dispatchers : PassOK(d)
    BY DEF RelayInv, PassesOK
  <2>2. /\ sends[t] \in Nat /\ outbox[t].attempts \in Nat /\ crashes \in Nat
        /\ \A d \in Dispatchers : session[d][t].attempts \in Nat
        /\ \A d \in Dispatchers : InFlight(d, t) \in {0, 1}
    BY <2>1, SendsType DEF InFlight
  <2>3. CASE t \in Tokenless
    BY <2>2, <2>3 DEF SendsOK
  <2>4. CASE t \notin Tokenless
    <3>1. Paid(t)
      BY <2>4 DEF SendsOK
    <3>2. CASE Unlocked(t)
      BY <2>2, <3>1, <3>2 DEF Paid
    <3>3. CASE ~Unlocked(t)
      <4>1. PICK d \in Dispatchers : Locked(d, t)
        BY <3>3 DEF Unlocked
      <4>2. Open(outbox[t])
        BY <2>1, <4>1 DEF PassOK
      <4> QED
        BY <2>2, <3>1, <4>1, <4>2 DEF Paid
    <3> QED
      BY <3>2, <3>3
  <2> QED
    BY <2>3, <2>4
<1> QED
  BY <1>1, RelayInvariance, PTL

\* A settled row stays as it is: whoever could write it holds its lock, and
\* locked rows are open.
THEOREM SettledStaysSettled == Spec => SettledForever
<1> DEFINE Stays(t) ==
      Settled(outbox[t]) =>
        outbox'[t].status = outbox[t].status /\ outbox'[t].attempts = outbox[t].attempts
<1>1. RelayInv /\ [Next]_vars => \A t \in Txns : Stays(t)
  <2> SUFFICES ASSUME RelayInv, [Next]_vars, NEW t \in Txns PROVE Stays(t)
    OBVIOUS
  <2>a. TypeOK /\ \A d \in Dispatchers : PassOK(d)
    BY DEF RelayInv, PassesOK
  <2>1. CASE outbox' = outbox
    BY <2>1
  <2>2. ASSUME NEW x \in Txns, Originate(x) PROVE Stays(t)
    BY <2>2, <2>a DEF Originate, TypeOK, Settled, NoRow
  <2>3. CASE Tick
    BY <2>3, <2>a, SoonerType DEF Tick, TypeOK
  <2>4. ASSUME NEW d \in Dispatchers, Commit(d) PROVE Stays(t)
    BY <2>4, <2>a DEF Commit, PassOK, Open, Settled
  <2>5. outbox' = outbox \/ Tick \/ (\E x \in Txns : Originate(x)) \/ \E d \in Dispatchers : Commit(d)
    BY DEF Next, Pass, vars, originator, Claim, Skip, Send, Fail, Answer, Note, Crash, Take,
           TakeLate, Receive, Post, Refuse
  <2> QED
    BY <2>1, <2>2, <2>3, <2>4, <2>5
<1>2. RelayInv /\ [Next]_vars =>
        [\A t \in Txns : Settled(outbox[t]) =>
           outbox'[t].status = outbox[t].status /\ outbox'[t].attempts = outbox[t].attempts]_vars
  BY <1>1
<1> QED
  BY <1>2, RelayInvariance, PTL DEF Spec, SettledForever

=============================================================================
