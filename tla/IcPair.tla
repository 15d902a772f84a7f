------------------------------- MODULE IcPair -------------------------------
(***************************************************************************)
(* The books of an intercompany event (services/intercompany.py,           *)
(* ic_relay/enable.py, ic_relay/recon.py): an event between two companies  *)
(* of one tenant is posted as a pair in one transaction and reversed leg   *)
(* by leg; an event between two tenants is posted on the originator's      *)
(* side, signed with the key of its edge, and relayed.                     *)
(*                                                                         *)
(* The relay is one step here, and may never come; the module IcRelay      *)
(* shows that it books an event at most once.  Amounts, accounts and dates *)
(* are left out, and a company's periods are all open or all closed.  A    *)
(* transaction checks the period when it commits (module PeriodClose has   *)
(* the step between).  The rows of ic_legs are read in the order in which  *)
(* they were inserted.  Of a leg only the original entry is reversed by    *)
(* hand, not its reversal, and an entry that the journal's DELETE has      *)
(* archived (services/journal_entries.py:646-677), which leaves status and *)
(* row alone, still counts as booked.                                      *)
(***************************************************************************)
EXTENDS Integers, FiniteSets

CONSTANTS
  Clients,       \* request sessions that may run at once
  Pairs,         \* events between companies of one tenant
  Remotes,       \* events between tenants, all on one pair of edges
  MaxReversals,  \* bound on the reversals booked of one leg
  MaxEnables     \* bound on the times the pair of edges is enabled

Events == Pairs \cup Remotes
Sides  == {"ORIGINATOR", "COUNTERPARTY"}

\* The rows of ic_txn: each tenant has one of its own for a remote event.
Txns == {k \in [event : Events, owner : Sides] : k.event \in Pairs => k.owner = "ORIGINATOR"}

ASSUME IcPairAssumption ==
  /\ Txns # {} /\ Pairs \cap Remotes = {}
  /\ MaxReversals \in Nat /\ MaxEnables \in Nat

VARIABLES
  txn,      \* the status of every row of ic_txn
  entry,    \* the status of the journal entry of every leg
  net,      \* times the leg is booked, less reversals of it
  mirrors,  \* the ic_legs rows that link reversals: by row of ic_txn and company's side
  shut,     \* the sides whose company's periods are closed
  edge,     \* by side: the enablement whose keys the edge holds, 0 while INACTIVE
  keys,     \* enablements begun: each mints new keys
  sig,      \* the enablement whose key signed a remote event's outbox row, 0 for no row
  req,      \* the running requests
  split,    \* history: events of which one leg was reversed by hand, or whose reversal
            \* was cut between its legs, or reversed by two requests at once
  rekeyed,  \* history: remote events signed or being signed when the edges were enabled anew
  torn      \* history: a crash has left the two edges with keys of different enablements

books   == <<txn, entry, net, mirrors, split>>
relay   == <<edge, keys, sig, rekeyed, torn>>
vars    == <<txn, entry, net, mirrors, shut, edge, keys, sig, req, split, rekeyed, torn>>

\* The legs that a row of ic_txn is the event of
Covers(k) == IF k.event \in Pairs THEN Sides ELSE {k.owner}

First(k) == IF k.event \in Pairs THEN "ORIGINATOR" ELSE k.owner

Leg(e, s) == [event |-> e, side |-> s]

Idle == [pc |-> "idle", on |-> CHOOSE k \in Txns : TRUE, side |-> "ORIGINATOR", gen |-> 0]

Init ==
  /\ txn = [k \in Txns |-> "NONE"]
  /\ entry = [l \in [event : Events, side : Sides] |-> "NONE"]
  /\ net = [l \in [event : Events, side : Sides] |-> 0]
  /\ mirrors = {}
  /\ shut = {}
  /\ edge = [s \in Sides |-> 0]
  /\ keys = 0
  /\ sig = [e \in Remotes |-> 0]
  /\ req = [c \in Clients |-> Idle]
  /\ split = {} /\ rekeyed = {} /\ torn = FALSE

\* lock_period, and the removal of the lock
ShutOrOpen(s) ==
  /\ shut' = IF s \in shut THEN shut \ {s} ELSE shut \cup {s}
  /\ UNCHANGED <<books, relay, req>>

-----------------------------------------------------------------------------
(***************************************************************************)
(* Posting                                                                 *)
(***************************************************************************)

\* mutant: only the leg of the row's own company
OwnLeg(k) == {Leg(k.event, k.owner)}

\* The entries that posting k books
Legs(k) == {Leg(k.event, s) : s \in Covers(k)}

\* The row, its legs and their entries commit together.
Post(k) ==
  /\ txn[k] = "NONE"
  /\ txn' = [txn EXCEPT ![k] = "ACTIVE"]
  /\ entry' = [l \in DOMAIN entry |-> IF l \in Legs(k) THEN "POSTED" ELSE entry[l]]
  /\ net' = [l \in DOMAIN net |-> IF l \in Legs(k) THEN 1 ELSE net[l]]
  /\ UNCHANGED <<mirrors, split>>

\* post_local_pair: either leg's refusal rolls the other back
PostPair(p) ==
  LET k == [event |-> p, owner |-> "ORIGINATOR"] IN
  /\ shut = {}
  /\ Post(k)
  /\ UNCHANGED <<shut, relay, req>>

\* post_remote_originator has read the edge, which must be ACTIVE,
BeginOriginate(c, e) ==
  LET k == [event |-> e, owner |-> "ORIGINATOR"] IN
  /\ req[c].pc = "idle"
  /\ txn[k] = "NONE" /\ \A o \in Clients : ~(req[o].pc = "originate" /\ req[o].on = k)
  /\ edge["ORIGINATOR"] # 0
  /\ req' = [req EXCEPT ![c] = [Idle EXCEPT !.pc = "originate", !.on = k,
                                            !.gen = edge["ORIGINATOR"]]]
  /\ UNCHANGED <<books, shut, relay>>

\* and commits the leg with the signed outbox row.
Originate(c) ==
  LET r == req[c] IN
  /\ r.pc = "originate"
  /\ "ORIGINATOR" \notin shut
  /\ Post(r.on)
  /\ sig' = [sig EXCEPT ![r.on.event] = r.gen]
  /\ req' = [req EXCEPT ![c] = Idle]
  /\ UNCHANGED <<shut, edge, keys, rekeyed, torn>>

\* The relay has reached the partner, whose edge verifies the signature:
\* accept_remote_counterparty.
Accept(e) ==
  LET k == [event |-> e, owner |-> "COUNTERPARTY"] IN
  /\ sig[e] # 0 /\ sig[e] = edge["COUNTERPARTY"]
  /\ "COUNTERPARTY" \notin shut
  /\ Post(k)
  /\ UNCHANGED <<shut, relay, req>>

-----------------------------------------------------------------------------
(***************************************************************************)
(* reverse_local_pair: each leg's reversal is a transaction of its own,    *)
(* and the row that links it is in the next one                            *)
(***************************************************************************)

Reversing(c, k) == req[c].pc \in {"read", "reverse", "finish"} /\ req[c].on = k

\* The topology of the edge is not looked at: a remote event's row covers the
\* leg of its own tenant.
BeginReverse(c, k) ==
  /\ req[c].pc = "idle"
  /\ txn[k] = "ACTIVE"
  /\ req' = [req EXCEPT ![c] = [Idle EXCEPT !.pc = "read", !.on = k, !.side = First(k)]]
  /\ split' = IF \E o \in Clients : Reversing(o, k) THEN split \cup {k.event} ELSE split
  /\ UNCHANGED <<txn, entry, net, mirrors, shut, relay>>

\* The leg whose reversal is committed while the row that links it is not
Unlinked(r) ==
  IF r.pc \in {"read", "reverse"} /\ r.side # First(r.on) THEN {First(r.on)}
  ELSE IF r.pc = "finish" THEN {r.side} ELSE {}

\* The request ends here, and what it has not committed is rolled back.
End(c) ==
  LET r == req[c] IN
  /\ req' = [req EXCEPT ![c] = Idle]
  /\ split' = IF r.pc \in {"read", "reverse"} /\ Unlinked(r) # {}
              THEN split \cup {r.on.event} ELSE split

\* Another request has flushed the linking row of leg s and not committed it.
Flushed(c, k, s) ==
  \E o \in Clients \ {c} : req[o].pc = "reverse" /\ req[o].on = k /\ s \in Unlinked(req[o])

\* mutant: an entry may be reversed twice
ReversibleAgain(l) == entry[l] # "NONE"

\* The check of journal.reverse
Reversible(l) == entry[l] = "POSTED"

\* journal.reverse reads the entry, which flushes the row that links the leg
\* before: the unique constraint waits for an uncommitted one.
ReadLeg(c) ==
  LET r == req[c] IN
  /\ r.pc = "read"
  /\ \A s \in Unlinked(r) : ~Flushed(c, r.on, s)
  /\ IF \/ \E s \in Unlinked(r) : <<r.on, s>> \in mirrors
        \/ ~Reversible(Leg(r.on.event, r.side))
     THEN End(c)
     ELSE req' = [req EXCEPT ![c].pc = "reverse"] /\ UNCHANGED split
  /\ UNCHANGED <<txn, entry, net, mirrors, shut, relay>>

\* The loop over the legs
NextLeg(r) ==
  IF r.on.event \in Pairs /\ r.side = "ORIGINATOR"
  THEN [r EXCEPT !.pc = "read", !.side = "COUNTERPARTY"] ELSE [r EXCEPT !.pc = "finish"]

\* The reversal of leg l commits.
Unbook(l) ==
  /\ net[l] > -MaxReversals
  /\ net' = [net EXCEPT ![l] = @ - 1]
  /\ entry' = [entry EXCEPT ![l] = "REVERSED"]

\* journal.reverse commits, with the row that links the leg before, unless
\* the company's period is closed.
ReverseLeg(c) ==
  LET r == req[c] IN
  /\ r.pc = "reverse"
  /\ IF r.side \in shut
     THEN End(c) /\ UNCHANGED <<entry, net, mirrors>>
     ELSE /\ Unbook(Leg(r.on.event, r.side))
          /\ mirrors' = mirrors \cup {<<r.on, s>> : s \in Unlinked(r)}
          /\ req' = [req EXCEPT ![c] = NextLeg(r)]
          /\ UNCHANGED split
  /\ UNCHANGED <<txn, shut, relay>>

\* The last linking row and the status commit, unless the row is there.
Finish(c) ==
  LET r == req[c]
      linked == {<<r.on, s>> : s \in Unlinked(r)} IN
  /\ r.pc = "finish"
  /\ \A s \in Unlinked(r) : ~Flushed(c, r.on, s)
  /\ IF linked \subseteq mirrors
     THEN UNCHANGED <<txn, mirrors>>
     ELSE /\ txn' = [txn EXCEPT ![r.on] = "REVERSED"]
          /\ mirrors' = mirrors \cup linked
  /\ req' = [req EXCEPT ![c] = Idle]
  /\ UNCHANGED <<entry, net, split, shut, relay>>

\* The journal's own route reverses one leg's entry, whatever it is a leg of;
\* with an accepted override also in a closed period.
BeginReverseEntry(c, e, s) ==
  /\ req[c].pc = "idle"
  /\ Reversible(Leg(e, s))
  /\ req' = [req EXCEPT ![c] = [Idle EXCEPT !.pc = "entry", !.on.event = e,
                                            !.on.owner = IF e \in Pairs THEN "ORIGINATOR" ELSE s,
                                            !.side = s]]
  /\ UNCHANGED <<books, shut, relay>>

ReverseEntry(c) ==
  LET r == req[c] IN
  /\ r.pc = "entry"
  /\ Unbook(Leg(r.on.event, r.side))
  /\ split' = split \cup {r.on.event}
  /\ req' = [req EXCEPT ![c] = Idle]
  /\ UNCHANGED <<txn, mirrors, shut, relay>>

-----------------------------------------------------------------------------
(***************************************************************************)
(* enable_edge_pair: both edges are written, then the source's transaction *)
(* commits and then the destination's                                      *)
(***************************************************************************)

\* A request that is about to commit an edge has its row locked.
HoldsSource      == \E c \in Clients : req[c].pc \in {"source", "both"}
HoldsDestination == \E c \in Clients : req[c].pc \in {"both", "destination"}

FlushSource(c) ==
  /\ req[c].pc = "idle"
  /\ keys < MaxEnables
  /\ ~HoldsSource
  /\ keys' = keys + 1
  /\ req' = [req EXCEPT ![c] = [Idle EXCEPT !.pc = "source", !.gen = keys + 1]]
  /\ UNCHANGED <<books, shut, edge, sig, rekeyed, torn>>

FlushDestination(c) ==
  /\ req[c].pc = "source"
  /\ ~HoldsDestination
  /\ req' = [req EXCEPT ![c].pc = "both"]
  /\ UNCHANGED <<books, shut, relay>>

\* The remote events that are signed with the keys of an older enablement
Signed == {e \in Remotes : sig[e] # 0 \/ \E c \in Clients : req[c].pc = "originate" /\ req[c].on.event = e}

CommitSource(c) ==
  /\ req[c].pc = "both"
  /\ edge' = [edge EXCEPT !["ORIGINATOR"] = req[c].gen]
  /\ rekeyed' = rekeyed \cup Signed
  /\ req' = [req EXCEPT ![c].pc = "destination"]
  /\ UNCHANGED <<books, shut, keys, sig, torn>>

\* mutant: an edge that is ACTIVE keeps the partner's key it has
KeptKeys(g) == IF edge["COUNTERPARTY"] = 0 THEN g ELSE edge["COUNTERPARTY"]

\* mutant: the destination's edge is written by an enablement of its own
OtherKeys(g) == g + 1

\* Whether the edge is ACTIVE is not looked at: the keys are replaced.
NewKeys(g) == g

CommitDestination(c) ==
  /\ req[c].pc = "destination"
  /\ edge' = [edge EXCEPT !["COUNTERPARTY"] = NewKeys(req[c].gen)]
  /\ torn' = FALSE
  /\ req' = [req EXCEPT ![c] = Idle]
  /\ UNCHANGED <<books, shut, keys, sig, rekeyed>>

-----------------------------------------------------------------------------
\* The worker dies, or an error rolls the open transactions back.
Crash(c) ==
  /\ req[c].pc # "idle"
  /\ End(c)
  /\ torn' = (torn \/ req[c].pc = "destination")
  /\ UNCHANGED <<txn, entry, net, mirrors, shut, edge, keys, sig, rekeyed>>

Next ==
  \/ \E s \in Sides : ShutOrOpen(s)
  \/ \E p \in Pairs : PostPair(p)
  \/ \E e \in Remotes : Accept(e)
  \/ \E c \in Clients :
       \/ \E e \in Remotes : BeginOriginate(c, e)
       \/ \E k \in Txns : BeginReverse(c, k)
       \/ \E e \in Events, s \in Sides : BeginReverseEntry(c, e, s)
       \/ Originate(c) \/ ReadLeg(c) \/ ReverseLeg(c) \/ Finish(c) \/ ReverseEntry(c)
       \/ FlushSource(c) \/ FlushDestination(c) \/ CommitSource(c) \/ CommitDestination(c)
       \/ Crash(c)

Spec == Init /\ [][Next]_vars

-----------------------------------------------------------------------------
(***************************************************************************)
(* Properties                                                              *)
(***************************************************************************)

AllLegs == [event : Events, side : Sides]

Requests ==
  [pc : {"idle", "originate", "read", "reverse", "finish", "entry", "source", "both", "destination"},
   on : Txns, side : Sides, gen : 0..MaxEnables]

\* The shape of the tables and the requests.
TypeOK ==
  /\ txn \in [Txns -> {"NONE", "ACTIVE", "REVERSED"}]
  /\ entry \in [AllLegs -> {"NONE", "POSTED", "REVERSED"}]
  /\ net \in [AllLegs -> Int]
  /\ mirrors \subseteq Txns \X Sides
  /\ shut \subseteq Sides
  /\ edge \in [Sides -> 0..MaxEnables]
  /\ keys \in 0..MaxEnables
  /\ sig \in [Remotes -> 0..MaxEnables]
  /\ req \in [Clients -> Requests]
  /\ split \subseteq Events /\ rekeyed \subseteq Remotes /\ torn \in BOOLEAN

\* A reversal of k is between its legs.
Unwinding(k) == \E c \in Clients : Reversing(c, k) /\ Unlinked(req[c]) # {} /\ req[c].pc # "finish"

\* The two companies' books agree on an event between them: both legs are
\* booked, or neither is, except while a reversal is between the two.  The
\* other exceptions are named: the reversal was cut there by a crash or by the
\* second company's closed period, two requests reversed the event at once, or
\* one leg's entry was reversed by itself.
PairAgrees ==
  \A p \in Pairs \ split :
    \/ Unwinding([event |-> p, owner |-> "ORIGINATOR"])
    \/ net[Leg(p, "ORIGINATOR")] = net[Leg(p, "COUNTERPARTY")]

\* A row that says REVERSED is true: every leg's entry is reversed and the
\* reversal linked, however requests raced, and unless the event is one of the
\* exceptions above it was reversed once.
ReversedIsReversed ==
  \A k \in Txns : txn[k] = "REVERSED" =>
    \A s \in Covers(k) :
      /\ entry[Leg(k.event, s)] = "REVERSED" /\ <<k, s>> \in mirrors
      /\ k.event \in split \/ net[Leg(k.event, s)] = 0

\* An event that waits for its partner can be verified there, unless the edges
\* were enabled anew after it was signed, or an enablement is between its two
\* commits or was cut there.
RelayVerifies ==
  \A e \in Remotes \ rekeyed :
    \/ sig[e] = 0 \/ sig[e] = edge["COUNTERPARTY"]
    \/ torn \/ \E c \in Clients : req[c].pc = "destination"

\* intercompany_position: a row is matched when both sides have legs.  The
\* legs of a side's own row are its leg and the mirror of it.
Matched(k) ==
  {s \in Sides : entry[Leg(k.event, s)] # "NONE" /\ s \in Covers(k)}
    \cup {s \in Sides : \E o \in Sides \ {s} : <<k, o>> \in mirrors} = Sides

\* recon.py: "a REMOTE event whose reciprocal leg never posted shows up here
\* as unmatched for human action".
UnpostedIsUnmatched ==
  \A e \in Remotes :
    entry[Leg(e, "ORIGINATOR")] # "NONE" /\ entry[Leg(e, "COUNTERPARTY")] = "NONE"
      => ~Matched([event |-> e, owner |-> "ORIGINATOR"])
=============================================================================
