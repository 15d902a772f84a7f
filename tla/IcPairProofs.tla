---------------------------- MODULE IcPairProofs ----------------------------
(***************************************************************************)
(* Proofs about IcPair, for any number of requests and events.             *)
(*                                                                         *)
(* The keys and the books are proved apart.  Of the keys: who enables the  *)
(* edges has them locked, so that the edges differ only while one request  *)
(* is between its commits, or after a crash there; and what is signed is   *)
(* signed with the source's key of now, or counted as rekeyed.  Of the     *)
(* books: a leg is booked as its entry says, and a reversal that reaches   *)
(* the second leg has reversed the first, unless the event is split.       *)
(***************************************************************************)
EXTENDS IcPair, TLAPS

\* The enablement that c is to commit is on its edge, or will be first.
Enabling(c) ==
  LET r == req[c] IN
  /\ r.pc \in {"source", "both", "destination"} => r.gen \in 1..keys
  /\ r.pc \in {"source", "both"} => \A o \in Clients \ {c} : req[o].pc \notin {"source", "both"}
  /\ r.pc \in {"both", "destination"} => \A o \in Clients \ {c} : req[o].pc \notin {"both", "destination"}
  /\ r.pc = "destination" => edge["ORIGINATOR"] = r.gen
  /\ r.pc = "originate" =>
       r.on.event \in Remotes /\ (r.on.event \in rekeyed \/ r.gen = edge["ORIGINATOR"])

\* Some enablement is between its commits, or was cut there.
Between == torn \/ \E c \in Clients : req[c].pc = "destination"

KeysInv ==
  /\ TypeOK
  /\ \A c \in Clients : Enabling(c)
  /\ \A e \in Remotes \ rekeyed : sig[e] \in {0, edge["ORIGINATOR"]}
  /\ Between \/ edge["ORIGINATOR"] = edge["COUNTERPARTY"]
  /\ RelayVerifies

-----------------------------------------------------------------------------
\* What a running reversal has done, and that it is the only one, or its event split
Going(c) ==
  LET r == req[c]
      k == req[c].on IN
  Reversing(c, k) =>
    /\ txn[k] # "NONE" /\ r.side \in Covers(k)
    /\ r.side # First(k) => entry[Leg(k.event, First(k))] = "REVERSED"
    /\ r.pc = "finish" =>
         /\ k.event \in Pairs => r.side = "COUNTERPARTY"
         /\ entry[Leg(k.event, r.side)] = "REVERSED"
         /\ r.side # First(k) => <<k, First(k)>> \in mirrors
    /\ k.event \notin split =>
         /\ \A o \in Clients \ {c} : ~Reversing(o, k)
         /\ r.pc = "reverse" => entry[Leg(k.event, r.side)] = "POSTED"

\* A leg is booked as its entry says.
Booked ==
  \A l \in AllLegs :
    l.event \notin split => net[l] = IF entry[l] = "POSTED" THEN 1 ELSE 0

BooksInv ==
  /\ TypeOK /\ Booked
  /\ \A c \in Clients : Going(c)
  /\ PairAgrees /\ ReversedIsReversed

-----------------------------------------------------------------------------
(***************************************************************************)
(* Types                                                                   *)
(***************************************************************************)

LEMMA TxnsType ==
  /\ \A k \in Txns : /\ k.event \in Events /\ k.owner \in Sides
                     /\ Covers(k) \subseteq Sides /\ First(k) \in Covers(k)
                     /\ k.event \in Remotes => Covers(k) = {First(k)} /\ First(k) = k.owner
                     /\ k.event \in Pairs => Covers(k) = Sides /\ First(k) = "ORIGINATOR"
                                             /\ k.owner = "ORIGINATOR"
  /\ \A e \in Events, s \in Sides : Leg(e, s) \in AllLegs /\ Leg(e, s).event = e /\ Leg(e, s).side = s
  BY IcPairAssumption DEF Txns, Events, Sides, Covers, First, Leg, AllLegs

LEMMA MakesTxn ==
  /\ \A p \in Pairs : [event |-> p, owner |-> "ORIGINATOR"] \in Txns
  /\ \A e \in Remotes, s \in Sides : [event |-> e, owner |-> s] \in Txns
  BY IcPairAssumption DEF Txns, Events, Sides

LEMMA IdleType ==
  /\ Idle \in Requests /\ Idle.pc = "idle" /\ Idle.on \in Txns /\ Idle.gen = 0
  BY IcPairAssumption DEF Idle, Requests, Sides

\* A request that becomes r while the others keep everything
LEMMA Becomes ==
  ASSUME TypeOK, NEW c \in Clients, NEW r \in Requests, req' = [req EXCEPT ![c] = r]
  PROVE  /\ req' \in [Clients -> Requests] /\ req'[c] = r
         /\ \A o \in Clients : o # c => req'[o] = req[o]
  BY DEF TypeOK

LEMMA RequestType ==
  ASSUME TypeOK, NEW c \in Clients
  PROVE  /\ req[c] \in Requests /\ req[c].on \in Txns /\ req[c].side \in Sides
         /\ req[c].on.event \in Events /\ req[c].gen \in 0..MaxEnables
  BY TxnsType DEF TypeOK, Requests

\* Posting books exactly the legs of k.
LEMMA PostType ==
  ASSUME TypeOK, NEW k \in Txns, Post(k)
  PROVE  /\ txn[k] = "NONE" /\ txn' \in [Txns -> {"NONE", "ACTIVE", "REVERSED"}]
         /\ txn'[k] = "ACTIVE" /\ \A o \in Txns : o # k => txn'[o] = txn[o]
         /\ entry' \in [AllLegs -> {"NONE", "POSTED", "REVERSED"}] /\ net' \in [AllLegs -> Int]
         /\ \A l \in AllLegs :
              IF l.event = k.event /\ l.side \in Covers(k)
              THEN entry'[l] = "POSTED" /\ net'[l] = 1
              ELSE entry'[l] = entry[l] /\ net'[l] = net[l]
         /\ UNCHANGED <<mirrors, split>>
<1>1. DOMAIN entry = AllLegs /\ DOMAIN net = AllLegs
  BY DEF TypeOK
<1>2. \A l \in AllLegs : l \in Legs(k) <=> l.event = k.event /\ l.side \in Covers(k)
  BY TxnsType DEF Legs, Leg, AllLegs
<1> QED
  BY <1>1, <1>2 DEF Post, TypeOK

\* Reversing books one leg back.
LEMMA UnbookType ==
  ASSUME TypeOK, NEW l \in AllLegs, Unbook(l)
  PROVE  /\ net' \in [AllLegs -> Int] /\ entry' \in [AllLegs -> {"NONE", "POSTED", "REVERSED"}]
         /\ net'[l] = net[l] - 1 /\ entry'[l] = "REVERSED"
         /\ \A o \in AllLegs : o # l => net'[o] = net[o] /\ entry'[o] = entry[o]
  BY DEF Unbook, TypeOK

LEMMA EndType ==
  ASSUME TypeOK, NEW c \in Clients, End(c)
  PROVE  /\ req' = [req EXCEPT ![c] = Idle]
         /\ split \subseteq split' /\ split' \subseteq Events
         /\ req[c].pc \in {"read", "reverse"} /\ Unlinked(req[c]) # {} => req[c].on.event \in split'
  BY RequestType DEF End, TypeOK

LEMMA UnlinkedType ==
  ASSUME TypeOK, NEW c \in Clients
  PROVE  {<<req[c].on, s>> : s \in Unlinked(req[c])} \subseteq Txns \X Sides
  BY RequestType, TxnsType DEF Unlinked

\* The three kinds of request that change a step
LEMMA Moves ==
  ASSUME TypeOK, NEW c \in Clients
  PROVE  /\ \A pc \in {"read", "reverse", "finish", "source", "both", "destination"} :
              /\ [req[c] EXCEPT !.pc = pc] \in Requests /\ [req[c] EXCEPT !.pc = pc].pc = pc
              /\ [req[c] EXCEPT !.pc = pc].on = req[c].on
              /\ [req[c] EXCEPT !.pc = pc].side = req[c].side
              /\ [req[c] EXCEPT !.pc = pc].gen = req[c].gen
         /\ NextLeg(req[c]) \in Requests /\ NextLeg(req[c]).on = req[c].on
         /\ IF req[c].on.event \in Pairs /\ req[c].side = "ORIGINATOR"
            THEN NextLeg(req[c]).pc = "read" /\ NextLeg(req[c]).side = "COUNTERPARTY"
            ELSE NextLeg(req[c]).pc = "finish" /\ NextLeg(req[c]).side = req[c].side
<1>1. req[c] \in Requests
  BY RequestType
<1> QED
  BY <1>1 DEF Requests, Sides, NextLeg

LEMMA SourceType ==
  ASSUME NEW g \in 0..MaxEnables, NEW r, r = [Idle EXCEPT !.pc = "source", !.gen = g]
  PROVE  r \in Requests /\ r.pc = "source" /\ r.gen = g
  BY IdleType DEF Requests

LEMMA BeginEntryType ==
  ASSUME NEW e \in Events, NEW s \in Sides
  PROVE  LET r == [Idle EXCEPT !.pc = "entry", !.on.event = e,
                               !.on.owner = IF e \in Pairs THEN "ORIGINATOR" ELSE s, !.side = s] IN
         r \in Requests /\ r.pc = "entry" /\ r.on.event = e /\ r.side = s
<1> DEFINE k == [Idle.on EXCEPT !.event = e, !.owner = IF e \in Pairs THEN "ORIGINATOR" ELSE s]
<1>1. k \in Txns /\ k.event = e
  BY IdleType DEF Txns, Sides
<1> QED
  BY <1>1, IdleType DEF Requests

LEMMA TypeNext ==
  ASSUME TypeOK, Next
  PROVE  TypeOK'
<1> USE DEF books, relay
<1>1. ASSUME NEW s \in Sides, ShutOrOpen(s) PROVE TypeOK'
  BY <1>1 DEF ShutOrOpen, TypeOK
<1>2. ASSUME NEW p \in Pairs, PostPair(p) PROVE TypeOK'
  BY <1>2, MakesTxn, PostType DEF PostPair, TypeOK
<1>3. ASSUME NEW e \in Remotes, Accept(e) PROVE TypeOK'
  BY <1>3, MakesTxn, PostType DEF Accept, TypeOK, Sides
<1>4. ASSUME NEW c \in Clients PROVE
        \A e \in Remotes : BeginOriginate(c, e) => TypeOK'
  <2> SUFFICES ASSUME NEW e \in Remotes, BeginOriginate(c, e) PROVE TypeOK'
    OBVIOUS
  <2> DEFINE r == [Idle EXCEPT !.pc = "originate", !.on = [event |-> e, owner |-> "ORIGINATOR"],
                               !.gen = edge["ORIGINATOR"]]
  <2>0. "ORIGINATOR" \in Sides
    BY DEF Sides
  <2>3. [event |-> e, owner |-> "ORIGINATOR"] \in Txns /\ edge["ORIGINATOR"] \in 0..MaxEnables
    BY <2>0, MakesTxn DEF TypeOK
  <2>1. r \in Requests
    BY <2>3, IdleType DEF Requests
  <2>2. req' = [req EXCEPT ![c] = r] /\ UNCHANGED <<books, shut, relay>>
    BY DEF BeginOriginate
  <2> HIDE DEF r
  <2> QED
    BY <2>1, <2>2 DEF TypeOK
<1>5. ASSUME NEW c \in Clients, NEW k \in Txns, BeginReverse(c, k) PROVE TypeOK'
  <2>0. First(k) \in Sides
    BY TxnsType
  <2>1. [Idle EXCEPT !.pc = "read", !.on = k, !.side = First(k)] \in Requests
    BY <2>0, IdleType DEF Requests
  <2>2. split' \subseteq Events
    BY <1>5, TxnsType DEF BeginReverse, TypeOK
  <2> QED
    BY <1>5, <2>1, <2>2 DEF BeginReverse, TypeOK
<1>6. ASSUME NEW c \in Clients, NEW e \in Events, NEW s \in Sides, BeginReverseEntry(c, e, s)
      PROVE  TypeOK'
  <2> DEFINE r == [Idle EXCEPT !.pc = "entry", !.on.event = e,
                               !.on.owner = IF e \in Pairs THEN "ORIGINATOR" ELSE s, !.side = s]
  <2>1. r \in Requests
    BY BeginEntryType
  <2>2. req' = [req EXCEPT ![c] = r] /\ UNCHANGED <<books, shut, relay>>
    BY <1>6 DEF BeginReverseEntry
  <2> HIDE DEF r
  <2> QED
    BY <2>1, <2>2 DEF TypeOK
<1>7. ASSUME NEW c \in Clients, Originate(c) PROVE TypeOK'
  <2>1. req[c].on \in Txns /\ req[c].gen \in 0..MaxEnables
    BY RequestType
  <2> QED
    BY <1>7, <2>1, IdleType, PostType DEF Originate, TypeOK
<1>8. ASSUME NEW c \in Clients, ReadLeg(c) PROVE TypeOK'
  <2>1. CASE End(c)
    BY <1>8, <2>1, EndType, IdleType DEF ReadLeg, TypeOK
  <2>2. CASE req' = [req EXCEPT ![c].pc = "reverse"] /\ UNCHANGED split
    <3>1. req' = [req EXCEPT ![c] = [req[c] EXCEPT !.pc = "reverse"]]
      BY <2>2 DEF TypeOK
    <3> QED
      BY <1>8, <2>2, <3>1, Moves DEF ReadLeg, TypeOK
  <2> QED
    BY <1>8, <2>1, <2>2 DEF ReadLeg
<1>9. ASSUME NEW c \in Clients, ReverseLeg(c) PROVE TypeOK'
  <2>1. CASE End(c) /\ UNCHANGED <<entry, net, mirrors>>
    BY <1>9, <2>1, EndType, IdleType DEF ReverseLeg, TypeOK
  <2>2. CASE /\ Unbook(Leg(req[c].on.event, req[c].side))
             /\ mirrors' = mirrors \cup {<<req[c].on, s>> : s \in Unlinked(req[c])}
             /\ req' = [req EXCEPT ![c] = NextLeg(req[c])]
             /\ UNCHANGED split
    <3>1. Leg(req[c].on.event, req[c].side) \in AllLegs
      BY RequestType, TxnsType
    <3> QED
      BY <1>9, <2>2, <3>1, UnbookType, UnlinkedType, Moves DEF ReverseLeg, TypeOK
  <2> QED
    BY <1>9, <2>1, <2>2 DEF ReverseLeg
<1>10. ASSUME NEW c \in Clients, Finish(c) PROVE TypeOK'
  <2>1. txn' \in [Txns -> {"NONE", "ACTIVE", "REVERSED"}] /\ mirrors' \subseteq Txns \X Sides
    BY <1>10, UnlinkedType DEF Finish, TypeOK
  <2> QED
    BY <1>10, <2>1, IdleType DEF Finish, TypeOK
<1>11. ASSUME NEW c \in Clients, ReverseEntry(c) PROVE TypeOK'
  <2>1. Leg(req[c].on.event, req[c].side) \in AllLegs /\ req[c].on.event \in Events
    BY RequestType, TxnsType
  <2> QED
    BY <1>11, <2>1, UnbookType, IdleType DEF ReverseEntry, TypeOK
<1>12. ASSUME NEW c \in Clients, FlushSource(c) PROVE TypeOK'
  <2> DEFINE r == [Idle EXCEPT !.pc = "source", !.gen = keys + 1]
  <2>1. keys + 1 \in 0..MaxEnables
    BY <1>12, IcPairAssumption DEF FlushSource, TypeOK
  <2>2. r \in Requests
    BY <2>1, SourceType
  <2>3. /\ req' = [req EXCEPT ![c] = r] /\ keys' = keys + 1
        /\ UNCHANGED <<books, shut, edge, sig, rekeyed, torn>>
    BY <1>12 DEF FlushSource
  <2> HIDE DEF r
  <2> QED
    BY <2>1, <2>2, <2>3 DEF TypeOK
<1>13. ASSUME NEW c \in Clients, FlushDestination(c) PROVE TypeOK'
  <2>1. req' = [req EXCEPT ![c] = [req[c] EXCEPT !.pc = "both"]]
    BY <1>13 DEF FlushDestination, TypeOK
  <2> QED
    BY <1>13, <2>1, Moves DEF FlushDestination, TypeOK
<1>14. ASSUME NEW c \in Clients, CommitSource(c) PROVE TypeOK'
  <2>1. req' = [req EXCEPT ![c] = [req[c] EXCEPT !.pc = "destination"]]
    BY <1>14 DEF CommitSource, TypeOK
  <2>2. edge' \in [Sides -> 0..MaxEnables] /\ rekeyed' \subseteq Remotes
    BY <1>14, RequestType DEF CommitSource, TypeOK, Signed
  <2>3. [req[c] EXCEPT !.pc = "destination"] \in Requests
    BY Moves
  <2>4. req' \in [Clients -> Requests]
    BY <2>1, <2>3 DEF TypeOK
  <2> QED
    BY <1>14, <2>2, <2>4 DEF CommitSource, TypeOK, books
<1>15. ASSUME NEW c \in Clients, CommitDestination(c) PROVE TypeOK'
  BY <1>15, RequestType, IdleType DEF CommitDestination, NewKeys, TypeOK
<1>16. ASSUME NEW c \in Clients, Crash(c) PROVE TypeOK'
  BY <1>16, EndType, IdleType DEF Crash, TypeOK
<1> QED
  BY <1>1, <1>2, <1>3, <1>4, <1>5, <1>6, <1>7, <1>8, <1>9, <1>10, <1>11, <1>12, <1>13, <1>14,
     <1>15, <1>16 DEF Next

-----------------------------------------------------------------------------
(***************************************************************************)
(* The keys                                                                *)
(***************************************************************************)

LEMMA TwoSides == "ORIGINATOR" \in Sides /\ "COUNTERPARTY" \in Sides
  BY DEF Sides

\* A step that leaves the keys alone, and ends an enablement only in a crash
LEMMA Unrelated ==
  ASSUME KeysInv, TypeOK', UNCHANGED <<edge, keys, sig, rekeyed>>, torn => torn',
         \A c \in Clients :
           \/ req'[c] = req[c]
           \/ /\ req'[c].pc \notin {"originate", "source", "both", "destination"}
              /\ req[c].pc = "destination" => torn'
  PROVE  KeysInv'
<1>1. ASSUME NEW c \in Clients PROVE Enabling(c)'
  <2>1. Enabling(c)
    BY DEF KeysInv
  <2>2. CASE req'[c] # req[c]
    BY <2>2 DEF Enabling
  <2>3. CASE req'[c] = req[c]
    BY <2>1, <2>3 DEF Enabling
  <2> QED
    BY <2>2, <2>3
<1>2. Between => Between'
  BY DEF Between
<1>3. (Between \/ edge["ORIGINATOR"] = edge["COUNTERPARTY"])'
  BY <1>2 DEF KeysInv
<1>4. RelayVerifies'
  BY <1>2 DEF KeysInv, RelayVerifies, Between
<1> QED
  BY <1>1, <1>3, <1>4 DEF KeysInv

\* A step of one client alone
LEMMA UnrelatedRequest ==
  ASSUME KeysInv, TypeOK', UNCHANGED <<edge, keys, sig, rekeyed, torn>>,
         NEW c \in Clients, \A o \in Clients : o # c => req'[o] = req[o],
         req[c].pc # "destination",
         req'[c].pc \notin {"originate", "source", "both", "destination"}
  PROVE  KeysInv'
  BY Unrelated

LEMMA OriginateKeys ==
  ASSUME KeysInv, TypeOK', NEW c \in Clients,
         (\E e \in Remotes : BeginOriginate(c, e)) \/ Originate(c)
  PROVE  KeysInv'
<1>0. TypeOK
  BY DEF KeysInv
<1>1. CASE \E e \in Remotes : BeginOriginate(c, e)
  <2>1. PICK e \in Remotes : BeginOriginate(c, e)
    BY <1>1
  <2> DEFINE k == [event |-> e, owner |-> "ORIGINATOR"]
             r == [Idle EXCEPT !.pc = "originate", !.on = k, !.gen = edge["ORIGINATOR"]]
  <2>2. k \in Txns /\ k.event = e /\ edge["ORIGINATOR"] \in 0..MaxEnables
    BY TwoSides, MakesTxn, <1>0 DEF TypeOK
  <2>3. r \in Requests /\ r.pc = "originate" /\ r.on = k /\ r.gen = edge["ORIGINATOR"]
    BY <2>2, IdleType DEF Requests
  <2>4. req[c].pc = "idle" /\ req' = [req EXCEPT ![c] = r] /\ UNCHANGED relay
    BY <2>1 DEF BeginOriginate
  <2> HIDE DEF r
  <2>5. req'[c] = r /\ \A o \in Clients : o # c => req'[o] = req[o]
    BY <1>0, <2>3, <2>4, Becomes
  <2>6. ASSUME NEW o \in Clients PROVE Enabling(o)'
    <3>1. Enabling(o)
      BY DEF KeysInv
    <3>2. CASE o = c
      BY <3>2, <2>2, <2>3, <2>4, <2>5 DEF Enabling, relay
    <3>3. CASE o # c
      BY <3>1, <3>3, <2>3, <2>4, <2>5 DEF Enabling, relay
    <3> QED
      BY <3>2, <3>3
  <2>7. Between => Between'
    BY <2>4, <2>5 DEF Between, relay
  <2>8. RelayVerifies'
    BY <2>4, <2>7 DEF KeysInv, RelayVerifies, Between, relay
  <2> QED
    BY <2>4, <2>6, <2>7, <2>8 DEF KeysInv, relay
<1>2. CASE Originate(c)
  <2>1. /\ req[c].pc = "originate" /\ sig' = [sig EXCEPT ![req[c].on.event] = req[c].gen]
        /\ req' = [req EXCEPT ![c] = Idle] /\ UNCHANGED <<edge, keys, rekeyed, torn>>
    BY <1>2 DEF Originate
  <2>2. req'[c] = Idle /\ \A o \in Clients : o # c => req'[o] = req[o]
    BY <1>0, <2>1, IdleType, Becomes
  <2>3. req[c].on.event \in Remotes
        /\ (req[c].on.event \in rekeyed \/ req[c].gen = edge["ORIGINATOR"])
    BY <2>1 DEF KeysInv, Enabling
  <2>4. ASSUME NEW o \in Clients PROVE Enabling(o)'
    <3>1. Enabling(o)
      BY DEF KeysInv
    <3>2. CASE o = c
      BY <3>2, <2>2, IdleType DEF Enabling
    <3>3. CASE o # c
      BY <3>1, <3>3, <2>1, <2>2, IdleType DEF Enabling
    <3> QED
      BY <3>2, <3>3
  <2>5. Between => Between'
    BY <2>1, <2>2 DEF Between
  <2>6. \A e \in Remotes : sig'[e] = IF e = req[c].on.event THEN req[c].gen ELSE sig[e]
    BY <2>1, <2>3, <1>0 DEF TypeOK
  <2>7. \A e \in Remotes \ rekeyed' : sig'[e] \in {0, edge'["ORIGINATOR"]}
    BY <2>1, <2>3, <2>6 DEF KeysInv
  <2>8. RelayVerifies'
    BY <2>1, <2>5, <2>7 DEF KeysInv, RelayVerifies, Between
  <2> QED
    BY <2>1, <2>4, <2>5, <2>7, <2>8 DEF KeysInv
<1> QED
  BY <1>1, <1>2

LEMMA FlushKeys ==
  ASSUME KeysInv, TypeOK', NEW c \in Clients, FlushSource(c) \/ FlushDestination(c)
  PROVE  KeysInv'
<1>0. TypeOK
  BY DEF KeysInv
<1>1. PICK r \in Requests :
        /\ req' = [req EXCEPT ![c] = r] /\ UNCHANGED <<edge, sig, rekeyed, torn>>
        /\ r.gen \in 1..keys' /\ keys' \in Nat /\ keys \in Nat /\ keys <= keys'
        /\ req[c].pc # "destination"
        /\ \/ r.pc = "source" /\ ~HoldsSource
           \/ r.pc = "both" /\ ~HoldsDestination /\ req[c].pc = "source"
  <2>1. CASE FlushSource(c)
    <3> DEFINE r == [Idle EXCEPT !.pc = "source", !.gen = keys + 1]
    <3>1. keys + 1 \in 0..MaxEnables /\ keys \in Nat
      BY <2>1, <1>0, IcPairAssumption DEF FlushSource, TypeOK
    <3>2. r \in Requests /\ r.pc = "source" /\ r.gen = keys + 1
      BY <3>1, SourceType
    <3>3. /\ req' = [req EXCEPT ![c] = r] /\ keys' = keys + 1 /\ ~HoldsSource
          /\ UNCHANGED <<edge, sig, rekeyed, torn>> /\ req[c].pc = "idle"
      BY <2>1 DEF FlushSource
    <3> HIDE DEF r
    <3>4. r.gen \in 1..keys' /\ keys' \in Nat /\ keys <= keys'
      BY <3>1, <3>2, <3>3
    <3> QED
      BY <3>1, <3>2, <3>3, <3>4
  <2>2. CASE FlushDestination(c)
    <3> DEFINE r == [req[c] EXCEPT !.pc = "both"]
    <3>1. r \in Requests /\ r.pc = "both" /\ r.gen = req[c].gen
      BY <1>0, Moves
    <3>2. /\ req' = [req EXCEPT ![c] = r] /\ ~HoldsDestination /\ req[c].pc = "source"
          /\ UNCHANGED relay
      BY <2>2, <1>0 DEF FlushDestination, TypeOK
    <3>3. req[c].gen \in 1..keys /\ keys \in Nat
      BY <3>2, <1>0 DEF KeysInv, Enabling, TypeOK
    <3>4. /\ UNCHANGED <<edge, sig, rekeyed, torn, keys>> /\ r.gen \in 1..keys' /\ keys' \in Nat
          /\ keys <= keys' /\ req[c].pc # "destination"
      BY <3>1, <3>2, <3>3 DEF relay
    <3> HIDE DEF r
    <3> QED
      BY <3>1, <3>2, <3>3, <3>4
  <2> QED
    BY <2>1, <2>2
<1>2. req'[c] = r /\ \A o \in Clients : o # c => req'[o] = req[o]
  BY <1>0, <1>1, Becomes
<1>3. ASSUME NEW o \in Clients PROVE Enabling(o)'
  <2>1. Enabling(o) /\ Enabling(c) /\ keys \in Nat
    BY <1>0 DEF KeysInv, TypeOK
  <2>2. CASE o = c
    BY <2>1, <2>2, <1>1, <1>2 DEF Enabling, HoldsSource, HoldsDestination
  <2>3. CASE o # c
    BY <2>1, <2>3, <1>1, <1>2 DEF Enabling, HoldsSource, HoldsDestination
  <2> QED
    BY <2>2, <2>3
<1>4. Between => Between'
  BY <1>1, <1>2 DEF Between
<1>5. RelayVerifies'
  BY <1>1, <1>4 DEF KeysInv, RelayVerifies, Between
<1> QED
  BY <1>1, <1>3, <1>4, <1>5 DEF KeysInv

\* What was signed before is rekeyed, and the edges differ until the second commit.
LEMMA CommitSourceKeys ==
  ASSUME KeysInv, TypeOK', NEW c \in Clients, CommitSource(c)
  PROVE  KeysInv'
<1>0. TypeOK /\ Enabling(c)
  BY DEF KeysInv
<1> DEFINE r == [req[c] EXCEPT !.pc = "destination"]
<1>1. r \in Requests /\ r.pc = "destination" /\ r.gen = req[c].gen
  BY <1>0, Moves
<1>2. /\ req[c].pc = "both" /\ req' = [req EXCEPT ![c] = r]
      /\ edge' = [edge EXCEPT !["ORIGINATOR"] = req[c].gen]
      /\ rekeyed' = rekeyed \cup Signed /\ UNCHANGED <<keys, sig, torn>>
  BY <1>0 DEF CommitSource, TypeOK
<1> HIDE DEF r
<1>3. req'[c] = r /\ \A o \in Clients : o # c => req'[o] = req[o]
  BY <1>0, <1>1, <1>2, Becomes
<1>4. edge'["ORIGINATOR"] = req[c].gen
  BY <1>0, <1>2, TwoSides DEF TypeOK
<1>5. ASSUME NEW o \in Clients PROVE Enabling(o)'
  <2>1. Enabling(o)
    BY DEF KeysInv
  <2>2. CASE o = c
    BY <2>2, <1>0, <1>1, <1>2, <1>3, <1>4 DEF Enabling
  <2>3. CASE o # c
    <3>1. req'[o] = req[o] /\ req[o].pc \notin {"source", "both", "destination"}
      BY <2>3, <1>0, <1>2, <1>3 DEF Enabling
    <3>2. req[o].pc = "originate" => req[o].on.event \in rekeyed'
      BY <2>1, <1>2 DEF Enabling, Signed
    <3> QED
      BY <2>1, <3>1, <3>2 DEF Enabling
  <2> QED
    BY <2>2, <2>3
<1>6. Between'
  BY <1>1, <1>3 DEF Between
<1>7. \A e \in Remotes \ rekeyed' : sig'[e] = 0
  BY <1>2 DEF Signed
<1>8. RelayVerifies'
  BY <1>7 DEF RelayVerifies
<1> QED
  BY <1>5, <1>6, <1>7, <1>8 DEF KeysInv

LEMMA CommitDestinationKeys ==
  ASSUME KeysInv, TypeOK', NEW c \in Clients, CommitDestination(c)
  PROVE  KeysInv'
<1>0. TypeOK /\ Enabling(c)
  BY DEF KeysInv
<1>1. /\ req[c].pc = "destination" /\ req' = [req EXCEPT ![c] = Idle]
      /\ edge' = [edge EXCEPT !["COUNTERPARTY"] = req[c].gen]
      /\ UNCHANGED <<keys, sig, rekeyed>>
  BY DEF CommitDestination, NewKeys
<1>2. req'[c] = Idle /\ \A o \in Clients : o # c => req'[o] = req[o]
  BY <1>0, <1>1, IdleType, Becomes
<1>3. edge'["COUNTERPARTY"] = edge'["ORIGINATOR"] /\ edge'["ORIGINATOR"] = edge["ORIGINATOR"]
  BY <1>0, <1>1, TwoSides DEF TypeOK, Enabling
<1>4. ASSUME NEW o \in Clients PROVE Enabling(o)'
  <2>1. Enabling(o)
    BY DEF KeysInv
  <2>2. CASE o = c
    BY <2>2, <1>2, IdleType DEF Enabling
  <2>3. CASE o # c
    BY <2>1, <2>3, <1>1, <1>2, <1>3, IdleType DEF Enabling
  <2> QED
    BY <2>2, <2>3
<1>5. \A e \in Remotes \ rekeyed' : sig'[e] \in {0, edge'["ORIGINATOR"]}
  BY <1>1, <1>3 DEF KeysInv
<1>6. RelayVerifies'
  BY <1>3, <1>5 DEF RelayVerifies
<1> QED
  BY <1>3, <1>4, <1>5, <1>6 DEF KeysInv

LEMMA KeysNext ==
  ASSUME KeysInv, [Next]_vars
  PROVE  KeysInv'
<1>0. TypeOK
  BY DEF KeysInv
<1>1. CASE UNCHANGED vars
  BY <1>1 DEF vars, KeysInv, TypeOK, Enabling, Between, RelayVerifies
<1>2. CASE Next
  <2>0. TypeOK'
    BY <1>0, <1>2, TypeNext
  <2>1. ASSUME UNCHANGED <<relay, req>> PROVE KeysInv'
    BY <2>0, <2>1, Unrelated DEF relay
  <2>2. ASSUME NEW c \in Clients, NEW k \in Txns, BeginReverse(c, k) PROVE KeysInv'
    <3> DEFINE r == [Idle EXCEPT !.pc = "read", !.on = k, !.side = First(k)]
    <3>1. First(k) \in Sides
      BY TxnsType
    <3>2. r \in Requests /\ r.pc = "read"
      BY <3>1, IdleType DEF Requests
    <3>3. req' = [req EXCEPT ![c] = r] /\ UNCHANGED relay /\ req[c].pc = "idle"
      BY <2>2 DEF BeginReverse
    <3> HIDE DEF r
    <3> QED
      BY <2>0, <3>2, <3>3, <1>0, Becomes, UnrelatedRequest DEF relay
  <2>3. ASSUME NEW c \in Clients, NEW e \in Events, NEW s \in Sides, BeginReverseEntry(c, e, s)
        PROVE  KeysInv'
    <3> DEFINE r == [Idle EXCEPT !.pc = "entry", !.on.event = e,
                                 !.on.owner = IF e \in Pairs THEN "ORIGINATOR" ELSE s, !.side = s]
    <3>1. r \in Requests /\ r.pc = "entry"
      BY BeginEntryType
    <3>2. req' = [req EXCEPT ![c] = r] /\ UNCHANGED relay /\ req[c].pc = "idle"
      BY <2>3 DEF BeginReverseEntry
    <3> HIDE DEF r
    <3> QED
      BY <2>0, <3>1, <3>2, <1>0, Becomes, UnrelatedRequest DEF relay
  <2>4. ASSUME NEW c \in Clients, ReadLeg(c) PROVE KeysInv'
    <3>1. req[c].pc = "read" /\ UNCHANGED relay
      BY <2>4 DEF ReadLeg
    <3>2. \/ req' = [req EXCEPT ![c] = Idle]
          \/ req' = [req EXCEPT ![c] = [req[c] EXCEPT !.pc = "reverse"]]
      BY <2>4, <1>0 DEF ReadLeg, End, TypeOK
    <3> QED
      BY <2>0, <3>1, <3>2, <1>0, Becomes, Moves, IdleType, UnrelatedRequest DEF relay
  <2>5. ASSUME NEW c \in Clients, ReverseLeg(c) PROVE KeysInv'
    <3>1. req[c].pc = "reverse" /\ UNCHANGED relay
      BY <2>5 DEF ReverseLeg
    <3>2. \/ req' = [req EXCEPT ![c] = Idle]
          \/ req' = [req EXCEPT ![c] = NextLeg(req[c])]
      BY <2>5 DEF ReverseLeg, End
    <3>3. NextLeg(req[c]) \in Requests /\ NextLeg(req[c]).pc \in {"read", "finish"}
      BY <1>0, Moves
    <3> QED
      BY <2>0, <3>1, <3>2, <3>3, <1>0, Becomes, IdleType, UnrelatedRequest DEF relay
  <2>6. ASSUME NEW c \in Clients, Finish(c) \/ ReverseEntry(c) PROVE KeysInv'
    <3>1. /\ req[c].pc \in {"finish", "entry"} /\ UNCHANGED relay
          /\ req' = [req EXCEPT ![c] = Idle]
      BY <2>6 DEF Finish, ReverseEntry
    <3> QED
      BY <2>0, <3>1, <1>0, Becomes, IdleType, UnrelatedRequest DEF relay
  <2>7. ASSUME NEW c \in Clients, Crash(c) PROVE KeysInv'
    <3>1. /\ req' = [req EXCEPT ![c] = Idle] /\ UNCHANGED <<edge, keys, sig, rekeyed>>
          /\ torn' = (torn \/ req[c].pc = "destination")
      BY <2>7 DEF Crash, End
    <3> QED
      BY <2>0, <3>1, <1>0, Becomes, IdleType, Unrelated
  <2> QED
    BY <1>2, <2>0, <2>1, <2>2, <2>3, <2>4, <2>5, <2>6, <2>7, OriginateKeys, FlushKeys,
       CommitSourceKeys, CommitDestinationKeys
       DEF Next, ShutOrOpen, PostPair, Accept
<1> QED
  BY <1>1, <1>2

-----------------------------------------------------------------------------
(***************************************************************************)
(* The books                                                               *)
(***************************************************************************)

\* c has reversed one leg and not the other.
Midway(c) == req[c].pc \in {"read", "reverse"} /\ Unlinked(req[c]) # {}

\* A request changes and the books do not: it goes on midway, or its event is split.
LEMMA SilentBooks ==
  ASSUME BooksInv, TypeOK', UNCHANGED <<txn, entry, net, mirrors>>, split \subseteq split',
         NEW c \in Clients, \A o \in Clients : o # c => req'[o] = req[o],
         Going(c)',
         \A o \in Clients, k \in Txns :
           o # c /\ Reversing(o, k) /\ Reversing(c, k)' => k.event \in split' \/ Reversing(c, k),
         Midway(c) => req[c].on.event \in split' \/ (Midway(c)' /\ req'[c].on = req[c].on)
  PROVE  BooksInv'
<1>0. TypeOK
  BY DEF BooksInv
<1>1. Booked'
  BY DEF BooksInv, Booked
<1>2. ASSUME NEW o \in Clients PROVE Going(o)'
  <2>1. CASE o = c
    BY <2>1
  <2>2. CASE o # c
    <3>1. Going(o) /\ req'[o] = req[o] /\ req[o].on \in Txns
      BY <2>2, <1>0, RequestType DEF BooksInv
    <3>2. ASSUME Reversing(o, req[o].on), req[o].on.event \notin split'
          PROVE  \A v \in Clients \ {o} : ~Reversing(v, req[o].on)'
      <4> SUFFICES ASSUME NEW v \in Clients \ {o}, Reversing(v, req[o].on)' PROVE FALSE
        OBVIOUS
      <4>1. ~Reversing(v, req[o].on)
        BY <3>1, <3>2 DEF Going
      <4>2. v = c
        BY <3>1, <4>1 DEF Reversing
      <4> QED
        BY <2>2, <3>1, <3>2, <4>1, <4>2
    <3>3. Reversing(o, req[o].on)' => Reversing(o, req[o].on)
      BY <3>1 DEF Reversing
    <3> QED
      BY <3>1, <3>2, <3>3 DEF Going
  <2> QED
    BY <2>1, <2>2
<1>3. PairAgrees'
  <2> SUFFICES ASSUME NEW p \in Pairs, p \notin split',
                      ~Unwinding([event |-> p, owner |-> "ORIGINATOR"])'
               PROVE  net[Leg(p, "ORIGINATOR")] = net[Leg(p, "COUNTERPARTY")]
    BY DEF PairAgrees, Leg
  <2> DEFINE k == [event |-> p, owner |-> "ORIGINATOR"]
  <2>1. ~Unwinding(k)
    <3> SUFFICES ASSUME NEW o \in Clients, Reversing(o, k), Unlinked(req[o]) # {}, req[o].pc # "finish"
                 PROVE  FALSE
      BY DEF Unwinding
    <3>1. Midway(o) /\ req[o].on = k
      BY DEF Midway, Reversing
    <3>2. CASE o # c
      BY <3>2 DEF Unwinding, Reversing
    <3>3. CASE o = c
      <4>1. Midway(c)' /\ req'[c].on = k
        BY <3>1, <3>3
      <4> QED
        BY <4>1 DEF Midway, Unwinding, Reversing
    <3> QED
      BY <3>2, <3>3
  <2> QED
    BY <2>1 DEF BooksInv, PairAgrees
<1>4. ReversedIsReversed'
  BY DEF BooksInv, ReversedIsReversed
<1> QED
  BY <1>1, <1>2, <1>3, <1>4 DEF BooksInv

\* The same when the request reverses no event, before or after
LEMMA UnrelatedBooks ==
  ASSUME BooksInv, TypeOK', UNCHANGED books,
         NEW c \in Clients, \A o \in Clients : o # c => req'[o] = req[o],
         req[c].pc \notin {"read", "reverse", "finish"},
         req'[c].pc \notin {"read", "reverse", "finish"}
  PROVE  BooksInv'
<1>1. Going(c)' /\ ~Midway(c) /\ \A k \in Txns : ~Reversing(c, k)'
  BY DEF Going, Reversing, Midway
<1> QED
  BY <1>1, SilentBooks DEF books

\* Steps of requests that reverse no event
Quiet(c) ==
  \/ \E e \in Remotes : BeginOriginate(c, e)
  \/ \E e \in Events, s \in Sides : BeginReverseEntry(c, e, s)
  \/ FlushSource(c) \/ FlushDestination(c) \/ CommitSource(c) \/ CommitDestination(c)

LEMMA QuietBooks ==
  ASSUME BooksInv, TypeOK', NEW c \in Clients, Quiet(c)
  PROVE  BooksInv'
<1>0. TypeOK
  BY DEF BooksInv
<1> DEFINE Others == {"originate", "entry", "source", "both", "destination", "idle"}
<1>1. UNCHANGED books /\ req[c].pc \in Others
  BY DEF Quiet, BeginOriginate, BeginReverseEntry, FlushSource, FlushDestination, CommitSource,
         CommitDestination, relay
<1>2. \E r \in Requests : r.pc \in Others /\ req' = [req EXCEPT ![c] = r]
  <2>1. CASE \E e \in Remotes : BeginOriginate(c, e)
    <3>1. PICK e \in Remotes : BeginOriginate(c, e)
      BY <2>1
    <3> DEFINE r == [Idle EXCEPT !.pc = "originate", !.on = [event |-> e, owner |-> "ORIGINATOR"],
                                 !.gen = edge["ORIGINATOR"]]
    <3>2. [event |-> e, owner |-> "ORIGINATOR"] \in Txns /\ edge["ORIGINATOR"] \in 0..MaxEnables
      BY <1>0, MakesTxn, TwoSides DEF TypeOK
    <3>3. r \in Requests /\ r.pc = "originate"
      BY <3>2, IdleType DEF Requests
    <3> QED
      BY <3>1, <3>3 DEF BeginOriginate
  <2>2. CASE \E e \in Events, s \in Sides : BeginReverseEntry(c, e, s)
    <3>1. PICK e \in Events, s \in Sides : BeginReverseEntry(c, e, s)
      BY <2>2
    <3> DEFINE r == [Idle EXCEPT !.pc = "entry", !.on.event = e,
                                 !.on.owner = IF e \in Pairs THEN "ORIGINATOR" ELSE s, !.side = s]
    <3>2. r \in Requests /\ r.pc = "entry"
      BY BeginEntryType
    <3> QED
      BY <3>1, <3>2 DEF BeginReverseEntry
  <2>3. CASE FlushSource(c)
    <3> DEFINE r == [Idle EXCEPT !.pc = "source", !.gen = keys + 1]
    <3>0. keys + 1 \in 0..MaxEnables
      BY <1>0, <2>3, IcPairAssumption DEF FlushSource, TypeOK
    <3>1. r \in Requests /\ r.pc = "source"
      BY <3>0, SourceType
    <3> QED
      BY <2>3, <3>1 DEF FlushSource
  <2>4. CASE FlushDestination(c) \/ CommitSource(c)
    <3>1. \/ req' = [req EXCEPT ![c] = [req[c] EXCEPT !.pc = "both"]]
          \/ req' = [req EXCEPT ![c] = [req[c] EXCEPT !.pc = "destination"]]
      BY <1>0, <2>4 DEF FlushDestination, CommitSource, TypeOK
    <3> QED
      BY <1>0, <3>1, Moves
  <2>5. CASE CommitDestination(c)
    BY <2>5, IdleType DEF CommitDestination
  <2> QED
    BY <2>1, <2>2, <2>3, <2>4, <2>5 DEF Quiet
<1>3. PICK r \in Requests : r.pc \in Others /\ req' = [req EXCEPT ![c] = r]
  BY <1>2
<1>4. req'[c].pc \in Others /\ \A o \in Clients : o # c => req'[o] = req[o]
  BY <1>0, <1>3, Becomes
<1> QED
  BY <1>1, <1>4, UnrelatedBooks

LEMMA BeginReverseBooks ==
  ASSUME BooksInv, TypeOK', NEW c \in Clients, NEW k \in Txns, BeginReverse(c, k)
  PROVE  BooksInv'
<1>0. TypeOK
  BY DEF BooksInv
<1> DEFINE r == [Idle EXCEPT !.pc = "read", !.on = k, !.side = First(k)]
<1>1. First(k) \in Sides /\ First(k) \in Covers(k)
  BY TxnsType
<1>2. r \in Requests /\ r.pc = "read" /\ r.on = k /\ r.side = First(k)
  BY <1>1, IdleType DEF Requests
<1>3. /\ req[c].pc = "idle" /\ txn[k] = "ACTIVE" /\ req' = [req EXCEPT ![c] = r]
      /\ split' = IF \E o \in Clients : Reversing(o, k) THEN split \cup {k.event} ELSE split
      /\ UNCHANGED <<txn, entry, net, mirrors>>
  BY DEF BeginReverse
<1> HIDE DEF r
<1>4. req'[c] = r /\ \A o \in Clients : o # c => req'[o] = req[o]
  BY <1>0, <1>2, <1>3, Becomes
<1>5. k.event \notin split' => \A o \in Clients \ {c} : ~Reversing(o, k)'
  BY <1>3, <1>4 DEF Reversing
<1>6. Going(c)'
  BY <1>1, <1>2, <1>3, <1>4, <1>5 DEF Going
<1>7. ~Midway(c)
  BY <1>3 DEF Midway
<1>8. \A o \in Clients, j \in Txns : o # c /\ Reversing(o, j) /\ Reversing(c, j)' => j.event \in split'
  BY <1>2, <1>3, <1>4 DEF Reversing
<1> QED
  BY <1>3, <1>4, <1>6, <1>7, <1>8, SilentBooks

\* The request ends, and splits its event when it was midway.
LEMMA EndBooks ==
  ASSUME BooksInv, TypeOK', NEW c \in Clients, End(c), UNCHANGED <<txn, entry, net, mirrors>>
  PROVE  BooksInv'
<1>0. TypeOK
  BY DEF BooksInv
<1>1. /\ req' = [req EXCEPT ![c] = Idle] /\ split \subseteq split'
      /\ Midway(c) => req[c].on.event \in split'
  BY <1>0, EndType DEF Midway
<1>2. req'[c] = Idle /\ \A o \in Clients : o # c => req'[o] = req[o]
  BY <1>0, <1>1, IdleType, Becomes
<1>3. Going(c)' /\ \A k \in Txns : ~Reversing(c, k)'
  BY <1>2, IdleType DEF Going, Reversing
<1> QED
  BY <1>1, <1>2, <1>3, SilentBooks

LEMMA ReadLegBooks ==
  ASSUME BooksInv, TypeOK', NEW c \in Clients, ReadLeg(c)
  PROVE  BooksInv'
<1>0. TypeOK /\ Going(c)
  BY DEF BooksInv
<1>1. req[c].pc = "read" /\ UNCHANGED <<txn, entry, net, mirrors>>
  BY DEF ReadLeg
<1>2. CASE End(c)
  BY <1>1, <1>2, EndBooks
<1>3. CASE ~End(c)
  <2> DEFINE r == [req[c] EXCEPT !.pc = "reverse"]
  <2>1. /\ Reversible(Leg(req[c].on.event, req[c].side)) /\ split' = split
        /\ req' = [req EXCEPT ![c] = r]
    BY <1>0, <1>3 DEF ReadLeg, TypeOK
  <2>2. r \in Requests /\ r.pc = "reverse" /\ r.on = req[c].on /\ r.side = req[c].side
    BY <1>0, Moves
  <2> HIDE DEF r
  <2>3. req'[c] = r /\ \A o \in Clients : o # c => req'[o] = req[o]
    BY <1>0, <2>1, <2>2, Becomes
  <2>4. \A k \in Txns : Reversing(c, k)' <=> Reversing(c, k)
    BY <1>1, <2>2, <2>3 DEF Reversing
  <2>5. Reversing(c, req[c].on)
    BY <1>1 DEF Reversing
  <2>6. req[c].on.event \notin split => \A o \in Clients \ {c} : ~Reversing(o, req[c].on)'
    BY <1>0, <2>2, <2>3, <2>5 DEF Going, Reversing
  <2>7. Going(c)'
    BY <1>0, <1>1, <2>1, <2>2, <2>3, <2>5, <2>6 DEF Going, Reversible
  <2>8. Midway(c) => Midway(c)' /\ req'[c].on = req[c].on
    BY <1>1, <2>2, <2>3 DEF Midway, Unlinked
  <2> QED
    BY <1>1, <2>1, <2>3, <2>4, <2>7, <2>8, SilentBooks
<1> QED
  BY <1>2, <1>3

\* An event is posted for which no reversal runs: its legs are both booked.
LEMMA PostBooks ==
  ASSUME BooksInv, TypeOK', NEW k \in Txns, Post(k),
         \A o \in Clients : \/ req'[o] = req[o]
                            \/ /\ req[o].pc \notin {"read", "reverse", "finish"}
                               /\ req'[o].pc \notin {"read", "reverse", "finish"}
  PROVE  BooksInv'
<1>0. TypeOK
  BY DEF BooksInv
<1>1. /\ txn[k] = "NONE" /\ txn'[k] = "ACTIVE" /\ \A o \in Txns : o # k => txn'[o] = txn[o]
      /\ \A l \in AllLegs :
           IF l.event = k.event /\ l.side \in Covers(k)
           THEN entry'[l] = "POSTED" /\ net'[l] = 1
           ELSE entry'[l] = entry[l] /\ net'[l] = net[l]
      /\ UNCHANGED <<mirrors, split>>
  BY <1>0, PostType
<1>2. \A j \in Txns : j # k /\ j.event = k.event => Covers(j) \cap Covers(k) = {}
  BY DEF Txns, Covers
<1>3. \A j \in Txns, s \in Sides :
        j # k /\ s \in Covers(j) => /\ entry'[Leg(j.event, s)] = entry[Leg(j.event, s)]
                                    /\ net'[Leg(j.event, s)] = net[Leg(j.event, s)]
  BY <1>1, <1>2, TxnsType
<1>4. Booked'
  BY <1>1 DEF BooksInv, Booked
<1>5. \A o \in Clients, j \in Txns : Reversing(o, j)' <=> Reversing(o, j)
  BY DEF Reversing
<1>6. ASSUME NEW o \in Clients PROVE Going(o)'
  <2>1. Going(o) /\ req[o].on \in Txns /\ req[o].side \in Sides
    BY <1>0, RequestType DEF BooksInv
  <2>2. CASE req'[o] # req[o]
    BY <2>2 DEF Going, Reversing
  <2>3. CASE req'[o] = req[o] /\ Reversing(o, req[o].on)
    <3>1. req[o].on # k /\ txn'[req[o].on] # "NONE"
      BY <1>1, <2>1, <2>3 DEF Going
    <3>2. First(req[o].on) \in Sides /\ First(req[o].on) \in Covers(req[o].on)
      BY <2>1, TxnsType
    <3>3. /\ entry'[Leg(req[o].on.event, req[o].side)] = entry[Leg(req[o].on.event, req[o].side)]
          /\ entry'[Leg(req[o].on.event, First(req[o].on))] =
               entry[Leg(req[o].on.event, First(req[o].on))]
      BY <1>3, <2>1, <2>3, <3>1, <3>2 DEF Going
    <3> QED
      BY <1>1, <1>5, <2>1, <2>3, <3>1, <3>3 DEF Going
  <2>4. CASE req'[o] = req[o] /\ ~Reversing(o, req[o].on)
    BY <2>4 DEF Going, Reversing
  <2> QED
    BY <2>2, <2>3, <2>4
<1>7. PairAgrees'
  <2> SUFFICES ASSUME NEW p \in Pairs, p \notin split',
                      ~Unwinding([event |-> p, owner |-> "ORIGINATOR"])'
               PROVE  net'[Leg(p, "ORIGINATOR")] = net'[Leg(p, "COUNTERPARTY")]
    BY DEF PairAgrees, Leg
  <2> DEFINE j == [event |-> p, owner |-> "ORIGINATOR"]
  <2>1. j \in Txns /\ Covers(j) = Sides
    BY MakesTxn DEF Covers
  <2>2. CASE j = k
    <3>1. /\ Leg(p, "ORIGINATOR") \in AllLegs /\ Leg(p, "COUNTERPARTY") \in AllLegs
          /\ Leg(p, "ORIGINATOR").event = p /\ Leg(p, "COUNTERPARTY").event = p
          /\ Leg(p, "ORIGINATOR").side \in Sides /\ Leg(p, "COUNTERPARTY").side \in Sides
      BY TxnsType, TwoSides DEF Events
    <3>2. k.event = p /\ Covers(k) = Sides
      BY <2>1, <2>2
    <3> QED
      BY <1>1, <3>1, <3>2
  <2>3. CASE j # k
    <3>1. ~Unwinding(j)
      <4> SUFFICES ASSUME NEW o \in Clients, Reversing(o, j), Unlinked(req[o]) # {},
                          req[o].pc # "finish"
                   PROVE  FALSE
        BY DEF Unwinding
      <4>1. req'[o] = req[o]
        BY DEF Reversing
      <4> QED
        BY <4>1 DEF Unwinding, Reversing
    <3>2. net[Leg(p, "ORIGINATOR")] = net[Leg(p, "COUNTERPARTY")]
      BY <1>1, <3>1 DEF BooksInv, PairAgrees
    <3>3. j.event = p
      OBVIOUS
    <3> QED
      BY <1>3, <2>1, <2>3, <3>2, <3>3, TwoSides
  <2> QED
    BY <2>2, <2>3
<1>8. ReversedIsReversed'
  <2> SUFFICES ASSUME NEW j \in Txns, txn'[j] = "REVERSED", NEW s \in Covers(j)
               PROVE  /\ entry'[Leg(j.event, s)] = "REVERSED" /\ <<j, s>> \in mirrors'
                      /\ j.event \in split' \/ net'[Leg(j.event, s)] = 0
    BY DEF ReversedIsReversed, Covers, Leg
  <2>1. j # k /\ txn[j] = "REVERSED" /\ s \in Sides
    BY <1>1, TxnsType
  <2> QED
    BY <1>1, <1>3, <2>1 DEF BooksInv, ReversedIsReversed
<1> QED
  BY <1>4, <1>6, <1>7, <1>8 DEF BooksInv

\* What others have done stays so when one more leg is reversed.
LEMMA UnbookKeeps ==
  ASSUME BooksInv, TypeOK', NEW c \in Clients, \A o \in Clients : o # c => req'[o] = req[o],
         NEW l \in AllLegs, Unbook(l), UNCHANGED txn, split \subseteq split',
         mirrors \subseteq mirrors',
         \A k \in Txns : Reversing(c, k)' => Reversing(c, k),
         NEW o \in Clients, o # c,
         l.event \in split' \/ ~Reversing(o, req[o].on) \/ req[o].on.event # l.event
           \/ l.side \notin Covers(req[o].on)
  PROVE  Going(o)'
<1>0. TypeOK
  BY DEF BooksInv
<1>1. Going(o) /\ req'[o] = req[o] /\ req[o].on \in Txns /\ req[o].side \in Sides
  BY <1>0, RequestType DEF BooksInv
<1>2. SUFFICES ASSUME Reversing(o, req[o].on) PROVE Going(o)'
  BY <1>1 DEF Going, Reversing
<1>3. First(req[o].on) \in Covers(req[o].on) /\ First(req[o].on) \in Sides
      /\ req[o].side \in Covers(req[o].on) /\ req[o].on.event \in Events
  BY <1>1, <1>2, TxnsType DEF Going
<1>4. \A m \in AllLegs : entry[m] = "REVERSED" => entry'[m] = "REVERSED"
  BY <1>0, UnbookType
<1>5. /\ Leg(req[o].on.event, req[o].side) \in AllLegs
      /\ Leg(req[o].on.event, First(req[o].on)) \in AllLegs
      /\ Leg(req[o].on.event, req[o].side).event = req[o].on.event
      /\ Leg(req[o].on.event, req[o].side).side = req[o].side
  BY <1>1, <1>3, TxnsType
<1>6. req[o].on.event \notin split' =>
        entry'[Leg(req[o].on.event, req[o].side)] = entry[Leg(req[o].on.event, req[o].side)]
  BY <1>0, <1>2, <1>3, <1>5, UnbookType
<1>7. req[o].on.event \notin split' => \A v \in Clients \ {o} : ~Reversing(v, req[o].on)'
  <2> SUFFICES ASSUME req[o].on.event \notin split', NEW v \in Clients \ {o},
                      Reversing(v, req[o].on)'
               PROVE  FALSE
    OBVIOUS
  <2>1. ~Reversing(v, req[o].on)
    BY <1>1, <1>2 DEF Going
  <2>2. v = c
    BY <1>1, <2>1 DEF Reversing
  <2> QED
    BY <1>1, <2>1, <2>2
<1> QED
  BY <1>1, <1>2, <1>4, <1>5, <1>6, <1>7 DEF Going

\* What a reversal of one leg keeps for the events it is not about
LEMMA UnbookOthers ==
  ASSUME BooksInv, TypeOK', NEW c \in Clients, \A o \in Clients : o # c => req'[o] = req[o],
         NEW l \in AllLegs, Unbook(l), split \subseteq split', mirrors \subseteq mirrors',
         UNCHANGED txn,
         \/ l.event \in split'
         \/ /\ entry[l] = "POSTED" /\ l.event \notin split
            /\ Midway(c) => req[c].on.event = l.event
  PROVE  /\ Booked' /\ ReversedIsReversed'
         /\ \A p \in Pairs \ split' :
              p # l.event /\ (Midway(c) => req[c].on.event # p) =>
                \/ Unwinding([event |-> p, owner |-> "ORIGINATOR"])'
                \/ net'[Leg(p, "ORIGINATOR")] = net'[Leg(p, "COUNTERPARTY")]
<1>0. TypeOK
  BY DEF BooksInv
<1>1. /\ net'[l] = net[l] - 1 /\ entry'[l] = "REVERSED"
      /\ \A o \in AllLegs : o # l => net'[o] = net[o] /\ entry'[o] = entry[o]
  BY <1>0, UnbookType
<1>2. Booked'
  <2> SUFFICES ASSUME NEW m \in AllLegs, m.event \notin split'
               PROVE  net'[m] = IF entry'[m] = "POSTED" THEN 1 ELSE 0
    BY DEF Booked
  <2>1. net[m] = IF entry[m] = "POSTED" THEN 1 ELSE 0
    BY DEF BooksInv, Booked
  <2> QED
    BY <1>1, <2>1
<1>3. ReversedIsReversed'
  <2> SUFFICES ASSUME NEW j \in Txns, txn[j] = "REVERSED", NEW s \in Covers(j)
               PROVE  /\ entry'[Leg(j.event, s)] = "REVERSED" /\ <<j, s>> \in mirrors'
                      /\ j.event \in split' \/ net'[Leg(j.event, s)] = 0
    BY DEF ReversedIsReversed, Covers, Leg
  <2>1. Leg(j.event, s) \in AllLegs /\ Leg(j.event, s).event = j.event
    BY TxnsType
  <2>2. /\ entry[Leg(j.event, s)] = "REVERSED" /\ <<j, s>> \in mirrors
        /\ j.event \in split \/ net[Leg(j.event, s)] = 0
    BY DEF BooksInv, ReversedIsReversed
  <2> QED
    BY <1>1, <2>1, <2>2
<1>4. ASSUME NEW p \in Pairs \ split', p # l.event, Midway(c) => req[c].on.event # p,
             ~Unwinding([event |-> p, owner |-> "ORIGINATOR"])'
      PROVE  net'[Leg(p, "ORIGINATOR")] = net'[Leg(p, "COUNTERPARTY")]
  <2> DEFINE j == [event |-> p, owner |-> "ORIGINATOR"]
  <2>1. ~Unwinding(j)
    <3> SUFFICES ASSUME NEW o \in Clients, Reversing(o, j), Unlinked(req[o]) # {}, req[o].pc # "finish"
                 PROVE  FALSE
      BY DEF Unwinding
    <3>1. o # c
      BY <1>4 DEF Midway, Reversing
    <3> QED
      BY <1>4, <3>1 DEF Unwinding, Reversing
  <2>2. net[Leg(p, "ORIGINATOR")] = net[Leg(p, "COUNTERPARTY")]
    BY <2>1 DEF BooksInv, PairAgrees
  <2>3. /\ Leg(p, "ORIGINATOR") \in AllLegs /\ Leg(p, "ORIGINATOR").event = p
        /\ Leg(p, "COUNTERPARTY") \in AllLegs /\ Leg(p, "COUNTERPARTY").event = p
    BY TxnsType, TwoSides DEF Events
  <2> QED
    BY <1>1, <1>4, <2>2, <2>3
<1> QED
  BY <1>2, <1>3, <1>4

LEMMA ReverseEntryBooks ==
  ASSUME BooksInv, TypeOK', NEW c \in Clients, ReverseEntry(c)
  PROVE  BooksInv'
<1>0. TypeOK
  BY DEF BooksInv
<1> DEFINE l == Leg(req[c].on.event, req[c].side)
<1>1. l \in AllLegs /\ l.event = req[c].on.event
  BY <1>0, RequestType, TxnsType
<1>2. /\ req[c].pc = "entry" /\ Unbook(l) /\ split' = split \cup {req[c].on.event}
      /\ req' = [req EXCEPT ![c] = Idle] /\ UNCHANGED <<txn, mirrors>>
  BY DEF ReverseEntry
<1> HIDE DEF l
<1>3. req'[c] = Idle /\ \A o \in Clients : o # c => req'[o] = req[o]
  BY <1>0, <1>2, IdleType, Becomes
<1>4. ~Midway(c) /\ l.event \in split' /\ split \subseteq split' /\ mirrors \subseteq mirrors'
  BY <1>1, <1>2 DEF Midway
<1>5. \A k \in Txns : ~Reversing(c, k)'
  BY <1>3, IdleType DEF Reversing
<1>6. \A o \in Clients : Going(o)'
  <2>1. Going(c)'
    BY <1>3, IdleType DEF Going, Reversing
  <2>2. ASSUME NEW o \in Clients, o # c PROVE Going(o)'
    BY <1>1, <1>2, <1>3, <1>4, <1>5, <2>2, UnbookKeeps
  <2> QED
    BY <2>1, <2>2
<1>7. /\ Booked' /\ ReversedIsReversed'
      /\ \A p \in Pairs \ split' :
           p # l.event /\ (Midway(c) => req[c].on.event # p) =>
             \/ Unwinding([event |-> p, owner |-> "ORIGINATOR"])'
             \/ net'[Leg(p, "ORIGINATOR")] = net'[Leg(p, "COUNTERPARTY")]
  BY <1>1, <1>2, <1>3, <1>4, UnbookOthers
<1>8. PairAgrees'
  BY <1>4, <1>7 DEF PairAgrees, Leg
<1> QED
  BY <1>6, <1>7, <1>8 DEF BooksInv

LEMMA ReverseLegBooks ==
  ASSUME BooksInv, TypeOK', NEW c \in Clients, ReverseLeg(c)
  PROVE  BooksInv'
<1>0. TypeOK /\ Going(c) /\ req[c].pc = "reverse" /\ UNCHANGED txn
  BY DEF BooksInv, ReverseLeg
<1>1. CASE End(c) /\ UNCHANGED <<entry, net, mirrors>>
  BY <1>0, <1>1, EndBooks
<1>2. CASE ~(End(c) /\ UNCHANGED <<entry, net, mirrors>>)
  <2>0. PICK k \in Txns, s \in Sides : k = req[c].on /\ s = req[c].side
    BY <1>0, RequestType
  <2> DEFINE l == Leg(k.event, s)
             r == NextLeg(req[c])
  <2>1. /\ Unbook(l) /\ mirrors' = mirrors \cup {<<k, t>> : t \in Unlinked(req[c])}
        /\ req' = [req EXCEPT ![c] = r] /\ split' = split
    BY <1>2, <2>0 DEF ReverseLeg
  <2>2. /\ k \in Txns /\ s \in Sides /\ k.event \in Events /\ l \in AllLegs /\ l.event = k.event
        /\ l.side = s
    BY <1>0, <2>0, RequestType, TxnsType
  <2>3. r \in Requests /\ r.on = k /\ IF k.event \in Pairs /\ s = "ORIGINATOR"
        THEN r.pc = "read" /\ r.side = "COUNTERPARTY" ELSE r.pc = "finish" /\ r.side = s
    BY <1>0, <2>0, Moves
  <2>4. Reversing(c, k)
    BY <1>0, <2>0 DEF Reversing
  <2>5. /\ txn[k] # "NONE" /\ s \in Covers(k)
        /\ s # First(k) => entry[Leg(k.event, First(k))] = "REVERSED"
        /\ k.event \notin split => /\ \A o \in Clients \ {c} : ~Reversing(o, k)
                                   /\ entry[l] = "POSTED"
    BY <1>0, <2>0, <2>4 DEF Going
  <2>6. Midway(c) => k.event = l.event
    BY <2>2, <2>0
  <2>7. s # First(k) => <<k, First(k)>> \in mirrors'
    BY <1>0, <2>0, <2>1 DEF Unlinked
  <2>8. req[c].on = k /\ req[c].side = s
    BY <2>0
  <2> HIDE DEF l, r
  <2>9. req'[c] = r /\ \A o \in Clients : o # c => req'[o] = req[o]
    BY <1>0, <2>1, <2>3, Becomes
  <2>10. /\ entry'[l] = "REVERSED" /\ net'[l] = net[l] - 1
         /\ \A m \in AllLegs : m # l => entry'[m] = entry[m] /\ net'[m] = net[m]
    BY <1>0, <2>1, <2>2, UnbookType
  <2>11. \A j \in Txns : Reversing(c, j)' <=> j = k
    BY <2>2, <2>3, <2>9 DEF Reversing
  <2>12. k.event \in Pairs \/ k.event \in Remotes
    BY <2>2 DEF Events
  <2>13. Going(c)'
    <3>1. /\ k.event \in Pairs => Covers(k) = Sides /\ First(k) = "ORIGINATOR"
          /\ k.event \in Remotes => Covers(k) = {First(k)}
          /\ First(k) \in Covers(k) /\ First(k) \in Sides
      BY <2>2, TxnsType
    <3>2. r.side \in Covers(k)
      BY <2>3, <2>5, <3>1, TwoSides
    <3>3. r.side # First(k) => entry'[Leg(k.event, First(k))] = "REVERSED"
      <4>1. Leg(k.event, First(k)) \in AllLegs
        BY <2>2, <3>1, TxnsType
      <4>2. s = First(k) => Leg(k.event, First(k)) = l
        BY DEF l
      <4> QED
        BY <2>3, <2>5, <2>10, <4>1, <4>2
    <3>4. r.pc = "finish" =>
            /\ k.event \in Pairs => r.side = "COUNTERPARTY"
            /\ entry'[Leg(k.event, r.side)] = "REVERSED"
            /\ r.side # First(k) => <<k, First(k)>> \in mirrors'
      BY <2>2, <2>3, <2>7, <2>10 DEF Sides, l
    <3>5. k.event \notin split' => \A o \in Clients \ {c} : ~Reversing(o, k)'
      BY <2>1, <2>5, <2>9 DEF Reversing
    <3>6. r.pc # "reverse" /\ txn'[k] # "NONE"
      BY <1>0, <2>3, <2>5
    <3> QED
      BY <2>1, <2>3, <2>9, <3>2, <3>3, <3>4, <3>5, <3>6 DEF Going, Reversing
  <2>14. ASSUME NEW o \in Clients, o # c PROVE Going(o)'
    <3>1. req[o].on \in Txns /\ mirrors \subseteq mirrors' /\ \A j \in Txns : Reversing(c, j)' => Reversing(c, j)
      BY <1>0, <2>1, <2>4, <2>11, RequestType
    <3>2. \/ l.event \in split' \/ ~Reversing(o, req[o].on) \/ req[o].on.event # l.event
          \/ l.side \notin Covers(req[o].on)
      <4> SUFFICES ASSUME k.event \notin split, Reversing(o, req[o].on), req[o].on.event = k.event
                   PROVE  s \notin Covers(req[o].on)
        BY <2>1, <2>2
      <4>1. req[o].on # k
        BY <2>5, <2>14
      <4> QED
        BY <2>2, <2>5, <3>1, <4>1 DEF Txns, Covers
    <3> QED
      BY <1>0, <2>1, <2>2, <2>9, <2>14, <3>1, <3>2, UnbookKeeps
  <2>15. /\ Booked' /\ ReversedIsReversed'
         /\ \A p \in Pairs \ split' :
              p # l.event /\ (Midway(c) => req[c].on.event # p) =>
                \/ Unwinding([event |-> p, owner |-> "ORIGINATOR"])'
                \/ net'[Leg(p, "ORIGINATOR")] = net'[Leg(p, "COUNTERPARTY")]
    <3>1. \/ l.event \in split'
          \/ /\ entry[l] = "POSTED" /\ l.event \notin split
             /\ Midway(c) => req[c].on.event = l.event
      BY <2>1, <2>2, <2>5, <2>8
    <3>2. split \subseteq split' /\ mirrors \subseteq mirrors'
      BY <2>1
    <3> QED
      BY <1>0, <2>1, <2>2, <2>9, <3>1, <3>2, UnbookOthers
  <2>16. PairAgrees'
    <3> SUFFICES ASSUME NEW p \in Pairs \ split',
                        ~Unwinding([event |-> p, owner |-> "ORIGINATOR"])'
                 PROVE  net'[Leg(p, "ORIGINATOR")] = net'[Leg(p, "COUNTERPARTY")]
      BY DEF PairAgrees, Leg
    <3>1. CASE p # k.event
      BY <2>2, <2>8, <2>15, <3>1
    <3>2. CASE p = k.event
      <4>1. k = [event |-> p, owner |-> "ORIGINATOR"] /\ First(k) = "ORIGINATOR"
        BY <2>2, <3>2 DEF Txns, First
      <4>2. s # "ORIGINATOR"
        <5> SUFFICES ASSUME s = "ORIGINATOR" PROVE FALSE
          OBVIOUS
        <5>1. r.pc = "read" /\ r.side = "COUNTERPARTY" /\ r.on = k
          BY <2>3, <3>2
        <5>2. Unlinked(r) # {}
          BY <4>1, <5>1 DEF Unlinked
        <5>3. Unwinding(k)'
          BY <2>9, <5>1, <5>2 DEF Unwinding, Reversing
        <5> QED
          BY <4>1, <5>3
      <4>3. l = Leg(p, "COUNTERPARTY") /\ s = "COUNTERPARTY"
        BY <2>2, <3>2, <4>2 DEF Sides, l
      <4>4. /\ Leg(p, "ORIGINATOR") \in AllLegs /\ Leg(p, "ORIGINATOR").event = p
            /\ Leg(p, "ORIGINATOR") # l
        BY <4>3, TxnsType, TwoSides DEF Events
      <4>5. net[Leg(p, "ORIGINATOR")] = 0 /\ net[l] = 1
        BY <2>1, <2>2, <2>5, <3>2, <4>1, <4>3, <4>4 DEF BooksInv, Booked
      <4> QED
        BY <2>10, <4>3, <4>4, <4>5
    <3> QED
      BY <3>1, <3>2
  <2>17. \A o \in Clients : Going(o)'
    BY <2>13, <2>14
  <2> QED
    BY <2>15, <2>16, <2>17 DEF BooksInv
<1> QED
  BY <1>1, <1>2
\* A finished reversal has reversed every leg, and its last row links the last.
LEMMA FinishBooks ==
  ASSUME BooksInv, TypeOK', NEW c \in Clients, Finish(c)
  PROVE  BooksInv'
<1>0. TypeOK /\ Going(c)
  BY DEF BooksInv
<1>1. PICK k \in Txns, s \in Sides : k = req[c].on /\ s = req[c].side
  BY <1>0, RequestType
<1>2. /\ req[c].pc = "finish" /\ UNCHANGED <<entry, net, split>>
      /\ req' = [req EXCEPT ![c] = Idle]
      /\ \/ UNCHANGED <<txn, mirrors>>
         \/ txn' = [txn EXCEPT ![k] = "REVERSED"] /\ mirrors' = mirrors \cup {<<k, s>>}
  BY <1>1 DEF Finish, Unlinked
<1>3. req'[c] = Idle /\ \A o \in Clients : o # c => req'[o] = req[o]
  BY <1>0, <1>2, IdleType, Becomes
<1>4. mirrors \subseteq mirrors' /\ \A j \in Txns : txn[j] # "NONE" => txn'[j] # "NONE"
  BY <1>0, <1>2 DEF TypeOK
<1>5. Booked'
  BY <1>2 DEF BooksInv, Booked
<1>6. \A j \in Txns : ~Reversing(c, j)'
  BY <1>3, IdleType DEF Reversing
<1>7. ASSUME NEW o \in Clients PROVE Going(o)'
  <2>1. CASE o = c
    BY <1>3, <2>1, IdleType DEF Going, Reversing
  <2>2. CASE o # c
    <3>1. Going(o) /\ req'[o] = req[o] /\ req[o].on \in Txns
      BY <1>0, <1>3, <2>2, RequestType DEF BooksInv
    <3>2. \A v \in Clients : Reversing(v, req[o].on)' => Reversing(v, req[o].on)
      <4> SUFFICES ASSUME NEW v \in Clients, Reversing(v, req[o].on)' PROVE Reversing(v, req[o].on)
        OBVIOUS
      <4>1. v # c
        BY <1>6, <3>1
      <4> QED
        BY <1>3, <3>1, <4>1 DEF Reversing
    <3> QED
      BY <1>2, <1>4, <3>1, <3>2 DEF Going
  <2> QED
    BY <2>1, <2>2
<1>8. PairAgrees'
  <2> SUFFICES ASSUME NEW p \in Pairs, p \notin split,
                      ~Unwinding([event |-> p, owner |-> "ORIGINATOR"])'
               PROVE  net[Leg(p, "ORIGINATOR")] = net[Leg(p, "COUNTERPARTY")]
    BY <1>2 DEF PairAgrees, Leg
  <2>1. ~Unwinding([event |-> p, owner |-> "ORIGINATOR"])
    <3> SUFFICES ASSUME NEW o \in Clients, Reversing(o, [event |-> p, owner |-> "ORIGINATOR"]),
                        Unlinked(req[o]) # {}, req[o].pc # "finish"
                 PROVE  FALSE
      BY DEF Unwinding
    <3> QED
      BY <1>2, <1>3 DEF Unwinding, Reversing
  <2> QED
    BY <2>1 DEF BooksInv, PairAgrees
<1>9. ReversedIsReversed'
  <2> SUFFICES ASSUME NEW j \in Txns, txn'[j] = "REVERSED", NEW t \in Covers(j)
               PROVE  /\ entry[Leg(j.event, t)] = "REVERSED" /\ <<j, t>> \in mirrors'
                      /\ j.event \in split \/ net[Leg(j.event, t)] = 0
    BY <1>2 DEF ReversedIsReversed, Covers, Leg
  <2>1. CASE txn[j] = "REVERSED"
    BY <1>4, <2>1 DEF BooksInv, ReversedIsReversed
  <2>2. CASE txn[j] # "REVERSED"
    <3>1. j = k /\ mirrors' = mirrors \cup {<<k, s>>}
      BY <1>0, <1>2, <2>2 DEF TypeOK
    <3>2. /\ s \in Covers(k) /\ entry[Leg(k.event, s)] = "REVERSED"
          /\ k.event \in Pairs => s = "COUNTERPARTY"
          /\ s # First(k) => /\ entry[Leg(k.event, First(k))] = "REVERSED"
                             /\ <<k, First(k)>> \in mirrors
      BY <1>0, <1>1, <1>2 DEF Going, Reversing
    <3>3. t = s \/ (t = First(k) /\ s # First(k))
      BY <3>1, <3>2, TxnsType DEF Sides, Events
    <3>4. entry[Leg(k.event, t)] = "REVERSED" /\ <<k, t>> \in mirrors'
      BY <3>1, <3>2, <3>3
    <3>5. Leg(k.event, t) \in AllLegs /\ Leg(k.event, t).event = k.event
      BY <3>1, TxnsType
    <3>6. k.event \in split \/ net[Leg(k.event, t)] = 0
      BY <3>4, <3>5 DEF BooksInv, Booked
    <3> QED
      BY <3>1, <3>4, <3>6
  <2> QED
    BY <2>1, <2>2
<1> QED
  BY <1>5, <1>7, <1>8, <1>9 DEF BooksInv

LEMMA BooksNext ==
  ASSUME BooksInv, [Next]_vars
  PROVE  BooksInv'
<1>0. TypeOK
  BY DEF BooksInv
<1>a. ASSUME TypeOK', UNCHANGED <<books, req>> PROVE BooksInv'
  BY <1>a DEF books, BooksInv, Booked, Going, Reversing, PairAgrees, Unwinding,
              ReversedIsReversed, Covers, First, Leg, AllLegs, Unlinked
<1>1. CASE UNCHANGED vars
  <2>1. TypeOK'
    BY <1>0, <1>1 DEF vars, TypeOK
  <2> QED
    BY <1>1, <1>a, <2>1 DEF vars, books
<1>2. CASE Next
  <2>0. TypeOK'
    BY <1>0, <1>2, TypeNext
  <2>1. ASSUME UNCHANGED <<books, req>> PROVE BooksInv'
    BY <1>a, <2>0, <2>1
  <2>2. ASSUME NEW p \in Pairs, PostPair(p) PROVE BooksInv'
    BY <2>0, <2>2, MakesTxn, PostBooks DEF PostPair
  <2>3. ASSUME NEW e \in Remotes, Accept(e) PROVE BooksInv'
    <3>1. [event |-> e, owner |-> "COUNTERPARTY"] \in Txns
      BY MakesTxn DEF Sides
    <3> QED
      BY <2>0, <2>3, <3>1, PostBooks DEF Accept
  <2>4. ASSUME NEW c \in Clients, Originate(c) PROVE BooksInv'
    <3>1. req[c].pc = "originate" /\ Post(req[c].on) /\ req' = [req EXCEPT ![c] = Idle]
      BY <2>4 DEF Originate
    <3>2. req[c].on \in Txns /\ req'[c].pc = "idle" /\ \A o \in Clients : o # c => req'[o] = req[o]
      BY <1>0, <3>1, RequestType, IdleType, Becomes
    <3>3. \A o \in Clients : \/ req'[o] = req[o]
                             \/ /\ req[o].pc \notin {"read", "reverse", "finish"}
                                /\ req'[o].pc \notin {"read", "reverse", "finish"}
      BY <3>1, <3>2
    <3> QED
      BY <2>0, <3>1, <3>2, <3>3, PostBooks
  <2>5. ASSUME NEW c \in Clients, Quiet(c) PROVE BooksInv'
    BY <1>0, <2>0, <2>5, QuietBooks
  <2>6. ASSUME NEW c \in Clients, Crash(c) PROVE BooksInv'
    BY <2>0, <2>6, EndBooks DEF Crash
  <2> QED
    BY <1>2, <2>0, <2>1, <2>2, <2>3, <2>4, <2>5, <2>6, BeginReverseBooks, ReadLegBooks,
       ReverseLegBooks, FinishBooks, ReverseEntryBooks
       DEF Next, ShutOrOpen, Quiet
<1> QED
  BY <1>1, <1>2

-----------------------------------------------------------------------------
(***************************************************************************)
(* Theorems                                                                *)
(***************************************************************************)

LEMMA InitType == Init => TypeOK
<1> SUFFICES ASSUME Init PROVE TypeOK
  OBVIOUS
<1>1. entry \in [AllLegs -> {"NONE", "POSTED", "REVERSED"}] /\ net \in [AllLegs -> Int]
  BY DEF Init, AllLegs
<1>2. txn \in [Txns -> {"NONE", "ACTIVE", "REVERSED"}] /\ req \in [Clients -> Requests]
  BY IdleType DEF Init
<1>3. 0 \in 0..MaxEnables
  BY IcPairAssumption
<1>4. edge \in [Sides -> 0..MaxEnables] /\ sig \in [Remotes -> 0..MaxEnables]
  BY <1>3 DEF Init
<1> QED
  BY <1>1, <1>2, <1>3, <1>4 DEF Init, TypeOK

LEMMA InitKeys == Init => KeysInv
<1> SUFFICES ASSUME Init PROVE KeysInv
  OBVIOUS
<1>1. TypeOK
  BY InitType
<1>2. \A c \in Clients : req[c] = Idle
  BY DEF Init
<1>3. edge["ORIGINATOR"] = 0 /\ edge["COUNTERPARTY"] = 0 /\ \A e \in Remotes : sig[e] = 0
  BY TwoSides DEF Init
<1>4. \A c \in Clients : Enabling(c)
  BY <1>2, IdleType DEF Enabling
<1> QED
  BY <1>1, <1>3, <1>4 DEF KeysInv, RelayVerifies, Between

LEMMA InitBooks == Init => BooksInv
<1> SUFFICES ASSUME Init PROVE BooksInv
  OBVIOUS
<1>1. TypeOK
  BY InitType
<1>2. \A c \in Clients : Going(c)
  BY IdleType DEF Init, Going, Reversing
<1>3. \A l \in AllLegs : entry[l] = "NONE" /\ net[l] = 0
  BY DEF Init, AllLegs
<1>4. PairAgrees
  BY <1>3, TxnsType, TwoSides DEF PairAgrees, Events
<1>5. ReversedIsReversed
  BY DEF Init, ReversedIsReversed
<1> QED
  BY <1>1, <1>2, <1>3, <1>4, <1>5 DEF BooksInv, Booked

\* The tables and the requests keep their shape (models/ic.py).
THEOREM TypeCorrect == Spec => []TypeOK
<1>1. TypeOK /\ [Next]_vars => TypeOK'
  BY TypeNext DEF TypeOK, vars
<1> QED
  BY <1>1, InitType, PTL DEF Spec

\* An event that waits for its partner can be verified there with the key the
\* partner's edge holds, whatever enablements and crashes came before, outside
\* the two windows the property names (enable_edge_pair, ic_relay/enable.py).
THEOREM SignaturesVerify == Spec => []RelayVerifies
<1>1. KeysInv => RelayVerifies
  BY DEF KeysInv
<1> QED
  BY <1>1, InitKeys, KeysNext, PTL DEF Spec

\* The two companies of an event agree on whether it is booked, however
\* postings, reversals, closed periods and crashes interleave, except while a
\* reversal is between the legs or where the event is named as split
\* (post_local_pair and reverse_local_pair, services/intercompany.py).
THEOREM PairsAgree == Spec => []PairAgrees
<1>1. BooksInv => PairAgrees
  BY DEF BooksInv
<1> QED
  BY <1>1, InitBooks, BooksNext, PTL DEF Spec

\* A row of ic_txn that says REVERSED is true of every leg it covers, and the
\* reversals are linked (the loop of reverse_local_pair and its last commit).
THEOREM ReversedTruly == Spec => []ReversedIsReversed
<1>1. BooksInv => ReversedIsReversed
  BY DEF BooksInv
<1> QED
  BY <1>1, InitBooks, BooksNext, PTL DEF Spec
=============================================================================
