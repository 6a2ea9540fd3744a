---------------------------- MODULE RelayLedger ----------------------------
(***************************************************************************)
(* The relay ledger of the lease-sequencer host (relay.rs): what the core   *)
(* released and no peer has answered yet, and the last Commit per peer.     *)
(* A datagram is [tag, from, to, view, slot]; its bytes are a function of   *)
(* these. One era is modelled, so a ballot is a view.                       *)
(***************************************************************************)
EXTENDS Naturals, Sequences, FiniteSets

CONSTANTS Node, Bound

ASSUME LedgerAssumption == Bound \in Nat \ {0}

Tag == {"Prepare", "PrepareOk", "Commit", "StartViewChange", "DoViewChange", "StartView"}
Datagram == [tag : Tag, from : Node, to : Node, view : Nat, slot : Nat]

EmptyLedger == [unacked |-> << >>, last |-> {}]

Relayable(d) == d.tag \in {"Prepare", "Commit", "StartViewChange", "DoViewChange"}

Entries(s) == {s[i] : i \in 1..Len(s)}

\* Mutant: a standing Commit is not replaced.
RememberCommitFirst(last, d) ==
    {e \in last : e.view = d.view}
      \union (IF \E e \in last : e.view = d.view /\ e.to = d.to THEN {} ELSE {d})

\* The last Commit to each peer, of one ballot.
RememberCommit(last, d) == {e \in last : e.view = d.view /\ e.to # d.to} \union {d}

\* At the bound the oldest entry is dropped.
Push(s, d) == IF Len(s) >= Bound THEN Append(Tail(s), d) ELSE Append(s, d)

\* Ledger::record: an entry that stands is replaced by its equal.
Record(l, d) ==
    IF ~Relayable(d) THEN l
    ELSE [unacked |-> IF d \in Entries(l.unacked) THEN l.unacked ELSE Push(l.unacked, d),
          last |-> IF d.tag = "Commit" THEN RememberCommit(l.last, d) ELSE l.last]

\* Does the peer's datagram d answer the entry e?
Answers(e, d) ==
    /\ e.to = d.from
    /\ CASE e.tag = "Prepare" -> d.tag = "PrepareOk" /\ d.view = e.view /\ d.slot >= e.slot
         [] e.tag = "Commit" -> d.tag = "PrepareOk" /\ d.view = e.view /\ d.slot > e.slot
         [] e.tag = "StartViewChange" -> d.tag = "StartViewChange" /\ d.view = e.view
         [] e.tag = "DoViewChange" -> d.tag = "StartView" /\ d.view >= e.view
         [] OTHER -> FALSE

\* The entries that d does not answer, in their order.
Standing(s, d) ==
    LET kept[n \in 0..Len(s)] ==
            IF n = 0 THEN << >>
            ELSE IF Answers(s[n], d) THEN kept[n - 1] ELSE Append(kept[n - 1], s[n])
    IN  kept[Len(s)]

\* Ledger::answered.
Answered(l, d) == [l EXCEPT !.unacked = Standing(@, d)]

\* Ledger::relay and Ledger::last_commit: what of the ledger is of this ballot.
Relay(l, v) == {e \in Entries(l.unacked) : e.view = v}
LastCommit(l, v) == {e \in l.last : e.view = v}

\* The ledger never outgrows its bound and lists nothing twice (relay.rs:79-101).
LedgerInv(l) ==
    /\ l.unacked \in Seq(Datagram)
    /\ Len(l.unacked) <= Bound
    /\ \A i, j \in 1..Len(l.unacked) : l.unacked[i] = l.unacked[j] => i = j
    /\ \A e, f \in l.last : e.tag = "Commit" /\ e.view = f.view /\ (e.to = f.to => e = f)
=============================================================================
