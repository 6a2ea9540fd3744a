------------------------------ MODULE Witness ------------------------------
(***************************************************************************)
(* The witness's watermarks and its three sync-point rules (ext/            *)
(* advisory_lock/src/witness/mod.rs), as operators of the state. Frontiers  *)
(* are ordered by era, view and slot; here they are numbers, and 0 is the   *)
(* absent watermark.                                                        *)
(***************************************************************************)
EXTENDS Naturals, FiniteSets

NewWitness == [buffered |-> 0, flushed |-> 0, held |-> {}]

\* WitnessWatermarks::observe.
Observe(w, f) == IF w.buffered < f THEN [w EXCEPT !.buffered = f] ELSE w

\* resolve_held: the held points the flushed watermark covers.
Covered(w) == {p \in w.held : w.flushed # 0 /\ p <= w.flushed}

\* flushed_through_buffer: the new state, and the acknowledgements owed now.
FlushedThroughBuffer(w) ==
    LET f == IF w.flushed < w.buffered THEN [w EXCEPT !.flushed = w.buffered] ELSE w
    IN  [state |-> [f EXCEPT !.held = @ \ Covered(f)], acks |-> Covered(f)]

\* Mutant: what is buffered counts as flushed.
SyncPointEager(w, f) ==
    IF w.buffered >= f THEN [state |-> w, outcome |-> "acked"]
    ELSE [state |-> [w EXCEPT !.held = @ \union {f}], outcome |-> "held"]

\* sync_point.
SyncPoint(w, f) ==
    IF w.flushed >= f THEN [state |-> w, outcome |-> "acked"]
    ELSE IF w.buffered >= f THEN [state |-> w, outcome |-> "force"]
    ELSE [state |-> [w EXCEPT !.held = @ \union {f}], outcome |-> "held"]

(* ------------------------------ invariant ------------------------------- *)

\* The flushed watermark never passes the buffered one, and every point still
\* held is beyond what was flushed: none is owed an acknowledgement.
WitnessInv(w) ==
    /\ w.buffered \in Nat /\ w.flushed \in Nat
    /\ w.flushed <= w.buffered
    /\ \A p \in w.held : p \in Nat \ {0} /\ p > w.flushed
=============================================================================
