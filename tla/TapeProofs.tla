----------------------------- MODULE TapeProofs -----------------------------
(***************************************************************************)
(* What the witness's rules keep for every sequence of observations,       *)
(* flushes and sync points, and what follows for the tape: a sync point is *)
(* acknowledged only when the flushed watermark covers it, and only once;  *)
(* its record then stays on the tape until it is pruned, and the tape is   *)
(* one run of records; and the console, which replays that run, shows the  *)
(* table it records.                                                       *)
(*                                                                         *)
(* Records and Replay are recursive functions over a sequence of any       *)
(* length. What is needed of them is proved from the least position at     *)
(* which it would fail (MinNat).                                           *)
(***************************************************************************)
EXTENDS Tape, SequenceTheorems, WellFoundedInduction, TLAPS

\* A leaf that names no prover is for the SMT solver.
USE SMTT(30)

\* A witness's state, as witness/mod.rs builds it.
WitnessState == [buffered : Nat, flushed : Nat, held : SUBSET Nat]

LEMMA ObserveState ==
    ASSUME NEW w \in WitnessState, NEW f \in Nat \ {0}
    PROVE  Observe(w, f) \in WitnessState
  BY Zenon DEF Observe, WitnessState

\* A new witness owes nothing (WitnessWatermarks::new).
THEOREM NewWitnessHolds == NewWitness \in WitnessState /\ WitnessInv(NewWitness)
  BY DEF NewWitness, WitnessState, WitnessInv

\* observe: the buffered watermark only rises, nothing else changes.
THEOREM ObserveHolds ==
    ASSUME NEW w \in WitnessState, WitnessInv(w), NEW f \in Nat \ {0}
    PROVE  /\ WitnessInv(Observe(w, f))
           /\ Observe(w, f).buffered >= w.buffered
           /\ Observe(w, f).buffered >= f
           /\ Observe(w, f).flushed = w.flushed /\ Observe(w, f).held = w.held
<1>1. CASE w.buffered < f
  BY <1>1 DEF Observe, WitnessState, WitnessInv
<1>2. CASE ~(w.buffered < f)
  BY <1>2 DEF Observe, WitnessState, WitnessInv
<1> QED BY <1>1, <1>2, Zenon

\* flushed_through_buffer: the flushed watermark catches up with the buffered
\* one; the acknowledged points are held ones, all covered by what was flushed,
\* and every held point is either acknowledged now or still beyond it.
THEOREM FlushHolds ==
    ASSUME NEW w \in WitnessState, WitnessInv(w)
    PROVE  LET f == FlushedThroughBuffer(w)
           IN  /\ f.state \in WitnessState /\ WitnessInv(f.state)
               /\ f.state.flushed = w.buffered /\ f.state.buffered = w.buffered
               /\ f.acks \cup f.state.held = w.held /\ f.acks \cap f.state.held = {}
               /\ \A p \in f.acks : p <= f.state.flushed
<1> DEFINE f == IF w.flushed < w.buffered THEN [w EXCEPT !.flushed = w.buffered] ELSE w
<1>1. f \in WitnessState /\ f.flushed = w.buffered /\ f.buffered = w.buffered /\ f.held = w.held
  <2>1. CASE w.flushed < w.buffered BY <2>1, Zenon DEF WitnessState
  <2>2. CASE ~(w.flushed < w.buffered) BY <2>2 DEF WitnessState, WitnessInv
  <2> QED BY <2>1, <2>2, Zenon
<1>2. FlushedThroughBuffer(w) = [state |-> [f EXCEPT !.held = @ \ Covered(f)], acks |-> Covered(f)]
  BY Zenon DEF FlushedThroughBuffer
<1>3. Covered(f) = {p \in w.held : w.buffered # 0 /\ p <= w.buffered}
  BY <1>1, Zenon DEF Covered
<1> HIDE DEF f
<1>4. /\ FlushedThroughBuffer(w).state = [buffered |-> w.buffered, flushed |-> w.buffered,
                                          held |-> w.held \ Covered(f)]
      /\ FlushedThroughBuffer(w).acks = Covered(f)
  BY <1>1, <1>2 DEF WitnessState
<1>5. \A p \in w.held \ Covered(f) : p \in Nat \ {0} /\ p > w.buffered
  BY <1>3 DEF WitnessState, WitnessInv
<1>6. Covered(f) \subseteq w.held BY <1>3, Zenon
<1> QED BY <1>3, <1>4, <1>5, <1>6 DEF WitnessState, WitnessInv

\* sync_point: an acknowledgement is given only for a flushed frontier, a
\* forced flush is asked for only where it will cover the point, and a point
\* that is held lies beyond everything observed.
THEOREM SyncPointHolds ==
    ASSUME NEW w \in WitnessState, WitnessInv(w), NEW p \in Nat \ {0}
    PROVE  LET s == SyncPoint(w, p)
           IN  /\ s.state \in WitnessState /\ WitnessInv(s.state)
               /\ s.outcome = "acked" => p <= w.flushed
               /\ s.outcome = "force" => w.flushed < p /\ p <= w.buffered
               /\ s.outcome = "held" => w.buffered < p /\ p \in s.state.held
<1>1. CASE w.flushed >= p
  BY <1>1, Zenon DEF SyncPoint, WitnessState, WitnessInv
<1>2. CASE ~(w.flushed >= p) /\ w.buffered >= p
  BY <1>2 DEF SyncPoint, WitnessState, WitnessInv
<1>3. CASE ~(w.flushed >= p) /\ ~(w.buffered >= p)
  <2>1. SyncPoint(w, p) = [state |-> [w EXCEPT !.held = @ \union {p}], outcome |-> "held"]
    BY <1>3, Zenon DEF SyncPoint
  <2>2. [w EXCEPT !.held = @ \union {p}] \in WitnessState BY Zenon DEF WitnessState
  <2> QED BY <1>3, <2>1, <2>2 DEF WitnessState, WitnessInv
<1> QED BY <1>1, <1>2, <1>3, Zenon

-----------------------------------------------------------------------------

\* The inductive invariant: a process that is down has no watermarks, and what
\* is held or acknowledged came as a sync point.
WitnessHolds ==
    /\ written \in Nat /\ up \in BOOLEAN
    /\ witness \in WitnessState /\ WitnessInv(witness)
    /\ ~up => witness = NewWitness
    /\ acked \subseteq SyncPoints /\ witness.held \subseteq SyncPoints
    /\ AckedIsFlushed

LEMMA SyncPointIsANumber == \A p \in SyncPoints : p \in Nat \ {0}
  BY TapeAssumption, Zenon

\* The ways an action touches the witness: not at all, by an appended record,
\* by a flush that acknowledges q too, or by the end of the process.
LEMMA UntouchedKeeps ==
    ASSUME WitnessHolds, written' \in Nat, UNCHANGED <<up, witness, acked>>
    PROVE  WitnessHolds'
  BY Zenon DEF WitnessHolds, AckedIsFlushed

LEMMA AppendedKeeps ==
    ASSUME WitnessHolds, up, UNCHANGED <<up, acked>>, NEW kind, NEW op, AppendRecord(kind, op)
    PROVE  WitnessHolds'
<1>1. written' = written + 1 /\ witness' = Observe(witness, written + 1) /\ written + 1 \in Nat \ {0}
  BY DEF AppendRecord, WitnessHolds
<1>2. witness' \in WitnessState /\ WitnessInv(witness') /\ witness'.flushed = witness.flushed
      /\ witness'.held = witness.held
  BY <1>1, ObserveState, ObserveHolds, Zenon DEF WitnessHolds
<1> QED BY <1>1, <1>2, Zenon DEF WitnessHolds, AckedIsFlushed

LEMMA FlushedKeeps ==
    ASSUME WitnessHolds, up, UNCHANGED <<up, written>>, NEW q \in SUBSET SyncPoints,
           witness' = FlushedThroughBuffer(witness).state,
           acked' = acked \cup FlushedThroughBuffer(witness).acks \cup q,
           \A p \in q : p <= witness.buffered
    PROVE  WitnessHolds'
<1> DEFINE f == FlushedThroughBuffer(witness)
<1>1. /\ f.state \in WitnessState /\ WitnessInv(f.state)
      /\ f.state.flushed = witness.buffered
      /\ f.acks \cup f.state.held = witness.held
      /\ \A p \in f.acks : p <= f.state.flushed
  BY FlushHolds, Zenon DEF WitnessHolds
<1> HIDE DEF f
<1>2. witness' = f.state /\ acked' = acked \cup f.acks \cup q BY Zenon DEF f
<1>3. \A p \in acked' : p \in Nat /\ p <= witness'.flushed
  <2>1. \A p \in acked : p <= witness.flushed BY Zenon DEF WitnessHolds, AckedIsFlushed
  <2>2. witness.flushed \in Nat /\ witness.buffered \in Nat /\ witness.flushed <= witness.buffered
    BY Zenon DEF WitnessHolds, WitnessState, WitnessInv
  <2>3. acked \subseteq Nat /\ q \subseteq Nat /\ f.acks \subseteq Nat
    BY <1>1, SyncPointIsANumber, Zenon DEF WitnessHolds
  <2>4. \A p \in acked : p <= witness.buffered
    BY <2>1, <2>2, <2>3
  <2>5. witness'.flushed = witness.buffered /\ \A p \in f.acks : p <= witness.buffered
    BY <1>1, <1>2, Zenon
  <2> QED BY <1>2, <2>3, <2>4, <2>5, Zenon
<1>4. \A p \in witness'.held : p > witness'.flushed
  BY <1>1, <1>2, Zenon DEF WitnessInv
<1>5. witness'.flushed \in Nat BY <1>1, <1>2, Zenon DEF WitnessState
<1>6. \A p \in acked' : p \notin witness'.held
  BY <1>3, <1>4, <1>5
<1> QED BY <1>1, <1>2, <1>3, <1>6, Zenon DEF WitnessHolds, AckedIsFlushed

LEMMA TickedKeeps ==
    ASSUME WitnessHolds, up, Flushed(files), UNCHANGED <<up, written>>
    PROVE  WitnessHolds'
<1>1. /\ witness' = FlushedThroughBuffer(witness).state
      /\ acked' = acked \cup FlushedThroughBuffer(witness).acks \cup {}
  BY Zenon DEF Flushed
<1>2. {} \in SUBSET SyncPoints /\ \A p \in {} : p <= witness.buffered BY Zenon
<1> QED BY <1>1, <1>2, FlushedKeeps, Zenon

LEMMA EndedKeeps ==
    ASSUME WitnessHolds, written' \in Nat, ~up', up' \in BOOLEAN, witness' = NewWitness, acked' = acked
    PROVE  WitnessHolds'
  BY NewWitnessHolds, Zenon DEF WitnessHolds, AckedIsFlushed, NewWitness

LEMMA WitnessStep == WitnessHolds /\ [Next]_vars => WitnessHolds'
<1> SUFFICES ASSUME WitnessHolds, [Next]_vars PROVE WitnessHolds'
  BY Zenon
<1>1. ASSUME NEW op \in Ops, Record(op) PROVE WitnessHolds'
  BY <1>1, AppendedKeeps, Zenon DEF Record
<1>2. ASSUME NEW p \in SyncPoints, Sync(p) PROVE WitnessHolds'
  <2> DEFINE s == SyncPoint(witness, p)
  <2>1. /\ s.state \in WitnessState /\ WitnessInv(s.state)
        /\ s.outcome = "acked" => p <= witness.flushed
        /\ s.outcome = "force" => p <= witness.buffered
        /\ s.outcome = "held" => witness.buffered < p
    BY SyncPointHolds, SyncPointIsANumber, Zenon DEF WitnessHolds
  <2>2. up /\ UNCHANGED <<up, written>> BY <1>2, Zenon DEF Sync
  <2>3. CASE s.outcome = "acked"
    <3>1. acked' = acked \cup {p} /\ witness' = witness BY <1>2, <2>3, Zenon DEF Sync
    <3>2. p \notin witness.held
      BY <2>1, <2>3, SyncPointIsANumber DEF WitnessHolds, WitnessState, WitnessInv
    <3> QED BY <2>1, <2>2, <2>3, <3>1, <3>2, Zenon DEF WitnessHolds, AckedIsFlushed
  <2>4. CASE s.outcome = "held"
    <3>1. /\ witness' = s.state /\ acked' = acked /\ p \notin acked
          /\ ~(witness.flushed >= p) /\ ~(witness.buffered >= p)
      BY <1>2, <2>1, <2>4, SyncPointIsANumber, Zenon DEF Sync, SyncPoint, WitnessHolds, WitnessState
    <3>2. s.state = [witness EXCEPT !.held = @ \union {p}] BY <3>1, Zenon DEF SyncPoint
    <3>3. s.state.held = witness.held \cup {p} /\ s.state.flushed = witness.flushed
      BY <3>2, Zenon DEF WitnessHolds, WitnessState
    <3> QED BY <2>1, <2>2, <3>1, <3>3, Zenon DEF WitnessHolds, AckedIsFlushed
  <2>5. CASE s.outcome # "acked" /\ s.outcome # "held"
    <3>1. s.outcome = "force" BY <2>5, Zenon DEF SyncPoint
    <3>2. /\ witness' = FlushedThroughBuffer(witness).state
          /\ acked' = acked \cup FlushedThroughBuffer(witness).acks \cup {p}
      BY <1>2, <2>5, Zenon DEF Sync
    <3>3. {p} \in SUBSET SyncPoints /\ \A x \in {p} : x <= witness.buffered BY <2>1, <3>1, Zenon
    <3> QED BY <2>2, <3>2, <3>3, FlushedKeeps, Zenon
  <2> QED BY <2>3, <2>4, <2>5, Zenon
<1>3. CASE RecordFrontier
  BY <1>3, AppendedKeeps, Zenon DEF RecordFrontier
<1>4. CASE AppendFails
  BY <1>4, UntouchedKeeps, Zenon DEF AppendFails, WitnessHolds
<1>5. CASE FlushTick
  <2>1. up /\ Flushed(files) /\ UNCHANGED <<up, written>> BY <1>5, Zenon DEF FlushTick
  <2> QED BY <2>1, TickedKeeps, Zenon
<1>6. CASE OnWeight
  <2>1. CASE log.active /\ log.open
    <3>1. up /\ Flushed(files) /\ UNCHANGED <<up, written>> BY <1>6, <2>1, Zenon DEF OnWeight
    <3> QED BY <3>1, TickedKeeps
  <2>2. CASE ~(log.active /\ log.open)
    BY <1>6, <2>2, UntouchedKeeps, Zenon DEF OnWeight, WitnessHolds
  <2> QED BY <2>1, <2>2, Zenon
<1>7. CASE Teardown
  <2>1. ~up' /\ up' \in BOOLEAN /\ witness' = NewWitness /\ acked' = acked BY <1>7, Zenon DEF Teardown
  <2>2. written' \in Nat BY <1>7 DEF Teardown, WitnessHolds
  <2> QED BY <2>1, <2>2, EndedKeeps, Zenon
<1>8. CASE PowerLoss
  BY <1>8, EndedKeeps, Zenon DEF PowerLoss, WitnessHolds
<1>9. CASE Boot
  BY <1>9, Zenon DEF Boot, WitnessHolds, AckedIsFlushed
<1>10. CASE Follow
  BY <1>10, UntouchedKeeps, Zenon DEF Follow, WitnessHolds
<1>11. CASE UNCHANGED vars
  BY <1>11, UntouchedKeeps, Zenon DEF vars, WitnessHolds
<1> QED BY <1>1, <1>2, <1>3, <1>4, <1>5, <1>6, <1>7, <1>8, <1>9, <1>10, <1>11, Zenon DEF Next

\* For every tape: a sync point is acknowledged only when what it names is
\* flushed, and never twice.
THEOREM AcksAreFlushed == Spec => []AckedIsFlushed
<1>1. Init => WitnessHolds
  BY NewWitnessHolds DEF Init, WitnessHolds, AckedIsFlushed, NewWitness
<1>2. WitnessHolds => AckedIsFlushed BY Zenon DEF WitnessHolds
<1> QED BY <1>1, <1>2, WitnessStep, PTL DEF Spec

(* ------------------------- induction and folds -------------------------- *)

\* A non-empty set of naturals has a least element.
LEMMA MinNat ==
    ASSUME NEW T, T \subseteq Nat, T # {}
    PROVE  \E x \in T : \A y \in T : x <= y
  <1> DEFINE R == OpToRel(<, Nat)
  <1>1. \E x \in T : \A y \in T : ~(<<y, x>> \in R)
    <2>1. IsWellFoundedOn(R, Nat)
      BY NatLessThanWellFounded, Zenon
    <2> HIDE DEF R
    <2> QED BY <2>1, WFMin, Zenon
  <1>2. PICK x \in T : \A y \in T : ~(<<y, x>> \in R)
    BY <1>1, Zenon
  <1>3. \A y \in T : ~(y < x)
    BY <1>2, Zenon DEF OpToRel
  <1> QED BY <1>3

\* Its mirror image for a bounded set.
LEMMA MaxNat ==
    ASSUME NEW n \in Nat, NEW S \in SUBSET (0..n), S # {}
    PROVE  \E m \in S : \A i \in S : m >= i
  <1> DEFINE T == {k \in 0..n : n - k \in S}
  <1>1. PICK x \in S : x \in 0..n
    BY Zenon
  <1>2. n - x \in 0..n /\ n - (n - x) = x
    BY <1>1
  <1>3. n - x \in T
    BY <1>2, Zenon
  <1>4. T \subseteq Nat
    OBVIOUS
  <1>5. PICK b \in T : \A c \in T : b <= c
    <2> HIDE DEF T
    <2> QED BY <1>3, <1>4, MinNat, Zenon
  <1>6. n - b \in S /\ b \in 0..n
    BY Zenon
  <1>7. ASSUME NEW i \in S PROVE n - b >= i
    <2>1. i \in 0..n /\ n - i \in 0..n /\ n - (n - i) = i
      OBVIOUS
    <2>2. b <= n - i
      BY <1>5, <2>1, Zenon
    <2> QED BY <1>6, <2>1, <2>2
  <1> QED BY <1>6, <1>7, Zenon

\* g is the fold of step over s, prefix by prefix.
Folds(g, step, first, s) ==
    /\ g[0] = first
    /\ \A n \in 1..Len(s) : g[n] = step[g[n - 1], s[n]]

\* The recursion that a fold over a sequence is defined by has a solution: one
\* for the first n elements extends to the next.
LEMMA FoldExists ==
    ASSUME NEW D, NEW X, NEW step \in [D \X X -> D], NEW first \in D, NEW s \in Seq(X)
    PROVE  \E g \in [0..Len(s) -> D] : Folds(g, step, first, s)
  <1> DEFINE Solves(g, n) == g[0] = first /\ \A i \in 1..n : g[i] = step[g[i - 1], s[i]]
             Has(n) == \E g \in [0..n -> D] : Solves(g, n)
             Bad == {n \in 0..Len(s) : ~Has(n)}
  <1>1. Has(0)
    <2> DEFINE g == [i \in 0..0 |-> first]
    <2>1. g \in [0..0 -> D] /\ Solves(g, 0)
      OBVIOUS
    <2> QED BY <2>1, Zenon
  <1>2. ASSUME NEW n \in Nat, n + 1 <= Len(s), Has(n) PROVE Has(n + 1)
    <2>1. PICK g \in [0..n -> D] : Solves(g, n)
      BY <1>2, Zenon
    <2> DEFINE m == n + 1
               h == [i \in 0..m |-> IF i = m THEN step[g[n], s[m]] ELSE g[i]]
    <2>2. m \in Nat /\ m # 0 /\ m \in 1..Len(s) /\ m - 1 = n /\ n # m
      <3>1. Len(s) \in Nat
        BY LenProperties, Zenon
      <3>2. n + 1 <= Len(s)
        BY <1>2, Zenon
      <3>3. n \in Nat
        BY Zenon
      <3> QED BY ONLY <3>1, <3>2, <3>3
    <2>3. /\ \A i \in 0..m : i = m \/ i \in 0..n
          /\ \A i \in 1..m : i = m \/ (i \in 1..n /\ i # m /\ i - 1 # m /\ i - 1 \in 0..m)
          /\ n \in 0..m /\ n \in 0..n /\ 0 \in 0..m /\ m \in 0..m
      <3>1. n \in Nat
        BY <1>2, Zenon
      <3> QED BY ONLY <3>1
    <2> HIDE DEF m
    <2>4. step[g[n], s[m]] \in D
      <3>1. s[m] \in X
        BY <2>2, ElementOfSeq, Zenon
      <3>2. g[n] \in D
        BY <2>1, <2>3, Zenon
      <3> QED BY <3>1, <3>2, Zenon
    <2>5. h \in [0..m -> D]
      BY <2>1, <2>3, <2>4, Zenon
    <2>6. h[0] = first /\ h[n] = g[n] /\ h[m] = step[h[m - 1], s[m]]
      BY <2>1, <2>2, <2>3, Zenon
    <2>7. ASSUME NEW i \in 1..n, i \in 1..m, i # m, i - 1 # m, i - 1 \in 0..m
          PROVE  h[i] = step[h[i - 1], s[i]]
      <3>1. i \in 0..m
        BY <2>2, <2>7
      <3>2. h[i] = g[i] /\ h[i - 1] = g[i - 1]
        BY <2>7, <3>1, Zenon
      <3> QED BY <2>1, <3>2, Zenon
    <2> HIDE DEF h
    <2>8. Solves(h, m)
      BY <2>3, <2>6, <2>7, Zenon
    <2> QED BY <2>5, <2>8, Zenon DEF m
  <1> HIDE DEF Has
  <1>3. Bad = {}
    <2> SUFFICES ASSUME Bad # {} PROVE FALSE
      BY Zenon
    <2>1. Bad \subseteq Nat
      OBVIOUS
    <2>2. PICK b \in Bad : \A c \in Bad : b <= c
      <3> HIDE DEF Bad
      <3> QED BY <2>1, MinNat, Zenon
    <2>3. b # 0 /\ b \in 0..Len(s) /\ ~Has(b)
      BY <1>1, Zenon
    <2>4. b - 1 \in Nat /\ b - 1 \in 0..Len(s) /\ (b - 1) + 1 = b
      BY <2>3
    <2>5. Has(b - 1)
      BY <2>2, <2>3, <2>4
    <2> QED BY <1>2, <2>3, <2>4, <2>5
  <1>4. Has(Len(s))
    BY <1>3
  <1> QED BY <1>4, Zenon DEF Has, Folds

(* ------------------------- the records of a series ---------------------- *)

Rec == {r \in [n : Nat \ {0}, kind : {"wire", "frontier", "teardown"}, op : Ops \cup {NoOp}] :
           r.kind = "wire" => r.op \in Ops}
TapeFile == [recs : Seq(Rec), synced : Nat]

\* h is the records up to each file of fs.
Upto(h, fs) ==
    /\ h[0] = << >>
    /\ \A n \in 1..Len(fs) : h[n] = h[n - 1] \o fs[n].recs

\* What Records computes, file by file.
LEMMA RecordsFold ==
    ASSUME NEW fs \in Seq(TapeFile)
    PROVE  \E h \in [0..Len(fs) -> Seq(Rec)] :
               Upto(h, fs) /\ Records(fs) = h[Len(fs)]
  <1> DEFINE L == Len(fs)
             Step(g) == [n \in 0..L |-> IF n = 0 THEN << >> ELSE g[n - 1] \o fs[n].recs]
             upto == CHOOSE g : g = Step(g)
             step == [p \in Seq(Rec) \X TapeFile |-> p[1] \o p[2].recs]
  <1>1. Records(fs) = upto[L]
    BY Zenon DEF Records
  <1>2. L \in Nat /\ \A i \in 1..L : fs[i] \in TapeFile
    OBVIOUS
  <1>3. /\ \A n \in 0..L : n = 0 \/ n \in 1..L
        /\ \A n \in 1..L : n # 0 /\ n \in 0..L /\ n - 1 \in 0..L
        /\ 0 \in 0..L /\ L \in 0..L
    BY <1>2
  <1>4. step \in [Seq(Rec) \X TapeFile -> Seq(Rec)] /\ << >> \in Seq(Rec)
    BY DEF TapeFile
  <1>5. PICK g \in [0..L -> Seq(Rec)] : Folds(g, step, << >>, fs)
    <2> HIDE DEF step
    <2> QED BY <1>4, FoldExists, Zenon
  <1>6. g[0] = << >> /\ \A n \in 1..L : g[n] = g[n - 1] \o fs[n].recs
    <2>1. \A n \in 1..L : g[n - 1] \in Seq(Rec) /\ fs[n] \in TapeFile
      BY <1>2, <1>3, <1>5, Zenon
    <2>2. \A n \in 1..L : step[g[n - 1], fs[n]] = g[n - 1] \o fs[n].recs
      BY <2>1, Zenon
    <2> HIDE DEF step
    <2> QED BY <1>5, <2>2, Zenon DEF Folds
  <1> HIDE DEF L, step
  <1>7. g = Step(g)
    BY <1>3, <1>5, <1>6, Zenon
  <1>8. upto = Step(upto)
    BY <1>7, Zenon
  <1> HIDE DEF upto
  <1>9. upto[0] = << >> /\ \A n \in 1..L : upto[n] = upto[n - 1] \o fs[n].recs
    <2> DEFINE h == Step(upto)
    <2>1. h[0] = << >> /\ \A n \in 1..L : h[n] = upto[n - 1] \o fs[n].recs
      BY <1>3, Zenon
    <2> HIDE DEF h
    <2> QED BY <1>8, <2>1, Zenon DEF h
  <1>10. \A n \in 0..L : upto[n] \in Seq(Rec)
    <2> DEFINE Bad == {n \in 0..L : upto[n] \notin Seq(Rec)}
    <2> SUFFICES ASSUME Bad # {} PROVE FALSE
      BY Zenon
    <2>1. Bad \subseteq Nat
      BY <1>2
    <2>2. PICK b \in Bad : \A c \in Bad : b <= c
      <3> HIDE DEF Bad
      <3> QED BY <2>1, MinNat, Zenon
    <2>3. b \in 1..L
      BY <1>3, <1>4, <1>9, <2>2, Zenon
    <2>4. b - 1 \in 0..L /\ b - 1 < b
      BY <1>2, <2>3
    <2>5. upto[b - 1] \in Seq(Rec)
      BY <2>2, <2>3, <2>4
    <2>6. upto[b] \in Seq(Rec)
      <3>1. fs[b].recs \in Seq(Rec)
        BY <1>2, <2>3, Zenon DEF TapeFile
      <3>2. upto[b - 1] \o fs[b].recs \in Seq(Rec)
        BY ONLY <2>5, <3>1, ConcatProperties, Zenon
      <3> QED BY <1>9, <2>3, <3>2, Zenon
    <2> QED BY <2>2, <2>6, Zenon
  <1>11. upto \in [0..L -> Seq(Rec)]
    <2>1. upto = [n \in 0..L |-> upto[n]]
      BY <1>8, Zenon
    <2> QED BY <1>10, <2>1, Zenon
  <1> QED BY <1>1, <1>9, <1>11, Zenon DEF Upto, L

\* Two series whose first files have the same records agree up to there.
SameUpto(fs, gs, m) ==
    m <= Len(fs) /\ m <= Len(gs) /\ \A i \in 1..m : fs[i].recs = gs[i].recs

LEMMA RecordsAgree ==
    ASSUME NEW fs \in Seq(TapeFile), NEW gs \in Seq(TapeFile), NEW m \in Nat,
           SameUpto(fs, gs, m), NEW h, Upto(h, fs), NEW k, Upto(k, gs)
    PROVE  h[m] = k[m]
  <1> DEFINE Bad == {n \in 0..m : h[n] # k[n]}
  <1> SUFFICES ASSUME Bad # {} PROVE FALSE
    OBVIOUS
  <1>1. Bad \subseteq Nat
    OBVIOUS
  <1>2. PICK b \in Bad : \A c \in Bad : b <= c
    <2> HIDE DEF Bad
    <2> QED BY <1>1, MinNat, Zenon
  <1>3. b \in 1..m /\ b - 1 \in 0..m /\ b - 1 < b
    BY <1>2 DEF Upto
  <1>4. h[b - 1] = k[b - 1]
    BY <1>2, <1>3
  <1>5. b \in 1..Len(fs) /\ b \in 1..Len(gs)
    BY <1>3 DEF SameUpto
  <1>6. h[b] = k[b]
    BY <1>3, <1>4, <1>5, Zenon DEF Upto, SameUpto
  <1> QED BY <1>2, <1>6, Zenon

\* A file more adds its records at the end.
LEMMA RecordsAppend ==
    ASSUME NEW fs \in Seq(TapeFile), NEW f \in TapeFile
    PROVE  Records(Append(fs, f)) = Records(fs) \o f.recs
  <1> DEFINE gs == Append(fs, f)
  <1>1. gs \in Seq(TapeFile) /\ Len(gs) = Len(fs) + 1 /\ gs[Len(fs) + 1] = f
        /\ \A i \in 1..Len(fs) : gs[i] = fs[i]
    BY AppendProperties
  <1> HIDE DEF gs
  <1>2. PICK h \in [0..Len(fs) -> Seq(Rec)] :
            Upto(h, fs) /\ Records(fs) = h[Len(fs)]
    BY RecordsFold, Zenon
  <1>3. PICK k \in [0..Len(gs) -> Seq(Rec)] :
            Upto(k, gs) /\ Records(gs) = k[Len(gs)]
    BY <1>1, RecordsFold, Zenon
  <1>4. /\ Len(fs) \in Nat /\ Len(fs) <= Len(fs) /\ Len(fs) <= Len(gs)
        /\ \A i \in 1..Len(fs) : fs[i].recs = gs[i].recs
    BY <1>1
  <1>5. h[Len(fs)] = k[Len(fs)]
    <2>1. SameUpto(fs, gs, Len(fs))
      BY <1>4, Zenon DEF SameUpto
    <2> QED BY <1>1, <1>2, <1>3, <1>4, <2>1, RecordsAgree
  <1>6. Len(gs) \in 1..Len(gs) /\ Len(gs) - 1 = Len(fs)
    BY <1>1, <1>4
  <1>7. k[Len(gs)] = k[Len(gs) - 1] \o gs[Len(gs)].recs
    BY <1>3, <1>6, Zenon DEF Upto
  <1> QED BY <1>1, <1>2, <1>3, <1>5, <1>6, <1>7, Zenon DEF gs

\* Marking files stable leaves the records alone.
LEMMA RecordsSame ==
    ASSUME NEW fs \in Seq(TapeFile), NEW gs \in Seq(TapeFile), Len(fs) = Len(gs),
           \A i \in 1..Len(fs) : fs[i].recs = gs[i].recs
    PROVE  Records(fs) = Records(gs)
  <1>1. PICK h \in [0..Len(fs) -> Seq(Rec)] :
            Upto(h, fs) /\ Records(fs) = h[Len(fs)]
    BY RecordsFold, Zenon
  <1>2. PICK k \in [0..Len(gs) -> Seq(Rec)] :
            Upto(k, gs) /\ Records(gs) = k[Len(gs)]
    BY RecordsFold, Zenon
  <1>3. Len(fs) \in Nat /\ Len(gs) = Len(fs)
    OBVIOUS
  <1>4. SameUpto(fs, gs, Len(fs))
    BY <1>3 DEF SameUpto
  <1>5. h[Len(fs)] = k[Len(fs)]
    BY <1>1, <1>2, <1>3, <1>4, RecordsAgree
  <1> QED BY <1>1, <1>2, <1>3, <1>5, Zenon

LEMMA RecordsType ==
    ASSUME NEW fs \in Seq(TapeFile)
    PROVE  Records(fs) \in Seq(Rec)
  <1>1. Len(fs) \in 0..Len(fs)
    OBVIOUS
  <1> QED BY <1>1, RecordsFold, Zenon

LEMMA RecordsNone == Records(<< >>) = << >>
  <1>1. << >> \in Seq(TapeFile) /\ Len(<< >>) = 0
    OBVIOUS
  <1> QED BY <1>1, RecordsFold, Zenon DEF Upto

(* ------------------------ the tape as a whole --------------------------- *)

\* rs is in order and ends by w; from record b + 1 on it has no gap.
Run(rs, b, w) ==
    /\ \A i \in 1..Len(rs) : rs[i].n <= w
    /\ \A i \in 1..Len(rs) - 1 :
          /\ rs[i].n < rs[i + 1].n
          /\ rs[i + 1].n > b => \/ rs[i + 1].n = rs[i].n + 1
                                \/ rs[i].n <= b /\ rs[i + 1].n = b + 1

\* p's record is among rs, or older than all of them.
Kept(rs, p) ==
    \/ \E i \in 1..Len(rs) : rs[i].n = p
    \/ Len(rs) > 0 /\ p < rs[1].n

Unsynced(f) == f.synced + 1 .. Len(f.recs)

TapeTypes ==
    /\ files \in Seq(TapeFile) /\ Len(files) > 0
    /\ \A i \in 1..Len(files) : files[i].synced <= Len(files[i].recs)
    /\ log \in [open : BOOLEAN, active : BOOLEAN]
    /\ size \in 0..RollRecords /\ rolled \in BOOLEAN /\ boots \in Nat
    /\ base \in Nat /\ base <= written

\* The series of a process that rolled is its active file and one closed file,
\* and a series that no process pruned still reaches back to its start.
SeriesFits ==
    /\ rolled => Len(files) = 2 /\ Len(files[1].recs) > 0
    /\ ~rolled /\ Len(Records(files)) > 0 => Records(files)[1].n <= base + 1

\* The watermarks of a running process: everything it wrote is buffered, it is at
\* the end of the tape, and what may be lost is beyond the flushed watermark.
MarksFit ==
    up => /\ witness.buffered = IF written > base THEN written ELSE 0
          /\ written > base => /\ Len(Records(files)) > 0
                               /\ Records(files)[Len(Records(files))].n = written
          /\ \A i \in Unsynced(files[Active]) : files[Active].recs[i].n > witness.flushed

TapeInv ==
    /\ WitnessHolds
    /\ TapeTypes
    /\ Run(Records(files), base, written)
    /\ SeriesFits
    /\ MarksFit
    /\ ~up => \A p \in acked : p > base => Kept(Records(files), p)

LEMMA RecordNumbers ==
    ASSUME NEW rs \in Seq(Rec)
    PROVE  \A i \in 1..Len(rs) : rs[i].n \in Nat
  <1>1. \A i \in 1..Len(rs) : rs[i] \in Rec
    OBVIOUS
  <1> QED BY <1>1, Zenon DEF Rec

\* The end of a run is one: pruning takes whole files from the old end.
LEMMA RunSuffix ==
    ASSUME NEW x \in Seq(Rec), NEW y \in Seq(Rec), NEW b \in Nat, NEW w \in Nat, Run(x \o y, b, w)
    PROVE  Run(y, b, w)
  <1> DEFINE k == Len(x)
             rs == x \o y
  <1>1. /\ rs \in Seq(Rec) /\ Len(rs) = k + Len(y) /\ k \in Nat /\ Len(y) \in Nat
        /\ \A i \in 1..k + Len(y) : rs[i] = IF i <= k THEN x[i] ELSE y[i - k]
    BY ConcatProperties
  <1> HIDE DEF rs, k
  <1>2. \A i \in 1..Len(y) : i + k \in 1..k + Len(y) /\ ~(i + k <= k) /\ (i + k) - k = i
    BY <1>1
  <1>3. \A i \in 1..Len(y) : y[i] = rs[i + k]
    BY <1>1, <1>2, Zenon
  <1>4. Run(rs, b, w)
    BY Zenon DEF rs
  <1>5. \A i \in 1..Len(y) : y[i].n <= w
    BY <1>1, <1>2, <1>3, <1>4, Zenon DEF Run
  <1>6. ASSUME NEW i \in 1..Len(y) - 1
        PROVE  /\ y[i].n < y[i + 1].n
               /\ y[i + 1].n > b => \/ y[i + 1].n = y[i].n + 1
                                    \/ y[i].n <= b /\ y[i + 1].n = b + 1
    <2>1. i \in 1..Len(y) /\ i + 1 \in 1..Len(y) /\ i + k \in 1..Len(rs) - 1 /\ (i + 1) + k = (i + k) + 1
      BY <1>1
    <2>2. y[i] = rs[i + k] /\ y[i + 1] = rs[(i + k) + 1]
      BY <1>3, <2>1
    <2> QED BY <1>4, <2>1, <2>2, Zenon DEF Run
  <1> QED BY <1>5, <1>6, Zenon DEF Run

\* The beginning of a run is one: a loss of power takes records from the end.
LEMMA RunPrefix ==
    ASSUME NEW x \in Seq(Rec), NEW y \in Seq(Rec), NEW b \in Nat, NEW w \in Nat, Run(x \o y, b, w)
    PROVE  Run(x, b, w)
  <1> DEFINE rs == x \o y
  <1>1. /\ Len(rs) = Len(x) + Len(y) /\ Len(x) \in Nat /\ Len(y) \in Nat
        /\ \A i \in 1..Len(x) : i \in 1..Len(rs) /\ rs[i] = x[i]
    BY ConcatProperties
  <1> HIDE DEF rs
  <1>2. Run(rs, b, w)
    BY DEF rs
  <1>3. \A i \in 1..Len(x) - 1 : i \in 1..Len(rs) - 1 /\ i \in 1..Len(x) /\ i + 1 \in 1..Len(x)
    BY <1>1
  <1> QED BY <1>1, <1>2, <1>3, Zenon DEF Run

\* The next record continues a run that ends at the last one written, or is the
\* first one of its process.
LEMMA RunAppend ==
    ASSUME NEW rs \in Seq(Rec), NEW b \in Nat, NEW w \in Nat, b <= w, Run(rs, b, w),
           w > b => Len(rs) > 0 /\ rs[Len(rs)].n = w,
           NEW rec \in Rec, rec.n = w + 1
    PROVE  Run(Append(rs, rec), b, w + 1)
  <1> DEFINE L == Len(rs)
             out == Append(rs, rec)
  <1>1. /\ L \in Nat /\ Len(out) = L + 1 /\ out[L + 1] = rec
        /\ \A i \in 1..L : out[i] = rs[i]
    BY AppendProperties
  <1> HIDE DEF out, L
  <1>2. \A i \in 1..L : rs[i].n \in Nat /\ rs[i].n <= w
    BY RecordNumbers, Zenon DEF Run, L
  <1>3. \A i \in 1..L + 1 : out[i].n <= w + 1
    <2> SUFFICES ASSUME NEW i \in 1..L + 1 PROVE out[i].n <= w + 1
      BY Zenon
    <2>1. CASE i \in 1..L
      <3>1. out[i].n \in Nat /\ out[i].n <= w
        BY <1>1, <1>2, <2>1, Zenon
      <3> QED BY <3>1
    <2>2. CASE i = L + 1
      BY <1>1, <2>2
    <2> QED BY <1>1, <2>1, <2>2
  <1>4. ASSUME NEW i \in 1..(L + 1) - 1
        PROVE  /\ out[i].n < out[i + 1].n
               /\ out[i + 1].n > b => \/ out[i + 1].n = out[i].n + 1
                                      \/ out[i].n <= b /\ out[i + 1].n = b + 1
    <2>1. CASE i \in 1..L - 1
      <3>1. out[i] = rs[i] /\ out[i + 1] = rs[i + 1]
        BY <1>1, <2>1
      <3> QED BY <2>1, <3>1, Zenon DEF Run, L
    <2>2. CASE i = L
      <3>1. out[i] = rs[L] /\ out[i + 1] = rec /\ rs[L].n \in Nat /\ rs[L].n <= w
        BY <1>1, <1>2, <2>2
      <3>2. CASE w > b
        <4>1. rs[L].n = w
          BY <3>2, Zenon DEF L
        <4> QED BY <3>1, <4>1
      <3>3. CASE w = b
        BY <3>1, <3>3
      <3> QED BY <3>2, <3>3
    <2> QED BY <1>1, <2>1, <2>2
  <1> QED BY <1>1, <1>3, <1>4, Zenon DEF Run, out

\* A run that reaches p, a record of this process, has it unless it starts later.
LEMMA RunHasAll ==
    ASSUME NEW rs \in Seq(Rec), NEW b \in Nat, NEW w \in Nat, Run(rs, b, w),
           Len(rs) > 0, NEW p \in Nat, p > b, p <= rs[Len(rs)].n
    PROVE  Kept(rs, p)
  <1> DEFINE L == Len(rs)
             T == {i \in 1..L : rs[i].n <= p}
  <1>1. L \in Nat /\ 1 \in 1..L /\ L \in 1..L /\ \A i \in 1..L : rs[i].n \in Nat
    BY RecordNumbers
  <1>2. CASE T = {}
    <2>1. ~(rs[1].n <= p)
      BY <1>1, <1>2, Zenon
    <2> QED BY <1>1, <2>1 DEF Kept
  <1>3. CASE T # {}
    <2>1. T \subseteq 0..L
      BY <1>1
    <2>2. PICK m \in T : \A i \in T : m >= i
      <3> HIDE DEF T
      <3> QED BY <1>1, <1>3, <2>1, MaxNat, Zenon
    <2>3. m \in 1..L /\ rs[m].n <= p /\ rs[m].n \in Nat
      BY <1>1, <2>2, Zenon
    <2>4. CASE rs[m].n = p
      BY <2>3, <2>4, Zenon DEF Kept
    <2>5. CASE rs[m].n < p
      <3>1. m # L
        BY <1>1, <2>5, <2>3
      <3>2. m \in 1..L - 1 /\ m + 1 \in 1..L /\ ~(m >= m + 1)
        BY <1>1, <2>3, <3>1
      <3>3. ~(rs[m + 1].n <= p)
        BY <2>2, <3>2, Zenon
      <3>4. rs[m + 1].n \in Nat /\ rs[m + 1].n > p /\ rs[m + 1].n > b
        BY <1>1, <3>2, <3>3
      <3>5. rs[m + 1].n = rs[m].n + 1 \/ rs[m + 1].n = b + 1
        BY <3>2, <3>4, Zenon DEF Run
      <3> QED BY <2>3, <2>5, <3>4, <3>5
    <2> QED BY <2>3, <2>4, <2>5
  <1> QED BY <1>2, <1>3, Zenon

\* A series of at least one file is its closed files and its active one.
LEMMA ActiveSplit ==
    ASSUME NEW fs \in Seq(TapeFile), Len(fs) > 0
    PROVE  \E old \in Seq(TapeFile) :
               /\ Len(old) = Len(fs) - 1
               /\ fs = Append(old, fs[Len(fs)])
               /\ \A f \in TapeFile : [fs EXCEPT ![Len(fs)] = f] = Append(old, f)
  <1> DEFINE L == Len(fs)
             old == SubSeq(fs, 1, L - 1)
  <1>1. L \in Nat /\ L \in 1..L /\ 1 \in Int /\ L - 1 \in Nat
    OBVIOUS
  <1>2. \A i \in 1..L - 1 : fs[i] \in TapeFile
    <2>1. \A i \in 1..L - 1 : i \in 1..L
      BY <1>1
    <2> QED BY <2>1
  <1>3. /\ old \in Seq(TapeFile)
        /\ Len(old) = IF 1 <= L - 1 THEN (L - 1) - 1 + 1 ELSE 0
        /\ \A i \in 1..(L - 1) - 1 + 1 : old[i] = fs[1 + i - 1]
    BY <1>1, <1>2, SubSeqProperties
  <1> HIDE DEF old
  <1>4. Len(old) = L - 1 /\ (L - 1) - 1 + 1 = L - 1
    <2> HIDE DEF L
    <2>1. (L - 1) - 1 + 1 = L - 1
      BY <1>1
    <2>2. CASE 1 <= L - 1
      BY <1>3, <2>1, <2>2, Zenon
    <2>3. CASE ~(1 <= L - 1)
      <3>1. L - 1 = 0
        BY <1>1, <2>3
      <3> QED BY <1>3, <2>1, <2>3, <3>1, Zenon
    <2> QED BY <2>1, <2>2, <2>3, Zenon
  <1>5. \A i \in 1..L - 1 : 1 + i - 1 = i
    BY <1>1
  <1>6. \A i \in 1..L - 1 : old[i] = fs[i]
    BY <1>3, <1>4, <1>5, Zenon
  <1>7. ASSUME NEW f \in TapeFile, NEW gs \in Seq(TapeFile), Len(gs) = L, gs[L] = f,
               \A i \in 1..L - 1 : gs[i] = fs[i]
        PROVE  gs = Append(old, f)
    <2>1. /\ Append(old, f) \in Seq(TapeFile) /\ Len(Append(old, f)) = L
          /\ Append(old, f)[L] = f
          /\ \A i \in 1..L - 1 : Append(old, f)[i] = old[i]
      <3>1. /\ Append(old, f) \in Seq(TapeFile) /\ Len(Append(old, f)) = Len(old) + 1
            /\ \A i \in 1..Len(old) : Append(old, f)[i] = old[i]
            /\ Append(old, f)[Len(old) + 1] = f
        BY <1>3, AppendProperties
      <3>2. Len(old) + 1 = L
        BY <1>1, <1>4
      <3> QED BY <1>4, <3>1, <3>2, Zenon
    <2>2. \A i \in 1..L : gs[i] = Append(old, f)[i]
      <3> SUFFICES ASSUME NEW i \in 1..L PROVE gs[i] = Append(old, f)[i]
        BY Zenon
      <3>1. i = L \/ i \in 1..L - 1
        BY <1>1
      <3> QED BY <1>6, <1>7, <2>1, <3>1, Zenon
    <2> QED BY <1>7, <2>1, <2>2, SeqEqual, Zenon
  <1>8. fs = Append(old, fs[L])
    <2>1. fs[L] \in TapeFile /\ Len(fs) = L
      BY <1>1
    <2> QED BY <1>7, <2>1, Zenon
  <1>9. ASSUME NEW f \in TapeFile PROVE [fs EXCEPT ![L] = f] = Append(old, f)
    <2>1. /\ [fs EXCEPT ![L] = f] \in Seq(TapeFile) /\ Len([fs EXCEPT ![L] = f]) = L
          /\ \A j \in 1..L : [fs EXCEPT ![L] = f][j] = IF j = L THEN f ELSE fs[j]
      BY <1>1, ExceptSeq
    <2>2. \A i \in 1..L - 1 : i \in 1..L /\ i # L
      BY <1>1
    <2> QED BY <1>1, <1>7, <2>1, <2>2, Zenon
  <1> QED BY <1>3, <1>4, <1>8, <1>9, Zenon

\* What an append and a flush make of the active file.
Written(f, rec) == [recs |-> Append(f.recs, rec), synced |-> f.synced]
Synced(f) == [recs |-> f.recs, synced |-> Len(f.recs)]

LEMMA FileTypes ==
    ASSUME NEW f \in TapeFile, NEW rec \in Rec
    PROVE  /\ Written(f, rec) \in TapeFile /\ Synced(f) \in TapeFile /\ NewFile \in TapeFile
           /\ f.recs \in Seq(Rec) /\ f.synced \in Nat /\ Len(f.recs) \in Nat
           /\ f = [recs |-> f.recs, synced |-> f.synced]
  <1>1. f.recs \in Seq(Rec) /\ f.synced \in Nat
    BY Zenon DEF TapeFile
  <1>2. Append(f.recs, rec) \in Seq(Rec) /\ Len(f.recs) \in Nat /\ << >> \in Seq(Rec)
    BY <1>1, AppendProperties
  <1>3. Written(f, rec) \in TapeFile /\ Synced(f) \in TapeFile /\ NewFile \in TapeFile
    BY <1>1, <1>2, Zenon DEF Written, Synced, NewFile, TapeFile
  <1>4. f = [recs |-> f.recs, synced |-> f.synced]
    BY Zenon DEF TapeFile
  <1> QED BY <1>1, <1>2, <1>3, <1>4, Zenon

LEMMA EditActive ==
    ASSUME NEW fs \in Seq(TapeFile), Len(fs) > 0, NEW rec \in Rec
    PROVE  /\ [fs EXCEPT ![Len(fs)].recs = Append(@, rec)] =
                  [fs EXCEPT ![Len(fs)] = Written(fs[Len(fs)], rec)]
           /\ Stable(fs, Len(fs)) = [fs EXCEPT ![Len(fs)] = Synced(fs[Len(fs)])]
  <1> DEFINE L == Len(fs)
             f == fs[L]
  <1>1. L \in 1..L /\ f \in TapeFile
    OBVIOUS
  <1>2. f = [recs |-> f.recs, synced |-> f.synced]
    BY <1>1, FileTypes, Zenon
  <1>3. [f EXCEPT !.recs = Append(f.recs, rec)] = Written(f, rec)
    <2> HIDE DEF f
    <2>1. \A x : [f EXCEPT !.recs = x] = [recs |-> x, synced |-> f.synced]
      BY <1>1 DEF TapeFile
    <2> QED BY <2>1, Zenon DEF Written
  <1>4. [f EXCEPT !.synced = Len(f.recs)] = Synced(f)
    BY <1>2 DEF Synced
  <1>5. [fs EXCEPT ![L].recs = Append(@, rec)] = [fs EXCEPT ![L] = [f EXCEPT !.recs = Append(f.recs, rec)]]
    BY Zenon
  <1>6. Stable(fs, L) = [fs EXCEPT ![L] = [f EXCEPT !.synced = Len(f.recs)]]
    BY Zenon DEF Stable
  <1> QED BY <1>3, <1>4, <1>5, <1>6, Zenon

\* The records of a series: those of the closed files, then the active one's.
LEMMA RecordsSplit ==
    ASSUME NEW fs \in Seq(TapeFile), Len(fs) > 0
    PROVE  \E old \in Seq(Rec) :
               /\ Records(fs) = old \o fs[Len(fs)].recs
               /\ \A f \in TapeFile : Records([fs EXCEPT ![Len(fs)] = f]) = old \o f.recs
               /\ Len(fs) = 2 => old = fs[1].recs
  <1>1. PICK closed \in Seq(TapeFile) :
            /\ Len(closed) = Len(fs) - 1
            /\ fs = Append(closed, fs[Len(fs)])
            /\ \A f \in TapeFile : [fs EXCEPT ![Len(fs)] = f] = Append(closed, f)
    BY ActiveSplit, Zenon
  <1>2. Len(fs) \in 1..Len(fs) /\ fs[Len(fs)] \in TapeFile
    OBVIOUS
  <1> DEFINE old == Records(closed)
  <1>3. old \in Seq(Rec)
    BY RecordsType, Zenon
  <1>4. Records(Append(closed, fs[Len(fs)])) = old \o fs[Len(fs)].recs
    BY <1>2, RecordsAppend, Zenon
  <1>5. \A f \in TapeFile : Records([fs EXCEPT ![Len(fs)] = f]) = old \o f.recs
    BY <1>1, RecordsAppend, Zenon
  <1>6. ASSUME Len(fs) = 2 PROVE old = fs[1].recs
    <2>1. Len(closed) = 1 /\ 1 \in 1..Len(closed)
      BY <1>1, <1>6
    <2>2. closed[1] = fs[1]
      BY <1>1, <1>2, <2>1, AppendProperties
    <2>3. fs[1] \in TapeFile
      BY <1>6
    <2>4. << >> \in Seq(TapeFile)
      OBVIOUS
    <2>5. closed = Append(<< >>, fs[1])
      <3>1. /\ Append(<< >>, fs[1]) \in Seq(TapeFile) /\ Len(Append(<< >>, fs[1])) = 1
            /\ Append(<< >>, fs[1])[1] = fs[1]
        BY <2>3
      <3>2. \A i \in 1..Len(closed) : i = 1
        BY <2>1
      <3> QED BY <2>1, <2>2, <3>1, <3>2, SeqEqual, Zenon
    <2>6. Records(closed) = Records(<< >>) \o fs[1].recs
      BY <2>3, <2>4, <2>5, RecordsAppend, Zenon
    <2>7. fs[1].recs \in Seq(Rec)
      BY <2>3, Zenon DEF TapeFile
    <2> QED BY <2>6, <2>7, RecordsNone, ConcatEmptySeq, Zenon
  <1> HIDE DEF old
  <1> QED BY <1>1, <1>3, <1>4, <1>5, <1>6, Zenon

\* A rollover leaves the closed file, stable now, and an empty one.
LEMMA RolledSeries ==
    ASSUME NEW fs \in Seq(TapeFile), Len(fs) > 0
    PROVE  /\ RolledOver(fs) \in Seq(TapeFile) /\ Len(RolledOver(fs)) = 2
           /\ RolledOver(fs)[1] = Synced(fs[Len(fs)]) /\ RolledOver(fs)[2] = NewFile
           /\ Records(RolledOver(fs)) = fs[Len(fs)].recs
  <1> DEFINE L == Len(fs)
             f == fs[L]
             gs == [fs EXCEPT ![L] = Synced(f)]
             hs == Append(gs, NewFile)
             out == RolledOver(fs)
  <1>1. L \in Nat /\ L \in 1..L /\ f \in TapeFile
    OBVIOUS
  <1>2. Synced(f) \in TapeFile /\ NewFile \in TapeFile /\ f.recs \in Seq(Rec)
    <2>1. PICK rec : rec = [n |-> 1, kind |-> "frontier", op |-> NoOp]
      BY Zenon
    <2>2. rec \in Rec
      BY <2>1 DEF Rec
    <2> QED BY <1>1, <2>2, FileTypes, Zenon
  <1>3. Stable(fs, L) = gs
    <2>1. PICK rec : rec = [n |-> 1, kind |-> "frontier", op |-> NoOp]
      BY Zenon
    <2>2. rec \in Rec
      BY <2>1 DEF Rec
    <2> QED BY <2>2, EditActive, Zenon
  <1>4. gs \in Seq(TapeFile) /\ Len(gs) = L /\ gs[L] = Synced(f)
    BY <1>1, <1>2, ExceptSeq
  <1>5. /\ hs \in Seq(TapeFile) /\ Len(hs) = L + 1 /\ hs[L + 1] = NewFile /\ hs[L] = Synced(f)
    <2> HIDE DEF gs
    <2> QED BY <1>1, <1>2, <1>4, AppendProperties
  <1>6. out = IF L + 1 <= 2 THEN hs ELSE SubSeq(hs, L, L + 1)
    <2>1. out = Pruned(hs)
      BY <1>3, Zenon DEF RolledOver, Opened
    <2>2. (L + 1) - 1 = L
      BY <1>1
    <2> HIDE DEF hs
    <2> QED BY <1>5, <2>1, <2>2, Zenon DEF Pruned
  <1> HIDE DEF gs, hs, f, out, L
  <1>7. out \in Seq(TapeFile) /\ Len(out) = 2 /\ out[1] = Synced(f) /\ out[2] = NewFile
    <2>1. CASE L + 1 <= 2
      <3>1. L = 1 /\ out = hs
        BY <1>1, <1>6, <2>1
      <3> QED BY <1>5, <3>1
    <2>2. CASE ~(L + 1 <= 2)
      <3>1. out = SubSeq(hs, L, L + 1)
        BY <1>6, <2>2, Zenon
      <3>2. L \in Int /\ L + 1 \in Int /\ \A i \in L..L + 1 : i \in 1..Len(hs)
        BY <1>1, <1>5
      <3>3. \A i \in L..L + 1 : hs[i] \in TapeFile
        BY <1>5, <3>2
      <3>4. /\ SubSeq(hs, L, L + 1) \in Seq(TapeFile)
            /\ Len(SubSeq(hs, L, L + 1)) = IF L <= L + 1 THEN (L + 1) - L + 1 ELSE 0
            /\ \A i \in 1..(L + 1) - L + 1 : SubSeq(hs, L, L + 1)[i] = hs[L + i - 1]
        BY <3>2, <3>3, SubSeqProperties
      <3>5. (L + 1) - L + 1 = 2 /\ L <= L + 1 /\ L + 1 - 1 = L /\ L + 2 - 1 = L + 1
        BY <1>1
      <3>6. 1 \in 1..2 /\ 2 \in 1..2
        OBVIOUS
      <3>7. Len(out) = 2 /\ out[1] = hs[L + 1 - 1] /\ out[2] = hs[L + 2 - 1]
        BY <3>1, <3>4, <3>5, <3>6, Zenon
      <3> QED BY <1>5, <3>1, <3>4, <3>5, <3>7, Zenon
    <2> QED BY <2>1, <2>2, Zenon
  <1>8. Records(out) = f.recs
    <2>1. Len(out) > 0
      BY <1>7
    <2>2. PICK old \in Seq(Rec) : Records(out) = old \o out[2].recs /\ old = out[1].recs
      BY <1>7, <2>1, RecordsSplit, Zenon
    <2>3. out[2].recs = << >> /\ out[1].recs = f.recs
      BY <1>7 DEF NewFile, Synced
    <2> QED BY <1>2, <2>2, <2>3, ConcatEmptySeq, Zenon
  <1> QED BY <1>7, <1>8, Zenon DEF out, f, L

(* --------------------------- what the actions keep ---------------------- *)

\* The parts of the invariant about the files, in one.
FilesInv == TapeTypes /\ Run(Records(files), base, written) /\ SeriesFits /\ MarksFit

LEMMA ActiveFile ==
    ASSUME TapeTypes
    PROVE  /\ files \in Seq(TapeFile) /\ Len(files) \in Nat /\ Len(files) \in 1..Len(files)
           /\ files[Len(files)] \in TapeFile
           /\ Records(files) \in Seq(Rec) /\ Len(Records(files)) \in Nat
  <1>1. files \in Seq(TapeFile) /\ Len(files) \in Nat /\ Len(files) \in 1..Len(files)
    BY DEF TapeTypes
  <1>2. Records(files) \in Seq(Rec)
    BY <1>1, RecordsType, Zenon
  <1> QED BY <1>1, <1>2

\* Steps that leave the series and the watermarks alone.
LEMMA FilesUntouched ==
    ASSUME FilesInv, written \in Nat,
           log' \in [open : BOOLEAN, active : BOOLEAN],
           UNCHANGED <<files, size, rolled, boots, written, base, up>>,
           witness'.buffered = witness.buffered, witness'.flushed = witness.flushed
    PROVE  FilesInv'
  BY Zenon DEF FilesInv, TapeTypes, SeriesFits, MarksFit, Active, Run

\* A flush: the active file is stable, its records are what they were.
LEMMA FilesFlushed ==
    ASSUME FilesInv, WitnessHolds, up, files' = Stable(files, Len(files)),
           log' \in [open : BOOLEAN, active : BOOLEAN],
           UNCHANGED <<size, rolled, boots, written, base, up>>,
           witness'.buffered = witness.buffered
    PROVE  FilesInv' /\ Records(files') = Records(files)
  <1> DEFINE L == Len(files)
             f == files[L]
  <1>1. /\ files \in Seq(TapeFile) /\ L \in Nat /\ L \in 1..L /\ f \in TapeFile /\ L > 0
    BY ActiveFile, Zenon DEF FilesInv, TapeTypes
  <1>2. PICK rec : rec \in Rec
    <2>1. [n |-> 1, kind |-> "frontier", op |-> NoOp] \in Rec
      BY DEF Rec
    <2> QED BY <2>1, Zenon
  <1>3. files' = [files EXCEPT ![L] = Synced(f)] /\ Synced(f) \in TapeFile
        /\ f.recs \in Seq(Rec) /\ Len(f.recs) \in Nat
    BY <1>1, <1>2, EditActive, FileTypes, Zenon
  <1>4. /\ files' \in Seq(TapeFile) /\ Len(files') = L
        /\ \A i \in 1..L : files'[i] = IF i = L THEN Synced(f) ELSE files[i]
    BY <1>1, <1>3, ExceptSeq
  <1> HIDE DEF L
  <1>5. Synced(f).recs = f.recs /\ Synced(f).synced = Len(f.recs)
    BY Zenon DEF Synced
  <1>6. \A i \in 1..L : /\ files'[i].recs = files[i].recs
                        /\ files'[i].synced <= Len(files'[i].recs)
    BY <1>1, <1>3, <1>4, <1>5 DEF FilesInv, TapeTypes, L
  <1>7. Records(files') = Records(files)
    BY <1>1, <1>4, <1>6, RecordsSame, Zenon DEF L
  <1>8. TapeTypes'
    BY <1>1, <1>4, <1>6, Zenon DEF FilesInv, TapeTypes
  <1>9. Run(Records(files'), base', written')
    BY <1>7, Zenon DEF FilesInv
  <1>10. SeriesFits'
    <2>1. ASSUME rolled' PROVE Len(files') = 2 /\ Len(files'[1].recs) > 0
      <3>1. L = 2 /\ Len(files[1].recs) > 0
        BY <2>1, Zenon DEF FilesInv, SeriesFits, L
      <3> QED BY <1>4, <1>6, <3>1
    <2> QED BY <1>7, <2>1, Zenon DEF FilesInv, SeriesFits
  <1>11. MarksFit'
    <2>1. files'[Len(files')] = Synced(f)
      BY <1>1, <1>4, Zenon
    <2>2. Unsynced(Synced(f)) = {}
      BY <1>3, <1>5 DEF Unsynced
    <2> HIDE DEF f
    <2> QED BY <1>7, <2>1, <2>2, Zenon DEF FilesInv, MarksFit, Active
  <1> QED BY <1>7, <1>8, <1>9, <1>10, <1>11, Zenon DEF FilesInv

LEMMA ConcatAppend ==
    ASSUME NEW S, NEW s \in Seq(S), NEW t \in Seq(S), NEW e \in S
    PROVE  s \o Append(t, e) = Append(s \o t, e)
  <1>1. <<e>> \in Seq(S)
    OBVIOUS
  <1>2. Append(t, e) = t \o <<e>>
    BY AppendIsConcat, Zenon
  <1>3. s \o t \in Seq(S)
    BY ConcatProperties, Zenon
  <1>4. Append(s \o t, e) = (s \o t) \o <<e>>
    BY <1>3, AppendIsConcat, Zenon
  <1>5. (s \o t) \o <<e>> = s \o (t \o <<e>>)
    BY <1>1, ConcatAssociative
  <1> QED BY <1>2, <1>4, <1>5, Zenon

\* The series with one more record in its active file.
LEMMA WrittenSeries ==
    ASSUME TapeTypes, NEW rec \in Rec
    PROVE  LET fs == [files EXCEPT ![Len(files)].recs = Append(@, rec)]
               f == Written(files[Len(files)], rec)
           IN  /\ fs \in Seq(TapeFile) /\ Len(fs) = Len(files) /\ f \in TapeFile
               /\ \A i \in 1..Len(files) : fs[i] = IF i = Len(files) THEN f ELSE files[i]
               /\ \A i \in 1..Len(fs) : fs[i].synced <= Len(fs[i].recs)
               /\ Records(fs) = Append(Records(files), rec)
  <1> DEFINE L == Len(files)
             g == files[L]
             f == Written(g, rec)
             fs == [files EXCEPT ![L].recs = Append(@, rec)]
  <1>1. /\ files \in Seq(TapeFile) /\ L \in Nat /\ L \in 1..L /\ g \in TapeFile /\ L > 0
    BY ActiveFile, Zenon DEF TapeTypes
  <1>2. f \in TapeFile /\ g.recs \in Seq(Rec) /\ g.synced \in Nat /\ Len(g.recs) \in Nat
    BY <1>1, FileTypes, Zenon
  <1>3. fs = [files EXCEPT ![L] = f]
    BY <1>1, EditActive, Zenon
  <1>4. /\ fs \in Seq(TapeFile) /\ Len(fs) = L
        /\ \A i \in 1..L : fs[i] = IF i = L THEN f ELSE files[i]
    <2> HIDE DEF fs, f
    <2> QED BY <1>1, <1>2, <1>3, ExceptSeq
  <1>5. f.recs = Append(g.recs, rec) /\ f.synced = g.synced
    BY Zenon DEF Written
  <1>6. Len(f.recs) = Len(g.recs) + 1
    BY <1>2, <1>5, AppendProperties
  <1>7. PICK old \in Seq(Rec) : /\ Records(files) = old \o g.recs
                                /\ \A x \in TapeFile : Records([files EXCEPT ![L] = x]) = old \o x.recs
    BY <1>1, RecordsSplit, Zenon
  <1>8. Records(fs) = old \o Append(g.recs, rec)
    <2> HIDE DEF fs
    <2> QED BY <1>2, <1>3, <1>5, <1>7, Zenon
  <1>9. old \o Append(g.recs, rec) = Append(old \o g.recs, rec)
    <2> DEFINE t == g.recs
    <2>1. t \in Seq(Rec)
      BY <1>2, Zenon
    <2> HIDE DEF t
    <2>2. old \o Append(t, rec) = Append(old \o t, rec)
      BY <2>1, ConcatAppend
    <2> QED BY <2>2, Zenon DEF t
  <1>10. \A i \in 1..L : fs[i].synced <= Len(fs[i].recs)
    <2> SUFFICES ASSUME NEW i \in 1..L PROVE fs[i].synced <= Len(fs[i].recs)
      BY Zenon
    <2>1. files[i].synced <= Len(files[i].recs)
      BY Zenon DEF TapeTypes
    <2>2. CASE i = L
      <3>1. fs[i] = f /\ g.synced <= Len(g.recs)
        BY <1>4, <2>1, <2>2, Zenon
      <3> HIDE DEF fs, f, g
      <3> QED BY <1>2, <1>5, <1>6, <3>1
    <2>3. CASE i # L
      <3>1. fs[i] = files[i]
        BY <1>4, <2>3, Zenon
      <3> QED BY <2>1, <3>1, Zenon
    <2> QED BY <2>2, <2>3, Zenon
  <1> QED BY <1>2, <1>4, <1>7, <1>8, <1>9, <1>10, Zenon

\* Every way to append ends the tape with the record just written.
LEMMA RunGrows ==
    ASSUME NEW rs \in Seq(Rec), NEW b \in Nat, NEW w \in Nat, NEW rec \in Rec, rec.n = w + 1
    PROVE  LET out == Append(rs, rec)
           IN  out \in Seq(Rec) /\ Len(out) > 0 /\ out[Len(out)].n = w + 1
               /\ (Len(rs) > 0 => out[1] = rs[1]) /\ (Len(rs) = 0 => out[1].n = w + 1)
  <1>1. /\ Append(rs, rec) \in Seq(Rec) /\ Len(Append(rs, rec)) = Len(rs) + 1
        /\ \A i \in 1..Len(rs) : Append(rs, rec)[i] = rs[i]
        /\ Append(rs, rec)[Len(rs) + 1] = rec /\ Len(rs) \in Nat
    BY AppendProperties
  <1> QED BY <1>1

\* The series became rs, one record longer, but for what was pruned at its old end.
Grows(rs) ==
    \E rec \in Rec, pruned \in Seq(Rec) :
        rec.n = written + 1 /\ pruned \o rs = Append(Records(files), rec)

\* append, with and without the rollover that may follow it.
LEMMA FilesAppended ==
    ASSUME FilesInv, WitnessHolds, up, NEW kind \in {"wire", "frontier"},
           NEW op \in Ops \cup {NoOp}, kind = "wire" => op \in Ops,
           AppendRecord(kind, op), UNCHANGED <<boots, base, up>>
    PROVE  FilesInv' /\ Grows(Records(files'))
  <1> DEFINE L == Len(files)
             rec == [n |-> written + 1, kind |-> kind, op |-> op]
             fs == [files EXCEPT ![L].recs = Append(@, rec)]
             f == Written(files[L], rec)
             R == Records(files)
             due == size + 1 >= RollRecords
  <1>1. /\ written \in Nat /\ base \in Nat /\ base <= written /\ size \in 0..RollRecords
        /\ RollRecords \in Nat /\ rolled \in BOOLEAN
        /\ log \in [open : BOOLEAN, active : BOOLEAN] /\ boots \in Nat
    BY TapeAssumption, Zenon DEF FilesInv, TapeTypes, WitnessHolds
  <1>2. rec \in Rec /\ rec.n = written + 1
    BY <1>1 DEF Rec
  <1>3. /\ files' = IF due THEN RolledOver(fs) ELSE fs
        /\ size' = IF due THEN 0 ELSE size + 1
        /\ rolled' = (rolled \/ due)
        /\ written' = written + 1 /\ witness' = Observe(witness, written + 1) /\ log' = log
    BY Zenon DEF AppendRecord, Active
  <1> HIDE DEF rec
  <1>4. /\ fs \in Seq(TapeFile) /\ Len(fs) = L /\ f \in TapeFile
        /\ \A i \in 1..L : fs[i] = IF i = L THEN f ELSE files[i]
        /\ \A i \in 1..L : fs[i].synced <= Len(fs[i].recs)
        /\ Records(fs) = Append(R, rec)
    BY <1>2, WrittenSeries, Zenon DEF FilesInv
  <1>5. /\ L \in Nat /\ L \in 1..L /\ L > 0 /\ files[L] \in TapeFile /\ R \in Seq(Rec)
        /\ files \in Seq(TapeFile)
    BY ActiveFile, Zenon DEF FilesInv, TapeTypes
  <1>6. /\ files[L].recs \in Seq(Rec) /\ files[L].synced \in Nat /\ Len(files[L].recs) \in Nat
        /\ files[L].synced <= Len(files[L].recs)
    BY <1>2, <1>5, FileTypes, Zenon DEF FilesInv, TapeTypes
  <1>7. f.recs = Append(files[L].recs, rec) /\ f.synced = files[L].synced
    BY Zenon DEF Written
  <1>8. PICK old \in Seq(Rec) : R = old \o files[L].recs
    BY <1>5, RecordsSplit, Zenon
  <1>9. /\ Run(R, base, written)
        /\ written > base => Len(R) > 0 /\ R[Len(R)].n = written
        /\ witness.buffered = IF written > base THEN written ELSE 0
        /\ \A i \in Unsynced(files[L]) : files[L].recs[i].n > witness.flushed
    BY Zenon DEF FilesInv, MarksFit, Active
  <1>10. /\ witness \in WitnessState /\ witness.flushed \in Nat /\ witness.flushed <= witness.buffered
         /\ witness.buffered \in Nat
    BY Zenon DEF WitnessHolds, WitnessInv, WitnessState
  <1>11. /\ witness'.buffered = written + 1 /\ witness'.flushed = witness.flushed
         /\ witness.flushed < written + 1
    <2>1. witness.buffered < written + 1 /\ witness.flushed < written + 1
      BY <1>1, <1>9, <1>10
    <2> QED BY <1>3, <1>10, <2>1, Zenon DEF Observe, WitnessState
  <1> HIDE DEF fs, R
  <1>12. Run(Append(R, rec), base, written + 1)
    BY <1>1, <1>2, <1>5, <1>9, RunAppend, Zenon
  <1>13. CASE ~due
    <2>1. files' = fs /\ size' = size + 1 /\ rolled' = rolled
      BY <1>1, <1>3, <1>13, Zenon
    <2>2. TapeTypes'
      <3>1. size + 1 \in 0..RollRecords
        BY <1>1, <1>13
      <3> QED BY <1>1, <1>3, <1>4, <1>5, <2>1, <3>1 DEF TapeTypes
    <2>3. Records(files') = Append(R, rec)
      BY <1>4, <2>1, Zenon
    <2>4. /\ Len(Append(R, rec)) > 0 /\ Append(R, rec)[Len(Append(R, rec))].n = written + 1
          /\ Len(R) > 0 => Append(R, rec)[1] = R[1]
          /\ Len(R) = 0 => Append(R, rec)[1].n = written + 1
      BY <1>1, <1>2, <1>5, RunGrows
    <2>5. SeriesFits'
      <3>1. ASSUME rolled PROVE Len(fs) = 2 /\ Len(fs[1].recs) > 0
        <4>1. L = 2 /\ Len(files[1].recs) > 0
          BY <3>1, Zenon DEF FilesInv, SeriesFits
        <4> QED BY <1>4, <4>1
      <3>2. ASSUME ~rolled PROVE Append(R, rec)[1].n <= base + 1
        <4>1. CASE Len(R) > 0
          BY <2>4, <3>2, <4>1, Zenon DEF FilesInv, SeriesFits, R
        <4>2. CASE Len(R) = 0
          <5>1. written = base
            BY <1>1, <1>9, <4>2
          <5> QED BY <1>1, <2>4, <4>2, <5>1
        <4>3. Len(R) \in Nat
          BY <1>5
        <4> QED BY <4>1, <4>2, <4>3
      <3> QED BY <2>1, <2>3, <3>1, <3>2, Zenon DEF SeriesFits
    <2>6. ASSUME NEW i \in Unsynced(f) PROVE f.recs[i].n > witness.flushed
      <3>1. Len(f.recs) = Len(files[L].recs) + 1
        BY <1>2, <1>6, <1>7, AppendProperties
      <3>2. CASE i = Len(files[L].recs) + 1
        <4>1. f.recs[i] = rec
          BY <1>2, <1>6, <1>7, <3>2, AppendProperties
        <4> QED BY <1>1, <1>2, <1>10, <1>11, <4>1, Zenon
      <3>3. CASE i # Len(files[L].recs) + 1
        <4>1. i \in Unsynced(files[L]) /\ i \in 1..Len(files[L].recs)
          BY <1>6, <1>7, <3>1, <3>3 DEF Unsynced
        <4>2. f.recs[i] = files[L].recs[i]
          BY <1>2, <1>6, <1>7, <4>1, AppendProperties
        <4> QED BY <1>9, <4>1, <4>2, Zenon
      <3> QED BY <3>2, <3>3, Zenon
    <2>7. files'[Len(files')] = f
      BY <1>4, <1>5, <2>1, Zenon
    <2>8. MarksFit'
      <3> HIDE DEF f
      <3> QED BY <1>1, <1>3, <1>11, <2>3, <2>4, <2>6, <2>7 DEF MarksFit, Active
    <2>9. Grows(Records(files'))
      <3>1. Append(R, rec) \in Seq(Rec) /\ << >> \in Seq(Rec)
        BY <1>2, <1>5, AppendProperties
      <3>2. << >> \o Append(R, rec) = Append(R, rec)
        BY <3>1, ConcatEmptySeq, Zenon
      <3> QED BY <1>2, <2>3, <3>1, <3>2, Zenon DEF Grows, R
    <2> QED BY <1>3, <1>12, <2>2, <2>3, <2>5, <2>8, <2>9, Zenon DEF FilesInv
  <1>14. CASE due
    <2>1. files' = RolledOver(fs) /\ size' = 0 /\ rolled' = TRUE
      BY <1>1, <1>3, <1>14, Zenon
    <2>2. /\ RolledOver(fs) \in Seq(TapeFile) /\ Len(RolledOver(fs)) = 2
          /\ RolledOver(fs)[1] = Synced(fs[L]) /\ RolledOver(fs)[2] = NewFile
          /\ Records(RolledOver(fs)) = fs[L].recs
      BY <1>4, <1>5, RolledSeries
    <2>3. fs[L] = f
      BY <1>4, <1>5, Zenon
    <2>4. f.recs \in Seq(Rec) /\ Len(f.recs) = Len(files[L].recs) + 1 /\ Len(f.recs) \in Nat
      BY <1>2, <1>6, <1>7, AppendProperties
    <2>5. /\ files' \in Seq(TapeFile) /\ Len(files') = 2
          /\ files'[1].recs = f.recs /\ files'[1].synced = Len(f.recs)
          /\ files'[2].recs = << >> /\ files'[2].synced = 0
      BY <2>1, <2>2, <2>3 DEF Synced, NewFile
    <2>6. TapeTypes'
      <3>1. \A i \in 1..2 : files'[i].synced <= Len(files'[i].recs)
        <4>1. \A i \in 1..2 : i = 1 \/ i = 2
          OBVIOUS
        <4> QED BY <2>4, <2>5, <4>1
      <3> QED BY <1>1, <1>3, <2>1, <2>5, <3>1 DEF TapeTypes
    <2>7. Records(files') = f.recs
      BY <2>1, <2>2, <2>3, Zenon
    <2>8. Append(R, rec) = old \o f.recs
      <3> DEFINE t == files[L].recs
      <3>1. t \in Seq(Rec)
        BY <1>6, Zenon
      <3> HIDE DEF t
      <3>2. old \o Append(t, rec) = Append(old \o t, rec)
        BY <1>2, <3>1, ConcatAppend
      <3> QED BY <1>7, <1>8, <3>2, Zenon DEF t
    <2>12. Run(f.recs, base, written + 1)
      <3>1. written + 1 \in Nat
        BY <1>1
      <3> HIDE DEF f
      <3> QED BY <1>1, <1>12, <2>4, <2>8, <3>1, RunSuffix
    <2>13. Grows(Records(files'))
      <3> HIDE DEF f
      <3> QED BY <1>2, <2>7, <2>8, Zenon DEF Grows, R
    <2>9. f.recs[Len(f.recs)].n = written + 1
      BY <1>2, <1>6, <1>7, <2>4, AppendProperties
    <2>10. SeriesFits'
      <3>1. Len(f.recs) > 0
        BY <1>6, <2>4
      <3> QED BY <2>1, <2>5, <3>1, Zenon DEF SeriesFits
    <2>11. MarksFit'
      <3>1. Len(f.recs) > 0
        BY <1>6, <2>4
      <3>2. files'[Len(files')] = files'[2] /\ Unsynced(files'[2]) = {}
        BY <2>5 DEF Unsynced
      <3>3. \A i \in Unsynced(files[Active])' : files'[Len(files')].recs[i].n > witness'.flushed
        BY <3>2, Zenon DEF Active
      <3>4. /\ witness'.buffered = IF written' > base' THEN written' ELSE 0
            /\ written' > base' => /\ Len(Records(files')) > 0
                                  /\ Records(files')[Len(Records(files'))].n = written'
        <4> HIDE DEF f
        <4> QED BY <1>1, <1>3, <1>11, <2>7, <2>9, <3>1
      <3> QED BY <3>3, <3>4, Zenon DEF MarksFit, Active
    <2> QED BY <1>3, <2>6, <2>7, <2>10, <2>11, <2>12, <2>13, Zenon DEF FilesInv
  <1> QED BY <1>13, <1>14, Zenon

\* teardown: one record more, and everything stable.
LEMMA FilesTornDown ==
    ASSUME FilesInv, WitnessHolds, up, ~up', log' \in [open : BOOLEAN, active : BOOLEAN],
           UNCHANGED <<size, rolled, boots, base>>,
           LET rec == [n |-> written + 1, kind |-> "teardown", op |-> NoOp]
           IN  files' = TornDown(files, rec),
           written' = written + 1
    PROVE  FilesInv' /\ \E rec \in Rec : /\ rec.n = written + 1
                                       /\ Records(files') = Append(Records(files), rec)
  <1> DEFINE L == Len(files)
             rec == [n |-> written + 1, kind |-> "teardown", op |-> NoOp]
             fs == [files EXCEPT ![L].recs = Append(@, rec)]
             f == Written(files[L], rec)
             gs == Stable(fs, L)
             R == Records(files)
  <1>1. written \in Nat /\ base \in Nat /\ base <= written
    BY Zenon DEF FilesInv, TapeTypes, WitnessHolds
  <1>2. rec \in Rec /\ rec.n = written + 1
    BY <1>1 DEF Rec
  <1>3. files' = gs
    BY Zenon DEF TornDown
  <1> HIDE DEF rec
  <1>4. /\ fs \in Seq(TapeFile) /\ Len(fs) = L /\ f \in TapeFile
        /\ \A i \in 1..L : fs[i] = IF i = L THEN f ELSE files[i]
        /\ \A i \in 1..L : fs[i].synced <= Len(fs[i].recs)
        /\ Records(fs) = Append(R, rec)
    BY <1>2, WrittenSeries, Zenon DEF FilesInv
  <1>5. /\ L \in Nat /\ L \in 1..L /\ L > 0 /\ files[L] \in TapeFile /\ R \in Seq(Rec)
        /\ files \in Seq(TapeFile)
    BY ActiveFile, Zenon DEF FilesInv, TapeTypes
  <1> HIDE DEF fs, R, f
  <1>6. gs = [fs EXCEPT ![L] = Synced(f)] /\ Synced(f) \in TapeFile /\ f.recs \in Seq(Rec)
    BY <1>2, <1>4, <1>5, EditActive, FileTypes, Zenon
  <1>7. /\ gs \in Seq(TapeFile) /\ Len(gs) = L
        /\ \A i \in 1..L : gs[i] = IF i = L THEN Synced(f) ELSE fs[i]
    <2> HIDE DEF gs
    <2> QED BY <1>4, <1>5, <1>6, ExceptSeq
  <1> HIDE DEF gs
  <1>8. Synced(f).recs = f.recs /\ Synced(f).synced = Len(f.recs) /\ Len(f.recs) \in Nat
    BY <1>6 DEF Synced
  <1>9. \A i \in 1..L : gs[i].recs = fs[i].recs /\ gs[i].synced <= Len(gs[i].recs)
    <2> SUFFICES ASSUME NEW i \in 1..L
                 PROVE  gs[i].recs = fs[i].recs /\ gs[i].synced <= Len(gs[i].recs)
      BY Zenon
    <2>1. CASE i = L
      <3>1. gs[i] = Synced(f) /\ fs[i] = f
        BY <1>4, <1>7, <2>1, Zenon
      <3> QED BY <1>8, <3>1
    <2>2. CASE i # L
      BY <1>4, <1>7, <2>2, Zenon
    <2> QED BY <2>1, <2>2, Zenon
  <1>10. Records(gs) = Append(R, rec)
    BY <1>4, <1>7, <1>9, RecordsSame, Zenon
  <1>11. TapeTypes'
    <2>1. base <= written + 1
      BY <1>1
    <2>2. size \in 0..RollRecords /\ rolled \in BOOLEAN /\ boots \in Nat
      BY Zenon DEF FilesInv, TapeTypes
    <2>3. /\ files' \in Seq(TapeFile) /\ Len(files') > 0
          /\ \A i \in 1..Len(files') : files'[i].synced <= Len(files'[i].recs)
      BY <1>3, <1>5, <1>7, <1>9, Zenon
    <2> QED BY <1>1, <2>1, <2>2, <2>3, Zenon DEF TapeTypes
  <1>12. /\ Run(R, base, written)
         /\ written > base => Len(R) > 0 /\ R[Len(R)].n = written
    BY Zenon DEF FilesInv, MarksFit, R
  <1>13. Run(Append(R, rec), base, written + 1)
    BY <1>1, <1>2, <1>5, <1>12, RunAppend, Zenon
  <1>14. SeriesFits'
    <2>1. ASSUME rolled PROVE Len(gs) = 2 /\ Len(gs[1].recs) > 0
      <3>1. L = 2 /\ Len(files[1].recs) > 0
        BY <2>1, Zenon DEF FilesInv, SeriesFits
      <3>2. gs[1].recs = files[1].recs
        BY <1>4, <1>9, <3>1
      <3> QED BY <1>7, <3>1, <3>2, Zenon
    <2>2. ASSUME ~rolled PROVE Append(R, rec)[1].n <= base + 1
      <3>1. /\ Len(R) > 0 => Append(R, rec)[1] = R[1]
            /\ Len(R) = 0 => Append(R, rec)[1].n = written + 1
        BY <1>1, <1>2, <1>5, RunGrows, Zenon
      <3>2. CASE Len(R) > 0
        BY <2>2, <3>1, <3>2, Zenon DEF FilesInv, SeriesFits, R
      <3>3. CASE Len(R) = 0
        <4>1. written = base
          BY <1>1, <1>12, <3>3
        <4> QED BY <1>1, <3>1, <3>3, <4>1
      <3>4. Len(R) \in Nat
        BY <1>5
      <3> QED BY <3>2, <3>3, <3>4
    <2> QED BY <1>3, <1>10, <2>1, <2>2, Zenon DEF SeriesFits
  <1>15. MarksFit'
    BY Zenon DEF MarksFit
  <1> QED BY <1>2, <1>3, <1>10, <1>11, <1>13, <1>14, <1>15, Zenon DEF FilesInv, R

\* A record that is kept stays kept when one more is written.
LEMMA KeptAppend ==
    ASSUME NEW rs \in Seq(Rec), NEW rec \in Rec, NEW p \in Nat, Kept(rs, p)
    PROVE  Kept(Append(rs, rec), p)
  <1>1. /\ Len(rs) \in Nat /\ Len(Append(rs, rec)) = Len(rs) + 1
        /\ \A i \in 1..Len(rs) : i \in 1..Len(Append(rs, rec)) /\ Append(rs, rec)[i] = rs[i]
    BY AppendProperties
  <1>2. Len(rs) > 0 => 1 \in 1..Len(rs)
    BY <1>1
  <1> QED BY <1>1, <1>2 DEF Kept

\* While the process runs, every acknowledged frontier of its own is kept.
LEMMA AckedIsKept ==
    ASSUME WitnessHolds, FilesInv, up, NEW p \in acked, p > base
    PROVE  Kept(Records(files), p)
  <1> DEFINE R == Records(files)
  <1>1. p \in Nat /\ p <= witness.flushed /\ witness.flushed \in Nat /\ written \in Nat
        /\ witness.flushed <= witness.buffered /\ witness.buffered \in Nat /\ base \in Nat
    BY SyncPointIsANumber, Zenon DEF WitnessHolds, AckedIsFlushed, WitnessInv, FilesInv, TapeTypes
  <1>2. witness.buffered = IF written > base THEN written ELSE 0
    BY Zenon DEF FilesInv, MarksFit
  <1>3. written > base /\ p <= written
    BY <1>1, <1>2
  <1>4. Len(R) > 0 /\ R[Len(R)].n = written /\ Run(R, base, written)
    BY <1>3, Zenon DEF FilesInv, MarksFit
  <1>5. R \in Seq(Rec)
    BY ActiveFile, Zenon DEF FilesInv
  <1> HIDE DEF R
  <1>6. Kept(R, p)
    BY <1>1, <1>3, <1>4, <1>5, RunHasAll, Zenon
  <1> QED BY <1>6, Zenon DEF R

\* A loss of power: the active file keeps its stable part at least, so what was
\* acknowledged is kept, be it in the active file or in a closed one.
LEMMA FilesLost ==
    ASSUME FilesInv, WitnessHolds, up, ~up', log' \in [open : BOOLEAN, active : BOOLEAN],
           UNCHANGED <<size, rolled, boots, base, written, acked>>,
           NEW k \in files[Len(files)].synced .. Len(files[Len(files)].recs),
           files' = [files EXCEPT ![Len(files)] =
                        [recs |-> SubSeq(files[Len(files)].recs, 1, k), synced |-> k]]
    PROVE  FilesInv' /\ \A p \in acked : p > base => Kept(Records(files'), p)
  <1> DEFINE L == Len(files)
             g == files[L]
             keep == SubSeq(g.recs, 1, k)
             lost == SubSeq(g.recs, k + 1, Len(g.recs))
             f == [recs |-> keep, synced |-> k]
             R == Records(files)
             S == Records(files')
  <1>1. /\ L \in Nat /\ L \in 1..L /\ L > 0 /\ g \in TapeFile /\ R \in Seq(Rec)
        /\ files \in Seq(TapeFile) /\ base \in Nat /\ written \in Nat
    BY ActiveFile, Zenon DEF FilesInv, TapeTypes, WitnessHolds
  <1>2. /\ g.recs \in Seq(Rec) /\ g.synced \in Nat /\ Len(g.recs) \in Nat
        /\ g.synced <= Len(g.recs)
    BY <1>1 DEF TapeFile, FilesInv, TapeTypes
  <1>3. k \in Nat /\ k <= Len(g.recs) /\ g.synced <= k
    BY <1>2
  <1>4. files' = [files EXCEPT ![L] = f]
    BY Zenon
  <1> HIDE DEF g
  <1>5. keep \in Seq(Rec) /\ Len(keep) = k /\ \A i \in 1..k : keep[i] = g.recs[i]
    <2>1. \A i \in 1..k : i \in 1..Len(g.recs) /\ g.recs[i] \in Rec
      BY <1>2, <1>3
    <2>2. /\ keep \in Seq(Rec) /\ Len(keep) = (IF 1 <= k THEN k - 1 + 1 ELSE 0)
          /\ \A i \in 1..k - 1 + 1 : keep[i] = g.recs[1 + i - 1]
      BY <1>3, <2>1, SubSeqProperties
    <2>3. k - 1 + 1 = k /\ \A i \in 1..k : 1 + i - 1 = i
      BY <1>3
    <2>4. Len(keep) = k
      BY <1>3, <2>2, <2>3
    <2> QED BY <2>2, <2>3, <2>4, Zenon
  <1>6. /\ lost \in Seq(Rec) /\ Len(lost) = Len(g.recs) - k
        /\ \A i \in 1..Len(lost) : lost[i] = g.recs[k + i]
    <2>1. \A i \in k + 1..Len(g.recs) : i \in 1..Len(g.recs) /\ g.recs[i] \in Rec
      BY <1>2, <1>3
    <2>2. /\ lost \in Seq(Rec)
          /\ Len(lost) = (IF k + 1 <= Len(g.recs) THEN Len(g.recs) - (k + 1) + 1 ELSE 0)
          /\ \A i \in 1..Len(g.recs) - (k + 1) + 1 : lost[i] = g.recs[(k + 1) + i - 1]
      BY <1>2, <1>3, <2>1, SubSeqProperties
    <2>3. Len(g.recs) - (k + 1) + 1 = Len(g.recs) - k
      BY <1>2, <1>3
    <2>4. \A i \in 1..Len(g.recs) - k : (k + 1) + i - 1 = k + i
      BY <1>2, <1>3
    <2>5. Len(lost) = Len(g.recs) - k
      BY <1>2, <1>3, <2>2, <2>3
    <2> HIDE DEF lost
    <2> QED BY <2>2, <2>3, <2>4, <2>5, Zenon
  <1> HIDE DEF keep, lost
  <1>7. g.recs = keep \o lost
    <2>1. /\ keep \o lost \in Seq(Rec) /\ Len(keep \o lost) = Len(keep) + Len(lost)
          /\ \A i \in 1..Len(keep) + Len(lost) :
                (keep \o lost)[i] = IF i <= Len(keep) THEN keep[i] ELSE lost[i - Len(keep)]
      BY <1>5, <1>6, ConcatProperties
    <2>2. Len(keep) + Len(lost) = Len(g.recs)
      BY <1>2, <1>3, <1>5, <1>6
    <2>3. ASSUME NEW i \in 1..Len(g.recs) PROVE g.recs[i] = (keep \o lost)[i]
      <3>1. CASE i <= k
        BY <1>3, <1>5, <2>1, <2>2, <3>1
      <3>2. CASE ~(i <= k)
        <4>1. i - k \in 1..Len(lost) /\ k + (i - k) = i
          BY <1>2, <1>3, <1>6, <3>2
        <4>2. lost[i - k] = g.recs[i]
          BY <1>6, <4>1, Zenon
        <4> QED BY <1>5, <2>1, <2>2, <3>2, <4>2, Zenon
      <3> QED BY <3>1, <3>2, Zenon
    <2> QED BY <1>2, <2>1, <2>2, <2>3, SeqEqual, Zenon
  <1>8. f \in TapeFile
    BY <1>3, <1>5, Zenon DEF TapeFile
  <1>9. PICK old \in Seq(Rec) :
            /\ R = old \o g.recs
            /\ \A x \in TapeFile : Records([files EXCEPT ![L] = x]) = old \o x.recs
            /\ L = 2 => old = files[1].recs
    BY <1>1, RecordsSplit, Zenon DEF g
  <1>10. S = old \o keep
    <2>1. f.recs = keep
      BY Zenon
    <2> QED BY <1>4, <1>8, <1>9, <2>1, Zenon
  <1>11. S \in Seq(Rec) /\ R = S \o lost
    <2>1. old \o keep \in Seq(Rec)
      BY <1>5, ConcatProperties, Zenon
    <2>2. (old \o keep) \o lost = old \o (keep \o lost)
      <3>1. old \in Seq(Rec) /\ keep \in Seq(Rec) /\ lost \in Seq(Rec)
        BY <1>5, <1>6, Zenon
      <3> QED BY ONLY <3>1, ConcatAssociative
    <2> QED BY <1>7, <1>9, <1>10, <2>1, <2>2, Zenon
  <1>12. /\ files' \in Seq(TapeFile) /\ Len(files') = L
         /\ \A i \in 1..L : files'[i] = IF i = L THEN f ELSE files[i]
    <2> HIDE DEF f
    <2>1. files \in Seq(TapeFile) /\ L \in 1..Len(files) /\ f \in TapeFile
      BY <1>1, <1>8, Zenon
    <2> QED BY ONLY <2>1, <1>4, ExceptSeq DEF L
  <1> HIDE DEF R, S, L
  <1>13. Run(R, base, written)
    BY Zenon DEF FilesInv, R
  <1>14. Run(S, base, written)
    BY <1>1, <1>6, <1>11, <1>13, RunPrefix, Zenon
  <1>15. /\ Len(S) \in Nat /\ Len(lost) \in Nat /\ Len(R) = Len(S) + Len(lost)
         /\ \A i \in 1..Len(R) : R[i] = IF i <= Len(S) THEN S[i] ELSE lost[i - Len(S)]
    <2>1. lost \in Seq(Rec)
      BY <1>6, Zenon
    <2> QED BY ONLY <2>1, <1>11, ConcatProperties
  <1>16. TapeTypes'
    <2>1. \A i \in 1..L : files'[i].synced <= Len(files'[i].recs)
      <3> SUFFICES ASSUME NEW i \in 1..L PROVE files'[i].synced <= Len(files'[i].recs)
        BY Zenon
      <3>1. CASE i = L
        BY <1>3, <1>5, <1>12, <3>1
      <3>2. CASE i # L
        BY <1>12, <3>2, Zenon DEF FilesInv, TapeTypes, L
      <3> QED BY <3>1, <3>2, Zenon
    <2>2. size \in 0..RollRecords /\ rolled \in BOOLEAN /\ boots \in Nat /\ base <= written
      BY Zenon DEF FilesInv, TapeTypes
    <2> QED BY <1>1, <1>12, <2>1, <2>2, Zenon DEF TapeTypes
  <1>17. rolled => L = 2 /\ Len(files[1].recs) > 0 /\ old = files[1].recs
    BY <1>9, Zenon DEF FilesInv, SeriesFits, L
  <1>18. rolled => Len(S) > 0
    <2> SUFFICES ASSUME rolled PROVE Len(S) > 0
      BY Zenon
    <2>1. Len(S) = Len(old) + Len(keep) /\ Len(old) \in Nat /\ Len(keep) \in Nat
      <3>1. keep \in Seq(Rec)
        BY <1>5, Zenon
      <3> QED BY <1>10, <3>1, ConcatProperties, LenProperties, Zenon
    <2> QED BY <1>17, <2>1
  <1>19. Len(S) > 0 => Len(R) > 0 /\ R[1] = S[1]
    BY <1>15
  <1>20. SeriesFits'
    <2>1. rolled => Len(files') = 2 /\ Len(files'[1].recs) > 0
      <3> SUFFICES ASSUME rolled PROVE Len(files') = 2 /\ Len(files'[1].recs) > 0
        BY Zenon
      <3>1. L = 2 /\ Len(files[1].recs) > 0
        BY <1>17, Zenon
      <3>2. 1 \in 1..L /\ 1 # L
        BY <3>1
      <3>3. files'[1] = files[1]
        BY <1>12, <3>2, Zenon
      <3> QED BY <1>12, <3>1, <3>3, Zenon
    <2>2. ~rolled /\ Len(S) > 0 => S[1].n <= base + 1
      BY <1>19, Zenon DEF FilesInv, SeriesFits, R
    <2> QED BY <2>1, <2>2, Zenon DEF SeriesFits, S
  <1>21. MarksFit'
    BY Zenon DEF MarksFit
  <1>22. ASSUME NEW p \in acked, p > base PROVE Kept(S, p)
    <2>1. Kept(R, p)
      BY <1>22, AckedIsKept, Zenon DEF R
    <2>2. /\ p \in Nat /\ p <= witness.flushed /\ witness.flushed \in Nat
      BY SyncPointIsANumber, Zenon DEF WitnessHolds, AckedIsFlushed, WitnessInv
    <2>3. \A i \in 1..Len(lost) : lost[i].n > witness.flushed /\ lost[i].n \in Nat
      <3>1. \A i \in 1..Len(lost) : k + i \in Unsynced(g)
        BY <1>2, <1>3, <1>6 DEF Unsynced
      <3>2. \A i \in Unsynced(g) : g.recs[i].n > witness.flushed
        BY Zenon DEF FilesInv, MarksFit, Active, g, L
      <3> QED BY <1>6, <3>1, <3>2, RecordNumbers, Zenon
    <2>4. CASE \E i \in 1..Len(R) : R[i].n = p
      <3>1. PICK i \in 1..Len(R) : R[i].n = p
        BY <2>4, Zenon
      <3>2. CASE i <= Len(S)
        <4>1. i \in 1..Len(S) /\ S[i].n = p
          BY <1>15, <3>1, <3>2
        <4> QED BY <4>1, Zenon DEF Kept
      <3>3. CASE ~(i <= Len(S))
        <4>1. i - Len(S) \in 1..Len(lost) /\ R[i] = lost[i - Len(S)]
          BY <1>15, <3>1, <3>3
        <4>2. p > witness.flushed
          BY <2>3, <3>1, <4>1, Zenon
        <4> QED BY <2>2, <4>2
      <3> QED BY <3>2, <3>3, Zenon
    <2>5. CASE Len(R) > 0 /\ p < R[1].n
      <3>1. CASE Len(S) > 0
        BY <1>19, <2>5, <3>1, Zenon DEF Kept
      <3>2. CASE ~(Len(S) > 0)
        <4>1. ~rolled
          BY <1>18, <3>2, Zenon
        <4>2. R[1].n <= base + 1 /\ R[1].n \in Nat
          BY <1>1, <2>5, <4>1, RecordNumbers DEF FilesInv, SeriesFits, R
        <4> QED BY <1>1, <1>22, <2>2, <2>5, <4>2
      <3> QED BY <3>1, <3>2, Zenon
    <2> QED BY <2>1, <2>4, <2>5, Zenon DEF Kept
  <1> QED BY <1>14, <1>16, <1>20, <1>21, <1>22, Zenon DEF FilesInv, S

\* A start: a new file beside the series, and nothing of this process on it.
LEMMA FilesBooted ==
    ASSUME FilesInv, WitnessHolds, Boot
    PROVE  FilesInv' /\ Records(files') = Records(files)
  <1> DEFINE R == Records(files)
             L == Len(files)
  <1>1. /\ files' = Append(files, NewFile) /\ base' = written /\ written' = written
        /\ size' = 0 /\ rolled' = FALSE /\ boots' = boots + 1 /\ witness' = NewWitness
        /\ log' = [open |-> TRUE, active |-> TRUE]
    BY Zenon DEF Boot, Opened, WitnessHolds
  <1>2. /\ files \in Seq(TapeFile) /\ L \in Nat /\ R \in Seq(Rec) /\ Len(R) \in Nat
        /\ written \in Nat /\ boots \in Nat /\ base \in Nat
    BY ActiveFile, Zenon DEF FilesInv, TapeTypes, WitnessHolds
  <1>3. NewFile \in TapeFile /\ NewFile.recs = << >> /\ NewFile.synced = 0
    BY DEF NewFile, TapeFile
  <1>4. /\ files' \in Seq(TapeFile) /\ Len(files') = L + 1
        /\ \A i \in 1..L : files'[i] = files[i]
        /\ files'[L + 1] = NewFile
    <2> HIDE DEF NewFile
    <2> QED BY <1>1, <1>2, <1>3, AppendProperties
  <1>5. Records(files') = R
    <2>1. Records(files') = R \o << >>
      BY <1>1, <1>2, <1>3, RecordsAppend, Zenon
    <2> QED BY <1>2, <2>1, ConcatEmptySeq, Zenon
  <1> HIDE DEF R, L
  <1>6. \A i \in 1..Len(R) : R[i].n <= written /\ R[i].n \in Nat
    BY <1>2, RecordNumbers, Zenon DEF FilesInv, Run, R
  <1>7. Run(R, written, written)
    <2>1. \A i \in 1..Len(R) - 1 : R[i].n < R[i + 1].n
      BY Zenon DEF FilesInv, Run, R
    <2>2. \A i \in 1..Len(R) - 1 : i + 1 \in 1..Len(R)
      BY <1>2
    <2>3. \A i \in 1..Len(R) - 1 : ~(R[i + 1].n > written)
      BY <1>2, <1>6, <2>2
    <2> QED BY <1>6, <2>1, <2>3, Zenon DEF Run
  <1>8. TapeTypes'
    <2>1. \A i \in 1..L + 1 : files'[i].synced <= Len(files'[i].recs)
      <3> SUFFICES ASSUME NEW i \in 1..L + 1 PROVE files'[i].synced <= Len(files'[i].recs)
        BY Zenon
      <3>1. CASE i = L + 1
        BY <1>3, <1>4, <3>1
      <3>2. CASE i # L + 1
        <4>1. i \in 1..L
          BY <1>2, <3>2
        <4> QED BY <1>4, <4>1, Zenon DEF FilesInv, TapeTypes, L
      <3> QED BY <3>1, <3>2, Zenon
    <2>2. 0 \in 0..RollRecords
      BY TapeAssumption
    <2>3. boots + 1 \in Nat /\ written <= written /\ L + 1 > 0
      BY <1>2
    <2> QED BY <1>1, <1>2, <1>4, <2>1, <2>2, <2>3, Zenon DEF TapeTypes
  <1>9. SeriesFits'
    <2>1. Len(R) > 0 => R[1].n <= written + 1
      <3> SUFFICES ASSUME Len(R) > 0 PROVE R[1].n <= written + 1
        BY Zenon
      <3>1. 1 \in 1..Len(R)
        BY <1>2
      <3> QED BY <1>2, <1>6, <3>1
    <2> QED BY <1>1, <1>5, <2>1, Zenon DEF SeriesFits
  <1>10. MarksFit'
    <2>1. ~(written > written)
      BY <1>2
    <2>2. witness'.buffered = 0
      BY <1>1, Zenon DEF NewWitness
    <2>3. Active' = L + 1
      BY <1>4, Zenon DEF Active
    <2>4. Unsynced(NewFile) = {}
      BY <1>3 DEF Unsynced
    <2> QED BY <1>1, <1>4, <2>1, <2>2, <2>3, <2>4, Zenon DEF MarksFit
  <1> QED BY <1>1, <1>5, <1>7, <1>8, <1>9, <1>10, Zenon DEF FilesInv, R

\* A flush leaves the buffered watermark alone.
LEMMA FlushLeavesBuffered ==
    ASSUME WitnessHolds
    PROVE  FlushedThroughBuffer(witness).state.buffered = witness.buffered
  BY FlushHolds, Zenon DEF WitnessHolds

\* What a step that loses nothing does to the series.
Moves(rs, w) ==
    \/ rs = Records(files) /\ w = written
    \/ Grows(rs) /\ w = written + 1

\* Every step keeps the files sound, and what was acknowledged on them.
LEMMA FilesStep ==
    ASSUME TapeInv, Next
    PROVE  /\ FilesInv'
           /\ ~up' => \A p \in acked' : p > base' => Kept(Records(files'), p)
           /\ PowerLoss \/ Moves(Records(files'), written')
  <1>1. /\ FilesInv /\ WitnessHolds /\ written \in Nat /\ up \in BOOLEAN
        /\ log \in [open : BOOLEAN, active : BOOLEAN]
    BY Zenon DEF TapeInv, FilesInv, TapeTypes, WitnessHolds
  <1>2. \A p \in acked : p \in Nat
    BY <1>1, SyncPointIsANumber, Zenon DEF WitnessHolds
  <1> DEFINE Fine == FilesInv' /\ up' /\ Moves(Records(files'), written')
  <1>3. ASSUME NEW op \in Ops, Record(op) PROVE Fine
    <2>1. up /\ AppendRecord("wire", op) /\ UNCHANGED <<boots, base, up>> /\ written' = written + 1
      BY <1>3, Zenon DEF Record, AppendRecord
    <2> QED BY <1>1, <2>1, FilesAppended, Zenon DEF Moves
  <1>4. CASE RecordFrontier
    <2>1. /\ up /\ AppendRecord("frontier", NoOp) /\ UNCHANGED <<boots, base, up>>
          /\ written' = written + 1
      BY <1>4, Zenon DEF RecordFrontier, AppendRecord
    <2> QED BY <1>1, <2>1, FilesAppended, Zenon DEF Moves
  <1>5. CASE AppendFails
    <2>1. /\ up /\ UNCHANGED <<files, size, rolled, boots, written, base, up, witness>>
          /\ log' \in [open : BOOLEAN, active : BOOLEAN]
      BY <1>1, <1>5, Zenon DEF AppendFails
    <2> QED BY <1>1, <2>1, FilesUntouched, Zenon DEF Moves
  <1>6. CASE FlushTick
    <2>1. /\ up /\ UNCHANGED <<size, rolled, boots, written, base, up, log>>
          /\ files' = Stable(files, Len(files))
          /\ witness' = FlushedThroughBuffer(witness).state
      BY <1>6, Zenon DEF FlushTick, Flushed
    <2> QED BY <1>1, <2>1, FilesFlushed, FlushLeavesBuffered, Zenon DEF Moves
  <1>7. CASE OnWeight
    <2>1. /\ up /\ UNCHANGED <<size, rolled, boots, written, base, up>>
          /\ log' \in [open : BOOLEAN, active : BOOLEAN]
      BY <1>1, <1>7, Zenon DEF OnWeight
    <2>2. CASE log.active /\ log.open
      <3>1. /\ files' = Stable(files, Len(files))
            /\ witness' = FlushedThroughBuffer(witness).state
        BY <1>7, <2>2, Zenon DEF OnWeight, Flushed
      <3> QED BY <1>1, <2>1, <3>1, FilesFlushed, FlushLeavesBuffered, Zenon DEF Moves
    <2>3. CASE ~(log.active /\ log.open)
      <3>1. UNCHANGED <<files, witness>>
        BY <1>7, <2>3, Zenon DEF OnWeight
      <3> QED BY <1>1, <2>1, <3>1, FilesUntouched, Zenon DEF Moves
    <2> QED BY <2>2, <2>3, Zenon
  <1>8. ASSUME NEW p \in SyncPoints, Sync(p) PROVE Fine
    <2> DEFINE s == SyncPoint(witness, p)
    <2>1. up /\ UNCHANGED <<log, size, rolled, boots, up, written, base>>
      BY <1>8, Zenon DEF Sync
    <2>2. CASE s.outcome = "acked"
      <3>1. UNCHANGED <<files, witness>>
        BY <1>8, <2>2, Zenon DEF Sync
      <3> QED BY <1>1, <2>1, <3>1, FilesUntouched, Zenon DEF Moves
    <2>3. CASE s.outcome = "held"
      <3>1. witness' = s.state /\ UNCHANGED files
        BY <1>8, <2>3, Zenon DEF Sync
      <3>2. witness \in [buffered : Nat, flushed : Nat, held : SUBSET Nat]
        BY <1>1, Zenon DEF WitnessHolds, WitnessState
      <3>3. s.state.buffered = witness.buffered /\ s.state.flushed = witness.flushed
        BY <3>2, Zenon DEF SyncPoint
      <3> QED BY <1>1, <2>1, <3>1, <3>3, FilesUntouched, Zenon DEF Moves
    <2>4. CASE s.outcome # "acked" /\ s.outcome # "held"
      <3>1. /\ files' = Stable(files, Len(files))
            /\ witness' = FlushedThroughBuffer(witness).state
        BY <1>8, <2>4, Zenon DEF Sync, Active
      <3> QED BY <1>1, <2>1, <3>1, FilesFlushed, FlushLeavesBuffered, Zenon DEF Moves
    <2> QED BY <2>2, <2>3, <2>4, Zenon
  <1>9. CASE Teardown
    <2>1. /\ up /\ ~up' /\ UNCHANGED <<size, rolled, boots, base, acked>>
          /\ log' \in [open : BOOLEAN, active : BOOLEAN]
      BY <1>1, <1>9, Zenon DEF Teardown
    <2>2. \A p \in acked : p > base => Kept(Records(files), p)
      BY <1>1, <2>1, AckedIsKept, Zenon
    <2>3. CASE log.open
      <3>1. /\ files' = TornDown(files, [n |-> written + 1, kind |-> "teardown", op |-> NoOp])
            /\ written' = written + 1
        BY <1>9, <2>3, Zenon DEF Teardown
      <3>2. FilesInv' /\ \E rec \in Rec : /\ rec.n = written + 1
                                          /\ Records(files') = Append(Records(files), rec)
        BY <1>1, <2>1, <3>1, FilesTornDown, Zenon
      <3>3. PICK rec \in Rec : rec.n = written + 1 /\ Records(files') = Append(Records(files), rec)
        BY <3>2, Zenon
      <3>4. Records(files) \in Seq(Rec)
        BY <1>1, ActiveFile, Zenon DEF FilesInv
      <3>5. Append(Records(files), rec) \in Seq(Rec) /\ << >> \in Seq(Rec)
        BY <3>4, AppendProperties
      <3>6. << >> \o Append(Records(files), rec) = Append(Records(files), rec)
        BY <3>5, ConcatEmptySeq, Zenon
      <3>7. Moves(Records(files'), written')
        BY <3>1, <3>3, <3>5, <3>6, Zenon DEF Moves, Grows
      <3> QED BY <1>2, <2>1, <2>2, <3>2, <3>3, <3>4, <3>7, KeptAppend, Zenon
    <2>4. CASE ~log.open
      <3>1. UNCHANGED <<files, written>>
        BY <1>9, <2>4, Zenon DEF Teardown
      <3>2. FilesInv'
        BY <1>1, <2>1, <3>1, Zenon DEF FilesInv, TapeTypes, SeriesFits, MarksFit
      <3> QED BY <2>1, <2>2, <3>1, <3>2, Zenon DEF Moves
    <2> QED BY <2>3, <2>4, Zenon
  <1>10. CASE PowerLoss
    <2>1. /\ up /\ ~up' /\ UNCHANGED <<size, rolled, boots, written, base, acked>>
          /\ log' \in [open : BOOLEAN, active : BOOLEAN]
      BY <1>1, <1>10, Zenon DEF PowerLoss
    <2>2. PICK k \in files[Len(files)].synced .. Len(files[Len(files)].recs) :
              files' = [files EXCEPT ![Len(files)] =
                            [recs |-> SubSeq(files[Len(files)].recs, 1, k), synced |-> k]]
      BY <1>10, Zenon DEF PowerLoss, Active
    <2>3. FilesInv' /\ \A p \in acked : p > base => Kept(Records(files'), p)
      BY <1>1, <2>1, <2>2, FilesLost, Zenon
    <2> QED BY <1>10, <2>1, <2>3, Zenon
  <1>11. CASE Boot
    <2>1. up' /\ written' = written
      BY <1>11, Zenon DEF Boot
    <2> QED BY <1>1, <1>11, <2>1, FilesBooted, Zenon DEF Moves
  <1>12. CASE Follow
    <2>1. UNCHANGED <<files, log, size, rolled, boots, up, written, base, witness, acked>>
      BY <1>12, Zenon DEF Follow, writer
    <2>2. FilesInv'
      BY <1>1, <2>1, FilesUntouched, Zenon
    <2> QED BY <2>1, <2>2, Zenon DEF TapeInv, Moves
  <1>13. CASE RecordFrontier \/ AppendFails \/ FlushTick \/ OnWeight
    <2>1. up'
      BY <1>13 DEF RecordFrontier, AppendFails, FlushTick, OnWeight
    <2> QED BY <1>4, <1>5, <1>6, <1>7, <1>13, <2>1, Zenon
  <1> QED BY <1>3, <1>8, <1>9, <1>10, <1>11, <1>12, <1>13, Zenon DEF Next

LEMMA TapeStep == TapeInv /\ [Next]_vars => TapeInv'
  <1> SUFFICES ASSUME TapeInv, [Next]_vars PROVE TapeInv'
    OBVIOUS
  <1>1. WitnessHolds'
    BY WitnessStep, Zenon DEF TapeInv
  <1>2. CASE Next
    BY <1>1, <1>2, FilesStep, Zenon DEF TapeInv, FilesInv
  <1>3. CASE UNCHANGED vars
    <2>1. UNCHANGED <<files, log, size, rolled, boots, up, written, base, witness, acked>>
      BY <1>3, Zenon DEF vars, writer
    <2>2. FilesInv /\ written \in Nat /\ log \in [open : BOOLEAN, active : BOOLEAN]
      BY Zenon DEF TapeInv, FilesInv, TapeTypes, WitnessHolds
    <2>3. FilesInv'
      BY <2>1, <2>2, FilesUntouched, Zenon
    <2> QED BY <1>1, <2>1, <2>3, Zenon DEF TapeInv, FilesInv
  <1> QED BY <1>2, <1>3, Zenon

\* What the tape's numbers are.
LEMMA NumbersAre ==
    /\ DOMAIN Numbers = 1..Len(Records(files))
    /\ \A i \in 1..Len(Records(files)) : Numbers[i] = Records(files)[i].n
  BY Zenon DEF Numbers

LEMMA TapeInvSuffices == TapeInv => AckedIsOnTape
  <1> SUFFICES ASSUME TapeInv PROVE AckedIsOnTape
    BY Zenon
  <1> DEFINE R == Records(files)
             N == Numbers
  <1>1. /\ FilesInv /\ WitnessHolds /\ R \in Seq(Rec) /\ Len(R) \in Nat
        /\ files \in Seq(TapeFile) /\ written \in Nat /\ base \in Nat /\ up \in BOOLEAN
    BY ActiveFile, Zenon DEF TapeInv, FilesInv, TapeTypes, WitnessHolds
  <1>2. \A i \in 1..Len(R) : N[i] = R[i].n /\ R[i].n \in Nat /\ N[i] \in Nat
    BY <1>1, NumbersAre, RecordNumbers, Zenon
  <1>3. N \in Seq(Nat) /\ Len(N) = Len(R)
    <2>1. N = [i \in 1..Len(R) |-> R[i].n]
      BY Zenon DEF Numbers
    <2> HIDE DEF N, R
    <2> QED BY <1>1, <1>2, <2>1, IsASeq
  <1> HIDE DEF N, R
  <1>4. TypeOK
    <2>1. \A i \in 1..Len(files) : files[i].synced \in 0..Len(files[i].recs)
      <3> SUFFICES ASSUME NEW i \in 1..Len(files) PROVE files[i].synced \in 0..Len(files[i].recs)
        BY Zenon
      <3>1. files[i] \in TapeFile
        BY <1>1
      <3>2. files[i].synced \in Nat /\ Len(files[i].recs) \in Nat
        BY <3>1 DEF TapeFile
      <3>3. files[i].synced <= Len(files[i].recs)
        BY Zenon DEF TapeInv, TapeTypes
      <3> QED BY <3>2, <3>3
    <2>2. rolled => Len(files) <= 2
      <3> SUFFICES ASSUME rolled PROVE Len(files) <= 2
        BY Zenon
      <3>1. Len(files) = 2
        BY Zenon DEF TapeInv, SeriesFits
      <3> QED BY <3>1
    <2> QED BY <2>1, <2>2, Zenon DEF TypeOK, TapeInv, TapeTypes, WitnessHolds
  <1>5. TapeIsARun
    <2>1. ASSUME NEW i \in 1..Len(N) - 1
          PROVE  IF N[i] > base THEN N[i + 1] = N[i] + 1 ELSE N[i] < N[i + 1]
      <3>1. i \in 1..Len(R) /\ i + 1 \in 1..Len(R) /\ i \in 1..Len(R) - 1
        BY <1>1, <1>3
      <3>2. /\ R[i].n < R[i + 1].n
            /\ R[i + 1].n > base => \/ R[i + 1].n = R[i].n + 1
                                    \/ R[i].n <= base /\ R[i + 1].n = base + 1
        BY <3>1, Zenon DEF TapeInv, Run, R
      <3>3. N[i] = R[i].n /\ N[i + 1] = R[i + 1].n /\ N[i] \in Nat /\ N[i + 1] \in Nat
        BY <1>2, <3>1, Zenon
      <3> QED BY <1>1, <3>2, <3>3
    <2>2. up /\ written > base => Len(N) > 0 /\ N[Len(N)] = written
      <3> SUFFICES ASSUME up, written > base PROVE Len(N) > 0 /\ N[Len(N)] = written
        BY Zenon
      <3>1. Len(R) > 0 /\ R[Len(R)].n = written
        BY Zenon DEF TapeInv, MarksFit, R
      <3>2. Len(R) \in 1..Len(R)
        BY <1>1, <3>1
      <3> QED BY <1>2, <1>3, <3>1, <3>2, Zenon
    <2> QED BY <2>1, <2>2, Zenon DEF TapeIsARun, N
  <1>6. ASSUME NEW p \in acked, p > base
        PROVE  \/ \E i \in 1..Len(N) : N[i] = p
               \/ N # << >> /\ p < N[1]
    <2>1. Kept(R, p)
      <3>1. CASE up
        BY <1>1, <1>6, <3>1, AckedIsKept, Zenon DEF R
      <3>2. CASE ~up
        BY <1>6, <3>2, Zenon DEF TapeInv, R
      <3> QED BY <3>1, <3>2, Zenon
    <2>2. CASE \E i \in 1..Len(R) : R[i].n = p
      BY <1>2, <1>3, <2>2, Zenon
    <2>3. CASE Len(R) > 0 /\ p < R[1].n
      <3>1. 1 \in 1..Len(R)
        BY <1>1, <2>3
      <3>2. N # << >>
        BY <1>3, <2>3
      <3> QED BY <1>2, <2>3, <3>1, <3>2, Zenon
    <2> QED BY <2>1, <2>2, <2>3, Zenon DEF Kept
  <1> QED BY <1>4, <1>5, <1>6, Zenon DEF AckedIsOnTape, N

\* A first start: an empty file, and nothing written.
LEMMA EmptyTape == Init => TapeInv /\ Records(files) = << >>
  <1> SUFFICES ASSUME Init PROVE TapeInv /\ Records(files) = << >>
    BY Zenon
  <1>1. WitnessHolds
    BY NewWitnessHolds, Zenon DEF Init, WitnessHolds, AckedIsFlushed, NewWitness
  <1>2. NewFile \in TapeFile /\ NewFile.recs = << >> /\ NewFile.synced = 0
    BY DEF NewFile, TapeFile
  <1>3. files = Append(<< >>, NewFile) /\ files \in Seq(TapeFile) /\ Len(files) = 1
        /\ files[1] = NewFile
    BY <1>2 DEF Init
  <1>4. Records(files) = << >>
    <2>1. << >> \in Seq(TapeFile)
      OBVIOUS
    <2>2. Records(files) = Records(<< >>) \o NewFile.recs
      BY <1>2, <1>3, <2>1, RecordsAppend, Zenon
    <2> QED BY <1>2, <2>2, RecordsNone, ConcatEmptySeq
  <1>5. TapeTypes
    <2>1. 0 \in 0..RollRecords
      BY TapeAssumption
    <2>2. \A i \in 1..Len(files) : files[i].synced <= Len(files[i].recs)
      BY <1>2, <1>3
    <2>3. base \in Nat /\ base <= written /\ boots \in Nat /\ size = 0
      BY DEF Init
    <2>4. log \in [open : BOOLEAN, active : BOOLEAN] /\ rolled \in BOOLEAN
      BY Zenon DEF Init
    <2>5. Len(files) > 0
      BY <1>3
    <2> QED BY <1>3, <2>1, <2>2, <2>3, <2>4, <2>5, Zenon DEF TapeTypes
  <1>6. Run(Records(files), base, written)
    BY <1>4 DEF Run
  <1>7. SeriesFits
    BY <1>4 DEF SeriesFits, Init
  <1>8. MarksFit
    <2>1. Unsynced(NewFile) = {} /\ Active = 1
      BY <1>2, <1>3 DEF Unsynced, Active
    <2> QED BY <1>3, <2>1 DEF MarksFit, Init, NewWitness
  <1>9. up
    BY Zenon DEF Init
  <1> QED BY <1>1, <1>4, <1>5, <1>6, <1>7, <1>8, <1>9, Zenon DEF TapeInv

\* For every tape, loss of power, restart, rollover and prune: a frontier the
\* witness acknowledged is still on the tape, unless its file was pruned, and the
\* tape is a run of what was written.
THEOREM AckedStaysOnTape == Spec => []AckedIsOnTape
  <1> QED BY EmptyTape, TapeStep, TapeInvSuffices, PTL DEF Spec

(* ------------------------------ the replay ------------------------------ *)

LEMMA RowType ==
    ASSUME NEW s \in Service, NEW l \in LockIds, NEW lease \in CoreLease, NEW gen \in Nat,
           NEW entry \in DurableEntry
    PROVE  /\ WithRow(s, l, lease, gen, entry) \in Service
           /\ WithRow(s, l, lease, gen, entry).locks = [s.locks EXCEPT ![l] = lease]
           /\ s.locks[l] \in CoreLease /\ s.locks \in [LockIds -> CoreLease]
  BY Zenon DEF WithRow, Service

\* What the replay needs of the service: an operation touches its own lock only,
\* and its reply is what it made of that lock's record.
LEMMA ExecuteFits ==
    ASSUME NEW s \in Service, NEW t \in Nat, NEW req \in Ops
    PROVE  LET e == Execute(s, t, req)
               old == s.locks[req.lock]
               new == e.svc.locks[req.lock]
           IN  /\ e.svc \in Service /\ e.lease \in CoreLease
               /\ e.transition \in {"none", "hold", "renew", "release", "break"}
               /\ req.lock \in LockIds
               /\ \A l \in LockIds : l # req.lock => e.svc.locks[l] = s.locks[l]
               /\ ~(e.ok /\ req.op \in {"set", "release", "break"}) => new = old
               /\ e.ok /\ req.op \in {"set", "break"} =>
                      new = e.lease /\ (new.expiry > 0 => new.holder # Nil)
               /\ e.ok /\ req.op = "release" =>
                      new = NoLease \/ (new = old /\ ~Live(old, t))
  <1> DEFINE e == Execute(s, t, req)
             old == s.locks[req.lock]
             gen == s.generations[req.lock]
             entry == s.durable[req.lock]
  <1>1. req \in GetRequests \cup SetRequests \cup ReleaseRequests(Nat) \cup BreakRequests
    BY TapeAssumption, Zenon
  <1>2. req.lock \in LockIds
    BY <1>1, Zenon DEF GetRequests, SetRequests, ReleaseRequests, BreakRequests
  <1>3. old \in CoreLease /\ gen \in Nat /\ entry \in DurableEntry
    BY <1>2, Zenon DEF Service
  <1>4. NoLease \in CoreLease
    BY Zenon DEF NoLease, CoreLease
  <1>5. ClearedEntry(entry) \in DurableEntry
    BY <1>3, LocksAssumption DEF ClearedEntry, DurableEntry
  <1> HIDE DEF old, gen, entry
  <1>6. CASE req \in GetRequests
    <2>1. req.op = "get"
      BY <1>6, Zenon DEF GetRequests
    <2>2. e = Executed(s, TRUE, IF Live(old, t) THEN old ELSE NoLease, "none")
      BY <2>1, Zenon DEF Execute, ExecuteGet, old
    <2>3. e.svc = s /\ e.lease \in CoreLease /\ e.transition = "none"
      BY <1>3, <1>4, <2>2 DEF Executed
    <2> HIDE DEF e
    <2> QED BY <1>2, <2>1, <2>3, Zenon DEF e
  <1>7. CASE req \in SetRequests
    <2> DEFINE lease == CoreGrant(old, gen, t, req)
               kept == SetEntry(old, entry, t, req)
               minted == IF Live(old, t) THEN gen ELSE lease.lease_id
               row == WithRow(s, req.lock, lease, minted, kept)
    <2>1. /\ req.op = "set" /\ req.holder \in Holders /\ req.window \in Nat
          /\ req.name \in Names \cup {NoName}
      BY <1>7, LocksAssumption, Zenon DEF SetRequests
    <2>2. lease \in CoreLease /\ lease.holder # Nil /\ minted \in Nat
      <3> DEFINE id == IF Live(old, t) THEN old.lease_id ELSE gen + 1
                 until == t + req.window
      <3>1. old.lease_id \in Nat
        BY <1>3, Zenon DEF CoreLease
      <3>2. id \in Nat /\ until \in Nat
        BY <1>3, <2>1, <3>1
      <3>3. req.holder \in Holders \cup {Nil} /\ req.holder # Nil
        BY <2>1, LocksAssumption, Zenon
      <3> HIDE DEF id, until
      <3>4. lease = [lease_id |-> id, holder |-> req.holder, expiry |-> until, window |-> req.window]
        BY Zenon DEF CoreGrant, id, until
      <3> HIDE DEF lease
      <3>5. lease \in CoreLease /\ lease.holder # Nil /\ lease.lease_id = id
        BY ONLY <2>1, <3>2, <3>3, <3>4, Zenon DEF CoreLease
      <3> QED BY <1>3, <3>2, <3>5, Zenon
    <2>3. kept \in DurableEntry
      <3>1. Inherit(req.name, entry.name) \in Names \cup {NoName}
        BY <1>3, <2>1, Zenon DEF Inherit, DurableEntry
      <3>2. entry.renew_count \in 0..RenewMax /\ entry.taken_at_ms \in Nat /\ RenewMax \in Nat
        BY <1>3, LocksAssumption, Zenon DEF DurableEntry
      <3>3. (IF entry.renew_count < RenewMax THEN entry.renew_count + 1 ELSE RenewMax) \in 0..RenewMax
        BY <3>2
      <3>4. TakenAtOnHolderChange(entry.taken_at_ms, t) \in Nat /\ 0 \in 0..RenewMax
        BY <3>2 DEF TakenAtOnHolderChange
      <3> QED BY <3>1, <3>2, <3>3, <3>4, Zenon DEF SetEntry, DurableEntry
    <2> HIDE DEF lease, kept, minted
    <2>4. row \in Service /\ row.locks = [s.locks EXCEPT ![req.lock] = lease]
          /\ s.locks \in [LockIds -> CoreLease]
      <3>1. /\ s \in Service /\ req.lock \in LockIds /\ lease \in CoreLease
            /\ minted \in Nat /\ kept \in DurableEntry
        BY <1>2, <2>2, <2>3, Zenon
      <3> QED BY ONLY <3>1, RowType
    <2>5. e = IF CoreGrants(old, t, req)
              THEN Executed(row, TRUE, lease, IF Live(old, t) THEN "renew" ELSE "hold")
              ELSE Executed(s, FALSE, IF Live(old, t) THEN old ELSE NoLease, "none")
      BY <2>1, Zenon DEF Execute, ExecuteSet, old, gen, entry, lease, kept, minted
    <2> HIDE DEF row, e
    <2>6. CASE CoreGrants(old, t, req)
      <3>1. e.svc = row /\ e.lease = lease /\ e.transition \in {"renew", "hold"} /\ e.ok
        BY <2>5, <2>6, Zenon DEF Executed
      <3>2. /\ e.svc.locks[req.lock] = lease
            /\ \A l \in LockIds : l # req.lock => e.svc.locks[l] = s.locks[l]
        BY <1>2, <2>4, <3>1
      <3>3. e.svc \in Service /\ e.lease \in CoreLease
        BY <2>2, <2>4, <3>1, Zenon
      <3> QED BY <1>2, <2>1, <2>2, <3>1, <3>2, <3>3, Zenon DEF e
    <2>7. CASE ~CoreGrants(old, t, req)
      <3>1. e.svc = s /\ e.lease \in CoreLease /\ e.transition = "none" /\ ~e.ok
        BY <1>3, <1>4, <2>5, <2>7, Zenon DEF Executed
      <3> QED BY <1>2, <2>1, <3>1, Zenon DEF e
    <2> QED BY <2>6, <2>7, Zenon
  <1>8. CASE req \in ReleaseRequests(Nat)
    <2> DEFINE left == CoreAfterRelease(old, t)
               row == WithRow(s, req.lock, left, gen, ClearedEntry(entry))
    <2>1. req.op = "release"
      BY <1>8, Zenon DEF ReleaseRequests
    <2>2. left \in CoreLease /\ (left = NoLease \/ (left = old /\ ~Live(old, t)))
      BY <1>3, <1>4, Zenon DEF CoreAfterRelease
    <2> HIDE DEF left
    <2>3. row \in Service /\ row.locks = [s.locks EXCEPT ![req.lock] = left]
          /\ s.locks \in [LockIds -> CoreLease]
      <3>1. /\ s \in Service /\ req.lock \in LockIds /\ left \in CoreLease /\ gen \in Nat
            /\ ClearedEntry(entry) \in DurableEntry
        BY <1>2, <1>3, <1>5, <2>2, Zenon
      <3> QED BY ONLY <3>1, RowType
    <2>4. e = IF CoreReleases(old, t, req)
              THEN Executed(row, TRUE, NoLease, IF Live(old, t) THEN "release" ELSE "none")
              ELSE Executed(s, FALSE, old, "none")
      BY <2>1, Zenon DEF Execute, ExecuteRelease, old, gen, entry, left
    <2> HIDE DEF row, e
    <2>5. CASE CoreReleases(old, t, req)
      <3>1. e.svc = row /\ e.lease = NoLease /\ e.transition \in {"release", "none"} /\ e.ok
        BY <2>4, <2>5, Zenon DEF Executed
      <3>2. /\ e.svc.locks[req.lock] = left
            /\ \A l \in LockIds : l # req.lock => e.svc.locks[l] = s.locks[l]
        BY <1>2, <2>3, <3>1, Zenon
      <3>3. e.svc \in Service /\ e.lease \in CoreLease
        BY <1>4, <2>3, <3>1, Zenon
      <3> QED BY <1>2, <2>1, <2>2, <3>1, <3>2, <3>3, Zenon DEF e, old
    <2>6. CASE ~CoreReleases(old, t, req)
      <3>1. e.svc = s /\ e.lease = old /\ e.transition = "none" /\ ~e.ok
        BY <2>4, <2>6, Zenon DEF Executed
      <3> QED BY <1>2, <1>3, <2>1, <3>1, Zenon DEF e
    <2> QED BY <2>5, <2>6, Zenon
  <1>9. CASE req \in BreakRequests
    <2> DEFINE keeper == CoreKeeper(old)
               row == WithRow(s, req.lock, keeper, keeper.lease_id, ClearedEntry(entry))
    <2>1. req.op = "break"
      BY <1>9, Zenon DEF BreakRequests
    <2>2. keeper \in CoreLease /\ keeper.lease_id \in Nat /\ keeper.expiry = 0
      BY <1>3 DEF CoreKeeper, CoreLease
    <2> HIDE DEF keeper
    <2>3. row \in Service /\ row.locks = [s.locks EXCEPT ![req.lock] = keeper]
          /\ s.locks \in [LockIds -> CoreLease]
      <3>1. /\ s \in Service /\ req.lock \in LockIds /\ keeper \in CoreLease
            /\ keeper.lease_id \in Nat /\ ClearedEntry(entry) \in DurableEntry
        BY <1>2, <1>5, <2>2, Zenon
      <3> QED BY ONLY <3>1, RowType
    <2>4. e = IF CoreBreaks(old) THEN Executed(row, TRUE, keeper, "break")
              ELSE Executed(s, FALSE, NoLease, "none")
      BY <2>1, Zenon DEF Execute, ExecuteBreak, old, gen, entry, keeper
    <2> HIDE DEF row, e
    <2>5. CASE CoreBreaks(old)
      <3>1. e.svc = row /\ e.lease = keeper /\ e.transition = "break" /\ e.ok
        BY <2>4, <2>5, Zenon DEF Executed
      <3>2. /\ e.svc.locks[req.lock] = keeper /\ ~(keeper.expiry > 0)
            /\ \A l \in LockIds : l # req.lock => e.svc.locks[l] = s.locks[l]
        BY <1>2, <2>2, <2>3, <3>1
      <3>3. e.svc \in Service /\ e.lease \in CoreLease
        BY <2>2, <2>3, <3>1, Zenon
      <3> QED BY <1>2, <2>1, <3>1, <3>2, <3>3, Zenon DEF e
    <2>6. CASE ~CoreBreaks(old)
      <3>1. e.svc = s /\ e.lease = NoLease /\ e.transition = "none" /\ ~e.ok
        BY <2>4, <2>6, Zenon DEF Executed
      <3> QED BY <1>2, <1>4, <2>1, <3>1, Zenon DEF e
    <2> QED BY <2>5, <2>6, Zenon
  <1> QED BY <1>1, <1>6, <1>7, <1>8, <1>9, Zenon

\* What the bridge keeps of a replay.
Events == [n : Nat, kind : {"hold", "renew", "release", "break", "deny"}]
View == [events : Seq(Events), frontier : Nat, leases : [LockIds -> CoreLease], svc : Service]

\* The view of a lock is its record, or neither is in force at the frontier; and
\* a record that is in force has a holder.
Agrees(v) ==
    \A l \in LockIds :
        /\ v.svc.locks[l].expiry > 0 => v.svc.locks[l].holder # Nil
        /\ \/ v.leases[l] = v.svc.locks[l]
           \/ ~Live(v.leases[l], v.frontier) /\ ~Live(v.svc.locks[l], v.frontier)

\* The events are in order, none past the frontier.
InOrder(v) ==
    /\ \A i \in 1..Len(v.events) : v.events[i].n <= v.frontier
    /\ \A i, j \in 1..Len(v.events) : i < j => v.events[i].n < v.events[j].n

Truthful(v) == v \in View /\ Agrees(v) /\ InOrder(v)

LEMMA NoReplayIsTruthful == Truthful(NoReplay)
  <1>1. NoLease \in CoreLease /\ NoEntry \in DurableEntry
    BY LocksAssumption DEF NoLease, NoEntry, CoreLease, DurableEntry
  <1>2. EmptyService \in Service
    BY <1>1, Zenon DEF EmptyService, Service
  <1>3. << >> \in Seq(Events)
    OBVIOUS
  <1>4. NoReplay \in View
    BY <1>1, <1>2, <1>3, Zenon DEF NoReplay, View
  <1>5. InOrder(NoReplay)
    BY DEF InOrder, NoReplay
  <1>6. Agrees(NoReplay)
    <2> SUFFICES ASSUME NEW l \in LockIds
                 PROVE  NoReplay.svc.locks[l] = NoLease /\ NoReplay.leases[l] = NoLease
                        /\ ~(NoLease.expiry > 0)
      BY Zenon DEF Agrees
    <2> QED BY DEF NoReplay, EmptyService, NoLease
  <1> QED BY <1>4, <1>5, <1>6, Zenon DEF Truthful

\* At most one event a record, and it is the record's.
LEMMA EventType ==
    ASSUME NEW rec \in Rec, NEW e, e.transition \in {"none", "hold", "renew", "release", "break"}
    PROVE  EventOf(rec, e) = << >> \/ \E ev \in Events : ev.n = rec.n /\ EventOf(rec, e) = <<ev>>
  <1>1. rec.n \in Nat
    BY Zenon DEF Rec
  <1>2. CASE e.transition # "none"
    BY <1>1, <1>2, Zenon DEF EventOf, Events
  <1>3. CASE e.transition = "none"
    BY <1>1, <1>3, Zenon DEF EventOf, Events
  <1> QED BY <1>2, <1>3, Zenon

\* A record of the tape turns a view into a view; later than the frontier, it
\* turns a truthful one into a truthful one, with the events it had and perhaps
\* one more.
LEMMA ReplayedFits ==
    ASSUME NEW v \in View, NEW rec \in Rec
    PROVE  LET w == Replayed(v, rec)
           IN  /\ w \in View /\ w.frontier = rec.n
               /\ \E more \in Seq(Events) : w.events = v.events \o more
               /\ Truthful(v) /\ v.frontier < rec.n => Truthful(w)
  <1> DEFINE w == Replayed(v, rec)
  <1>1. /\ v.events \in Seq(Events) /\ v.frontier \in Nat /\ v.leases \in [LockIds -> CoreLease]
        /\ v.svc \in Service /\ rec.n \in Nat
    BY Zenon DEF View, Rec
  <1>2. \A l \in LockIds : /\ v.leases[l].expiry \in Nat /\ v.svc.locks[l].expiry \in Nat
                           /\ v.leases[l] \in CoreLease /\ v.svc.locks[l] \in CoreLease
    BY <1>1, Zenon DEF Service, CoreLease
  <1>3. \A i \in 1..Len(v.events) : v.events[i].n \in Nat
    <2> DEFINE s == v.events
    <2>1. s \in Seq(Events)
      BY <1>1, Zenon
    <2> HIDE DEF s
    <2>2. \A i \in 1..Len(s) : s[i] \in Events
      BY <2>1, ElementOfSeq, Zenon
    <2> QED BY <2>2, Zenon DEF s, Events
  <1>4. CASE rec.kind # "wire"
    <2>1. w = [v EXCEPT !.frontier = rec.n]
      BY <1>4, Zenon DEF Replayed
    <2>2. /\ w \in View /\ w.frontier = rec.n /\ w.events = v.events
          /\ w.leases = v.leases /\ w.svc = v.svc
      BY <1>1, <2>1, Zenon DEF View
    <2>3. << >> \in Seq(Events) /\ v.events = v.events \o << >>
      BY <1>1, ConcatEmptySeq
    <2> HIDE DEF w
    <2>4. ASSUME Truthful(v), v.frontier < rec.n PROVE Truthful(w)
      <3>1. InOrder(w)
        BY <1>1, <1>3, <2>2, <2>4 DEF Truthful, InOrder
      <3>2. Agrees(w)
        <4> SUFFICES ASSUME NEW l \in LockIds
                     PROVE  /\ v.svc.locks[l].expiry > 0 => v.svc.locks[l].holder # Nil
                            /\ \/ v.leases[l] = v.svc.locks[l]
                               \/ ~Live(v.leases[l], rec.n) /\ ~Live(v.svc.locks[l], rec.n)
          BY <2>2, Zenon DEF Agrees
        <4>1. /\ v.svc.locks[l].expiry > 0 => v.svc.locks[l].holder # Nil
              /\ \/ v.leases[l] = v.svc.locks[l]
                 \/ ~Live(v.leases[l], v.frontier) /\ ~Live(v.svc.locks[l], v.frontier)
          BY <2>4, Zenon DEF Truthful, Agrees
        <4>2. \/ v.leases[l] = v.svc.locks[l]
              \/ ~Live(v.leases[l], rec.n) /\ ~Live(v.svc.locks[l], rec.n)
          BY <1>1, <1>2, <2>4, <4>1 DEF Live
        <4> QED BY <4>1, <4>2, Zenon
      <3> QED BY <2>2, <3>1, <3>2, Zenon DEF Truthful
    <2> QED BY <2>2, <2>3, <2>4, Zenon DEF w
  <1>5. CASE rec.kind = "wire"
    <2> DEFINE op == rec.op
               e == Execute(v.svc, rec.n, op)
               old == v.svc.locks[op.lock]
               new == e.svc.locks[op.lock]
               ev == EventOf(rec, e)
    <2>1. op \in Ops
      BY <1>5, Zenon DEF Rec
    <2>2. /\ e.svc \in Service /\ e.lease \in CoreLease
          /\ e.transition \in {"none", "hold", "renew", "release", "break"}
          /\ op.lock \in LockIds
          /\ \A l \in LockIds : l # op.lock => e.svc.locks[l] = v.svc.locks[l]
          /\ ~(e.ok /\ op.op \in {"set", "release", "break"}) => new = old
          /\ e.ok /\ op.op \in {"set", "break"} => new = e.lease /\ (new.expiry > 0 => new.holder # Nil)
          /\ e.ok /\ op.op = "release" => new = NoLease \/ (new = old /\ ~Live(old, rec.n))
      <3> HIDE DEF op
      <3> QED BY <1>1, <2>1, ExecuteFits, Zenon
    <2> DEFINE leases == LeasesAfter(v.leases, op, e)
    <2>3. w = [events |-> v.events \o ev, frontier |-> rec.n, leases |-> leases, svc |-> e.svc]
      BY <1>5, Zenon DEF Replayed
    <2> HIDE DEF w, e, op
    <2>4. ev = << >> \/ \E x \in Events : x.n = rec.n /\ ev = <<x>>
      <3>1. rec \in Rec /\ e.transition \in {"none", "hold", "renew", "release", "break"}
        BY <2>2, Zenon
      <3> QED BY ONLY <3>1, EventType
    <2> HIDE DEF ev
    <2>5. ev \in Seq(Events) /\ v.events \o ev \in Seq(Events)
      <3>1. ev \in Seq(Events)
        <4>1. CASE ev = << >>
          BY <4>1
        <4>2. CASE ev # << >>
          <5>1. PICK x \in Events : ev = <<x>>
            BY <2>4, <4>2, Zenon
          <5> QED BY <5>1
        <4> QED BY <4>1, <4>2, Zenon
      <3> QED BY <1>1, <3>1, ConcatProperties, Zenon
    <2>6. /\ leases \in [LockIds -> CoreLease]
          /\ \A l \in LockIds : l # op.lock => leases[l] = v.leases[l]
          /\ e.ok /\ op.op \in {"set", "break"} => leases[op.lock] = e.lease
          /\ e.ok /\ op.op = "release" => leases[op.lock] = NoLease
          /\ ~(e.ok /\ op.op \in {"set", "release", "break"}) => leases[op.lock] = v.leases[op.lock]
      <3>1. NoLease \in CoreLease
        BY Zenon DEF NoLease, CoreLease
      <3>2. CASE e.ok /\ op.op \in {"set", "break"}
        <4>1. leases = [v.leases EXCEPT ![op.lock] = e.lease]
          BY <3>2, Zenon DEF LeasesAfter
        <4> HIDE DEF leases
        <4> QED BY <1>1, <2>2, <3>2, <4>1, Zenon
      <3>3. CASE e.ok /\ op.op = "release"
        <4>1. leases = [v.leases EXCEPT ![op.lock] = NoLease]
          BY <3>3, Zenon DEF LeasesAfter
        <4> HIDE DEF leases
        <4> QED BY <1>1, <2>2, <3>1, <3>3, <4>1, Zenon
      <3>4. CASE ~(e.ok /\ op.op \in {"set", "release", "break"})
        <4>1. leases = v.leases
          BY <3>4, Zenon DEF LeasesAfter
        <4> HIDE DEF leases
        <4> QED BY <1>1, <3>4, <4>1, Zenon
      <3> QED BY <3>2, <3>3, <3>4, Zenon
    <2> HIDE DEF leases
    <2>7. /\ w \in View /\ w.frontier = rec.n /\ w.events = v.events \o ev
          /\ w.leases = leases /\ w.svc = e.svc
      BY <1>1, <2>2, <2>3, <2>5, <2>6, Zenon DEF View
    <2>8. ASSUME Truthful(v), v.frontier < rec.n PROVE Agrees(w)
      <3> SUFFICES ASSUME NEW l \in LockIds
                   PROVE  /\ e.svc.locks[l].expiry > 0 => e.svc.locks[l].holder # Nil
                          /\ \/ leases[l] = e.svc.locks[l]
                             \/ ~Live(leases[l], rec.n) /\ ~Live(e.svc.locks[l], rec.n)
        BY <2>7, Zenon DEF Agrees
      <3>1. /\ v.svc.locks[l].expiry > 0 => v.svc.locks[l].holder # Nil
            /\ \/ v.leases[l] = v.svc.locks[l]
               \/ ~Live(v.leases[l], v.frontier) /\ ~Live(v.svc.locks[l], v.frontier)
        BY <2>8, Zenon DEF Truthful, Agrees
      <3>2. \/ v.leases[l] = v.svc.locks[l]
            \/ ~Live(v.leases[l], rec.n) /\ ~Live(v.svc.locks[l], rec.n)
        BY <1>1, <1>2, <2>8, <3>1 DEF Live
      <3>3. CASE l # op.lock
        BY <2>2, <2>6, <3>1, <3>2, <3>3, Zenon
      <3>4. CASE l = op.lock /\ ~(e.ok /\ op.op \in {"set", "release", "break"})
        BY <2>2, <2>6, <3>1, <3>2, <3>4, Zenon
      <3>5. CASE l = op.lock /\ e.ok /\ op.op \in {"set", "break"}
        BY <2>2, <2>6, <3>5, Zenon
      <3>6. CASE l = op.lock /\ e.ok /\ op.op = "release"
        <4>1. NoLease.expiry = 0 /\ ~Live(NoLease, rec.n) /\ ~(0 > 0)
          BY <1>1 DEF NoLease, Live
        <4>2. leases[l] = NoLease /\ (new = NoLease \/ (new = old /\ ~Live(old, rec.n)))
          BY <2>2, <2>6, <3>6, Zenon
        <4> QED BY <3>1, <3>6, <4>1, <4>2, Zenon
      <3> QED BY <3>3, <3>4, <3>5, <3>6, Zenon
    <2>9. ASSUME Truthful(v), v.frontier < rec.n PROVE InOrder(w)
      <3> DEFINE s == v.events
                 t == s \o ev
      <3>1. /\ s \in Seq(Events) /\ Len(s) \in Nat
            /\ \A i \in 1..Len(s) : s[i].n \in Nat /\ s[i].n <= v.frontier
            /\ \A i, j \in 1..Len(s) : i < j => s[i].n < s[j].n
        <4>1. InOrder(v)
          BY <2>9, Zenon DEF Truthful
        <4>2. s \in Seq(Events) /\ Len(s) \in Nat
          BY <1>1
        <4> QED BY <1>3, <4>1, <4>2, Zenon DEF InOrder
      <3>2. CASE ev = << >>
        <4>1. t = s
          BY <1>1, <3>2, ConcatEmptySeq, Zenon
        <4> HIDE DEF s
        <4>2. w.events = s /\ w.frontier = rec.n
          BY <2>7, <4>1, Zenon DEF s
        <4>3. \A i \in 1..Len(s) : s[i].n <= rec.n
          <5> SUFFICES ASSUME NEW i \in 1..Len(s) PROVE s[i].n <= rec.n
            BY Zenon
          <5>1. s[i].n \in Nat /\ s[i].n <= v.frontier
            BY <3>1, Zenon
          <5> QED BY <1>1, <2>9, <5>1
        <4> QED BY <3>1, <4>2, <4>3, Zenon DEF InOrder
      <3>3. CASE ev # << >>
        <4>1. PICK x \in Events : x.n = rec.n /\ ev = <<x>>
          BY <2>4, <3>3, Zenon
        <4> HIDE DEF s
        <4>2. t = Append(s, x)
          BY <3>1, <4>1, AppendIsConcat, Zenon
        <4>3. /\ Len(t) = Len(s) + 1 /\ t[Len(s) + 1] = x
              /\ \A i \in 1..Len(s) : t[i] = s[i]
          BY <3>1, <4>2, AppendProperties
        <4> HIDE DEF t
        <4>4. \A i \in 1..Len(t) : i = Len(s) + 1 \/ i \in 1..Len(s)
          BY <3>1, <4>3
        <4>5. \A i \in 1..Len(t) : t[i].n <= rec.n
          BY <1>1, <2>9, <3>1, <4>1, <4>3, <4>4
        <4>6. ASSUME NEW i \in 1..Len(t), NEW j \in 1..Len(t), i < j PROVE t[i].n < t[j].n
          <5>1. i \in 1..Len(s)
            BY <3>1, <4>3, <4>6
          <5>2. t[i] = s[i] /\ s[i].n < rec.n
            BY <1>1, <2>9, <3>1, <4>3, <5>1
          <5>3. CASE j = Len(s) + 1
            BY <4>1, <4>3, <5>2, <5>3, Zenon
          <5>4. CASE j \in 1..Len(s)
            BY <3>1, <4>3, <4>6, <5>1, <5>2, <5>4, Zenon
          <5> QED BY <4>4, <5>3, <5>4, Zenon
        <4>7. w.events = t /\ w.frontier = rec.n
          BY <2>7, Zenon DEF t, s
        <4> QED BY <4>5, <4>6, <4>7, Zenon DEF InOrder
      <3> QED BY <3>2, <3>3, Zenon
    <2> QED BY <2>5, <2>7, <2>8, <2>9, Zenon DEF w, Truthful
  <1> QED BY <1>4, <1>5, Zenon

\* h is the replay after each record of rs.
Replays(h, rs) ==
    /\ h[0] = NoReplay
    /\ \A n \in 1..Len(rs) : h[n] = Replayed(h[n - 1], rs[n])

\* What ReplayOf computes, record by record.
LEMMA ReplayFold ==
    ASSUME NEW rs \in Seq(Rec)
    PROVE  \E h \in [0..Len(rs) -> View] : Replays(h, rs) /\ ReplayOf(rs) = h[Len(rs)]
  <1> DEFINE L == Len(rs)
             Step(g) == [n \in 0..L |-> IF n = 0 THEN NoReplay ELSE Replayed(g[n - 1], rs[n])]
             after == CHOOSE g : g = Step(g)
             step == [p \in View \X Rec |-> Replayed(p[1], p[2])]
  <1>1. ReplayOf(rs) = after[L]
    BY Zenon DEF ReplayOf
  <1>2. L \in Nat /\ \A i \in 1..L : rs[i] \in Rec
    OBVIOUS
  <1>3. /\ \A n \in 0..L : n = 0 \/ n \in 1..L
        /\ \A n \in 1..L : n # 0 /\ n \in 0..L /\ n - 1 \in 0..L
        /\ 0 \in 0..L /\ L \in 0..L
    BY <1>2
  <1>4. NoReplay \in View /\ \A v \in View, rec \in Rec : Replayed(v, rec) \in View
    BY NoReplayIsTruthful, ReplayedFits, Zenon DEF Truthful
  <1>5. step \in [View \X Rec -> View]
    <2>1. \A p \in View \X Rec : p[1] \in View /\ p[2] \in Rec
      BY Zenon
    <2>2. \A p \in View \X Rec : Replayed(p[1], p[2]) \in View
      BY <1>4, <2>1, Zenon
    <2> QED BY <2>2, Zenon
  <1>6. PICK g \in [0..L -> View] : Folds(g, step, NoReplay, rs)
    <2> HIDE DEF step
    <2> QED BY <1>4, <1>5, FoldExists, Zenon
  <1>7. g[0] = NoReplay /\ \A n \in 1..L : g[n] = Replayed(g[n - 1], rs[n])
    <2>1. \A n \in 1..L : <<g[n - 1], rs[n]>> \in View \X Rec
      BY <1>2, <1>3, <1>6, Zenon
    <2>2. \A n \in 1..L : step[g[n - 1], rs[n]] = Replayed(g[n - 1], rs[n])
      BY <2>1, Zenon
    <2> HIDE DEF step
    <2> QED BY <1>6, <2>2, Zenon DEF Folds
  <1> HIDE DEF L, step
  <1>8. g = Step(g)
    BY <1>3, <1>6, <1>7, Zenon
  <1>9. after = Step(after)
    BY <1>8, Zenon
  <1> HIDE DEF after
  <1>10. after[0] = NoReplay /\ \A n \in 1..L : after[n] = Replayed(after[n - 1], rs[n])
    <2> DEFINE h == Step(after)
    <2>1. h[0] = NoReplay /\ \A n \in 1..L : h[n] = Replayed(after[n - 1], rs[n])
      BY <1>3, Zenon
    <2> HIDE DEF h
    <2> QED BY <1>9, <2>1, Zenon DEF h
  <1>11. \A n \in 0..L : after[n] \in View
    <2> DEFINE Bad == {n \in 0..L : after[n] \notin View}
    <2> SUFFICES ASSUME Bad # {} PROVE FALSE
      BY Zenon
    <2>1. Bad \subseteq Nat
      BY <1>2
    <2>2. PICK b \in Bad : \A c \in Bad : b <= c
      <3> HIDE DEF Bad
      <3> QED BY <2>1, MinNat, Zenon
    <2>3. b \in 1..L
      BY <1>3, <1>4, <1>10, <2>2, Zenon
    <2>4. b - 1 \in 0..L /\ b - 1 < b
      BY <1>2, <2>3
    <2>5. after[b - 1] \in View
      BY <2>2, <2>3, <2>4
    <2>6. after[b] \in View
      BY <1>2, <1>4, <1>10, <2>3, <2>5, Zenon
    <2> QED BY <2>2, <2>6, Zenon
  <1>12. after \in [0..L -> View]
    <2>1. after = [n \in 0..L |-> after[n]]
      BY <1>9, Zenon
    <2> QED BY <1>11, <2>1, Zenon
  <1> QED BY <1>1, <1>10, <1>12, Zenon DEF Replays, L

\* Replaying records in order tells the truth.
LEMMA ReplayIsTruthful ==
    ASSUME NEW rs \in Seq(Rec), \A i \in 1..Len(rs) - 1 : rs[i].n < rs[i + 1].n
    PROVE  Truthful(ReplayOf(rs))
  <1>1. PICK h \in [0..Len(rs) -> View] : Replays(h, rs) /\ ReplayOf(rs) = h[Len(rs)]
    BY ReplayFold, Zenon
  <1> DEFINE L == Len(rs)
             Good(n) == Truthful(h[n]) /\ h[n].frontier = IF n = 0 THEN 0 ELSE rs[n].n
             Bad == {n \in 0..L : ~Good(n)}
  <1>2. L \in Nat /\ \A i \in 1..L : rs[i] \in Rec
    OBVIOUS
  <1>3. Good(0)
    <2>1. h[0] = NoReplay
      BY <1>1, Zenon DEF Replays
    <2> QED BY <2>1, NoReplayIsTruthful DEF NoReplay
  <1>4. ASSUME NEW n \in 1..L, Good(n - 1) PROVE Good(n)
    <2>1. n - 1 \in 0..L /\ h[n - 1] \in View /\ rs[n] \in Rec
      BY <1>1, <1>2
    <2>2. h[n] = Replayed(h[n - 1], rs[n])
      BY <1>1, Zenon DEF Replays
    <2>3. h[n - 1].frontier < rs[n].n
      <3>1. CASE n = 1
        <4>1. h[n - 1].frontier = 0
          BY <1>4, <3>1
        <4> QED BY <2>1, <4>1 DEF Rec
      <3>2. CASE n # 1
        <4>1. n - 1 \in 1..L - 1 /\ n - 1 # 0 /\ (n - 1) + 1 = n
          BY <1>2, <3>2
        <4>2. h[n - 1].frontier = rs[n - 1].n
          BY <1>4, <4>1, Zenon
        <4>3. rs[n - 1].n < rs[(n - 1) + 1].n
          BY <4>1, Zenon
        <4> QED BY <4>1, <4>2, <4>3, Zenon
      <3> QED BY <3>1, <3>2, Zenon
    <2>4. Truthful(h[n]) /\ h[n].frontier = rs[n].n
      BY <1>4, <2>1, <2>2, <2>3, ReplayedFits, ZenonT(30)
    <2>5. n # 0
      BY <1>2
    <2> QED BY <2>4, <2>5, Zenon
  <1> HIDE DEF Good
  <1>5. Bad = {}
    <2> SUFFICES ASSUME Bad # {} PROVE FALSE
      BY Zenon
    <2>1. Bad \subseteq Nat
      BY <1>2
    <2>2. PICK b \in Bad : \A c \in Bad : b <= c
      <3> HIDE DEF Bad
      <3> QED BY <2>1, MinNat, Zenon
    <2>3. b \in 1..L
      <3>1. b # 0
        BY <1>3, <2>2, Zenon
      <3> QED BY <1>2, <2>2, <3>1
    <2>4. b - 1 \in 0..L /\ b - 1 < b
      BY <1>2, <2>3
    <2>5. Good(b - 1)
      BY <2>2, <2>3, <2>4
    <2> QED BY <1>4, <2>2, <2>3, <2>5, Zenon
  <1>6. Good(L)
    BY <1>2, <1>5
  <1> QED BY <1>1, <1>6, Zenon DEF Good

\* More records at the end add events at the end.
LEMMA ReplayExtends ==
    ASSUME NEW x \in Seq(Rec), NEW y \in Seq(Rec)
    PROVE  \E more \in Seq(Events) : ReplayOf(x \o y).events = ReplayOf(x).events \o more
  <1> DEFINE z == x \o y
             K == Len(x)
  <1>1. /\ z \in Seq(Rec) /\ Len(z) = K + Len(y) /\ K \in Nat /\ Len(y) \in Nat
        /\ \A i \in 1..K : z[i] = x[i]
    BY ConcatProperties
  <1> HIDE DEF z
  <1>2. PICK h \in [0..Len(x) -> View] : Replays(h, x) /\ ReplayOf(x) = h[Len(x)]
    BY ReplayFold, Zenon
  <1>3. PICK k \in [0..Len(z) -> View] : Replays(k, z) /\ ReplayOf(z) = k[Len(z)]
    BY <1>1, ReplayFold, Zenon
  <1> DEFINE L == Len(z)
  <1> HIDE DEF K
  <1>4. /\ L \in Nat /\ K <= L /\ \A i \in 1..L : z[i] \in Rec
    BY <1>1, ElementOfSeq
  <1>5. ASSUME NEW n \in 0..K PROVE h[n] = k[n]
    <2> DEFINE Bad == {i \in 0..K : h[i] # k[i]}
    <2> SUFFICES ASSUME Bad # {} PROVE FALSE
      BY Zenon
    <2>1. Bad \subseteq Nat
      BY <1>1
    <2>2. PICK b \in Bad : \A c \in Bad : b <= c
      <3> HIDE DEF Bad
      <3> QED BY <2>1, MinNat, Zenon
    <2>3. b \in 1..K
      <3>1. b # 0
        BY <1>2, <1>3, <2>2, Zenon DEF Replays
      <3> QED BY <1>1, <2>2, <3>1
    <2>4. b - 1 \in 0..K /\ b - 1 < b /\ b \in 1..L
      BY <1>1, <1>4, <2>3
    <2>5. h[b - 1] = k[b - 1]
      BY <2>2, <2>3, <2>4
    <2>6. h[b] = Replayed(h[b - 1], x[b]) /\ k[b] = Replayed(k[b - 1], z[b])
      BY <1>2, <1>3, <2>3, <2>4, Zenon DEF Replays, K
    <2> QED BY <1>1, <2>2, <2>3, <2>5, <2>6, Zenon
  <1> DEFINE Longer(n) == \E more \in Seq(Events) : k[n].events = k[K].events \o more
             Worse == {n \in K..L : ~Longer(n)}
  <1>6. k[K].events \in Seq(Events)
    <2>1. K \in 0..Len(z)
      BY <1>1, <1>4
    <2>2. k[K] \in View
      BY <1>3, <2>1, Zenon
    <2> QED BY <2>2, Zenon DEF View
  <1>7. Longer(K)
    <2>1. << >> \in Seq(Events)
      OBVIOUS
    <2>2. k[K].events = k[K].events \o << >>
      BY <1>6, ConcatEmptySeq, Zenon
    <2> QED BY <2>1, <2>2, Zenon
  <1>8. ASSUME NEW n \in K + 1..L, Longer(n - 1) PROVE Longer(n)
    <2>1. n - 1 \in 0..L /\ n \in 1..L
      BY <1>1, <1>4
    <2>2. k[n] = Replayed(k[n - 1], z[n]) /\ k[n - 1] \in View /\ z[n] \in Rec
      BY <1>3, <1>4, <2>1, Zenon DEF Replays
    <2>3. PICK last \in Seq(Events) : k[n].events = k[n - 1].events \o last
      <3> DEFINE v == k[n - 1]
                 rec == z[n]
      <3>1. v \in View /\ rec \in Rec /\ k[n] = Replayed(v, rec)
        BY <2>2, Zenon
      <3> HIDE DEF v, rec
      <3>2. \E more \in Seq(Events) : Replayed(v, rec).events = v.events \o more
        BY <3>1, ReplayedFits, Zenon
      <3> QED BY <3>1, <3>2, Zenon DEF v
    <2>4. PICK more \in Seq(Events) : k[n - 1].events = k[K].events \o more
      BY <1>8, Zenon
    <2> DEFINE s == k[K].events
    <2>5. s \in Seq(Events)
      BY <1>6, Zenon
    <2> HIDE DEF s
    <2>6. (s \o more) \o last = s \o (more \o last) /\ more \o last \in Seq(Events)
      <3>1. more \in Seq(Events) /\ last \in Seq(Events)
        BY Zenon
      <3>2. (s \o more) \o last = s \o (more \o last)
        BY ONLY <2>5, <3>1, ConcatAssociative, SMTT(30)
      <3>3. more \o last \in Seq(Events)
        BY ONLY <3>1, ConcatProperties, Zenon
      <3> QED BY <3>2, <3>3, Zenon
    <2> QED BY <2>3, <2>4, <2>6, Zenon DEF s
  <1> HIDE DEF Longer
  <1>9. Worse = {}
    <2> SUFFICES ASSUME Worse # {} PROVE FALSE
      BY Zenon
    <2>1. Worse \subseteq Nat
      BY <1>1
    <2>2. PICK b \in Worse : \A c \in Worse : b <= c
      <3> HIDE DEF Worse
      <3> QED BY <2>1, MinNat, Zenon
    <2>3. b # K /\ b \in K..L
      BY <1>7, <2>2, Zenon
    <2>4. b \in K + 1..L /\ b - 1 \in K..L /\ b - 1 < b
      BY <1>1, <1>4, <2>3
    <2>5. Longer(b - 1)
      BY <2>2, <2>3, <2>4
    <2> QED BY <1>8, <2>2, <2>4, <2>5, Zenon
  <1>10. Longer(L)
    <2>1. L \in K..L
      BY <1>1, <1>4
    <2> QED BY <1>9, <2>1, Zenon
  <1>11. ReplayOf(x) = k[K]
    <2>1. K \in 0..K
      BY <1>1
    <2> QED BY <1>2, <1>5, <2>1, Zenon DEF K
  <1> QED BY <1>3, <1>10, <1>11, Zenon DEF Longer, z

(* ----------------------------- the console ------------------------------ *)

\* The series rs still begins with the first of w records written.
Whole(rs, w) == w = 0 \/ (Len(rs) > 0 /\ rs[1].n = 1)

\* The console tells the truth about the records it saw; as long as the series is
\* whole, these are its beginning, and the sockets were sent the end of the events.
ShownFits ==
    /\ Truthful(shown) /\ sent \in Seq(Events)
    /\ Whole(Records(files), written) =>
           \E x, y \in Seq(Rec), front \in Seq(Events) :
               /\ Records(files) = x \o y /\ shown = ReplayOf(x)
               /\ shown.events = front \o sent

\* A whole series has lost nothing in the step that made it.
LEMMA WholeBefore ==
    ASSUME NEW rs \in Seq(Rec), NEW b, NEW w \in Nat, Run(rs, b, w),
           NEW rec \in Rec, rec.n = w + 1,
           NEW pruned \in Seq(Rec), NEW out \in Seq(Rec), pruned \o out = Append(rs, rec),
           Whole(out, w + 1)
    PROVE  out = Append(rs, rec) /\ Whole(rs, w)
  <1> DEFINE z == Append(rs, rec)
             P == Len(pruned)
  <1>1. /\ z \in Seq(Rec) /\ Len(z) = Len(rs) + 1 /\ Len(rs) \in Nat
        /\ \A i \in 1..Len(rs) : z[i] = rs[i]
        /\ z[Len(rs) + 1] = rec
    BY AppendProperties
  <1>2. /\ Len(z) = P + Len(out) /\ P \in Nat /\ Len(out) \in Nat
        /\ \A i \in 1..P + Len(out) : z[i] = IF i <= P THEN pruned[i] ELSE out[i - P]
    <2>1. z = pruned \o out
      BY Zenon
    <2>2. pruned \in Seq(Rec) /\ out \in Seq(Rec) /\ Len(pruned) \in Nat /\ Len(out) \in Nat
      OBVIOUS
    <2> HIDE DEF z
    <2> QED BY ONLY <2>1, <2>2, ConcatProperties, Zenon DEF P
  <1>3. Len(out) > 0 /\ out[1].n = 1
    BY DEF Whole
  <1> HIDE DEF z
  <1>4. \A i \in 1..Len(z) : z[i].n \in Nat \ {0}
    <2>1. \A i \in 1..Len(z) : z[i] \in Rec
      BY <1>1, ElementOfSeq, Zenon
    <2> QED BY <2>1, Zenon DEF Rec
  <1>5. ASSUME NEW i \in 1..Len(rs) PROVE z[i].n < z[i + 1].n
    <2>1. z[i].n <= w /\ z[i].n \in Nat /\ z[i] = rs[i]
      <3>1. rs[i].n <= w
        BY Zenon DEF Run
      <3>2. i \in 1..Len(z)
        BY <1>1
      <3> QED BY <1>1, <1>4, <3>1, <3>2, Zenon
    <2>2. CASE i = Len(rs)
      BY <1>1, <2>1, <2>2
    <2>3. CASE i # Len(rs)
      <3>1. i \in 1..Len(rs) - 1 /\ i + 1 \in 1..Len(rs)
        BY <1>1, <2>3
      <3>2. rs[i].n < rs[i + 1].n
        BY <3>1, Zenon DEF Run
      <3> QED BY <1>1, <2>1, <3>1, <3>2, Zenon
    <2> QED BY <2>2, <2>3, Zenon
  <1>6. P = 0
    <2> SUFFICES ASSUME P # 0 PROVE FALSE
      BY Zenon
    <2>1. P \in 1..Len(rs) /\ P + 1 \in 1..P + Len(out) /\ ~(P + 1 <= P) /\ (P + 1) - P = 1
      BY <1>1, <1>2, <1>3
    <2>2. z[P + 1] = out[1]
      BY <1>2, <2>1, Zenon
    <2>3. z[P].n < z[P + 1].n
      BY <1>5, <2>1, Zenon
    <2>4. z[P].n \in Nat \ {0}
      BY <1>1, <1>4, <2>1
    <2> QED BY <1>3, <2>2, <2>3, <2>4
  <1>7. pruned = << >>
    BY <1>6, EmptySeq, Zenon
  <1>8. out = z
    <2>1. << >> \o out = out
      BY ConcatEmptySeq, Zenon
    <2> QED BY <1>7, <2>1, Zenon DEF z
  <1>9. Whole(rs, w)
    <2>1. CASE Len(rs) = 0
      <3>1. out[1] = rec
        BY <1>1, <1>8, <2>1
      <3> QED BY <1>3, <3>1 DEF Whole
    <2>2. CASE Len(rs) # 0
      <3>1. 1 \in 1..Len(rs)
        BY <1>1, <2>2
      <3>2. out[1] = rs[1] /\ Len(rs) > 0
        BY <1>1, <1>8, <2>2, <3>1
      <3> QED BY <1>3, <3>2, Zenon DEF Whole
    <2> QED BY <2>1, <2>2, Zenon
  <1> QED BY <1>8, <1>9, Zenon DEF z

\* The follow loop's difference of lengths is the events that are new.
LEMMA NewEventsAre ==
    ASSUME NEW v \in View, NEW w \in View, NEW more \in Seq(Events), w.events = v.events \o more
    PROVE  Len(w.events) >= Len(v.events) /\ NewEvents(w, v) = more
  <1> DEFINE s == v.events
             t == w.events
             K == Len(s)
             out == SubSeq(t, K + 1, Len(t))
  <1>1. s \in Seq(Events) /\ t \in Seq(Events) /\ t = s \o more
    BY Zenon DEF View
  <1> HIDE DEF s, t
  <1>2. /\ Len(t) = K + Len(more) /\ K \in Nat /\ Len(more) \in Nat
        /\ \A i \in 1..K + Len(more) : t[i] = IF i <= K THEN s[i] ELSE more[i - K]
    BY <1>1, ConcatProperties
  <1>3. \A i \in K + 1..Len(t) : t[i] \in Events
    <2>1. \A i \in K + 1..Len(t) : i \in 1..Len(t)
      BY <1>2
    <2> QED BY <1>1, <2>1, ElementOfSeq, Zenon
  <1>4. /\ out \in Seq(Events)
        /\ Len(out) = (IF K + 1 <= Len(t) THEN Len(t) - (K + 1) + 1 ELSE 0)
        /\ \A i \in 1..Len(t) - (K + 1) + 1 : out[i] = t[(K + 1) + i - 1]
    <2> DEFINE m == K + 1
               n == Len(t)
    <2>1. m \in Int /\ n \in Int
      BY <1>2
    <2>2. \A i \in m..n : t[i] \in Events
      BY <1>3, Zenon
    <2> HIDE DEF m, n
    <2>3. /\ SubSeq(t, m, n) \in Seq(Events)
          /\ Len(SubSeq(t, m, n)) = (IF m <= n THEN n - m + 1 ELSE 0)
          /\ \A i \in 1..n - m + 1 : SubSeq(t, m, n)[i] = t[m + i - 1]
      <3>1. t \in Seq(Events)
        BY <1>1, Zenon
      <3> QED BY ONLY <3>1, <2>1, <2>2, SubSeqProperties
    <2> QED BY <2>3, Zenon DEF m, n
  <1> HIDE DEF K, out
  <1>5. Len(out) = Len(more) /\ Len(t) - (K + 1) + 1 = Len(more)
    BY <1>2, <1>4
  <1>6. ASSUME NEW i \in 1..Len(more) PROVE out[i] = more[i]
    <2>1. /\ (K + 1) + i - 1 = K + i /\ K + i \in 1..K + Len(more) /\ ~(K + i <= K)
          /\ (K + i) - K = i
      BY <1>2
    <2>2. out[i] = t[K + i]
      BY <1>4, <1>5, <2>1, Zenon
    <2>3. t[K + i] = more[(K + i) - K]
      BY <1>2, <2>1, Zenon
    <2> QED BY <2>1, <2>2, <2>3, Zenon
  <1>7. out = more
    BY <1>4, <1>5, <1>6, SeqEqual, Zenon
  <1>8. Len(t) >= K
    BY <1>2
  <1> QED BY <1>7, <1>8, Zenon DEF NewEvents, out, K, s, t

LEMMA ShownStep == TapeInv /\ TapeInv' /\ ShownFits /\ [Next]_vars => ShownFits'
  <1> SUFFICES ASSUME TapeInv, TapeInv', ShownFits, [Next]_vars PROVE ShownFits'
    BY Zenon
  <1> DEFINE R == Records(files)
             S == Records(files')
             fresh == ReplayOf(R)
  <1>1. /\ R \in Seq(Rec) /\ Run(R, base, written) /\ written \in Nat
    BY ActiveFile, Zenon DEF TapeInv, WitnessHolds
  <1>2. S \in Seq(Rec) /\ Run(S, base', written')
    <2>1. files' \in Seq(TapeFile)
      BY Zenon DEF TapeInv, TapeTypes
    <2> QED BY <2>1, RecordsType, Zenon DEF TapeInv
  <1>3. Replay(files) = fresh /\ Replay(files') = ReplayOf(S)
    BY Zenon DEF Replay
  <1>4. Truthful(shown) /\ sent \in Seq(Events) /\ shown \in View /\ shown.events \in Seq(Events)
    BY Zenon DEF ShownFits, Truthful, View
  <1>5. Truthful(fresh) /\ fresh \in View /\ Truthful(ReplayOf(S)) /\ ReplayOf(S) \in View
    <2> HIDE DEF R, S
    <2>1. Truthful(fresh)
      BY <1>1, ReplayIsTruthful, Zenon DEF Run
    <2>2. Truthful(ReplayOf(S))
      BY <1>2, ReplayIsTruthful, Zenon DEF Run
    <2> QED BY <2>1, <2>2, Zenon DEF Truthful
  <1>6. CASE PowerLoss
    <2>1. shown' = ReplayOf(S) /\ sent' = << >>
      BY <1>3, <1>6, Zenon DEF PowerLoss
    <2>2. << >> \in Seq(Rec) /\ S = S \o << >>
      BY <1>2, ConcatEmptySeq
    <2> DEFINE t == ReplayOf(S).events
    <2>3. t \in Seq(Events)
      BY <1>5, Zenon DEF View
    <2> HIDE DEF t
    <2>4. << >> \in Seq(Events) /\ t = t \o << >>
      BY <2>3, ConcatEmptySeq
    <2>5. shown'.events = t
      BY <2>1, Zenon DEF t
    <2> HIDE DEF S
    <2>6. S = Records(files')
      BY Zenon DEF S
    <2> QED BY <1>2, <1>5, <2>1, <2>2, <2>3, <2>4, <2>5, <2>6, Zenon DEF ShownFits
  <1>7. CASE Follow
    <2>1. /\ UNCHANGED <<files, written>>
          /\ sent' = sent \o NewEvents(fresh, shown)
          /\ shown' = IF Len(fresh.events) >= Len(shown.events) THEN fresh ELSE shown
      BY <1>3, <1>7, Zenon DEF Follow, writer
    <2>2. S = R
      BY <2>1, Zenon
    <2>3. fresh.events \in Seq(Events)
      BY <1>5, Zenon DEF View
    <2>4. NewEvents(fresh, shown) \in Seq(Events)
      <3> DEFINE t == fresh.events
                 s == shown.events
      <3>1. t \in Seq(Events) /\ s \in Seq(Events) /\ Len(s) \in Nat /\ Len(t) \in Nat
        BY <1>4, <2>3
      <3> HIDE DEF t, s
      <3>2. \A i \in Len(s) + 1..Len(t) : i \in 1..Len(t)
        BY <3>1
      <3>3. \A i \in Len(s) + 1..Len(t) : t[i] \in Events
        BY <3>1, <3>2, ElementOfSeq, Zenon
      <3>4. SubSeq(t, Len(s) + 1, Len(t)) \in Seq(Events)
        <4> DEFINE m == Len(s) + 1
                   n == Len(t)
        <4>1. m \in Int /\ n \in Int
          BY <3>1
        <4>2. \A i \in m..n : t[i] \in Events
          BY <3>3, Zenon
        <4> HIDE DEF m, n
        <4>3. SubSeq(t, m, n) \in Seq(Events)
          BY <3>1, <4>1, <4>2, SubSeqProperties, Zenon
        <4> QED BY <4>3, Zenon DEF m, n
      <3> QED BY <3>4, Zenon DEF NewEvents, s, t
    <2>5. sent' \in Seq(Events) /\ Truthful(shown')
      <3> DEFINE more == NewEvents(fresh, shown)
      <3>1. more \in Seq(Events)
        BY <2>4, Zenon
      <3> HIDE DEF more
      <3>2. sent \o more \in Seq(Events)
        BY <1>4, <3>1, ConcatProperties, Zenon
      <3> QED BY <1>4, <1>5, <2>1, <3>2, Zenon DEF more
    <2>6. ASSUME Whole(S, written')
          PROVE  \E x, y \in Seq(Rec), front \in Seq(Events) :
                     /\ S = x \o y /\ shown' = ReplayOf(x)
                     /\ shown'.events = front \o sent'
      <3>1. Whole(R, written)
        BY <2>1, <2>2, <2>6, Zenon
      <3>2. PICK x \in Seq(Rec), y \in Seq(Rec), front \in Seq(Events) :
                /\ R = x \o y /\ shown = ReplayOf(x) /\ shown.events = front \o sent
        BY <3>1, Zenon DEF ShownFits
      <3>3. PICK more \in Seq(Events) : fresh.events = shown.events \o more
        BY <3>2, ReplayExtends, Zenon
      <3>4. Len(fresh.events) >= Len(shown.events) /\ NewEvents(fresh, shown) = more
        <4> HIDE DEF fresh
        <4> QED BY <1>4, <1>5, <3>3, NewEventsAre, Zenon
      <3>5. shown' = fresh /\ sent' = sent \o more
        BY <2>1, <3>4, Zenon
      <3>6. (front \o sent) \o more = front \o (sent \o more)
        BY <1>4, ConcatAssociative
      <3>7. shown'.events = front \o sent'
        BY <3>2, <3>3, <3>5, <3>6, Zenon
      <3> HIDE DEF R
      <3>8. << >> \in Seq(Rec) /\ R = R \o << >>
        BY <1>1, ConcatEmptySeq
      <3>9. S = R \o << >> /\ shown' = ReplayOf(R)
        BY <2>2, <3>5, <3>8, Zenon DEF R
      <3> QED BY <1>1, <3>7, <3>8, <3>9, Zenon
    <2> QED BY <2>5, <2>6, Zenon DEF ShownFits
  <1>8. CASE ~PowerLoss /\ ~Follow
    <2>1. UNCHANGED <<shown, sent>>
      BY <1>8, Zenon DEF Next, Record, Sync, RecordFrontier, AppendFails, FlushTick, OnWeight, Teardown,
                  Boot, bridge, vars
    <2>2. Moves(S, written')
      <3>1. CASE Next
        BY <1>8, <3>1, FilesStep, Zenon
      <3>2. CASE UNCHANGED vars
        BY <3>2, Zenon DEF vars, writer, Moves
      <3> QED BY <3>1, <3>2, Zenon
    <2>3. CASE S = R /\ written' = written
      BY <1>4, <2>1, <2>3, Zenon DEF ShownFits
    <2>4. CASE Grows(S) /\ written' = written + 1
      <3>1. PICK rec \in Rec, pruned \in Seq(Rec) :
                rec.n = written + 1 /\ pruned \o S = Append(R, rec)
        BY <2>4, Zenon DEF Grows
      <3>2. ASSUME Whole(S, written')
            PROVE  \E x, y \in Seq(Rec), front \in Seq(Events) :
                       /\ S = x \o y /\ shown' = ReplayOf(x)
                       /\ shown'.events = front \o sent'
        <4>1. S = Append(R, rec) /\ Whole(R, written)
          <5> HIDE DEF R, S
          <5>1. Whole(S, written + 1)
            BY <2>4, <3>2, Zenon
          <5> QED BY <1>1, <1>2, <3>1, <5>1, WholeBefore, Zenon
        <4>2. PICK x \in Seq(Rec), y \in Seq(Rec), front \in Seq(Events) :
                  /\ R = x \o y /\ shown = ReplayOf(x) /\ shown.events = front \o sent
          BY <4>1, Zenon DEF ShownFits
        <4>3. x \o Append(y, rec) = Append(x \o y, rec)
          BY ConcatAppend
        <4>4. Append(y, rec) \in Seq(Rec)
          BY AppendProperties, Zenon
        <4>5. S = x \o Append(y, rec)
          BY <4>1, <4>2, <4>3, Zenon
        <4> HIDE DEF S
        <4> QED BY <2>1, <4>2, <4>4, <4>5, Zenon
      <3> QED BY <1>4, <2>1, <3>2, Zenon DEF ShownFits
    <2> QED BY <2>2, <2>3, <2>4, Zenon DEF Moves
  <1> QED BY <1>6, <1>7, <1>8, Zenon

LEMMA ShownSuffices == TapeInv /\ ShownFits => ViewIsTheTable
  <1> SUFFICES ASSUME TapeInv, ShownFits PROVE ViewIsTheTable
    BY Zenon
  <1> DEFINE R == Records(files)
  <1>1. R \in Seq(Rec) /\ Len(R) \in Nat
    BY ActiveFile, Zenon DEF TapeInv
  <1>2. /\ shown \in View /\ Agrees(shown) /\ InOrder(shown) /\ sent \in Seq(Events)
        /\ shown.events \in Seq(Events)
    BY Zenon DEF ShownFits, Truthful, View
  <1>3. SentIsShown
    <2> SUFFICES ASSUME Numbers # << >>, Numbers[1] = 1
                 PROVE  /\ Len(sent) <= Len(shown.events)
                        /\ \A i \in 1..Len(sent) :
                               sent[i] = shown.events[Len(shown.events) - Len(sent) + i]
      BY Zenon DEF SentIsShown
    <2>1. Len(R) > 0
      <3> SUFFICES ASSUME ~(Len(R) > 0) PROVE FALSE
        BY Zenon
      <3>1. Len(R) = 0
        BY <1>1
      <3>2. Numbers = << >>
        BY <3>1 DEF Numbers
      <3> QED BY <3>2, Zenon
    <2>2. 1 \in 1..Len(R)
      BY <1>1, <2>1
    <2>3. Whole(R, written)
      BY <2>1, <2>2, NumbersAre, Zenon DEF Whole
    <2>4. PICK front \in Seq(Events) : shown.events = front \o sent
      BY <2>3, Zenon DEF ShownFits
    <2> DEFINE t == shown.events
    <2>5. /\ Len(t) = Len(front) + Len(sent) /\ Len(front) \in Nat /\ Len(sent) \in Nat
          /\ \A i \in 1..Len(front) + Len(sent) :
                 t[i] = IF i <= Len(front) THEN front[i] ELSE sent[i - Len(front)]
      BY <1>2, <2>4, ConcatProperties
    <2> HIDE DEF t
    <2>6. Len(sent) <= Len(t)
      BY <2>5
    <2>7. ASSUME NEW i \in 1..Len(sent) PROVE sent[i] = t[Len(t) - Len(sent) + i]
      <3>1. /\ Len(t) - Len(sent) + i = Len(front) + i /\ ~(Len(front) + i <= Len(front))
            /\ Len(front) + i \in 1..Len(front) + Len(sent) /\ (Len(front) + i) - Len(front) = i
        BY <2>5
      <3>2. t[Len(front) + i] = sent[(Len(front) + i) - Len(front)]
        BY <2>5, <3>1, Zenon
      <3> QED BY <3>1, <3>2, Zenon
    <2> QED BY <2>6, <2>7, Zenon DEF t
  <1>4. \A i, j \in 1..Len(shown.events) : i < j => shown.events[i].n < shown.events[j].n
    BY <1>2, Zenon DEF InOrder
  <1>5. ASSUME NEW l \in LockIds
        PROVE  IF Live(shown.svc.locks[l], shown.frontier)
               THEN ShownHeld(l) /\ shown.leases[l] = shown.svc.locks[l]
               ELSE ~ShownHeld(l)
    <2>1. /\ shown.svc.locks[l].expiry \in Nat /\ shown.frontier \in Nat
      BY <1>2, Zenon DEF View, Service, CoreLease
    <2>2. /\ shown.svc.locks[l].expiry > 0 => shown.svc.locks[l].holder # Nil
          /\ \/ shown.leases[l] = shown.svc.locks[l]
             \/ ~Live(shown.leases[l], shown.frontier) /\ ~Live(shown.svc.locks[l], shown.frontier)
      BY <1>2, Zenon DEF Agrees
    <2>3. CASE Live(shown.svc.locks[l], shown.frontier)
      <3>1. shown.svc.locks[l].expiry > 0
        BY <2>1, <2>3 DEF Live
      <3> QED BY <2>2, <2>3, <3>1, Zenon DEF ShownHeld
    <2>4. CASE ~Live(shown.svc.locks[l], shown.frontier)
      BY <2>2, <2>4, Zenon DEF ShownHeld
    <2> QED BY <2>3, <2>4, Zenon
  <1> QED BY <1>3, <1>4, <1>5, Zenon DEF ViewIsTheTable

\* For every tape and every pass of the follow loop: the console's locks are what
\* the replayed table says at its frontier, its events are in order, and until the
\* series loses its first file the sockets get each of them once.
THEOREM ConsoleIsTruthful == Spec => []ViewIsTheTable
  <1>1. Init => ShownFits
    <2> SUFFICES ASSUME Init PROVE ShownFits
      BY Zenon
    <2>1. shown = NoReplay /\ sent = << >> /\ Truthful(shown)
      BY NoReplayIsTruthful, Zenon DEF Init
    <2>2. << >> \in Seq(Rec) /\ << >> \in Seq(Events)
      OBVIOUS
    <2>3. Records(files) = << >>
      BY EmptyTape, Zenon
    <2>4. << >> = << >> \o << >>
      BY <2>2, ConcatEmptySeq, Zenon
    <2>5. ReplayOf(<< >>) = NoReplay
      <3>1. PICK h \in [0..Len(<< >>) -> View] : Replays(h, << >>) /\ ReplayOf(<< >>) = h[Len(<< >>)]
        BY <2>2, ReplayFold, Zenon
      <3> QED BY <3>1, Zenon DEF Replays
    <2>6. shown.events = << >>
      BY <2>1, Zenon DEF NoReplay
    <2> QED BY <2>1, <2>2, <2>3, <2>4, <2>5, <2>6, Zenon DEF ShownFits
  <1> QED BY <1>1, EmptyTape, TapeStep, ShownStep, ShownSuffices, PTL DEF Spec
=============================================================================
