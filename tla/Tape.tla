-------------------------------- MODULE Tape --------------------------------
(***************************************************************************)
(* The telemetry tape of a sequencer host and the console bridge that reads *)
(* it: examples/lease-sequencer/src/telemetry.rs (the gate, the rollover,   *)
(* the teardown), bridge.rs (the replay through the lock service, the       *)
(* follow loop and its live sockets) and the witness's rules over the       *)
(* tape's flush (ext/advisory_lock/src/witness/mod.rs, whose driver is not   *)
(* in the repository).                                                      *)
(*                                                                          *)
(* A record's number stands for its clock and for its frontier; its size is *)
(* one. The library tbio is external: a file is its records and how many of *)
(* them are on stable storage; closing a file makes it stable.              *)
(***************************************************************************)
EXTENDS Locks, Witness, Sequences

CONSTANTS Ops,          \* the operations Prepares carry
          SyncPoints,   \* the frontiers sync points name
          MaxRecords,   \* bound on the records written, but for teardowns
          RollRecords,  \* rollover_bytes, in records
          MaxBoots      \* bound on restarts

ASSUME TapeAssumption ==
    /\ \A op \in Ops : op \in GetRequests \cup SetRequests \cup ReleaseRequests(Nat) \cup BreakRequests
    /\ SyncPoints \subseteq Nat \ {0}
    /\ MaxRecords \in Nat /\ RollRecords \in Nat \ {0} /\ MaxBoots \in Nat

VARIABLES
    files,     \* the series, oldest first: [recs, synced]
    log,       \* TelemetryLog: [open, active] (file is Some, the gate)
    size,      \* active_size
    boots,     \* processes started so far
    up,        \* the host runs
    written,   \* records written so far (history)
    base,      \* records written before this process started (history)
    rolled,    \* this process has rolled its file
    witness,   \* the watermarks
    acked,     \* the sync points this process acknowledged (history)
    shown,     \* the bridge's snapshot: [events, frontier, leases, svc]
    sent       \* what the live sockets were sent

writer == <<files, log, size, rolled>>
bridge == <<shown, sent>>
vars == <<writer, boots, up, written, base, witness, acked, bridge>>

(* ------------------------------- bridge.rs ------------------------------ *)

\* series_files and read_file_records: the records in file order.
Records(fs) ==
    LET upto[n \in 0..Len(fs)] == IF n = 0 THEN << >> ELSE upto[n - 1] \o fs[n].recs
    IN  upto[Len(fs)]

\* Mutant: a BREAK's lease is not stored.
LeasesAfterNoBreak(leases, req, e) ==
    IF e.ok /\ req.op = "set" THEN [leases EXCEPT ![req.lock] = e.lease]
    ELSE IF e.ok /\ req.op = "release" THEN [leases EXCEPT ![req.lock] = NoLease]
    ELSE leases

\* The view of a lock is kept from the replies: a granted SET or a BREAK stores
\* the lease, a RELEASE removes it.
LeasesAfter(leases, req, e) ==
    IF e.ok /\ req.op \in {"set", "break"} THEN [leases EXCEPT ![req.lock] = e.lease]
    ELSE IF e.ok /\ req.op = "release" THEN [leases EXCEPT ![req.lock] = NoLease]
    ELSE leases

\* event_from_transition, and the "deny" event of a refused SET.
EventOf(rec, e) ==
    IF e.transition # "none" THEN <<[n |-> rec.n, kind |-> e.transition]>>
    ELSE IF rec.op.op = "set" THEN <<[n |-> rec.n, kind |-> "deny"]>>
    ELSE << >>

\* replay_series: every record moves the frontier, a Prepare's operation is
\* executed at its record's time.
Replayed(acc, rec) ==
    IF rec.kind # "wire" THEN [acc EXCEPT !.frontier = rec.n]
    ELSE LET e == Execute(acc.svc, rec.n, rec.op)
         IN  [events |-> acc.events \o EventOf(rec, e), frontier |-> rec.n,
              leases |-> LeasesAfter(acc.leases, rec.op, e), svc |-> e.svc]

NoReplay == [events |-> << >>, frontier |-> 0, leases |-> [l \in LockIds |-> NoLease],
             svc |-> EmptyService]
ReplayOf(rs) ==
    LET after[n \in 0..Len(rs)] == IF n = 0 THEN NoReplay ELSE Replayed(after[n - 1], rs[n])
    IN  after[Len(rs)]
Replay(fs) == ReplayOf(Records(fs))

(* ---------------------------- telemetry.rs ------------------------------ *)

NoOp == [op |-> "none"]

\* AofFile::open_with, then TelemetryLog::open: every start opens a new file.
NewFile == [recs |-> << >>, synced |-> 0]
Opened(fs) == Append(fs, NewFile)

Active == Len(files)
Stable(fs, i) == [fs EXCEPT ![i].synced = Len(fs[i].recs)]

\* prune_plan: the active file and the newest closed one stay.
Pruned(fs) == IF Len(fs) <= 2 THEN fs ELSE SubSeq(fs, Len(fs) - 1, Len(fs))

\* rollover: close, open anew, prune.
RolledOver(fs) == Pruned(Opened(Stable(fs, Len(fs))))

\* append, and the rollover check that follows it.
AppendRecord(kind, op) ==
    LET rec == [n |-> written + 1, kind |-> kind, op |-> op]
        fs == [files EXCEPT ![Active].recs = Append(@, rec)]
        due == size + 1 >= RollRecords
    IN  /\ written < MaxRecords
        /\ files' = IF due THEN RolledOver(fs) ELSE fs
        /\ size' = IF due THEN 0 ELSE size + 1
        /\ rolled' = (rolled \/ due)
        /\ written' = written + 1
        /\ witness' = Observe(witness, written + 1)
        /\ UNCHANGED log

\* record: a datagram received, while the gate is on.
Record(op) ==
    /\ up /\ log.open /\ log.active
    /\ AppendRecord("wire", op)
    /\ UNCHANGED <<boots, up, base, acked, bridge>>

\* record_frontier: the periodic frontier, whatever the gate says.
RecordFrontier ==
    /\ up /\ log.open
    /\ AppendRecord("frontier", NoOp)
    /\ UNCHANGED <<boots, up, base, acked, bridge>>

\* A failed append or rollover: the stream is disabled for the process.
AppendFails ==
    /\ up /\ log.open
    /\ log' = [log EXCEPT !.open = FALSE]
    /\ UNCHANGED <<files, size, rolled, boots, up, written, base, witness, acked, bridge>>

\* flush, and the acknowledgements the witness owes after it.
Flushed(fs) ==
    LET f == FlushedThroughBuffer(witness)
    IN  /\ files' = Stable(fs, Len(fs))
        /\ witness' = f.state
        /\ acked' = acked \union f.acks

\* tick: the forced flush, due only while the gate is on.
FlushTick ==
    /\ up /\ log.open /\ log.active
    /\ Flushed(files)
    /\ UNCHANGED <<log, size, rolled, boots, up, written, base, bridge>>

\* on_weight, once the core gave the node a vote or took it: a vote closes the gate
\* and flushes once, losing it re-arms.
OnWeight ==
    /\ up
    /\ log' = [log EXCEPT !.active = ~@]
    /\ IF log.active /\ log.open THEN Flushed(files) ELSE UNCHANGED <<files, witness, acked>>
    /\ UNCHANGED <<size, rolled, boots, up, written, base, bridge>>

\* teardown: the record last, then flush and close.
TornDown(fs, rec) ==
    LET l == Len(fs) IN Stable([fs EXCEPT ![l].recs = Append(@, rec)], l)

Teardown ==
    /\ up
    /\ up' = FALSE
    /\ IF log.open
       THEN /\ files' = TornDown(files, [n |-> written + 1, kind |-> "teardown", op |-> NoOp])
            /\ written' = written + 1
       ELSE UNCHANGED <<files, written>>
    /\ log' = [log EXCEPT !.open = FALSE]
    /\ witness' = NewWitness
    /\ UNCHANGED <<size, rolled, boots, base, acked, bridge>>

\* The power fails: of the active file some prefix with the stable part remains.
\* The bridge starts again too, and spawn replays what is there.
PowerLoss ==
    /\ up
    /\ up' = FALSE
    /\ \E k \in files[Active].synced .. Len(files[Active].recs) :
           files' = [files EXCEPT ![Active] = [recs |-> SubSeq(@.recs, 1, k), synced |-> k]]
    /\ log' = [log EXCEPT !.open = FALSE]
    /\ witness' = NewWitness
    /\ shown' = Replay(files') /\ sent' = << >>
    /\ UNCHANGED <<size, rolled, boots, written, base, acked>>

\* serve: a new file beside the series, the gate on until a vote is known.
Boot ==
    /\ ~up /\ boots < MaxBoots
    /\ up' = TRUE /\ boots' = boots + 1
    /\ files' = Opened(files)
    /\ log' = [open |-> TRUE, active |-> TRUE]
    /\ size' = 0 /\ rolled' = FALSE
    /\ base' = written /\ acked' = {}
    /\ UNCHANGED <<written, witness, bridge>>

(* ----------------------------- the witness ------------------------------ *)

\* A sync point arrives; a buffered one forces the flush and is acknowledged.
Sync(p) ==
    LET s == SyncPoint(witness, p)
    IN  /\ up /\ log.open /\ p \notin acked
        /\ CASE s.outcome = "acked" -> /\ acked' = acked \union {p}
                                       /\ UNCHANGED <<files, witness>>
             [] s.outcome = "held" -> /\ p \notin witness.held
                                      /\ witness' = s.state
                                      /\ UNCHANGED <<files, acked>>
             [] OTHER -> LET f == FlushedThroughBuffer(witness)
                         IN  /\ files' = Stable(files, Active)
                             /\ witness' = f.state
                             /\ acked' = acked \union f.acks \union {p}
        /\ UNCHANGED <<log, size, rolled, boots, up, written, base, bridge>>

(* --------------------------- the follow loop ---------------------------- *)

\* The follow loop: the events past as many as the snapshot has.
NewEvents(fresh, old) == SubSeq(fresh.events, Len(old.events) + 1, Len(fresh.events))

\* One pass of the follow loop.
Follow ==
    LET fresh == Replay(files)
    IN  /\ fresh # shown
        /\ sent' = sent \o NewEvents(fresh, shown)
        /\ shown' = IF Len(fresh.events) >= Len(shown.events) THEN fresh ELSE shown
        /\ UNCHANGED <<writer, boots, up, written, base, witness, acked>>

\* LockView::to_json: held, on the frontier's clock.
ShownHeld(l) ==
    shown.leases[l].holder # Nil /\ Live(shown.leases[l], shown.frontier)

-----------------------------------------------------------------------------

Init ==
    /\ files = <<NewFile>> /\ log = [open |-> TRUE, active |-> TRUE]
    /\ size = 0 /\ rolled = FALSE /\ boots = 1 /\ up = TRUE
    /\ written = 0 /\ base = 0 /\ witness = NewWitness /\ acked = {}
    /\ shown = NoReplay /\ sent = << >>

Next ==
    \/ \E op \in Ops : Record(op)
    \/ \E p \in SyncPoints : Sync(p)
    \/ RecordFrontier \/ AppendFails \/ FlushTick \/ OnWeight
    \/ Teardown \/ PowerLoss \/ Boot \/ Follow

Spec == Init /\ [][Next]_vars

-----------------------------------------------------------------------------

Numbers == LET rs == Records(files) IN [i \in 1..Len(rs) |-> rs[i].n]

\* The types; the witness's own invariant; and the series is the active file and
\* at most one closed one, once this process has rolled.
TypeOK ==
    /\ \A i \in 1..Len(files) : files[i].synced \in 0..Len(files[i].recs)
    /\ log \in [open : BOOLEAN, active : BOOLEAN] /\ size \in 0..RollRecords
    /\ WitnessInv(witness) /\ acked \subseteq SyncPoints
    /\ rolled => Len(files) <= 2

\* The tape is a run of what was written: in order, without a gap among the
\* running process's records, and up to the last one written. Pruning takes whole
\* files from the old end, a restart leaves the series alone.
TapeIsARun ==
    LET last == Len(Numbers) IN
    /\ \A i \in 1..last - 1 : IF Numbers[i] > base THEN Numbers[i + 1] = Numbers[i] + 1
                              ELSE Numbers[i] < Numbers[i + 1]
    /\ up /\ written > base => last > 0 /\ Numbers[last] = written

\* A sync point is acknowledged only once the flushed watermark covers it, and is
\* then no longer held: it is never acknowledged a second time.
AckedIsFlushed == up => \A p \in acked : p <= witness.flushed /\ p \notin witness.held

\* A frontier the witness acknowledged is on stable storage: its record is still
\* on the tape after a loss of power, unless it was pruned, and the tape is a run.
AckedIsOnTape ==
    /\ TypeOK /\ TapeIsARun
    /\ \A p \in {q \in acked : q > base} :
          \/ \E i \in 1..Len(Numbers) : Numbers[i] = p
          \/ Numbers # << >> /\ p < Numbers[1]

\* A live socket gets every event once and in order, as long as the series has
\* lost no file: what was sent is the end of the events shown. (The follow loop
\* compares lengths: once a file is pruned, an event may be skipped or repeated.)
SentIsShown ==
    Numbers # << >> /\ Numbers[1] = 1 =>
        /\ Len(sent) <= Len(shown.events)
        /\ \A i \in 1..Len(sent) : sent[i] = shown.events[Len(shown.events) - Len(sent) + i]

\* The console tells the truth: its lock view, kept from the replies, is what the
\* replayed service's own table says at the frontier; its events are in order; and
\* its sockets were sent what it shows.
ViewIsTheTable ==
    /\ SentIsShown
    /\ \A i, j \in 1..Len(shown.events) : i < j => shown.events[i].n < shown.events[j].n
    /\ \A l \in LockIds :
          IF Live(shown.svc.locks[l], shown.frontier)
          THEN ShownHeld(l) /\ shown.leases[l] = shown.svc.locks[l]
          ELSE ~ShownHeld(l)
=============================================================================
