-------------------------------- MODULE Aof --------------------------------
(***************************************************************************)
(* The AOF write-behind writer (ext/advisory_lock/src/aof.rs): a bounded    *)
(* queue that never blocks the node, and a writer thread that appends to a  *)
(* buffer, writes the buffer out, fsyncs on its timer, on request and for   *)
(* the stop's drain, and rolls files of exactly RollBytes.                  *)
(***************************************************************************)
EXTENDS Journal

CONSTANTS QueueCap,       \* AofConfig::queue_cap
          FlushBytes      \* AofConfig::flush_bytes, in units

ASSUME AofAssumption == QueueCap \in Nat \ {0} /\ FlushBytes \in Nat

VARIABLES
    queue,     \* the bounded channel: event numbers (> 0), Checkpoint, Drain
    buf,       \* AofCore::buf, units not yet written
    carry      \* the event whose append waits for the roll before it, or 0

aofVars == <<queue, buf, carry>>

Checkpoint == 0
Drain == -1

IsEvent(m) == m > 0

\* Mutant: the resume keeps the tail that does not parse.
AofOpenKeepsTail ==
    LET n == ValidRecords(dir.open)
    IN  /\ dir' = IF HasOpen(dir) THEN dir ELSE WithNewOpen(dir)
        /\ written' = n * RecordSize
        /\ window' = ScannedWindow(dir.open, n)
        /\ roll' = "no"

\* AofCore::open_on: scan, truncate what does not parse, resume there.
AofOpen ==
    LET n == ValidRecords(dir.open)
    IN  /\ dir' = IF ~HasOpen(dir) THEN WithNewOpen(dir)
                  ELSE [dir EXCEPT !.open = SubSeq(dir.open, 1, n * RecordSize),
                                   !.synced = Smaller(dir.synced, n * RecordSize)]
        /\ written' = n * RecordSize
        /\ window' = ScannedWindow(dir.open, n)
        /\ roll' = "no"

\* AofWriter::enqueue from the apply hook.
Enqueue ==
    /\ sink = "aof" /\ proc = "run"
    /\ applied < MaxEvents
    /\ Len(queue) < QueueCap
    /\ applied' = applied + 1
    /\ queue' = Append(queue, applied + 1)
    /\ UNCHANGED <<sink, proc, dir, written, window, roll, faults, buf, carry>>

\* A full queue panics the node; the writer's memory goes with the process.
EnqueueOverflow ==
    /\ sink = "aof" /\ proc = "run"
    /\ applied < MaxEvents
    /\ Len(queue) = QueueCap
    /\ applied' = applied + 1
    /\ proc' = "down"
    /\ UNCHANGED <<sink, dir, written, window, roll, faults, queue, buf, carry>>

\* AofWriter::checkpoint: a full queue drops the request, which is no step. At
\* most one request waits at a time (a bound: a second one changes nothing).
RequestCheckpoint ==
    /\ sink = "aof" /\ proc = "run"
    /\ Len(queue) < QueueCap
    /\ \A i \in 1..Len(queue) : queue[i] # Checkpoint
    /\ queue' = Append(queue, Checkpoint)
    /\ UNCHANGED <<sink, proc, applied, dir, written, window, roll, faults, buf, carry>>

\* AofWriter::drain from the stop: retried while the queue is full.
RequestDrain ==
    /\ sink = "aof" /\ proc = "run"
    /\ Len(queue) < QueueCap
    /\ queue' = Append(queue, Drain)
    /\ proc' = "drain"
    /\ UNCHANGED <<sink, applied, dir, written, window, roll, faults, buf, carry>>

-----------------------------------------------------------------------------
(* The writer thread. *)

Writing == sink = "aof" /\ proc # "down" /\ roll = "no" /\ carry = 0

\* AofCore::append once there is room: buffer the record, write the buffer out
\* when it is large enough, and roll when the record lands on the mark.
AppendRecord(e) ==
    LET full == buf \o Encode(e)
        out == Len(full) >= FlushBytes
    IN  /\ buf' = IF out THEN <<>> ELSE full
        /\ dir' = IF out THEN Written(dir, full) ELSE dir
        /\ window' = WindowWith(window, e)
        /\ written' = written + RecordSize
        /\ roll' = IF written' = RollBytes THEN "pad" ELSE "no"

\* AofCore::append rolls before a record that would pass the mark; roll itself
\* returns at once when the open file has no record.
MustRoll == written + RecordSize > RollBytes /\ window # NoWindow

\* pump takes an event whose record fits.
PumpEvent ==
    /\ Writing /\ queue # <<>> /\ IsEvent(Head(queue))
    /\ ~MustRoll
    /\ AppendRecord(Head(queue))
    /\ queue' = Tail(queue)
    /\ UNCHANGED <<sink, proc, applied, faults, carry>>

\* pump takes an event whose record would pass the mark: roll first.
PumpEventRollsFirst ==
    /\ Writing /\ queue # <<>> /\ IsEvent(Head(queue))
    /\ MustRoll
    /\ carry' = Head(queue)
    /\ queue' = Tail(queue)
    /\ roll' = "pad"
    /\ UNCHANGED <<sink, proc, applied, dir, written, window, faults, buf>>

\* ... and append it to the fresh file.
PumpCarried ==
    /\ sink = "aof" /\ proc # "down" /\ roll = "no" /\ carry # 0
    /\ AppendRecord(carry)
    /\ carry' = 0
    /\ UNCHANGED <<sink, proc, applied, faults, queue>>

\* AofCore::roll up to its assertion: pad to the mark, write out, fsync.
RollPad ==
    /\ proc # "down" /\ roll = "pad"
    /\ dir' = Fsynced(Written(dir, buf \o Zeros(RollBytes - written)))
    /\ buf' = <<>>
    /\ roll' = "rename"
    /\ UNCHANGED <<sink, proc, applied, written, window, faults, queue, carry>>

\* AofCore::checkpoint: write the buffer out and fsync.
CheckpointDir == Fsynced(Written(dir, buf))

PumpCheckpoint ==
    /\ Writing /\ queue # <<>> /\ Head(queue) = Checkpoint
    /\ dir' = CheckpointDir
    /\ buf' = <<>>
    /\ queue' = Tail(queue)
    /\ UNCHANGED <<sink, proc, applied, written, window, roll, faults, carry>>

\* Mutant: the drain writes the buffer out and does not fsync.
PumpDrainUnsynced ==
    /\ Writing /\ queue # <<>> /\ Head(queue) = Drain
    /\ dir' = Written(dir, buf)
    /\ buf' = <<>>
    /\ queue' = Tail(queue)
    /\ proc' = "stopped"
    /\ UNCHANGED <<sink, applied, written, window, roll, faults, carry>>

\* The answer to the drain: the stop goes on to its second marker round.
PumpDrain ==
    /\ Writing /\ queue # <<>> /\ Head(queue) = Drain
    /\ dir' = CheckpointDir
    /\ buf' = <<>>
    /\ queue' = Tail(queue)
    /\ proc' = "stopped"
    /\ UNCHANGED <<sink, applied, written, window, roll, faults, carry>>

\* The pump's own cadence: write out every PUMP_TICK, fsync every interval.
FlushTick ==
    /\ Writing /\ buf # <<>>
    /\ dir' = Written(dir, buf)
    /\ buf' = <<>>
    /\ UNCHANGED <<sink, proc, applied, written, window, roll, faults, queue, carry>>

\* The periodic fsync, and the one of a writer whose last handle is dropped.
SyncTick ==
    /\ Writing
    /\ buf # <<>> \/ dir.synced < Len(dir.open)
    /\ dir' = CheckpointDir
    /\ buf' = <<>>
    /\ UNCHANGED <<sink, proc, applied, written, window, roll, faults, queue, carry>>
=============================================================================
