------------------------------ MODULE EventLog ------------------------------
(***************************************************************************)
(* The committed-transition log of one node over its lives: the sink the    *)
(* node was opened with (ffi.rs JournalSink), process crashes, power losses *)
(* and reboots. What the AOF promises its readers is stated by the abstract *)
(* module WriteBehindLog, which the AOF implements.                         *)
(***************************************************************************)
EXTENDS Aof

CONSTANT MaxFailures      \* bound on process crashes and power losses

VARIABLE failures         \* how many so far

logVars == <<journalVars, aofVars, failures>>

Init ==
    /\ sink \in {"blocking", "aof"}
    /\ proc = "down" /\ applied = 0
    /\ dir = EmptyDir
    /\ written = 0 /\ window = NoWindow /\ roll = "no"
    /\ faults = {}
    /\ queue = <<>> /\ buf = <<>> /\ carry = 0
    /\ failures = 0

\* A process opens its sink: open_journal or node_from_aof.
Boot ==
    /\ proc \in {"down", "stopped"}
    /\ IF sink = "aof" THEN AofOpen ELSE JournalOpen
    /\ proc' = "run"
    /\ queue' = <<>> /\ buf' = <<>> /\ carry' = 0
    /\ UNCHANGED <<sink, applied, faults, failures>>

\* What a write of the buffer in progress may have put into the file.
InFlightWrite == IF roll = "pad" THEN buf \o Zeros(RollBytes - written) ELSE buf

\* The process dies. The page cache survives; a write under way may have
\* reached the file in part.
Crash ==
    /\ proc # "down" /\ failures < MaxFailures
    /\ failures' = failures + 1
    /\ proc' = "down"
    /\ \E n \in 0..Len(InFlightWrite) :
           dir' = IF HasOpen(dir) THEN Written(dir, SubSeq(InFlightWrite, 1, n)) ELSE dir
    /\ UNCHANGED <<sink, applied, written, window, roll, faults, aofVars>>

\* The machine loses power: of every file any prefix that covers its fsynced
\* part survives, and a rename that no directory sync followed may be undone.
PowerLoss ==
    /\ failures < MaxFailures
    /\ failures' = failures + 1
    /\ proc' = "down"
    /\ faults' = faults \union {"power"}
    /\ \E kept \in [1..(Len(dir.done) + 1) -> 0..(RollBytes + RecordSize)], undo \in BOOLEAN :
           LET file(i) == dir.done[i]
               last == Len(dir.done)
               cut(i) == [file(i) EXCEPT !.data = SubSeq(@, 1, kept[i]), !.synced = kept[i]]
           IN  /\ \A i \in 1..last : kept[i] \in file(i).synced..Len(file(i).data)
               /\ kept[last + 1] \in dir.synced..Len(dir.open)
               /\ undo => last > 0 /\ ~file(last).meta /\ ~HasOpen(dir)
               /\ dir' = IF undo
                         THEN [dir EXCEPT !.done = [i \in 1..(last - 1) |-> cut(i)],
                                          !.open = cut(last).data,
                                          !.name = dir.names,
                                          !.synced = cut(last).synced]
                         ELSE [dir EXCEPT !.done = [i \in 1..last |-> cut(i)],
                                          !.open = SubSeq(@, 1, kept[last + 1]),
                                          !.synced = kept[last + 1]]
    /\ UNCHANGED <<sink, applied, written, window, roll, aofVars>>

JournalNext ==
    /\ JournalAppend \/ JournalAppendTorn \/ JournalDrain
    /\ UNCHANGED <<aofVars, failures>>

RollNext ==
    /\ RollRename \/ RollMeta \/ RollCreate
    /\ UNCHANGED <<aofVars, failures>>

AofNext ==
    /\ \/ Enqueue \/ EnqueueOverflow \/ RequestCheckpoint \/ RequestDrain
       \/ PumpEvent \/ PumpEventRollsFirst \/ PumpCarried \/ RollPad
       \/ PumpCheckpoint \/ PumpDrain \/ FlushTick \/ SyncTick
    /\ UNCHANGED failures

Next == Boot \/ JournalNext \/ RollNext \/ AofNext \/ Crash \/ PowerLoss

Spec == Init /\ [][Next]_logVars

-----------------------------------------------------------------------------
(* Properties. *)

Units == ({0} \X {0}) \union ((1..MaxEvents) \X (1..RecordSize))
IsFile(data) == DOMAIN data = 1..Len(data) /\ \A i \in 1..Len(data) : data[i] \in Units

\* The type invariant.
TypeOK ==
    /\ sink \in {"blocking", "aof"}
    /\ proc \in {"down", "run", "drain", "stopped"}
    /\ roll \in {"no", "pad", "rename", "meta", "create"}
    /\ applied \in 0..MaxEvents /\ carry \in 0..MaxEvents
    /\ written \in 0..(RollBytes + RecordSize)
    /\ window.count \in 0..MaxEvents
    /\ IsFile(dir.open) /\ IsFile(buf)
    /\ \A i \in 1..Len(dir.done) : IsFile(dir.done[i].data)
    /\ dir.synced <= Len(dir.open)
    /\ Len(queue) <= QueueCap
    /\ \A i \in 1..Len(queue) : queue[i] \in {Drain, Checkpoint} \union (1..MaxEvents)
    /\ faults \subseteq {"torn", "power"}

\* Every finalized AOF file is exactly one erasure block (aof.rs:315-320 asserts
\* it; telemetry-aof.md promises it), whatever crashes and resumes came before.
ErasureBlocks ==
    sink = "aof" =>
        /\ \A i \in 1..Len(dir.done) : Len(dir.done[i].data) = RollBytes
        /\ proc # "down" /\ roll = "rename" => Len(dir.open) = RollBytes

\* A metafile of the AOF describes its file: the window and the count are those
\* of the records a reader gets from it (aof.rs:305-336 after any resume).
MetaDescribesFile ==
    sink = "aof" =>
        \A i \in 1..Len(dir.done) :
            LET f == dir.done[i]
            IN  f.meta => f.window = ScannedWindow(f.data, ValidRecords(f.data))

\* What is on disk is sound: the types with the bound of the queue, whole blocks,
\* and metafiles that tell the truth.
FilesAreWhole == TypeOK /\ ErasureBlocks /\ MetaDescribesFile

\* A reader of the series gets events in the order they were executed and none
\* twice, across rolls, crashes, resumes and either sink.
ReadableInOrder ==
    LET r == Readable(dir)
    IN  \A i, j \in 1..Len(r) : i < j => r[i] < r[j]

\* The blocking journal loses nothing to process crashes alone: every executed
\* transition is readable (journal.rs:322-335 writes before it counts).
BlockingLosesNothing ==
    sink = "blocking" /\ faults = {} =>
        Readable(dir) = [i \in 1..applied |-> i]

\* The records of e that are complete somewhere in a file.
CompleteIn(e, data) ==
    \E k \in 0..(Len(data) - RecordSize) :
        \A i \in 1..RecordSize : data[k + i] = <<e, i>>

\* A partial write loses the record it tore and no other: every record that
\* was written whole is one a reader gets (event-journal.md, corrupt-tail tolerance).
OnlyTornRecordLost ==
    \A e \in 1..applied :
        (\/ CompleteIn(e, dir.open)
         \/ \E i \in 1..Len(dir.done) : CompleteIn(e, dir.done[i].data))
        => \E i \in 1..Len(Readable(dir)) : Readable(dir)[i] = e

-----------------------------------------------------------------------------
(* The AOF implements WriteBehindLog. *)

Events(q) == SelectSeq(q, IsEvent)

\* The accepted events: on disk, in the buffer, in the append that waits for a
\* roll, in the queue. Without a process there is only the disk.
AcceptedLog ==
    IF sink # "aof" THEN <<>>
    ELSE IF proc = "down" THEN Readable(dir)
    ELSE Readable(dir) \o ParseFile(buf)
         \o (IF carry = 0 THEN <<>> ELSE <<carry>>) \o Events(queue)

\* The events an fsync has covered.
DurableCount ==
    IF sink # "aof" THEN 0
    ELSE Len(Readable([dir EXCEPT !.open = SubSeq(@, 1, dir.synced)]))

WB == INSTANCE WriteBehindLog WITH
          Event <- 1..MaxEvents,
          log <- AcceptedLog,
          durable <- DurableCount,
          vouched <- sink = "aof" /\ proc = "stopped"

\* Through the AOF sink the node's committed transitions form a write-behind
\* log: losses take suffixes only, never what was fsynced, and the stop's drain
\* is answered only when every event enqueued before it is durable (aof.rs:420-448).
AofIsWriteBehindLog == WB!LogSpec
=============================================================================
