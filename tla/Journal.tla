------------------------------ MODULE Journal ------------------------------
(***************************************************************************)
(* The blocking lock-event journal (ext/advisory_lock/src/journal.rs). The  *)
(* node appends inside its own apply step; a roll is three durable writes   *)
(* (rename, metafile, new open file), and a crash may fall between any two. *)
(***************************************************************************)
EXTENDS Series

CONSTANT MaxEvents        \* bound on the executed transitions

VARIABLES
    sink,      \* "blocking" or "aof": the node's JournalSink, fixed by how it was opened
    proc,      \* the process: "down", "run", "drain", "stopped"
    applied,   \* transitions executed so far, which is the next event's number - 1
    dir,       \* the directory
    written,   \* bytes of complete records the writer counts in the open file
    window,    \* the writer's window of the open file
    roll,      \* the writer's place in a roll: "no", "pad", "rename", "meta", "create"
    faults     \* faults so far (history): "torn" for a partial write, "power" for a power loss

journalVars == <<sink, proc, applied, dir, written, window, roll, faults>>

\* The scan of Journal::open_on: valid records, but none past the roll threshold.
JournalScan(data) ==
    Smaller(ValidRecords(data), RollBytes \div RecordSize)

\* Mutant: the resume cuts the file back to what it scanned.
JournalOpenTruncates ==
    LET n == JournalScan(dir.open)
    IN  /\ dir' = IF ~HasOpen(dir) THEN WithNewOpen(dir)
                  ELSE [dir EXCEPT !.open = SubSeq(dir.open, 1, n * RecordSize),
                                   !.synced = Smaller(dir.synced, n * RecordSize)]
        /\ written' = n * RecordSize
        /\ window' = ScannedWindow(dir.open, n)
        /\ roll' = "no"

\* Journal::open_on. The file keeps its tail, whatever it is: the position is
\* the end of the file, the counters are those of the scanned records.
JournalOpen ==
    LET n == JournalScan(dir.open)
    IN  /\ dir' = IF HasOpen(dir) THEN dir ELSE WithNewOpen(dir)
        /\ written' = n * RecordSize
        /\ window' = ScannedWindow(dir.open, n)
        /\ roll' = "no"

\* Journal::append: the record goes to the page cache, the counters follow it.
JournalAppend ==
    LET e == applied + 1
    IN  /\ sink = "blocking" /\ proc = "run" /\ roll = "no"
        /\ applied < MaxEvents
        /\ applied' = e
        /\ dir' = Written(dir, Encode(e))
        /\ window' = WindowWith(window, e)
        /\ written' = written + RecordSize
        /\ roll' = IF written' >= RollBytes THEN "rename" ELSE "no"
        /\ UNCHANGED <<sink, proc, faults>>

\* The write fails after some of its bytes (a full disk); the apply hook aborts.
JournalAppendTorn ==
    /\ sink = "blocking" /\ proc = "run" /\ roll = "no"
    /\ applied < MaxEvents
    /\ applied' = applied + 1
    /\ \E n \in 1..(RecordSize - 1) :
           dir' = Written(dir, SubSeq(Encode(applied + 1), 1, n))
    /\ proc' = "down"
    /\ faults' = faults \union {"torn"}
    /\ UNCHANGED <<sink, written, window, roll>>

\* Journal::roll and AofCore::roll from the rename on.
RollRename ==
    /\ proc # "down" /\ roll = "rename"
    /\ dir' = Renamed(dir, window)
    /\ roll' = "meta"
    /\ UNCHANGED <<sink, proc, applied, written, window, faults>>

RollMeta ==
    /\ proc # "down" /\ roll = "meta"
    /\ dir' = WithMeta(dir)
    /\ roll' = "create"
    /\ UNCHANGED <<sink, proc, applied, written, window, faults>>

RollCreate ==
    /\ proc # "down" /\ roll = "create"
    /\ dir' = WithNewOpen(dir)
    /\ written' = 0
    /\ window' = NoWindow
    /\ roll' = "no"
    /\ UNCHANGED <<sink, proc, applied, faults>>

\* drain_sink of a blocking journal: Journal::flush, an fsync of the open file.
JournalDrain ==
    /\ sink = "blocking" /\ proc = "run" /\ roll = "no"
    /\ dir' = Fsynced(dir)
    /\ proc' = "stopped"
    /\ UNCHANGED <<sink, applied, written, window, roll, faults>>
=============================================================================
