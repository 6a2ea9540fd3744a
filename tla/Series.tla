------------------------------ MODULE Series ------------------------------
(***************************************************************************)
(* The file series of ext/advisory_lock/src/journal.rs, which the blocking  *)
(* journal and the AOF writer share: the record and its parser, the window  *)
(* a metafile describes, and a directory of finalized files and at most one *)
(* open file.                                                               *)
(*                                                                          *)
(* An event is a number, in the order the node executed the transitions. A  *)
(* file is a sequence of units; a record is RecordSize units <<e, 1>> ..    *)
(* <<e, RecordSize>>, of which any other sequence of units fails the magic  *)
(* or the checksum. The event's kind, lock, lease and holder are not told   *)
(* apart.                                                                   *)
(***************************************************************************)
EXTENDS Integers, Sequences, FiniteSets

CONSTANTS RecordSize,     \* units of one record (RECORD_SIZE, 61 bytes)
          RollBytes,      \* units after which a file rolls
          Ts(_),          \* the millisecond at which an event was executed
          Expiry(_)       \* the expiry the event carries

ASSUME SeriesAssumption ==
    /\ RecordSize \in Nat \ {0, 1}
    /\ RollBytes \in Nat
    /\ RecordSize <= RollBytes

Pad == <<0, 0>>
Encode(e) == [i \in 1..RecordSize |-> <<e, i>>]
Zeros(n) == [i \in 1..n |-> Pad]

-----------------------------------------------------------------------------
(* Parsing. *)

\* parse_record at the k-th record position of data, counting from 0.
IsRecord(data, k) ==
    /\ (k + 1) * RecordSize <= Len(data)
    /\ LET e == data[k * RecordSize + 1][1]
       IN  /\ e # 0
           /\ \A i \in 1..RecordSize : data[k * RecordSize + i] = <<e, i>>

\* How many records parse before the first invalid or short one.
ValidRecords(data) ==
    CHOOSE n \in 0..(Len(data) \div RecordSize) :
        /\ \A k \in 0..(n - 1) : IsRecord(data, k)
        /\ ~IsRecord(data, n)

EventAt(data, k) == data[(k - 1) * RecordSize + 1][1]

\* parse_file: the valid prefix, as events.
ParseFile(data) == [k \in 1..ValidRecords(data) |-> EventAt(data, k)]

-----------------------------------------------------------------------------
(* The window of a file: what its name and its metafile say. *)

NoWindow == [op_min |-> 0, op_max |-> 0, expiry_min |-> 0, expiry_max |-> 0, count |-> 0]

Smaller(a, b) == IF a < b THEN a ELSE b
Larger(a, b) == IF a < b THEN b ELSE a

\* Window::new and Window::update.
WindowWith(w, e) ==
    IF w = NoWindow
    THEN [op_min |-> Ts(e), op_max |-> Ts(e),
          expiry_min |-> Expiry(e), expiry_max |-> Expiry(e), count |-> 1]
    ELSE [op_min |-> Smaller(w.op_min, Ts(e)), op_max |-> Larger(w.op_max, Ts(e)),
          expiry_min |-> Smaller(w.expiry_min, Expiry(e)),
          expiry_max |-> Larger(w.expiry_max, Expiry(e)),
          count |-> w.count + 1]

\* The window recomputed by scanning the first n records of a file.
ScannedWindow(data, n) ==
    LET upTo[k \in 0..n] ==
            IF k = 0 THEN NoWindow ELSE WindowWith(upTo[k - 1], EventAt(data, k))
    IN  upTo[n]

-----------------------------------------------------------------------------
(* The directory.                                                           *)
(*   open    units of the open file, name its start time (0: no open file)  *)
(*   synced  how many units of it an fsync has covered                      *)
(*   done    finalized files in the order they were renamed: data, the      *)
(*           window in the name, whether the metafile is there, units synced*)

EmptyDir == [open |-> <<>>, name |-> 0, names |-> 0, synced |-> 0, done |-> <<>>]

HasOpen(d) == d.name # 0

\* create_open_file: names are fresh, the clock has moved since the last one.
WithNewOpen(d) ==
    [d EXCEPT !.open = <<>>, !.name = d.names + 1, !.names = d.names + 1, !.synced = 0]

Written(d, units) == [d EXCEPT !.open = d.open \o units]
Fsynced(d) == [d EXCEPT !.synced = Len(d.open)]

\* rename(open_path, final_path).
Renamed(d, w) ==
    [d EXCEPT !.done = Append(d.done, [data |-> d.open, window |-> w,
                                       meta |-> FALSE, synced |-> d.synced]),
              !.open = <<>>, !.name = 0, !.synced = 0]

\* write_meta_atomic: temporary file, fsync, rename, directory sync.
WithMeta(d) == [d EXCEPT !.done[Len(d.done)].meta = TRUE]

\* What a reader of the whole series gets, file after file.
Readable(d) ==
    LET files[i \in 0..Len(d.done)] ==
            IF i = 0 THEN <<>> ELSE files[i - 1] \o ParseFile(d.done[i].data)
    IN  files[Len(d.done)] \o ParseFile(d.open)
=============================================================================
