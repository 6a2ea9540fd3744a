--------------------------- MODULE ShutdownCheck ---------------------------
(***************************************************************************)
(* The shutdown-restart consistency check (shutdown_check.rs) over the     *)
(* lives of Lifecycle.  A node leaves two trails, its log and its markers; *)
(* the check reads both from a run directory, between two processes, and   *)
(* reports where they disagree.                                            *)
(*                                                                         *)
(* The log is a sequence of the kinds of line the check tells apart.  It   *)
(* is written by a background thread (init_tracing), so the lines of a     *)
(* process that does not return from serve may be lost from any point on.  *)
(* The daily log files of one node are read in order and are one log here. *)
(* The timestamp comparison of ordering_findings is left out.              *)
(***************************************************************************)
EXTENDS Lifecycle, Sequences

CONSTANT MaxLines       \* bound: no process is started over a log of that length

ASSUME ShutdownCheckAssumption == MaxLines \in Nat

VARIABLES
    log,        \* the node's log
    from,       \* how much of it earlier processes wrote
    closing,    \* has the stop closed the wire?
    hurt        \* history: how the processes since the last full stop ended

trail == <<log, from, closing, hurt>>

(* --------------------------- reading the log ---------------------------- *)

\* stop_kind: begin, drain and flushed are the stop path's own records.
StopKinds == {"begin", "drain", "flushed"}

Rank(kind) == CASE kind = "begin" -> 0 [] kind = "drain" -> 1 [] kind = "flushed" -> 2

Positions(lines, kind) == {i \in DOMAIN lines : lines[i] = kind}

StopRecords(lines) == {i \in DOMAIN lines : lines[i] \in StopKinds}

\* Mutant: the boot records of later lives are not looked for.
HasLaterLifeNever(lines) == FALSE

\* A boot record after the last flushed one: a later life owns the marker.
HasLaterLife(lines) ==
    \E f \in Positions(lines, "flushed") :
        /\ \A g \in Positions(lines, "flushed") : g <= f
        /\ \E b \in Positions(lines, "boot") : b > f

\* The node's last stop record claims a flush that nothing supersedes.
DemandsFlush(lines) ==
    /\ \E f \in Positions(lines, "flushed") : \A i \in StopRecords(lines) : i <= f
    /\ ~HasLaterLife(lines)

(* ------------------------------ check_node ------------------------------ *)

\* The two copies of the marker against each other.
CopyFindings ==
    IF superblock = Absent \/ projection = Absent THEN {}
    ELSE (IF projection.word # "unflushed" /\ superblock.word = "unflushed"
          THEN {"projection-ahead-of-quorum"} ELSE {})
         \cup (IF projection.life # superblock.life THEN {"identity-mismatch"} ELSE {})

\* A marker that vouches for a stop no log carries.
ReverseFindings(lines) ==
    IF superblock.word \in {"flushed", "stopped"} /\ Positions(lines, "flushed") = {}
    THEN {"marker-without-stop-record"} ELSE {}

\* Mutant: only a missing superblock contradicts the claim.
ClaimFindingsAbsentOnly(lines) ==
    IF DemandsFlush(lines) /\ superblock = Absent
    THEN {"log-claims-flush-no-superblock"} ELSE {}

\* A claimed flush that the superblock does not show.
ClaimFindings(lines) ==
    IF ~DemandsFlush(lines) THEN {}
    ELSE IF superblock = Absent THEN {"log-claims-flush-no-superblock"}
    ELSE IF superblock.word = "unflushed" THEN {"log-claims-flush-marker-not-flushed"}
    ELSE {}

\* ordering_findings: the stop records since the last begin, by rank, and
\* what was logged after the flush the log ends with.
OrderFindings(lines) ==
    LET cycle == {i \in StopRecords(lines) : \A b \in Positions(lines, "begin") : b <= i}
    IN  (IF \E i, j \in cycle : i < j /\ Rank(lines[i]) > Rank(lines[j])
         THEN {"stop-path-out-of-order"} ELSE {})
        \cup (IF /\ DemandsFlush(lines)
                 /\ \E i \in Positions(lines, "work") : \A f \in Positions(lines, "flushed") : f < i
              THEN {"work-after-persist"} ELSE {})

Findings(lines) ==
    CopyFindings \cup ReverseFindings(lines) \cup ClaimFindings(lines) \cup OrderFindings(lines)

(* --------------------------- writing the log ---------------------------- *)

Log(lines) == log' = log \o lines

\* How a process that did not stop fully left things: inside the stop, between
\* the gate's two writes, and whether its boot record is in the log.
Wound(at, kept) ==
    (IF at \in Stopping THEN {"in stop"} ELSE {})
    \cup (IF at = "gate projection" THEN {"in gate"} ELSE {})
    \cup (IF \A i \in from + 1..Len(kept) : kept[i] # "boot" THEN {"silent"} ELSE {"booted"})

\* The process ends without returning from serve: its unwritten lines are lost.
Ends(lines) ==
    \E n \in from..Len(log \o lines) :
        /\ log' = SubSeq(log \o lines, 1, n)
        /\ hurt' = hurt \cup Wound(pc, log')

\* A new process appends to the log it finds.
LoggedBoot ==
    /\ Boot /\ Len(log) < MaxLines
    /\ from' = Len(log) /\ closing' = FALSE
    /\ UNCHANGED <<log, hurt>>

\* node_from_sink: a later life is announced before "node provisioned".
BootLines == IF life > 1 THEN <<"work", "boot">> ELSE <<"boot">>

LoggedConstruct == Construct /\ Log(BootLines) /\ UNCHANGED <<from, closing, hurt>>

\* The identity is asserted before the boot record, the view after it.
LoggedConstructRefused ==
    /\ ConstructRefused
    /\ Ends(IF IdentityAsserted THEN BootLines ELSE << >>)
    /\ UNCHANGED <<from, closing>>

\* The signal's note, then Node::stop closes the wire; from here on the host
\* does nothing but stop.
CloseWire ==
    /\ pc = "up" /\ ~closing
    /\ closing' = TRUE
    /\ Log(<<"begin", "drain">>)
    /\ UNCHANGED <<vars, from, hurt>>

\* Without a session the stop logs a line the check does not know.
LoggedStopUnseated ==
    /\ closing /\ StopUnseated
    /\ Log(<<"work">>) /\ hurt' = hurt \cup {"unseated"}
    /\ UNCHANGED <<from, closing>>

\* The stop's last record follows the last marker write, and the host returns.
LoggedStopFinal ==
    /\ StopFinalProjection
    /\ Log(<<"flushed">>) /\ hurt' = {}
    /\ UNCHANGED <<from, closing>>

\* The process dies after the last marker write and before that record.
DiesAfterFinalWrite ==
    /\ StopFinalProjection
    /\ Ends(<< >>)
    /\ UNCHANGED <<from, closing>>

LoggedCrash == Crash /\ Ends(<< >>) /\ UNCHANGED <<from, closing>>

LoggedDelete ==
    /\ DeleteSuperblock
    /\ hurt' = hurt \cup {"deleted"}
    /\ UNCHANGED <<log, from, closing>>

Unlogged ==
    /\ \/ GateSuperblock \/ GateProjection
       \/ (~closing /\ (Emit \/ Apply \/ Reconfigure \/ DeferredLatchSuperblock))
       \/ DeferredLatchProjection \/ DeferredLatchFails
       \/ (closing /\ StopFirstSuperblock)
       \/ StopFirstProjection \/ StopViewRecord \/ StopFlush \/ StopFinalSuperblock
    /\ UNCHANGED trail

CheckInit == Init /\ log = << >> /\ from = 0 /\ closing = FALSE /\ hurt = {}

CheckNext ==
    \/ LoggedBoot \/ LoggedConstruct \/ LoggedConstructRefused \/ CloseWire
    \/ LoggedStopUnseated \/ LoggedStopFinal \/ DiesAfterFinalWrite
    \/ LoggedCrash \/ LoggedDelete \/ Unlogged

CheckSpec == CheckInit /\ [][CheckNext]_<<vars, trail>>

(* ------------------------------ properties ------------------------------ *)

\* Every finding names something that really happened to the node, between two
\* processes.  A stop that returned clears the report: nothing is found until a
\* later process ends otherwise.  A torn copy pair means a death between the
\* gate's two writes, a contradicted claim a process whose boot record is not in
\* the log (or a deleted superblock), a marker without a record a death inside
\* the stop, work after the flush a later life whose boot record was lost.  The
\* stop path is never out of order.
FindingsNameWhatHappened ==
    pc = "down" =>
        /\ "projection-ahead-of-quorum" \in Findings(log) => "in gate" \in hurt
        /\ "identity-mismatch" \in Findings(log) => "in gate" \in hurt
        /\ "marker-without-stop-record" \in Findings(log) => "in stop" \in hurt
        /\ "log-claims-flush-no-superblock" \in Findings(log) => "deleted" \in hurt
        /\ "log-claims-flush-marker-not-flushed" \in Findings(log) => "silent" \in hurt
        /\ "work-after-persist" \in Findings(log) => "silent" \in hurt
        /\ "stop-path-out-of-order" \notin Findings(log)

\* What a consistent report is worth: when the log ends with a flush and the
\* check finds nothing, the next boot is a clean one and loads the table of the
\* last finished stop.  The one exception: the check accepts a marker that says
\* stopped, so it overlooks a later process that died inside its own stop and
\* lost all its lines.
ConsistentFlushBootsClean ==
    pc = "down" /\ DemandsFlush(log) /\ Findings(log) = {} =>
        \/ Classify(ReadCopies) = "clean" /\ artefact = lastTable
        \/ superblock.word = "stopped" /\ {"in stop", "silent"} \subseteq hurt

Kinds == StopKinds \cup {"boot", "work"}

\* Between two stop records that go back in rank a new stop begins.
StopsInOrder(lines) ==
    \A i, j \in StopRecords(lines) :
        i < j /\ Rank(lines[i]) > Rank(lines[j]) => \E k \in i + 1..j : lines[k] = "begin"

\* What this process wrote: no flushed record before it has returned, and its
\* boot record once it is up.
OwnLines ==
    /\ pc # "down" => \A i \in from + 1..Len(log) : log[i] # "flushed"
    /\ pc \in {"up", "deferred projection"} => \E i \in from + 1..Len(log) : log[i] = "boot"

\* The copies an ended process left, against how it ended.
MarkersTellTheEnd ==
    pc \in {"down", "gate superblock"} =>
        /\ superblock # Absent /\ projection # Absent /\ "in gate" \notin hurt =>
             /\ projection.life = superblock.life
             /\ superblock.word = "unflushed" => projection.word = "unflushed"
        /\ superblock.word = "stopped" => "in stop" \in hurt
        /\ superblock.word = "flushed" /\ Positions(log, "flushed") = {} => "in stop" \in hurt
        /\ superblock = Absent /\ Positions(log, "flushed") # {} => "deleted" \in hurt

\* The log ends with the flush that the superblock shows, or did when it was there.
Sealed ==
    /\ log # << >> /\ log[Len(log)] = "flushed"
    /\ superblock = Absent \/ superblock.word = "flushed"

\* The inductive invariant behind both: besides the fence, a claim of a flush
\* stands between two processes only if the last of them sealed it or a later
\* one left no boot record.
TrailInv ==
    /\ log \in Seq(Kinds) /\ from \in Nat /\ from <= Len(log)
    /\ StopsInOrder(log)
    /\ OwnLines
    /\ MarkersTellTheEnd
    /\ pc = "down" /\ DemandsFlush(log) => Sealed \/ "silent" \in hurt
=============================================================================
