----------------------------- MODULE BenchStore -----------------------------
(***************************************************************************)
(* The bench harness's store of one node identity (bench_store.rs): the    *)
(* marker store in the driver's memory and the discipline automaton that   *)
(* holds every store call to what the scenario has signalled.              *)
(*                                                                         *)
(* A discipline d is a record.  The calls are operators on it; a call the  *)
(* automaton does not expect is refused, and the first one is kept in      *)
(* d.surprise.  The recorded marker word is never read back (a boot read   *)
(* is answered from the phase) and is left out.                            *)
(***************************************************************************)
EXTENDS Naturals

Phases == {"FirstBoot", "Latch", "Running", "ExpectStopping", "ExpectDrain", "ExpectStopped",
           "CleanBoot", "DirtyBoot", "Unseated", "StopFromUnseated"}

\* What may have surprised the driver first.
Surprises == {"none", "stop signal", "crash signal", "read", "commit", "drain"}

NewDiscipline ==
    [phase |-> "FirstBoot", incarnation |-> 0, bumps |-> 0, surprise |-> "none"]

\* Only the first surprise is kept.
Violate(d, what) == IF d.surprise = "none" THEN [d EXCEPT !.surprise = what] ELSE d

SignalCleanStop(d) ==
    CASE d.phase = "Running"  -> [d EXCEPT !.phase = "ExpectStopping"]
      [] d.phase = "Unseated" -> [d EXCEPT !.phase = "StopFromUnseated"]
      [] OTHER                -> Violate(d, "stop signal")

SignalCrash(d) ==
    IF d.phase \in {"Running", "Unseated"} THEN [d EXCEPT !.phase = "DirtyBoot"]
    ELSE Violate(d, "crash signal")

IsRunning(d) == d.surprise = "none" /\ d.phase \in {"Running", "Unseated"}

AtRest(d) ==
    /\ d.surprise = "none"
    /\ d.phase \in {"Running", "Unseated", "CleanBoot", "DirtyBoot", "StopFromUnseated"}

(* ----------------------------- the store calls -------------------------- *)

\* on_read: what the boot read is answered.
ReadVerdict(d) ==
    CASE d.phase = "FirstBoot" -> "none"
      [] d.phase = "CleanBoot" -> "stopped"
      [] d.phase \in {"DirtyBoot", "StopFromUnseated"} -> "joining"
      [] OTHER -> "refused"

OnRead(d) ==
    LET reset == [d EXCEPT !.bumps = 0]
    IN  CASE ReadVerdict(d) \in {"none", "stopped"} -> [reset EXCEPT !.phase = "Latch"]
          [] ReadVerdict(d) = "joining" -> [reset EXCEPT !.phase = "Unseated"]
          [] ReadVerdict(d) = "refused" -> Violate(reset, "read")

\* Mutant: a stop signalled in the deferred window expects no more commits.
CommitPhaseNoLateSeat(d, incarnation, marker) ==
    CASE d.phase = "Latch" /\ marker = "sentinel" -> "Running"
      [] d.phase = "ExpectStopping" /\ marker = "stopping" -> "ExpectDrain"
      [] d.phase = "Unseated" /\ marker = "sentinel" /\ d.bumps = 0
           /\ incarnation = d.incarnation + 1 -> "Unseated"
      [] d.phase = "Unseated" /\ marker = "sentinel" /\ d.bumps > 0
           /\ incarnation = d.incarnation -> "Running"
      [] d.phase = "ExpectStopped" /\ marker = "stopped" -> "CleanBoot"
      [] d.phase = "DirtyBoot" /\ marker = "sentinel"
           /\ incarnation = d.incarnation -> "DirtyBoot"
      [] OTHER -> "refused"

\* on_commit: the phase after an expected commit, "refused" after any other.
\* Both running sentinels, joining and restarting, are "sentinel".
CommitPhase(d, incarnation, marker) ==
    CASE d.phase = "Latch" /\ marker = "sentinel" -> "Running"
      [] d.phase = "ExpectStopping" /\ marker = "stopping" -> "ExpectDrain"
      [] d.phase = "Unseated" /\ marker = "sentinel" /\ d.bumps = 0
           /\ incarnation = d.incarnation + 1 -> "Unseated"
      [] d.phase = "Unseated" /\ marker = "sentinel" /\ d.bumps > 0
           /\ incarnation = d.incarnation -> "Running"
      [] d.phase = "ExpectStopped" /\ marker = "stopped" -> "CleanBoot"
      [] d.phase = "StopFromUnseated" /\ marker = "sentinel"
           /\ incarnation = d.incarnation -> "ExpectStopping"
      [] d.phase = "DirtyBoot" /\ marker = "sentinel"
           /\ incarnation = d.incarnation -> "DirtyBoot"
      [] OTHER -> "refused"

CommitAccepted(d, incarnation, marker) == CommitPhase(d, incarnation, marker) # "refused"

OnCommit(d, incarnation, marker) ==
    IF ~CommitAccepted(d, incarnation, marker) THEN Violate(d, "commit")
    ELSE [d EXCEPT !.phase = CommitPhase(d, incarnation, marker),
                   !.incarnation = incarnation,
                   !.bumps = IF d.phase = "Unseated" THEN d.bumps + 1 ELSE d.bumps]

DrainAccepted(d) == d.phase = "ExpectDrain"

OnDrain(d) ==
    IF DrainAccepted(d) THEN [d EXCEPT !.phase = "ExpectStopped"] ELSE Violate(d, "drain")
=============================================================================
