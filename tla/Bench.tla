------------------------------- MODULE Bench -------------------------------
(***************************************************************************)
(* One node of the bench: the driver that signals, kills and respawns it   *)
(* (skaffold_bench_driver.rs), the node process whose marker store is a    *)
(* socket to the driver (marker_store.rs, Backend::Mem), the signal flags  *)
(* of its serve loop (main.rs), and the discipline of BenchStore.          *)
(*                                                                         *)
(* The driver tells the discipline first and signals the process after, so *)
(* every store call the process makes in between meets the new phase.      *)
(***************************************************************************)
EXTENDS BenchStore

CONSTANTS
    MaxLife     \* the last life the crash counter can name

ASSUME BenchAssumption == MaxLife \in Nat \ {0}

VARIABLES
    disc,       \* the discipline
    failure,    \* the run's failure flag
    pc,         \* the node process
    verdict,    \* what its boot read was answered
    life,       \* its identity
    seated,     \* does it hold a Running session?
    flags,      \* the signals it has caught and not yet looked at
    after,      \* after a stop: "exit" or "cycle"
    at,         \* the driver
    op,         \* the signal the driver is about to send
    burnt,      \* history: lives that ran and did not stop cleanly
    hasty,      \* history: did the driver ever signal a node it should not yet have?
    died        \* history: did the process ever end of itself?

node == <<pc, verdict, life, seated, flags, after>>
driver == <<at, op>>
vars == <<disc, failure, node, driver, burnt, hasty, died>>

Booting == {"read", "commit"}
Halting == {"drain", "finish"}

Init ==
    /\ disc = NewDiscipline /\ failure = FALSE
    /\ pc = "read" /\ verdict = "none" /\ life = 0 /\ seated = FALSE
    /\ flags = {} /\ after = "exit"
    /\ at = "ready" /\ op = "none"
    /\ burnt = {} /\ hasty = FALSE /\ died = FALSE

(* ---------------------------- the node process -------------------------- *)

\* handle_line: a refused call, or any earlier surprise, latches the run.
Call(d) == disc' = d /\ failure' = (failure \/ d.surprise # "none")

Burn == IF pc \in {"up"} \cup Halting THEN burnt \cup {life} ELSE burnt

\* The process ends by its own doing: a refused boot, a failed assertion.
Dies == pc' = "down" /\ died' = TRUE /\ UNCHANGED <<verdict, life, seated, flags, after>>

\* The boot read.  A latched run closes the connection instead (serve_socket).
ReadRefused ==
    /\ pc = "read"
    /\ IF failure THEN UNCHANGED <<disc, failure>>
       ELSE ReadVerdict(disc) = "refused" /\ Call(OnRead(disc))
    /\ Dies
    /\ UNCHANGED <<driver, burnt, hasty>>

\* boot_gate: genesis, the stopped life again, or the next one.
Identity ==
    CASE ReadVerdict(disc) = "none" -> 1
      [] ReadVerdict(disc) = "stopped" -> disc.incarnation
      [] OTHER -> disc.incarnation + 1

Read ==
    /\ pc = "read" /\ ~failure /\ ReadVerdict(disc) # "refused"
    /\ Call(OnRead(disc))
    /\ verdict' = ReadVerdict(disc) /\ life' = Identity /\ seated' = FALSE
    /\ pc' = IF Identity <= MaxLife THEN "commit" ELSE "down"     \* BootError::Exhausted
    /\ died' = (died \/ Identity > MaxLife)
    /\ UNCHANGED <<flags, after, driver, burnt, hasty>>

\* The boot's one commit: the latch of a first or clean boot, the emission
\* gate of a crashed one.  A refusal refuses the boot.
BootCommit ==
    /\ pc = "commit"
    /\ Call(OnCommit(disc, life, "sentinel"))
    /\ IF CommitAccepted(disc, life, "sentinel")
       THEN pc' = "construct" /\ UNCHANGED <<verdict, life, seated, flags, after, died>>
       ELSE Dies
    /\ UNCHANGED <<driver, burnt, hasty>>

\* node_from_sink: without a replacement pair the identity is the descriptor's.
Construct ==
    /\ pc = "construct"
    /\ IF verdict = "joining" \/ life = 1
       THEN /\ pc' = "up" /\ seated' = (verdict # "joining")
            /\ UNCHANGED <<verdict, life, flags, after, died>>
       ELSE Dies
    /\ UNCHANGED <<disc, failure, driver, burnt, hasty>>

\* settle_deferred_latch, once the core has rejoined; a refusal is retried.
Seat ==
    /\ pc = "up" /\ ~seated
    /\ Call(OnCommit(disc, life, "sentinel"))
    /\ seated' = CommitAccepted(disc, life, "sentinel")
    /\ UNCHANGED <<pc, verdict, life, flags, after, driver, burnt, hasty, died>>

\* Node::stop has returned: the process exits or boots again.
Returns(how) == pc' = IF how = "exit" THEN "down" ELSE "read"

\* The serve loop looks at its flags in this order.
Wanted ==
    IF "TERM" \in flags THEN "exit" ELSE IF "USR1" \in flags THEN "cycle" ELSE "serve"

TakeFlag == flags' = IF Wanted = "exit" THEN flags ELSE flags \ {"USR1"}

\* Without a session the stop makes no store call.
StopUnseated ==
    /\ pc = "up" /\ Wanted # "serve" /\ ~seated
    /\ TakeFlag /\ Returns(Wanted) /\ burnt' = Burn
    /\ UNCHANGED <<disc, failure, verdict, life, seated, after, driver, hasty, died>>

StopFirst ==
    /\ pc = "up" /\ Wanted # "serve" /\ seated
    /\ TakeFlag /\ after' = Wanted
    /\ Call(OnCommit(disc, life, "stopping"))
    /\ IF CommitAccepted(disc, life, "stopping") THEN pc' = "drain" /\ burnt' = burnt
       ELSE Returns(Wanted) /\ burnt' = Burn
    /\ UNCHANGED <<verdict, life, seated, driver, hasty, died>>

\* A refused drain aborts the process.
StopDrain ==
    /\ pc = "drain"
    /\ Call(OnDrain(disc))
    /\ IF DrainAccepted(disc)
       THEN pc' = "finish" /\ burnt' = burnt
            /\ UNCHANGED <<verdict, life, seated, flags, after, died>>
       ELSE Dies /\ burnt' = Burn
    /\ UNCHANGED <<driver, hasty>>

StopFinish ==
    /\ pc = "finish"
    /\ Call(OnCommit(disc, life, "stopped"))
    /\ Returns(after)
    /\ burnt' = IF CommitAccepted(disc, life, "stopped") THEN burnt ELSE Burn
    /\ UNCHANGED <<verdict, life, seated, flags, after, driver, hasty, died>>

\* Mutant: the dirty cycle ends the process.
DirtyCycleExits ==
    /\ pc = "up" /\ Wanted = "serve" /\ "USR2" \in flags
    /\ flags' = flags \ {"USR2"} /\ pc' = "down" /\ burnt' = Burn
    /\ UNCHANGED <<disc, failure, verdict, life, seated, after, driver, hasty, died>>

\* SIGUSR2: the node is dropped without a stop and booted again in the process.
DirtyCycle ==
    /\ pc = "up" /\ Wanted = "serve" /\ "USR2" \in flags
    /\ flags' = flags \ {"USR2"} /\ pc' = "read" /\ burnt' = Burn
    /\ UNCHANGED <<disc, failure, verdict, life, seated, after, driver, hasty, died>>

(* ------------------------------- the driver ----------------------------- *)

\* The node has not finished the store calls of its boot.
Unready == pc \in Booting

\* clean_stop, crash and cycle: the discipline is told, the process not yet.
\* The first operation follows the spawn without a wait_running of this node.
Signal(s) ==
    /\ at = "ready"
    /\ disc' = IF s \in {"TERM", "USR1"} THEN SignalCleanStop(disc) ELSE SignalCrash(disc)
    /\ op' = s /\ at' = "send" /\ hasty' = (hasty \/ Unready)
    /\ UNCHANGED <<failure, node, burnt, died>>

\* The signal itself; a process that has died takes none.
Deliver(s) ==
    \/ pc = "down" /\ UNCHANGED <<node, burnt>>
    \/ /\ pc # "down" /\ s = "KILL"
       /\ pc' = "down" /\ burnt' = Burn
       /\ UNCHANGED <<verdict, life, seated, flags, after>>
    \/ /\ pc # "down" /\ s # "KILL"
       /\ flags' = flags \cup {s}
       /\ UNCHANGED <<pc, verdict, life, seated, after, burnt>>

Send ==
    /\ at = "send"
    /\ Deliver(op)
    /\ at' = IF op \in {"TERM", "KILL"} THEN "exit" ELSE "wait"
    /\ UNCHANGED <<disc, failure, op, hasty, died>>

\* wait_exit, then spawn: a new process, with no signal caught.
Respawn ==
    /\ at = "exit" /\ pc = "down"
    /\ pc' = "read" /\ flags' = {} /\ at' = "wait"
    /\ UNCHANGED <<disc, failure, verdict, life, seated, after, op, burnt, hasty, died>>

WaitRunning ==
    /\ at = "wait" /\ ~failure /\ IsRunning(disc)
    /\ at' = "ready"
    /\ UNCHANGED <<disc, failure, node, op, burnt, hasty, died>>

\* wait_running meets the failure flag or its deadline: the ladder is left.
LadderFails ==
    /\ at = "wait" /\ at' = "torn"
    /\ UNCHANGED <<disc, failure, node, op, burnt, hasty, died>>

\* teardown: only a running identity is told of its stop; all are sent TERM.
Teardown ==
    /\ at \in {"ready", "torn"}
    /\ disc' = IF IsRunning(disc) THEN SignalCleanStop(disc) ELSE disc
    /\ at' = "last send" /\ hasty' = (hasty \/ Unready \/ ~IsRunning(disc))
    /\ UNCHANGED <<failure, node, op, burnt, died>>

LastSend ==
    /\ at = "last send" /\ Deliver("TERM") /\ at' = "last exit"
    /\ UNCHANGED <<disc, failure, op, hasty, died>>

LastExit ==
    /\ at = "last exit" /\ pc = "down" /\ at' = "done"
    /\ UNCHANGED <<disc, failure, node, op, burnt, hasty, died>>

Process ==
    \/ ReadRefused \/ Read \/ BootCommit \/ Construct
    \/ StopUnseated \/ StopFirst \/ StopDrain \/ StopFinish \/ DirtyCycle

Driver == Send \/ Respawn \/ WaitRunning \/ LastSend \/ LastExit

Next ==
    \/ Process \/ Driver \/ Seat \/ LadderFails \/ Teardown
    \/ \E s \in {"TERM", "KILL", "USR1", "USR2"} : Signal(s)

Spec == Init /\ [][Next]_vars

\* The process runs, and the driver goes on with what it has begun.
FairSpec == Spec /\ WF_vars(Process) /\ WF_vars(Driver)

(* ------------------------------ properties ------------------------------ *)

TypeOK ==
    /\ disc \in [phase : Phases, incarnation : 0..MaxLife, bumps : 0..2, surprise : Surprises]
    /\ failure \in BOOLEAN /\ seated \in BOOLEAN
    /\ pc \in {"down", "construct", "up"} \cup Booting \cup Halting
    /\ verdict \in {"none", "stopped", "joining"}
    /\ life \in 0..MaxLife + 1
    /\ flags \subseteq {"TERM", "USR1", "USR2"} /\ after \in {"exit", "cycle"}
    /\ at \in {"ready", "send", "exit", "wait", "torn", "last send", "last exit", "done"}
    /\ op \in {"none", "TERM", "KILL", "USR1", "USR2"}
    /\ burnt \subseteq 1..MaxLife /\ hasty \in BOOLEAN /\ died \in BOOLEAN

\* "A surprise is the bug being hunted": the discipline is never surprised by a
\* node that follows its protocol, whatever the order of its store calls and the
\* driver's signals, except when the driver was hasty -- it signalled a node that
\* had not finished its boot, or left the ladder and sent TERM to a node it had
\* not told of its stop -- or the node had died of itself before.
SurprisesAreReal == disc.surprise # "none" => hasty \/ died

\* The store fences lives as the disk does: no process runs under a life that
\* an earlier one ran under without finishing its stop.
NoBurntLifeRuns == pc \in {"up"} \cup Halting => life \notin burnt

\* The oracle's last audit: after the teardown the automaton rests, unless the
\* driver was hasty or the node died of itself.
TeardownRests == at = "done" /\ ~hasty /\ ~died => AtRest(disc)

\* The disciplined store reports what happened, fences lives and comes to rest.
StoreIsSound == TypeOK /\ SurprisesAreReal /\ NoBurntLifeRuns /\ TeardownRests

\* Every operation of the ladder comes back to a running node: a cycle or a
\* respawn ends its wait, unless the ladder is left, a store call was refused or
\* the node died of itself.
OperationsComplete ==
    at \in {"send", "exit", "wait"} ~>
        (at \in {"ready", "torn"} \/ disc.surprise # "none" \/ died)
=============================================================================
