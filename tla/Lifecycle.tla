----------------------------- MODULE Lifecycle -----------------------------
(***************************************************************************)
(* One node's lives on one disk: the boot gate, the marker rounds, the     *)
(* deferred latch and the graceful stop (ffi.rs, marker_store.rs), with a  *)
(* crash possible between any two durable writes.                          *)
(*                                                                         *)
(* An identity is the system id (fixed here) and a life, the crash         *)
(* counter.  A marker is written in two places, the superblock first and   *)
(* then the single-file projection.  A durable write that fails leaves the *)
(* node where a crash before the write does, so failures are crashes here, *)
(* except the deferred latch, which retries.  The engine's classification  *)
(* (vrr::lifecycle) and superblock quorum (tbio) are external.             *)
(***************************************************************************)
EXTENDS Integers

CONSTANTS
    MaxLife,      \* u16::MAX: the last life the crash counter can name
    GenesisEra,   \* the era of the deployment's own descriptor
    MaxEra,       \* bound on reconfigurations
    MaxTable      \* bound on lock table versions

ASSUME LifecycleAssumption ==
    /\ MaxLife \in Nat \ {0}
    /\ GenesisEra \in Nat
    /\ MaxEra \in Nat
    /\ MaxTable \in Nat

VARIABLES
    superblock,  \* the marker quorum's verdict: [life, word], or Absent
    projection,  \* the single file's marker
    viewRecord,  \* the era in the stop's view record, or NoEra
    artefact,    \* the lock table version the state store holds
    pc,          \* where the process is; "down" between processes
    life,        \* the identity this process runs under
    verdict,     \* how the boot was classified
    seated,      \* does it hold a Running session (else a deferred latch)?
    era,         \* the folded configuration era
    table,       \* the lock table version in memory
    loaded,      \* state_loaded
    versions,    \* history: table versions made so far
    spoke,       \* history: has this process emitted anything?
    burnt,       \* history: lives that spoke and ended without a clean stop
    lastTable    \* history: the table the last cleanly stopped process ended with

durable == <<superblock, projection, viewRecord, artefact>>
memory == <<life, verdict, seated, era, table, loaded, spoke>>
history == <<versions, burnt, lastTable>>
vars == <<durable, pc, memory, history>>

Marker(n, word) == [life |-> n, word |-> word]
Absent == Marker(0, "absent")
NoEra == 0 - 1
NoTable == 0

Init ==
    /\ superblock = Absent /\ projection = Absent
    /\ viewRecord = NoEra /\ artefact = NoTable
    /\ pc = "down"
    /\ life = 0 /\ verdict = "none" /\ seated = FALSE
    /\ era = GenesisEra /\ table = NoTable /\ loaded = FALSE /\ spoke = FALSE
    /\ versions = 0 /\ burnt = {} /\ lastTable = NoTable

(* ------------------------------- boot_gate ------------------------------ *)

\* read_copies_disk: the superblock, else the projection, else a first life.
ReadCopies == IF superblock # Absent THEN superblock ELSE projection

\* lifecycle::boot (external): only a finished stop is a clean one.
Classify(marker) ==
    IF marker = Absent THEN "first" ELSE IF marker.word = "flushed" THEN "clean" ELSE "crashed"

\* The identity of the next process: genesis, the same, or the next life.
NextIdentity(marker) ==
    CASE Classify(marker) = "first" -> 1
      [] Classify(marker) = "clean" -> marker.life
      [] Classify(marker) = "crashed" -> marker.life + 1

Boot ==
    /\ pc = "down"
    /\ Classify(ReadCopies) = "crashed" => ReadCopies.life < MaxLife  \* BootError::Exhausted
    /\ life' = NextIdentity(ReadCopies)
    /\ verdict' = Classify(ReadCopies)
    /\ pc' = "gate superblock"
    /\ seated' = FALSE /\ era' = GenesisEra /\ table' = NoTable
    /\ loaded' = FALSE /\ spoke' = FALSE
    /\ UNCHANGED <<durable, history>>

\* Mutant: only a crashed boot writes the running sentinel.
GateSuperblockCrashedOnly ==
    /\ pc = "gate superblock"
    /\ superblock' = IF verdict = "clean" THEN superblock ELSE Marker(life, "unflushed")
    /\ pc' = "gate projection"
    /\ UNCHANGED <<projection, viewRecord, artefact, memory, history>>

\* The latch of a first or clean boot, and the emission gate of a crashed
\* one: the running sentinel under this process's identity, both places.
GateSuperblock ==
    /\ pc = "gate superblock"
    /\ superblock' = Marker(life, "unflushed")
    /\ pc' = "gate projection"
    /\ UNCHANGED <<projection, viewRecord, artefact, memory, history>>

GateProjection ==
    /\ pc = "gate projection"
    /\ projection' = Marker(life, "unflushed")
    /\ pc' = "construct"
    /\ UNCHANGED <<superblock, viewRecord, artefact, memory, history>>

(* ----------------------------- node_from_sink --------------------------- *)

\* The assertion: without a replacement pair the identity is the descriptor's,
\* and descriptors name first lives only (provisioned_identity).
IdentityAsserted == verdict = "crashed" \/ life = 1

\* A clean boot resumes the recorded view, in the descriptor's era only.
ViewAccepted == verdict = "clean" /\ viewRecord # NoEra => viewRecord = GenesisEra

Construct ==
    /\ pc = "construct"
    /\ IdentityAsserted /\ ViewAccepted
    /\ pc' = "up"
    /\ seated' = (verdict # "crashed")
    /\ UNCHANGED <<durable, life, verdict, era, table, loaded, spoke, history>>

\* The failed assertion panics, the refused record returns CONFIG: no node.
ConstructRefused ==
    /\ pc = "construct"
    /\ ~(IdentityAsserted /\ ViewAccepted)
    /\ pc' = "down"
    /\ UNCHANGED <<durable, memory, history>>

(* -------------------------------- running ------------------------------- *)

\* The node speaks to its peers under its identity.
Emit ==
    /\ pc = "up" /\ spoke' = TRUE
    /\ UNCHANGED <<durable, pc, life, verdict, seated, era, table, loaded, history>>

\* load_state_on_demand: once, from a clean stop's artefact only.
Loaded == IF loaded \/ verdict # "clean" THEN table ELSE artefact

\* A committed operation is executed on the loaded table.
Apply ==
    /\ pc = "up" /\ versions < MaxTable
    /\ versions' = versions + 1
    /\ table' = versions'
    /\ loaded' = TRUE /\ spoke' = TRUE
    /\ UNCHANGED <<durable, pc, life, verdict, seated, era, burnt, lastTable>>

Reconfigure ==
    /\ pc = "up" /\ era < MaxEra
    /\ era' = era + 1 /\ spoke' = TRUE
    /\ UNCHANGED <<durable, pc, life, verdict, seated, table, loaded, history>>

\* settle_deferred_latch once the core has rejoined: the same two writes; a
\* failure between them keeps the latch deferred.
DeferredLatchSuperblock ==
    /\ pc = "up" /\ ~seated
    /\ superblock' = Marker(life, "unflushed")
    /\ pc' = "deferred projection"
    /\ UNCHANGED <<projection, viewRecord, artefact, memory, history>>

DeferredLatchProjection ==
    /\ pc = "deferred projection"
    /\ projection' = Marker(life, "unflushed")
    /\ seated' = TRUE
    /\ pc' = "up"
    /\ UNCHANGED <<superblock, viewRecord, artefact, life, verdict, era, table, loaded, spoke, history>>

DeferredLatchFails ==
    /\ pc = "deferred projection"
    /\ pc' = "up"
    /\ UNCHANGED <<durable, memory, history>>

(* ------------------------------ Node::stop ------------------------------ *)

Burn == IF spoke THEN burnt \cup {life} ELSE burnt

\* Without a session the stop drains and exits; the marker stays as it is.
StopUnseated ==
    /\ pc = "up" /\ ~seated
    /\ pc' = "down"
    /\ burnt' = Burn
    /\ UNCHANGED <<durable, memory, versions, lastTable>>

StopFirstSuperblock ==
    /\ pc = "up" /\ seated
    /\ superblock' = Marker(life, "stopped")
    /\ pc' = "stop projection"
    /\ UNCHANGED <<projection, viewRecord, artefact, memory, history>>

StopFirstProjection ==
    /\ pc = "stop projection"
    /\ projection' = Marker(life, "stopped")
    /\ pc' = "stop view"
    /\ UNCHANGED <<superblock, viewRecord, artefact, memory, history>>

StopViewRecord ==
    /\ pc = "stop view"
    /\ viewRecord' = era
    /\ pc' = "stop flush"
    /\ UNCHANGED <<superblock, projection, artefact, memory, history>>

\* Mutant: the stop flushes what is in memory without loading it first.
StopFlushUnloaded ==
    /\ pc = "stop flush"
    /\ artefact' = table
    /\ loaded' = TRUE
    /\ table' = Loaded
    /\ pc' = "stop final superblock"
    /\ UNCHANGED <<superblock, projection, viewRecord, life, verdict, seated, era, spoke, history>>

\* The sink drains, an unloaded table is loaded, the whole table is flushed.
StopFlush ==
    /\ pc = "stop flush"
    /\ artefact' = Loaded
    /\ table' = Loaded
    /\ loaded' = TRUE
    /\ pc' = "stop final superblock"
    /\ UNCHANGED <<superblock, projection, viewRecord, life, verdict, seated, era, spoke, history>>

StopFinalSuperblock ==
    /\ pc = "stop final superblock"
    /\ superblock' = Marker(life, "flushed")
    /\ lastTable' = table
    /\ pc' = "stop final projection"
    /\ UNCHANGED <<projection, viewRecord, artefact, memory, versions, burnt>>

StopFinalProjection ==
    /\ pc = "stop final projection"
    /\ projection' = Marker(life, "flushed")
    /\ pc' = "down"
    /\ UNCHANGED <<superblock, viewRecord, artefact, memory, history>>

(* ------------------------------ environment ----------------------------- *)

\* A crash at any point of a process's life.  Its identity is burnt unless the
\* stop had already sealed it, or it never spoke.
Crash ==
    /\ pc # "down"
    /\ pc' = "down"
    /\ burnt' = IF pc = "stop final projection" THEN burnt ELSE Burn
    /\ UNCHANGED <<durable, memory, versions, lastTable>>

\* The documented recovery from a corrupt superblock: the operator deletes it
\* and the next boot is seeded from the projection.
DeleteSuperblock ==
    /\ pc = "down" /\ superblock # Absent
    /\ superblock' = Absent
    /\ UNCHANGED <<projection, viewRecord, artefact, pc, memory, history>>

Next ==
    \/ Boot \/ GateSuperblock \/ GateProjection \/ Construct \/ ConstructRefused
    \/ Emit \/ Apply \/ Reconfigure
    \/ DeferredLatchSuperblock \/ DeferredLatchProjection \/ DeferredLatchFails
    \/ StopUnseated \/ StopFirstSuperblock \/ StopFirstProjection \/ StopViewRecord
    \/ StopFlush \/ StopFinalSuperblock \/ StopFinalProjection
    \/ Crash \/ DeleteSuperblock

Spec == Init /\ [][Next]_vars

(* ------------------------------ properties ------------------------------ *)

Words == {"unflushed", "stopped", "flushed"}
Markers == {Absent} \cup [life : Nat \ {0}, word : Words]
Gating == {"gate superblock", "gate projection"}
Serving == {"construct", "up", "deferred projection"}
Stopping == {"stop projection", "stop view", "stop flush", "stop final superblock",
             "stop final projection"}

TypeOK ==
    /\ superblock \in Markers /\ projection \in Markers
    /\ viewRecord \in Nat \cup {NoEra} /\ artefact \in Nat
    /\ pc \in {"down"} \cup Gating \cup Serving \cup Stopping
    /\ life \in Nat /\ (pc # "down" => life > 0)
    /\ verdict \in {"none", "first", "clean", "crashed"}
    /\ seated \in BOOLEAN /\ loaded \in BOOLEAN /\ spoke \in BOOLEAN
    /\ era \in Nat /\ table \in Nat /\ versions \in Nat /\ lastTable \in Nat
    /\ burnt \subseteq Nat \ {0}

\* The boot gate's purpose: no process ever runs under a life that an earlier
\* process spoke under and did not stop cleanly -- wherever the earlier one
\* crashed, and also when the operator re-seeds the superblock from the
\* projection.
NoBurntLifeRuns == pc # "down" => life \notin burnt

\* A marker keeps life d from being taken up again.
Fences(marker, d) == marker.life > d \/ (marker.life = d /\ marker.word # "flushed")

\* What each place of the code has made durable so far.
MarkersFollowTheCode ==
    /\ pc \in Gating => ~spoke
    /\ pc = "gate projection" => superblock = Marker(life, "unflushed")
    /\ pc \in Serving \cup {"stop projection"} => projection = Marker(life, "unflushed")
    /\ pc \in Serving => superblock = Marker(life, "unflushed")
    /\ pc \in Stopping \ {"stop final projection"} => superblock = Marker(life, "stopped")
    /\ pc \in Stopping \ {"stop projection"} => projection = Marker(life, "stopped")
    /\ pc = "stop final projection" => superblock = Marker(life, "flushed")

\* The inductive invariant behind NoBurntLifeRuns: both copies of the marker
\* fence every burnt life, and a running life is above all of them.
FenceInv ==
    /\ TypeOK
    /\ MarkersFollowTheCode
    /\ \A d \in burnt : /\ superblock # Absent => Fences(superblock, d)
                        /\ Fences(projection, d)
                        /\ pc # "down" => life > d

\* A clean boot that has not loaded the state artefact yet would load the very
\* table the last cleanly stopped process ended with: a process in between
\* never leaves an older, emptier or unfinished artefact behind that a clean
\* verdict vouches for.
CleanBootLoadsLastTable ==
    pc # "down" /\ verdict = "clean" /\ ~loaded => artefact = lastTable

\* The inductive invariant behind it: a flushed marker, in either place, is
\* only ever found beside the artefact of the stop that wrote it.
TableInv ==
    /\ superblock.word = "flushed" \/ projection.word = "flushed" => artefact = lastTable
    /\ pc = "stop final superblock" => artefact = table
    /\ pc \in {"stop final superblock", "stop final projection"} => loaded
    /\ CleanBootLoadsLastTable

\* ffi.rs, the assertion of node_from_sink ("the announced identity does not
\* follow the marker pair"), and the stop's "the next boot continues under the
\* same identity": the assertion holds whenever it is reached.
IdentityAssertionHolds == pc = "construct" => IdentityAsserted
=============================================================================
