------------------------------ MODULE WalStore ------------------------------
(***************************************************************************)
(* A lock table over the WAL snapshot store (wal_snapshot.rs), mounted     *)
(* where a node mounts its state store: the changed set, the two streams,  *)
(* the steady tick, the stop's tick and flush, the boot's load and forget. *)
(*                                                                         *)
(* The engine behind the C ABI (tbio) is external: two streams whose live  *)
(* sets it mirrors, a submit it may refuse, a flush that it refuses unless *)
(* the caller's live sets equal the mirrors, and a scan at open that skips *)
(* expired records.  Encoding, stamps and rings are abstracted; the table  *)
(* that a dirty boot rebuilds from the replica stream is the one it had.   *)
(* The lazy load is taken at boot: until the first operation or the stop   *)
(* nothing reads the table.                                                *)
(***************************************************************************)
EXTENDS LockService

CONSTANTS
    Drift,        \* the scan's clock-drift threshold, in ms
    MaxRefusals   \* bound on refused submits

ASSUME WalStoreAssumption == Drift \in Nat /\ MaxRefusals \in Nat

VARIABLES
    changed,   \* locks noted since the last completed submit
    tracked,   \* the wrapper's identities of named locks: [lease_id, entry, kept]
    eph,       \* the engine's ephemeral live set: lock -> record
    dur,       \* the engine's durable live set: lock -> frame
    phase,     \* "up", "flush" (the stop's tick has landed) or "down"
    vouched,   \* did the stop end with the flushed marker?
    dead,      \* the forgotten store could not reopen
    refusals   \* refused submits so far

walVars == <<changed, tracked, eph, dur, phase, vouched, dead, refusals>>
allVars == <<vars, walVars>>

Frame(lease, entry) == [lease |-> lease, entry |-> entry]
NoFrame == Frame(NoLease, NoEntry)
Untracked == [lease_id |-> 0, entry |-> NoEntry, kept |-> FALSE]

\* A stored record with a name is a durable lock, one without an ephemeral.
Named(l) == Stored(svc.locks[l]) /\ svc.durable[l].name # NoName
Unnamed(l) == Stored(svc.locks[l]) /\ svc.durable[l].name = NoName
Tracked(l) == tracked[l] # Untracked

WalInit ==
    /\ Init
    /\ changed = {}
    /\ tracked = [l \in LockIds |-> Untracked]
    /\ eph = [l \in LockIds |-> NoLease]
    /\ dur = [l \in LockIds |-> NoFrame]
    /\ phase = "up" /\ vouched = FALSE /\ dead = FALSE /\ refusals = 0

(* ------------------------ operations on the table ----------------------- *)

\* Every committed transition notes its lock.
Note(l, transition) ==
    /\ phase = "up"
    /\ changed' = IF transition = "none" THEN changed ELSE changed \cup {l}
    /\ UNCHANGED <<tracked, eph, dur, phase, vouched, dead, refusals>>

WalSet(req) == Set(req) /\ Note(req.lock, ExecuteSet(svc, now, req).transition)
WalRelease(req) == Release(req) /\ Note(req.lock, ExecuteRelease(svc, now, req).transition)
WalBreak(req) == Break(req) /\ Note(req.lock, ExecuteBreak(svc, now, req).transition)

(* ---------------------------- the steady tick --------------------------- *)

\* durable_frame_kept: the identity stands, without holder and expiry.
KeptLease(id) == [lease_id |-> id, holder |-> Nil, expiry |-> 0, window |-> 0]
KeptFrame(t) == Frame(KeptLease(t.lease_id), t.entry)

\* A named lease: kept when it has no expiry, else live.
LeaseFrame(l) ==
    IF svc.locks[l].expiry = 0
    THEN Frame(KeptLease(svc.locks[l].lease_id), svc.durable[l])
    ELSE Frame(svc.locks[l], svc.durable[l])

Identity(l) ==
    [lease_id |-> svc.locks[l].lease_id, entry |-> svc.durable[l], kept |-> svc.locks[l].expiry = 0]

\* The noted locks that ride the ephemeral stream (a gone one as a tombstone)
\* and the durable one; a gone lock already flagged kept rides neither.
Records == {l \in changed : Unnamed(l) \/ (~Stored(svc.locks[l]) /\ ~Tracked(l))}
Frames == {l \in changed : Named(l) \/ (~Stored(svc.locks[l]) /\ Tracked(l) /\ ~tracked[l].kept)}

\* The bookkeeping is updated while the batch is built, before any submit.
TrackedAfter ==
    [l \in LockIds |-> IF l \notin Frames THEN tracked[l]
                       ELSE IF Named(l) THEN Identity(l) ELSE [tracked[l] EXCEPT !.kept = TRUE]]
EphAfter == [l \in LockIds |-> IF l \in Records THEN svc.locks[l] ELSE eph[l]]
DurAfter == [l \in LockIds |-> IF l \notin Frames THEN dur[l]
                               ELSE IF Named(l) THEN LeaseFrame(l) ELSE KeptFrame(tracked[l])]

SubmitLands ==
    /\ ~dead
    /\ tracked' = TrackedAfter /\ eph' = EphAfter /\ dur' = DurAfter
    /\ changed' = {}
    /\ UNCHANGED refusals

\* A full ring or an outstanding batch; the ephemeral stream goes first.
SubmitRefused ==
    /\ ~dead /\ refusals < MaxRefusals
    /\ tracked' = TrackedAfter
    /\ \/ Records # {} /\ eph' = eph
       \/ Frames # {} /\ eph' = EphAfter
    /\ refusals' = refusals + 1
    /\ UNCHANGED <<changed, dur>>

Tick ==
    /\ phase = "up"
    /\ SubmitLands \/ SubmitRefused
    /\ UNCHANGED <<vars, phase, vouched, dead>>

(* -------------------------------- the stop ------------------------------ *)

StopTick ==
    /\ phase = "up" /\ SubmitLands
    /\ phase' = "flush"
    /\ UNCHANGED <<vars, vouched, dead>>

\* A refused tick, or the dead store's pump, fails the stop: the marker stays
\* at the first round.
StopTickRefused ==
    /\ phase = "up"
    /\ SubmitRefused \/ (dead /\ UNCHANGED <<changed, tracked, eph, dur, refusals>>)
    /\ phase' = "down" /\ vouched' = FALSE
    /\ UNCHANGED <<vars, dead>>

\* What the flush writes: every stored record, and a kept frame for every
\* tracked identity the table has no named record of.
FlushRecords == [l \in LockIds |-> IF Unnamed(l) THEN svc.locks[l] ELSE NoLease]
FlushFrames == [l \in LockIds |-> IF Named(l) THEN LeaseFrame(l)
                                  ELSE IF Tracked(l) THEN KeptFrame(tracked[l]) ELSE NoFrame]
FlushTracked == [l \in LockIds |-> IF Named(l) THEN Identity(l)
                                   ELSE IF Tracked(l) THEN [tracked[l] EXCEPT !.kept = TRUE]
                                   ELSE tracked[l]]

\* wal_flush_sync reconciles both live sets against the engine's mirrors.
Reconciles == FlushRecords = eph /\ FlushFrames = dur

Flush ==
    /\ phase = "flush"
    /\ tracked' = FlushTracked
    /\ phase' = "down"
    /\ vouched' = Reconciles
    /\ UNCHANGED <<vars, changed, eph, dur, dead, refusals>>

(* ------------------------------ crash and boot -------------------------- *)

Crash ==
    /\ phase # "down"
    /\ phase' = "down" /\ vouched' = FALSE
    /\ UNCHANGED <<vars, changed, tracked, eph, dur, dead, refusals>>

\* The open scan skips records expired past the drift threshold.
Survives(lease) == lease.expiry + Drift > now
ScannedEph == [l \in LockIds |-> IF Survives(eph[l]) THEN eph[l] ELSE NoLease]
ScannedDur == [l \in LockIds |-> IF dur[l].lease.expiry = 0 \/ Survives(dur[l].lease)
                                 THEN dur[l] ELSE NoFrame]

\* Mutant: only the ephemeral stream is read back.
LoadedTableEphemeral ==
    [locks |-> ScannedEph,
     generations |-> [l \in LockIds |-> ScannedEph[l].lease_id],
     durable |-> [l \in LockIds |-> NoEntry]]

\* load(): both streams' live sets as one table, or nothing when an id is in
\* both; the generations are those of the records, the counters the frames'.
LoadedTable ==
    LET row(l) == IF Stored(ScannedEph[l]) THEN Frame(ScannedEph[l], NoEntry) ELSE ScannedDur[l]
    IN IF \E l \in LockIds : Stored(ScannedEph[l]) /\ Stored(ScannedDur[l].lease)
       THEN EmptyService
       ELSE [locks |-> [l \in LockIds |-> row(l).lease],
             generations |-> [l \in LockIds |-> row(l).lease.lease_id],
             durable |-> [l \in LockIds |-> row(l).entry]]

CleanBoot ==
    /\ phase = "down" /\ vouched
    /\ svc' = Restore(LoadedTable)
    /\ changed' = {l \in LockIds : Stored(LoadedTable.locks[l])}
    /\ tracked' = [l \in LockIds |-> Untracked]
    /\ eph' = ScannedEph /\ dur' = ScannedDur
    /\ phase' = "up" /\ vouched' = FALSE
    /\ UNCHANGED <<now, told, minted, dead, refusals>>

\* forget_artifact: the file is removed and reopened empty, or the store dies.
DirtyBoot ==
    /\ phase = "down" /\ ~vouched
    /\ changed' = {l \in LockIds : svc.generations[l] > 0}
    /\ tracked' = [l \in LockIds |-> Untracked]
    /\ eph' = [l \in LockIds |-> NoLease] /\ dur' = [l \in LockIds |-> NoFrame]
    /\ dead' \in BOOLEAN
    /\ phase' = "up"
    /\ UNCHANGED <<vars, vouched, refusals>>

WalNext ==
    \/ \E req \in SetRequests : WalSet(req)
    \/ \E req \in ReleaseRequests(0..MaxGeneration) : WalRelease(req)
    \/ \E req \in BreakRequests : WalBreak(req)
    \/ Clock /\ UNCHANGED walVars
    \/ Tick \/ StopTick \/ StopTickRefused \/ Flush
    \/ Crash \/ CleanBoot \/ DirtyBoot

WalSpec == WalInit /\ [][WalNext]_allVars

(* ------------------------------ properties ------------------------------ *)

WalTypeOK ==
    /\ TypeOK
    /\ changed \subseteq LockIds
    /\ \A l \in LockIds : /\ tracked[l].lease_id \in Nat /\ tracked[l].entry \in DurableEntry
                          /\ eph[l] \in CoreLease
                          /\ dur[l].lease \in CoreLease /\ dur[l].entry \in DurableEntry
    /\ phase \in {"up", "flush", "down"}
    /\ vouched \in BOOLEAN /\ dead \in BOOLEAN
    /\ refusals \in 0..MaxRefusals

\* wal_snapshot.rs: "The streams' id spaces are separated by design; an id in
\* both is content nothing vouches for" (load() then drops the whole table):
\* although a lock may change from unnamed to named while it is held, an
\* artefact the flushed marker vouches for never has an id in both streams. The
\* types are part of it.
VouchedStreamsAreDisjoint ==
    /\ WalTypeOK
    /\ vouched => \A l \in LockIds : ~(Stored(eph[l]) /\ Stored(dur[l].lease))

\* wal-snapshot.md: the stop's tick runs before the eager flush "so the flush
\* reconciles against a caught-up mirror": once that tick has landed, what the
\* flush is about to write is what the mirrors hold.
FlushReconciles == phase = "flush" => Reconciles
=============================================================================
