------------------------------- MODULE Locks -------------------------------
(***************************************************************************)
(* The lock table of ext/advisory_lock/src/locks.rs: what one committed    *)
(* operation does to one replica's table, as an operator of the table, the *)
(* replica's wallclock and the request.                                    *)
(*                                                                         *)
(* The service wraps the lock machinery of the uvrr core (`vrr::locks`),   *)
(* whose source is not in the repository.  The Core operators model it     *)
(* from how locks.rs calls it and from what the tests see it answer; the   *)
(* two choices nothing in the repository settles are CONSTANTS, so that    *)
(* whatever is proved holds for both answers.                              *)
(*                                                                         *)
(* Abstractions: a holder is a model value (Nil is the all-zero UUID), the *)
(* optional name stands for name and labels (both follow `set.or(prior)`), *)
(* a lock without a record has NoLease (no record has lease_id 0, the      *)
(* first one minted is 1).                                                 *)
(***************************************************************************)
EXTENDS Integers

CONSTANTS
    LockIds,             \* lock_id values
    Holders,             \* client identities a SET may name
    Nil,                 \* the nil holder of a broken lock's keeper record
    Names,               \* display names a SET may carry
    NoName,              \* the absent name
    Windows,             \* lease_ms values, in ms
    RenewMax,            \* u32::MAX, where renew_count saturates
    ReleaseDropsExpired, \* does the core drop an expired record on RELEASE?
    KeeperBreaks         \* does the core break a keeper record again?

ASSUME LocksAssumption ==
    /\ Nil \notin Holders
    /\ NoName \notin Names
    /\ Windows \subseteq Nat
    /\ RenewMax \in Nat
    /\ ReleaseDropsExpired \in BOOLEAN
    /\ KeeperBreaks \in BOOLEAN

(* ------------------------------ the state ------------------------------ *)

\* A stored record of the core, the side table's entry, and the service.
CoreLease == [lease_id : Nat, holder : Holders \cup {Nil}, expiry : Nat, window : Nat]

NoLease == [lease_id |-> 0, holder |-> Nil, expiry |-> 0, window |-> 0]

DurableEntry == [name : Names \cup {NoName}, taken_at_ms : Nat, renew_count : 0..RenewMax]

NoEntry == [name |-> NoName, taken_at_ms |-> 0, renew_count |-> 0]

Service == [locks : [LockIds -> CoreLease],
            generations : [LockIds -> Nat],
            durable : [LockIds -> DurableEntry]]

EmptyService == [locks |-> [l \in LockIds |-> NoLease],
                 generations |-> [l \in LockIds |-> 0],
                 durable |-> [l \in LockIds |-> NoEntry]]

Stored(lease) == lease.lease_id > 0

\* The record is in force at execution time t.
Live(lease, t) == lease.expiry > t

(* ----------------------------- the requests ---------------------------- *)

GetRequests == [op : {"get"}, lock : LockIds]
SetRequests == [op : {"set"}, lock : LockIds, holder : Holders, window : Windows,
                name : Names \cup {NoName}]
ReleaseRequests(leaseIds) ==
    [op : {"release"}, lock : LockIds, holder : Holders, lease_id : leaseIds]
BreakRequests == [op : {"break"}, lock : LockIds]

(* --------------------- the core's machinery (external) ------------------ *)

\* A SET is granted over a free or expired lock, or to the live holder itself.
CoreGrants(old, t, req) ==
    /\ req.window > 0
    /\ Live(old, t) => old.holder = req.holder

\* The granted record: a renewal keeps the generation, a take mints the next.
CoreGrant(old, gen, t, req) ==
    [lease_id |-> IF Live(old, t) THEN old.lease_id ELSE gen + 1,
     holder |-> req.holder, expiry |-> t + req.window, window |-> req.window]

\* RELEASE succeeds idempotently over a free lock, else only by exact match.
CoreReleases(old, t, req) ==
    Live(old, t) => old.holder = req.holder /\ old.lease_id = req.lease_id

CoreAfterRelease(old, t) ==
    IF Live(old, t) \/ ReleaseDropsExpired THEN NoLease ELSE old

CoreBreaks(old) == Stored(old) /\ (old.holder = Nil => KeeperBreaks)

\* The keeper record a break leaves: bumped token, nil holder, never live.
CoreKeeper(old) ==
    [lease_id |-> old.lease_id + 1, holder |-> Nil, expiry |-> 0, window |-> 0]

(* ---------------------------- Service::execute ------------------------- *)

TakenAtOnHolderChange(prior, t) == IF prior = t THEN t + 1 ELSE t

\* Mutant: a SET without a name clears the stored one.
InheritNothing(name, prior) == name

\* `set_name.or(prior_entry.name)`
Inherit(name, prior) == IF name = NoName THEN prior ELSE name

\* Mutant: the renewal counter does not saturate.
SetEntryUnsaturated(old, prior, t, req) ==
    [name |-> Inherit(req.name, prior.name), taken_at_ms |-> prior.taken_at_ms,
     renew_count |-> prior.renew_count + 1]

SetEntry(old, prior, t, req) ==
    IF Live(old, t)
    THEN [name |-> Inherit(req.name, prior.name),
          taken_at_ms |-> prior.taken_at_ms,
          renew_count |-> IF prior.renew_count < RenewMax
                          THEN prior.renew_count + 1 ELSE RenewMax]
    ELSE [name |-> Inherit(req.name, prior.name),
          taken_at_ms |-> TakenAtOnHolderChange(prior.taken_at_ms, t),
          renew_count |-> 0]

\* RELEASE and BREAK zero the counters and keep the identity.
ClearedEntry(prior) == [name |-> prior.name, taken_at_ms |-> 0, renew_count |-> 0]

\* The three maps with lock l's row replaced.
WithRow(s, l, lease, gen, entry) ==
    [locks |-> [s.locks EXCEPT ![l] = lease],
     generations |-> [s.generations EXCEPT ![l] = gen],
     durable |-> [s.durable EXCEPT ![l] = entry]]

Executed(s, ok, lease, transition) ==
    [svc |-> s, ok |-> ok, lease |-> lease, transition |-> transition]

\* GET reports the live lease and changes nothing.
ExecuteGet(s, t, req) ==
    LET old == s.locks[req.lock]
    IN Executed(s, TRUE, IF Live(old, t) THEN old ELSE NoLease, "none")

\* Mutant: a lease counts as expired one millisecond early.
ExecuteSetEarly(s, t, req) ==
    LET old == s.locks[req.lock]
        new == CoreGrant(old, s.generations[req.lock], t, req)
    IN IF CoreGrants(old, t + 1, req)
       THEN Executed(WithRow(s, req.lock, new, new.lease_id,
                             SetEntry(old, s.durable[req.lock], t, req)), TRUE, new, "hold")
       ELSE Executed(s, FALSE, old, "none")

ExecuteSet(s, t, req) ==
    LET old == s.locks[req.lock]
        new == CoreGrant(old, s.generations[req.lock], t, req)
    IN IF CoreGrants(old, t, req)
       THEN Executed(WithRow(s, req.lock, new,
                             IF Live(old, t) THEN s.generations[req.lock] ELSE new.lease_id,
                             SetEntry(old, s.durable[req.lock], t, req)),
                     TRUE, new, IF Live(old, t) THEN "renew" ELSE "hold")
       ELSE Executed(s, FALSE, IF Live(old, t) THEN old ELSE NoLease, "none")

\* Mutant: a release by anyone but the holder takes effect too.
ExecuteReleaseUnchecked(s, t, req) ==
    Executed(WithRow(s, req.lock, NoLease, s.generations[req.lock],
                     ClearedEntry(s.durable[req.lock])), TRUE, NoLease, "release")

ExecuteRelease(s, t, req) ==
    LET old == s.locks[req.lock]
    IN IF CoreReleases(old, t, req)
       THEN Executed(WithRow(s, req.lock, CoreAfterRelease(old, t),
                             s.generations[req.lock], ClearedEntry(s.durable[req.lock])),
                     TRUE, NoLease, IF Live(old, t) THEN "release" ELSE "none")
       ELSE Executed(s, FALSE, old, "none")

\* Mutant: the break blanks the holder and leaves the generation alone.
ExecuteBreakUnfenced(s, t, req) ==
    LET old == s.locks[req.lock]
        keeper == [old EXCEPT !.holder = Nil, !.expiry = 0]
    IN IF Stored(old)
       THEN Executed(WithRow(s, req.lock, keeper, s.generations[req.lock],
                             ClearedEntry(s.durable[req.lock])), TRUE, keeper, "break")
       ELSE Executed(s, FALSE, NoLease, "none")

ExecuteBreak(s, t, req) ==
    LET old == s.locks[req.lock]
        keeper == CoreKeeper(old)
    IN IF CoreBreaks(old)
       THEN Executed(WithRow(s, req.lock, keeper, keeper.lease_id,
                             ClearedEntry(s.durable[req.lock])),
                     TRUE, keeper, "break")
       ELSE Executed(s, FALSE, NoLease, "none")

Execute(s, t, req) ==
    CASE req.op = "get" -> ExecuteGet(s, t, req)
      [] req.op = "set" -> ExecuteSet(s, t, req)
      [] req.op = "release" -> ExecuteRelease(s, t, req)
      [] req.op = "break" -> ExecuteBreak(s, t, req)

(* --------------------------- snapshot and restore ---------------------- *)

\* Mutants: only named locks are carried over; a lock without a record is
\* left out altogether, its generation too.
SnapshotNamedOnly(s) ==
    LET kept(l) == s.durable[l].name # NoName
    IN [locks |-> [l \in LockIds |-> IF kept(l) THEN s.locks[l] ELSE NoLease],
        generations |-> s.generations,
        durable |-> s.durable]

SnapshotRecordsOnly(s) ==
    [locks |-> s.locks,
     generations |-> [l \in LockIds |-> s.locks[l].lease_id],
     durable |-> s.durable]

\* The snapshot composes each stored record with its side-table entry; the
\* identity of a lock with no record is not part of it.
Snapshot(s) ==
    [locks |-> s.locks,
     generations |-> s.generations,
     durable |-> [l \in LockIds |-> IF Stored(s.locks[l]) THEN s.durable[l] ELSE NoEntry]]

\* Restore installs a snapshot wholesale, never merging.
Restore(snapshot) == snapshot
=============================================================================
