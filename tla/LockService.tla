---------------------------- MODULE LockService ----------------------------
(***************************************************************************)
(* One lock table under a sequence of committed operations, each executed  *)
(* at the replica's wallclock (Service::execute of locks.rs, called from   *)
(* apply_effect of ffi.rs), and carried over clean restarts by snapshot    *)
(* and restore.                                                            *)
(*                                                                         *)
(* told and minted are history variables: what the clients have been told  *)
(* by granted replies, and every fencing token the table ever handed out.  *)
(***************************************************************************)
EXTENDS Locks

CONSTANTS
    ClockStepsBack,  \* may the host's wallclock be set back?
    MaxTime,         \* bound on the wallclock
    MaxGeneration    \* bound on a lock's generation

ASSUME LockServiceAssumption ==
    /\ ClockStepsBack \in BOOLEAN
    /\ MaxTime \in Nat
    /\ MaxGeneration \in Nat

VARIABLES
    svc,     \* the lock table
    now,     \* the executing host's wallclock (unix_millis)
    told,    \* told[l][h]: the lease holder h was last granted on l and still has
    minted   \* minted[l]: every <<lease_id, holder>> a grant ever carried

vars == <<svc, now, told, minted>>

TypeOK ==
    /\ svc \in Service
    /\ now \in Nat
    /\ told \in [LockIds -> [Holders -> CoreLease]]
    /\ minted \in [LockIds -> SUBSET (Nat \X Holders)]

Init ==
    /\ svc = EmptyService
    /\ now = 1
    /\ told = [l \in LockIds |-> [h \in Holders |-> NoLease]]
    /\ minted = [l \in LockIds |-> {}]

(* ------------------------------ operations ----------------------------- *)

Get(req) ==
    /\ svc' = ExecuteGet(svc, now, req).svc
    /\ UNCHANGED <<now, told, minted>>

Set(req) ==
    LET out == ExecuteSet(svc, now, req) IN
    /\ svc.generations[req.lock] < MaxGeneration
    /\ svc' = out.svc
    /\ told' = IF out.ok THEN [told EXCEPT ![req.lock][req.holder] = out.lease] ELSE told
    /\ minted' = IF out.ok
                 THEN [minted EXCEPT ![req.lock] = @ \cup {<<out.lease.lease_id, req.holder>>}]
                 ELSE minted
    /\ UNCHANGED now

\* A holder that was told its release took effect no longer counts on it.
Release(req) ==
    LET out == ExecuteRelease(svc, now, req) IN
    /\ svc' = out.svc
    /\ told' = IF out.ok THEN [told EXCEPT ![req.lock][req.holder] = NoLease] ELSE told
    /\ UNCHANGED <<now, minted>>

\* A break revokes whatever lease is in force: that is its purpose.
Break(req) ==
    LET out == ExecuteBreak(svc, now, req) IN
    /\ svc.generations[req.lock] < MaxGeneration
    /\ svc' = out.svc
    /\ told' = IF out.ok
               THEN [told EXCEPT ![req.lock] = [h \in Holders |-> NoLease]]
               ELSE told
    /\ UNCHANGED <<now, minted>>

\* Stop flushes the snapshot, the next clean boot restores it (file store).
CleanRestart ==
    /\ svc' = Restore(Snapshot(svc))
    /\ UNCHANGED <<now, told, minted>>

\* The wallclock moves on, or is set back by the host's administrator or NTP.
Clock ==
    /\ \E t \in 1..MaxTime : (t > now \/ ClockStepsBack) /\ now' = t
    /\ UNCHANGED <<svc, told, minted>>

Next ==
    \/ \E req \in GetRequests : Get(req)
    \/ \E req \in SetRequests : Set(req)
    \/ \E req \in ReleaseRequests(0..MaxGeneration) : Release(req)
    \/ \E req \in BreakRequests : Break(req)
    \/ CleanRestart
    \/ Clock

Spec == Init /\ [][Next]_vars

(* ------------------------------ properties ----------------------------- *)

\* A stored record always carries its lock's current generation, so the
\* watermark `generations` is never behind the record it guards.
WatermarkCoversRecord ==
    \A l \in LockIds :
        Stored(svc.locks[l]) => svc.locks[l].lease_id = svc.generations[l]

\* Every token ever granted is covered by the watermark, also after the
\* record it came from was released, broken or replaced.
WatermarkCoversTokens ==
    \A l \in LockIds : \A p \in minted[l] : p[1] <= svc.generations[l]

\* The record's own token was granted to the record's holder and to no other.
RecordNamesItsToken ==
    \A l \in LockIds : \A p \in minted[l] :
        svc.locks[l].holder # Nil /\ p[1] = svc.locks[l].lease_id
            => p[2] = svc.locks[l].holder

\* Only a record that is stored and names a holder can be in force.
LiveRecordsAreHeld ==
    \A l \in LockIds :
        svc.locks[l].expiry > 0 => Stored(svc.locks[l]) /\ svc.locks[l].holder # Nil

\* The fencing token is a fence: no two holders of one lock are ever granted
\* the same lease_id, whatever releases, breaks, expiries, clock steps and
\* clean restarts come between their grants.
FencingTokenNamesOneHolder ==
    \A l \in LockIds : \A p, q \in minted[l] : p[1] = q[1] => p[2] = q[2]

\* The inductive invariant behind FencingTokenNamesOneHolder: the table's
\* watermark, its records and the tokens clients were told stay in step.
FencingInv ==
    /\ TypeOK
    /\ LiveRecordsAreHeld
    /\ WatermarkCoversRecord
    /\ WatermarkCoversTokens
    /\ RecordNamesItsToken
    /\ FencingTokenNamesOneHolder

\* While a client's last granted lease is unexpired on the service's clock,
\* and it has neither released it nor been broken, the table still holds
\* exactly that lease: the token, the expiry and the window it was told.
TableBacksTheClient ==
    \A l \in LockIds, h \in Holders :
        Live(told[l][h], now) => svc.locks[l] = told[l][h] /\ svc.locks[l].holder = h

\* Mutual exclusion: no two clients hold unexpired leases on one lock.
MutualExclusion ==
    \A l \in LockIds, g, h \in Holders :
        Live(told[l][g], now) /\ Live(told[l][h], now) => g = h

\* A generation never goes back, and a lock changes hands only together with
\* a strictly larger generation (the token of the new holder fences the old).
GenerationFencesHolderChange ==
    [][\A l \in LockIds :
          /\ svc'.generations[l] >= svc.generations[l]
          /\ Stored(svc.locks[l]) /\ Stored(svc'.locks[l])
                /\ svc'.locks[l].holder # svc.locks[l].holder
             => svc'.generations[l] > svc.generations[l]]_vars
=============================================================================
