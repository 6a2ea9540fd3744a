------------------------- MODULE LockServiceProofs -------------------------
(***************************************************************************)
(* Proofs about LockService for every set of locks, holders, windows and   *)
(* every clock: fencing tokens are never shared, and, on a clock that is   *)
(* not set back, no two clients hold one lock. The last part is about the  *)
(* same service over the WAL store: what a flushed marker vouches for has  *)
(* no lock in both streams, and the table backs the clients there too.     *)
(***************************************************************************)
EXTENDS WalStore, TLAPS

\* A leaf that names no prover is for the SMT solver.
USE SMTT(30)

(* ----------------------- facts about the operators --------------------- *)

\* Replacing one row of a well-typed table by well-typed values leaves a
\* well-typed table (every operation of Service::execute writes one row).
LEMMA WithRowType ==
    ASSUME NEW s \in Service, NEW l \in LockIds, NEW lease \in CoreLease,
           NEW gen \in Nat, NEW entry \in DurableEntry
    PROVE  WithRow(s, l, lease, gen, entry) \in Service
  BY Zenon DEF WithRow, Service

\* The two literal records are of the types of the maps they stand in.
LEMMA LiteralTypes == NoLease \in CoreLease /\ NoEntry \in DurableEntry
  BY LocksAssumption DEF NoLease, NoEntry, CoreLease, DurableEntry

\* A granted SET writes a well-typed lease and a well-typed entry.
LEMMA SetTypes ==
    ASSUME NEW s \in Service, NEW t \in Nat, NEW req \in SetRequests
    PROVE  /\ CoreGrant(s.locks[req.lock], s.generations[req.lock], t, req) \in CoreLease
           /\ SetEntry(s.locks[req.lock], s.durable[req.lock], t, req) \in DurableEntry
  <1> DEFINE old == s.locks[req.lock]
             prior == s.durable[req.lock]
             gen == s.generations[req.lock]
  <1>1. /\ old \in CoreLease /\ prior \in DurableEntry /\ gen \in Nat
        /\ req.holder \in Holders /\ req.window \in Nat /\ req.name \in Names \cup {NoName}
    BY LocksAssumption, Zenon DEF Service, SetRequests
  <1>2. CoreGrant(old, gen, t, req) \in CoreLease
    BY <1>1 DEF CoreGrant, CoreLease
  <1>3. SetEntry(old, prior, t, req) \in DurableEntry
    BY <1>1, LocksAssumption DEF SetEntry, DurableEntry, Inherit, TakenAtOnHolderChange
  <1> QED BY <1>2, <1>3, Zenon

\* Every operation leaves a well-typed table.
LEMMA ExecuteTypes ==
    ASSUME NEW s \in Service, NEW t \in Nat
    PROVE  /\ \A req \in GetRequests : ExecuteGet(s, t, req).svc = s
           /\ \A req \in SetRequests : ExecuteSet(s, t, req).svc \in Service
           /\ \A req \in ReleaseRequests(Nat) : ExecuteRelease(s, t, req).svc \in Service
           /\ \A req \in BreakRequests : ExecuteBreak(s, t, req).svc \in Service
  <1>1. \A req \in GetRequests : ExecuteGet(s, t, req).svc = s
    BY Zenon DEF ExecuteGet, Executed
  <1>2. ASSUME NEW req \in SetRequests PROVE ExecuteSet(s, t, req).svc \in Service
    <2> DEFINE old == s.locks[req.lock]
               new == CoreGrant(old, s.generations[req.lock], t, req)
               gen == IF Live(old, t) THEN s.generations[req.lock] ELSE new.lease_id
               entry == SetEntry(old, s.durable[req.lock], t, req)
    <2>1. req.lock \in LockIds BY Zenon DEF SetRequests
    <2>2. new \in CoreLease /\ entry \in DurableEntry BY SetTypes, Zenon
    <2>3. gen \in Nat BY <2>1, <2>2, Zenon DEF Service, CoreLease
    <2> HIDE DEF new, gen, entry
    <2>4. WithRow(s, req.lock, new, gen, entry) \in Service BY <2>1, <2>2, <2>3, WithRowType, Zenon
    <2> QED BY <2>4, Zenon DEF ExecuteSet, Executed, new, gen, entry
  <1>3. ASSUME NEW req \in ReleaseRequests(Nat) PROVE ExecuteRelease(s, t, req).svc \in Service
    <2> DEFINE old == s.locks[req.lock]
               new == CoreAfterRelease(old, t)
               entry == ClearedEntry(s.durable[req.lock])
    <2>1. req.lock \in LockIds BY Zenon DEF ReleaseRequests
    <2>2. new \in CoreLease BY <2>1, LiteralTypes, Zenon DEF CoreAfterRelease, Service
    <2>3. entry \in DurableEntry BY <2>1, LocksAssumption DEF ClearedEntry, Service, DurableEntry
    <2>4. s.generations[req.lock] \in Nat BY <2>1, Zenon DEF Service
    <2> HIDE DEF new, entry
    <2>5. WithRow(s, req.lock, new, s.generations[req.lock], entry) \in Service
      BY <2>1, <2>2, <2>3, <2>4, WithRowType, Zenon
    <2> QED BY <2>5, Zenon DEF ExecuteRelease, Executed, new, entry
  <1>4. ASSUME NEW req \in BreakRequests PROVE ExecuteBreak(s, t, req).svc \in Service
    <2> DEFINE new == CoreKeeper(s.locks[req.lock])
               entry == ClearedEntry(s.durable[req.lock])
    <2>1. req.lock \in LockIds BY Zenon DEF BreakRequests
    <2>2. new \in CoreLease /\ new.lease_id \in Nat
      BY <2>1 DEF CoreKeeper, Service, CoreLease
    <2>3. entry \in DurableEntry BY <2>1, LocksAssumption DEF ClearedEntry, Service, DurableEntry
    <2> HIDE DEF new, entry
    <2>4. WithRow(s, req.lock, new, new.lease_id, entry) \in Service
      BY <2>1, <2>2, <2>3, WithRowType, Zenon
    <2> QED BY <2>4, Zenon DEF ExecuteBreak, Executed, new, entry
  <1> QED BY <1>1, <1>2, <1>3, <1>4, Zenon

(* --------------------------- type correctness -------------------------- *)

\* Every operation, restart and clock step keeps the shapes of the tables of
\* `Service` in locks.rs.
LEMMA TypeStep == TypeOK /\ [Next]_vars => TypeOK'
  <1> SUFFICES ASSUME TypeOK, [Next]_vars PROVE TypeOK'
    BY Zenon
  <1> USE DEF TypeOK
  <1>1. ASSUME NEW req \in GetRequests, Get(req) PROVE TypeOK'
    BY <1>1, ExecuteTypes, Zenon DEF Get
  <1>2. ASSUME NEW req \in SetRequests, Set(req) PROVE TypeOK'
    <2>1. svc' \in Service BY <1>2, ExecuteTypes, Zenon DEF Set
    <2>2. /\ req.lock \in LockIds /\ req.holder \in Holders
          /\ ExecuteSet(svc, now, req).ok => ExecuteSet(svc, now, req).lease \in CoreLease
      BY SetTypes, Zenon DEF SetRequests, ExecuteSet, Executed
    <2>3. told' \in [LockIds -> [Holders -> CoreLease]] BY <1>2, <2>2, Zenon DEF Set
    <2>4. ExecuteSet(svc, now, req).ok => ExecuteSet(svc, now, req).lease.lease_id \in Nat
      BY <2>2, Zenon DEF CoreLease
    <2>5. minted' \in [LockIds -> SUBSET (Nat \X Holders)] BY <1>2, <2>2, <2>4 DEF Set
    <2> QED BY <1>2, <2>1, <2>3, <2>5, Zenon DEF Set
  <1>3. ASSUME NEW req \in ReleaseRequests(0..MaxGeneration), Release(req) PROVE TypeOK'
    <2>1. req \in ReleaseRequests(Nat) /\ req.lock \in LockIds /\ req.holder \in Holders
      BY LockServiceAssumption DEF ReleaseRequests
    <2>2. svc' \in Service BY <1>3, <2>1, ExecuteTypes, Zenon DEF Release
    <2> QED BY <1>3, <2>1, <2>2, LiteralTypes, Zenon DEF Release
  <1>4. ASSUME NEW req \in BreakRequests, Break(req) PROVE TypeOK'
    <2>1. svc' \in Service /\ req.lock \in LockIds
      BY <1>4, ExecuteTypes, Zenon DEF Break, BreakRequests
    <2> QED BY <1>4, <2>1, LiteralTypes, Zenon DEF Break
  <1>5. CASE CleanRestart
    BY <1>5, LiteralTypes, Zenon DEF CleanRestart, Restore, Snapshot, Service
  <1>6. CASE Clock
    BY <1>6, LockServiceAssumption DEF Clock
  <1>7. CASE UNCHANGED vars
    BY <1>7, Zenon DEF vars
  <1> QED BY <1>1, <1>2, <1>3, <1>4, <1>5, <1>6, <1>7, Zenon DEF Next

\* The type invariant of LockService.
THEOREM TypeCorrect == Spec => []TypeOK
  <1>1. Init => TypeOK
    BY LiteralTypes DEF Init, TypeOK, EmptyService, Service
  <1> QED BY <1>1, TypeStep, PTL DEF Spec

(* --------------------------- the fencing token ------------------------- *)

\* FencingInv is inductive.  The one step that adds a token is a granted SET:
\* a renewal repeats the record's own token for the record's own holder, a
\* take mints a token above the watermark and so above every earlier one.
LEMMA FencingStep == FencingInv /\ TypeOK' /\ [Next]_vars => FencingInv'
  <1> SUFFICES ASSUME FencingInv, TypeOK', [Next]_vars PROVE FencingInv'
    BY Zenon
  <1> USE DEF FencingInv
  <1>t. /\ svc.locks \in [LockIds -> CoreLease] /\ svc'.locks \in [LockIds -> CoreLease]
        /\ svc.generations \in [LockIds -> Nat] /\ svc'.generations \in [LockIds -> Nat]
        /\ now \in Nat
        /\ \A l \in LockIds : minted[l] \subseteq Nat \X Holders
    BY Zenon DEF TypeOK, Service
  <1>1. ASSUME svc'.locks = svc.locks, svc'.generations = svc.generations, minted' = minted
        PROVE FencingInv'
    BY <1>1 DEF LiveRecordsAreHeld, WatermarkCoversRecord, WatermarkCoversTokens,
                RecordNamesItsToken, FencingTokenNamesOneHolder
  <1>2. ASSUME NEW req \in GetRequests, Get(req) PROVE FencingInv'
    BY <1>2, <1>1, ExecuteTypes, Zenon DEF Get, TypeOK
  <1>3. ASSUME NEW req \in SetRequests, Set(req) PROVE FencingInv'
    <2> DEFINE l == req.lock
               old == svc.locks[l]
               gen == svc.generations[l]
               new == CoreGrant(old, gen, now, req)
               ngen == IF Live(old, now) THEN gen ELSE new.lease_id
    <2>1. CASE ~CoreGrants(old, now, req)
      BY <1>3, <2>1, <1>1, Zenon DEF Set, ExecuteSet, Executed
    <2>2. CASE CoreGrants(old, now, req)
      <3>1. /\ l \in LockIds /\ req.holder \in Holders /\ req.holder # Nil
            /\ req.window \in Nat /\ req.window > 0
            /\ Live(old, now) => old.holder = req.holder
        BY <2>2, LocksAssumption, Zenon DEF SetRequests, CoreGrants
      <3>2. /\ svc'.locks = [svc.locks EXCEPT ![l] = new]
            /\ svc'.generations = [svc.generations EXCEPT ![l] = ngen]
            /\ minted' = [minted EXCEPT ![l] = @ \cup {<<new.lease_id, req.holder>>}]
        BY <1>3, <2>2, Zenon DEF Set, ExecuteSet, Executed, WithRow
      <3>3. /\ old \in CoreLease /\ gen \in Nat
        BY <1>t, <3>1, Zenon
      <3>4. /\ new.holder = req.holder /\ new.expiry > 0
            /\ new.lease_id = IF Live(old, now) THEN old.lease_id ELSE gen + 1
        BY <1>t, <3>1, <3>3 DEF CoreGrant
      <3>5. Live(old, now) => old.expiry > 0 /\ old.lease_id > 0 /\ old.lease_id = gen
        BY <1>t, <3>1, <3>3 DEF Live, CoreLease, LiveRecordsAreHeld, WatermarkCoversRecord, Stored
      <3>6. ngen = new.lease_id /\ new.lease_id > 0 /\ new.lease_id >= gen
        BY <3>3, <3>4, <3>5
      <3> HIDE DEF new, ngen, gen
      <3>7. \A k \in LockIds : k # l => /\ svc'.locks[k] = svc.locks[k]
                                        /\ svc'.generations[k] = svc.generations[k]
                                        /\ minted'[k] = minted[k]
        BY <3>2, <1>t, Zenon DEF TypeOK
      <3>8. /\ svc'.locks[l] = new /\ svc'.generations[l] = new.lease_id
            /\ minted'[l] = minted[l] \cup {<<new.lease_id, req.holder>>}
        BY <3>1, <3>2, <3>6, <1>t, Zenon DEF TypeOK
      <3>9. \A p \in minted[l] : p[1] \in Nat /\ p[1] <= gen
        BY <1>t, <3>1, Zenon DEF WatermarkCoversTokens, gen
      <3>10. \A p \in minted[l] : p[1] = new.lease_id => p[2] = req.holder
        <4> SUFFICES ASSUME NEW p \in minted[l], p[1] = new.lease_id PROVE p[2] = req.holder
          BY Zenon
        <4>1. CASE Live(old, now)
          BY <4>1, <3>1, <3>4, Zenon DEF RecordNamesItsToken
        <4>2. CASE ~Live(old, now)
          BY <4>2, <3>3, <3>4, <3>9 DEF gen
        <4> QED BY <4>1, <4>2, Zenon
      <3>11. LiveRecordsAreHeld'
        BY <3>1, <3>4, <3>6, <3>7, <3>8, Zenon DEF LiveRecordsAreHeld, Stored
      <3>12. WatermarkCoversRecord'
        BY <3>7, <3>8, Zenon DEF WatermarkCoversRecord
      <3>13. WatermarkCoversTokens'
        <4>1. new.lease_id \in Nat BY <3>1, <3>8, <1>t, Zenon
        <4>2. \A p \in minted'[l] : p[1] <= svc'.generations[l]
          BY <4>1, <3>3, <3>6, <3>8, <3>9 DEF gen
        <4> QED BY <4>2, <3>7, Zenon DEF WatermarkCoversTokens
      <3>14. RecordNamesItsToken'
        BY <3>4, <3>7, <3>8, <3>10 DEF RecordNamesItsToken
      <3>15. FencingTokenNamesOneHolder'
        <4>1. \A p, q \in minted'[l] : p[1] = q[1] => p[2] = q[2]
          BY <3>1, <3>8, <3>10 DEF FencingTokenNamesOneHolder
        <4> QED BY <4>1, <3>7 DEF FencingTokenNamesOneHolder
      <3> QED BY <3>11, <3>12, <3>13, <3>14, <3>15, Zenon
    <2> QED BY <2>1, <2>2, Zenon
  <1>4. ASSUME NEW req \in ReleaseRequests(0..MaxGeneration), Release(req) PROVE FencingInv'
    <2> DEFINE l == req.lock
               old == svc.locks[l]
    <2>1. l \in LockIds BY Zenon DEF ReleaseRequests
    <2>2. minted' = minted BY <1>4, Zenon DEF Release
    <2>3. CASE svc' = svc
      BY <2>2, <2>3, <1>1, Zenon
    <2>4. CASE /\ svc'.locks = [svc.locks EXCEPT ![l] = CoreAfterRelease(old, now)]
               /\ svc'.generations = [svc.generations EXCEPT ![l] = svc.generations[l]]
      <3>1. svc'.generations = svc.generations BY <2>1, <2>4, <1>t, Zenon
      <3>2. \A k \in LockIds : svc'.locks[k] = svc.locks[k] \/ svc'.locks[k] = NoLease
        BY <2>4, <1>t, Zenon DEF CoreAfterRelease
      <3>3. NoLease.holder = Nil /\ NoLease.expiry = 0 /\ ~Stored(NoLease)
        BY DEF NoLease, Stored
      <3>4. LiveRecordsAreHeld' BY <3>2, <3>3 DEF LiveRecordsAreHeld
      <3>5. WatermarkCoversRecord' BY <3>1, <3>2, <3>3, Zenon DEF WatermarkCoversRecord
      <3>6. RecordNamesItsToken' BY <2>2, <3>2, <3>3, Zenon DEF RecordNamesItsToken
      <3>7. WatermarkCoversTokens' /\ FencingTokenNamesOneHolder'
        BY <2>2, <3>1, Zenon DEF WatermarkCoversTokens, FencingTokenNamesOneHolder
      <3> QED BY <3>4, <3>5, <3>6, <3>7, Zenon
    <2> QED BY <1>4, <2>3, <2>4, Zenon DEF Release, ExecuteRelease, Executed, WithRow
  <1>5. ASSUME NEW req \in BreakRequests, Break(req) PROVE FencingInv'
    <2> DEFINE l == req.lock
               keeper == CoreKeeper(svc.locks[l])
    <2>1. l \in LockIds BY Zenon DEF BreakRequests
    <2>2. minted' = minted BY <1>5, Zenon DEF Break
    <2>3. CASE svc' = svc
      BY <2>2, <2>3, <1>1, Zenon
    <2>4. CASE /\ CoreBreaks(svc.locks[l])
               /\ svc'.locks = [svc.locks EXCEPT ![l] = keeper]
               /\ svc'.generations = [svc.generations EXCEPT ![l] = keeper.lease_id]
      <3>1. /\ keeper.holder = Nil /\ keeper.expiry = 0
            /\ keeper.lease_id = svc.generations[l] + 1
        BY <2>1, <2>4, Zenon DEF CoreBreaks, CoreKeeper, WatermarkCoversRecord
      <3> HIDE DEF keeper
      <3>2. /\ svc'.locks[l] = keeper /\ svc'.generations[l] = svc.generations[l] + 1
            /\ \A k \in LockIds : k # l => /\ svc'.locks[k] = svc.locks[k]
                                         /\ svc'.generations[k] = svc.generations[k]
        BY <2>1, <2>4, <3>1, <1>t, Zenon
      <3>3. WatermarkCoversTokens'
        <4> SUFFICES ASSUME NEW k \in LockIds, NEW p \in minted[k]
                     PROVE p[1] <= svc'.generations[k]
          BY <2>2, Zenon DEF WatermarkCoversTokens
        <4>1. p[1] \in Nat /\ svc.generations[k] \in Nat /\ p[1] <= svc.generations[k]
          BY <1>t, Zenon DEF WatermarkCoversTokens
        <4> QED BY <4>1, <3>2
      <3>4. WatermarkCoversRecord' BY <3>1, <3>2, <1>t, Zenon DEF WatermarkCoversRecord
      <3>5. LiveRecordsAreHeld' /\ RecordNamesItsToken' /\ FencingTokenNamesOneHolder'
        BY <2>2, <3>1, <3>2 DEF LiveRecordsAreHeld, RecordNamesItsToken,
                                FencingTokenNamesOneHolder, Stored
      <3> QED BY <3>3, <3>4, <3>5, Zenon
    <2> QED BY <1>5, <2>3, <2>4, Zenon DEF Break, ExecuteBreak, Executed, WithRow
  <1>6. CASE CleanRestart
    BY <1>6, <1>1, Zenon DEF CleanRestart, Restore, Snapshot
  <1>7. CASE Clock
    BY <1>7, <1>1, Zenon DEF Clock
  <1>8. CASE UNCHANGED vars
    BY <1>8, <1>1, Zenon DEF vars
  <1> QED BY <1>2, <1>3, <1>4, <1>5, <1>6, <1>7, <1>8, Zenon DEF Next

\* No two holders of one lock are ever granted the same lease_id, whatever
\* releases, breaks, expiries, restarts and clock steps lie between.
THEOREM FencingHolds == Spec => []FencingTokenNamesOneHolder
  <1>1. Init => FencingInv
    BY LiteralTypes DEF Init, FencingInv, TypeOK, EmptyService, Service, NoLease, Stored,
       LiveRecordsAreHeld, WatermarkCoversRecord, WatermarkCoversTokens, RecordNamesItsToken,
       FencingTokenNamesOneHolder
  <1>2. FencingInv => FencingTokenNamesOneHolder
    BY Zenon DEF FencingInv
  <1> QED BY <1>1, <1>2, FencingStep, TypeCorrect, PTL DEF Spec

\* The inductive invariant itself: watermark, records and tokens in step.
THEOREM FencingInvHolds == Spec => []FencingInv
  <1>1. Init => FencingInv
    BY LiteralTypes DEF Init, FencingInv, TypeOK, EmptyService, Service, NoLease, Stored,
       LiveRecordsAreHeld, WatermarkCoversRecord, WatermarkCoversTokens, RecordNamesItsToken,
       FencingTokenNamesOneHolder
  <1> QED BY <1>1, FencingStep, TypeCorrect, PTL DEF Spec

\* The action property: a generation never goes back, and a record passes to
\* another holder only under a larger generation.
THEOREM GenerationHolds == Spec => GenerationFencesHolderChange
  <1> DEFINE Fences == \A l \in LockIds :
                 /\ svc'.generations[l] >= svc.generations[l]
                 /\ Stored(svc.locks[l]) /\ Stored(svc'.locks[l])
                       /\ svc'.locks[l].holder # svc.locks[l].holder
                    => svc'.generations[l] > svc.generations[l]
  <1>1. FencingInv /\ TypeOK' /\ [Next]_vars => [Fences]_vars
    <2> SUFFICES ASSUME FencingInv, TypeOK', Next PROVE Fences
      BY Zenon
    <2>t. /\ svc.locks \in [LockIds -> CoreLease] /\ svc.generations \in [LockIds -> Nat]
          /\ now \in Nat
      BY Zenon DEF FencingInv, TypeOK, Service
    <2>1. ASSUME svc'.locks = svc.locks, svc'.generations = svc.generations PROVE Fences
      BY <2>1, <2>t
    <2>2. ASSUME NEW req \in GetRequests, Get(req) PROVE Fences
      BY <2>1, <2>2, ExecuteTypes, Zenon DEF Get, FencingInv, TypeOK
    <2>3. ASSUME NEW req \in SetRequests, Set(req) PROVE Fences
      <3> DEFINE old == svc.locks[req.lock]
                 gen == svc.generations[req.lock]
                 new == CoreGrant(old, gen, now, req)
      <3>1. CASE ~CoreGrants(old, now, req)
        BY <2>1, <2>3, <3>1, Zenon DEF Set, ExecuteSet, Executed
      <3>2. CASE CoreGrants(old, now, req)
        <4>1. /\ svc'.locks = [svc.locks EXCEPT ![req.lock] = new]
              /\ svc'.generations = [svc.generations EXCEPT ![req.lock] =
                                         IF Live(old, now) THEN gen ELSE new.lease_id]
          BY <2>3, <3>2, Zenon DEF Set, ExecuteSet, Executed, WithRow
        <4>2. /\ new.holder = req.holder
              /\ new.lease_id = IF Live(old, now) THEN old.lease_id ELSE gen + 1
              /\ req.lock \in LockIds
          BY Zenon DEF CoreGrant, SetRequests
        <4>3. Live(old, now) => old.holder = req.holder
          BY <3>2, Zenon DEF CoreGrants
        <4> HIDE DEF new
        <4> QED BY <2>t, <4>1, <4>2, <4>3
      <3> QED BY <3>1, <3>2, Zenon
    <2>4. ASSUME NEW req \in ReleaseRequests(0..MaxGeneration), Release(req) PROVE Fences
      <3>1. req.lock \in LockIds BY Zenon DEF ReleaseRequests
      <3>2. svc'.generations = svc.generations
        BY <2>4, <2>t, <3>1, Zenon DEF Release, ExecuteRelease, Executed, WithRow
      <3>3. \A l \in LockIds : svc'.locks[l] = svc.locks[l] \/ svc'.locks[l] = NoLease
        BY <2>4, <2>t, <3>1, Zenon DEF Release, ExecuteRelease, Executed, WithRow, CoreAfterRelease
      <3> QED BY <2>t, <3>2, <3>3 DEF NoLease, Stored
    <2>5. ASSUME NEW req \in BreakRequests, Break(req) PROVE Fences
      <3> DEFINE old == svc.locks[req.lock]
      <3>1. CASE ~CoreBreaks(old)
        BY <2>1, <2>5, <3>1, Zenon DEF Break, ExecuteBreak, Executed
      <3>2. CASE CoreBreaks(old)
        <4>1. /\ svc'.locks = [svc.locks EXCEPT ![req.lock] = CoreKeeper(old)]
              /\ svc'.generations = [svc.generations EXCEPT ![req.lock] = CoreKeeper(old).lease_id]
          BY <2>5, <3>2, Zenon DEF Break, ExecuteBreak, Executed, WithRow
        <4>2. /\ req.lock \in LockIds
              /\ CoreKeeper(old).lease_id = svc.generations[req.lock] + 1
          BY <3>2, Zenon DEF CoreBreaks, CoreKeeper, BreakRequests, FencingInv, WatermarkCoversRecord
        <4> QED BY <2>t, <4>1, <4>2
      <3> QED BY <3>1, <3>2, Zenon
    <2>6. CASE CleanRestart
      BY <2>1, <2>6, Zenon DEF CleanRestart, Restore, Snapshot
    <2>7. CASE Clock
      BY <2>1, <2>7, Zenon DEF Clock
    <2> QED BY <2>2, <2>3, <2>4, <2>5, <2>6, <2>7, Zenon DEF Next
  <1> QED BY <1>1, FencingInvHolds, TypeCorrect, PTL DEF Spec, GenerationFencesHolderChange

(* --------------------------- mutual exclusion -------------------------- *)

\* A lock without a record is in force at no time.
LEMMA FreeIsNeverLive == \A t \in Nat : ~Live(NoLease, t)
  BY DEF Live, NoLease

\* The step: a grant over a live record is a renewal by its holder, and time
\* alone only ends what a client relies on.
LEMMA TableStep ==
    ASSUME ~ClockStepsBack
    PROVE  TypeOK /\ TableBacksTheClient /\ [Next]_vars => TableBacksTheClient'
  <1> SUFFICES ASSUME TypeOK, TableBacksTheClient, [Next]_vars,
                      NEW l \in LockIds, NEW h \in Holders, Live(told'[l][h], now')
               PROVE  svc'.locks[l] = told'[l][h] /\ svc'.locks[l].holder = h
    BY Zenon DEF TableBacksTheClient
  <1> DEFINE Backed == svc'.locks[l] = told'[l][h] /\ svc'.locks[l].holder = h
  <1>t. /\ svc.locks \in [LockIds -> CoreLease] /\ now \in Nat
        /\ told \in [LockIds -> [Holders -> CoreLease]]
    BY Zenon DEF TypeOK, Service
  <1>1. ASSUME svc'.locks = svc.locks, told' = told, now' = now PROVE Backed
    BY <1>1 DEF TableBacksTheClient
  <1>2. ASSUME NEW req \in GetRequests, Get(req) PROVE Backed
    BY <1>1, <1>2, ExecuteTypes, Zenon DEF Get, TypeOK
  <1>3. ASSUME NEW req \in SetRequests, Set(req) PROVE Backed
    <2> DEFINE old == svc.locks[req.lock]
               new == CoreGrant(old, svc.generations[req.lock], now, req)
    <2>1. CASE ~CoreGrants(old, now, req)
      BY <1>1, <1>3, <2>1, Zenon DEF Set, ExecuteSet, Executed
    <2>2. CASE CoreGrants(old, now, req)
      <3>1. /\ svc'.locks = [svc.locks EXCEPT ![req.lock] = new]
            /\ told' = [told EXCEPT ![req.lock][req.holder] = new]
            /\ now' = now /\ req.lock \in LockIds /\ req.holder \in Holders
            /\ new.holder = req.holder
            /\ Live(old, now) => old.holder = req.holder
        BY <1>3, <2>2, Zenon DEF Set, ExecuteSet, Executed, WithRow, SetRequests, CoreGrants, CoreGrant
      <3> HIDE DEF new
      <3>2. CASE l = req.lock /\ h = req.holder
        BY <1>t, <3>1, <3>2, Zenon
      <3>3. CASE l = req.lock /\ h # req.holder
        <4>1. told'[l][h] = told[l][h] BY <1>t, <3>1, <3>3, Zenon
        <4>2. Live(old, now) /\ old.holder = h BY <3>1, <3>3, <4>1 DEF TableBacksTheClient
        <4> QED BY <3>1, <3>3, <4>2, Zenon
      <3>4. CASE l # req.lock
        BY <1>t, <3>1, <3>4 DEF TableBacksTheClient
      <3> QED BY <3>2, <3>3, <3>4, Zenon
    <2> QED BY <2>1, <2>2, Zenon
  <1>4. ASSUME NEW req \in ReleaseRequests(0..MaxGeneration), Release(req) PROVE Backed
    <2> DEFINE old == svc.locks[req.lock]
    <2>1. CASE ~CoreReleases(old, now, req)
      BY <1>1, <1>4, <2>1, Zenon DEF Release, ExecuteRelease, Executed
    <2>2. CASE CoreReleases(old, now, req)
      <3>1. /\ svc'.locks = [svc.locks EXCEPT ![req.lock] = CoreAfterRelease(old, now)]
            /\ told' = [told EXCEPT ![req.lock][req.holder] = NoLease]
            /\ now' = now /\ req.lock \in LockIds /\ req.holder \in Holders
            /\ Live(old, now) => old.holder = req.holder
        BY <1>4, <2>2, Zenon DEF Release, ExecuteRelease, Executed, WithRow, ReleaseRequests, CoreReleases
      <3>2. ~(l = req.lock /\ h = req.holder)
        <4> SUFFICES ASSUME l = req.lock, h = req.holder PROVE FALSE BY Zenon
        <4>1. told'[l][h] = NoLease BY <1>t, <3>1, Zenon
        <4> QED BY <1>t, <3>1, <4>1, FreeIsNeverLive, Zenon
      <3>3. told'[l][h] = told[l][h] BY <1>t, <3>1, <3>2, Zenon
      <3>4. l # req.lock
        BY <3>1, <3>2, <3>3 DEF TableBacksTheClient
      <3> QED BY <1>t, <3>1, <3>3, <3>4 DEF TableBacksTheClient
    <2> QED BY <2>1, <2>2, Zenon
  <1>5. ASSUME NEW req \in BreakRequests, Break(req) PROVE Backed
    <2> DEFINE old == svc.locks[req.lock]
    <2>1. CASE ~CoreBreaks(old)
      BY <1>1, <1>5, <2>1, Zenon DEF Break, ExecuteBreak, Executed
    <2>2. CASE CoreBreaks(old)
      <3>1. /\ svc'.locks = [svc.locks EXCEPT ![req.lock] = CoreKeeper(old)]
            /\ told' = [told EXCEPT ![req.lock] = [g \in Holders |-> NoLease]]
            /\ now' = now /\ req.lock \in LockIds
        BY <1>5, <2>2, Zenon DEF Break, ExecuteBreak, Executed, WithRow, BreakRequests
      <3>2. CASE l = req.lock
        <4>1. told'[l][h] = NoLease BY <1>t, <3>1, <3>2, Zenon
        <4> QED BY <1>t, <3>1, <4>1, FreeIsNeverLive, Zenon
      <3>3. CASE l # req.lock
        <4>1. svc'.locks[l] = svc.locks[l] /\ told'[l] = told[l] BY <1>t, <3>1, <3>3, Zenon
        <4> QED BY <3>1, <4>1 DEF TableBacksTheClient
      <3> QED BY <3>2, <3>3, Zenon
    <2> QED BY <2>1, <2>2, Zenon
  <1>6. CASE CleanRestart
    BY <1>1, <1>6, Zenon DEF CleanRestart, Restore, Snapshot
  <1>7. CASE Clock
    <2>1. now' \in Nat /\ now' > now /\ told' = told /\ svc' = svc
      BY <1>7, LockServiceAssumption DEF Clock
    <2>2. told[l][h] \in CoreLease BY <1>t, Zenon
    <2>3. Live(told[l][h], now)
      BY <1>t, <2>1, <2>2 DEF Live, CoreLease
    <2> QED BY <2>1, <2>3, Zenon DEF TableBacksTheClient
  <1>8. CASE UNCHANGED vars
    BY <1>1, <1>8, Zenon DEF vars
  <1> QED BY <1>2, <1>3, <1>4, <1>5, <1>6, <1>7, <1>8, Zenon DEF Next

\* On a wallclock that is never set back, the table backs what its clients
\* were told: an unexpired, unreleased, unbroken grant is still its record.
THEOREM TableBacks ==
    ASSUME ~ClockStepsBack
    PROVE  Spec => []TableBacksTheClient
  <1>1. Init => TableBacksTheClient
    BY DEF Init, TableBacksTheClient, Live, NoLease
  <1> QED BY <1>1, TableStep, TypeCorrect, PTL DEF Spec

\* Mutual exclusion: on such a clock no two clients hold unexpired leases on
\* one lock (each would have to be the holder of the lock's one record).
THEOREM MutualExclusionHolds ==
    ASSUME ~ClockStepsBack
    PROVE  Spec => []MutualExclusion
  <1>1. TableBacksTheClient => MutualExclusion
    BY DEF TableBacksTheClient, MutualExclusion
  <1> QED BY <1>1, TableBacks, PTL

(* ------------------------ over the WAL snapshot store -------------------- *)

Tracks == [lease_id : Nat, entry : DurableEntry, kept : BOOLEAN]
LiveFrames == [lease : CoreLease, entry : DurableEntry]

\* The shapes of the wrapper's bookkeeping and of the engine's two live sets.
StreamTypes ==
    /\ changed \subseteq LockIds
    /\ tracked \in [LockIds -> Tracks]
    /\ eph \in [LockIds -> CoreLease]
    /\ dur \in [LockIds -> LiveFrames]
    /\ phase \in {"up", "flush", "down"}
    /\ vouched \in BOOLEAN /\ dead \in BOOLEAN
    /\ refusals \in 0..MaxRefusals

\* A lock that ever rode the durable stream keeps its name: a SET without one
\* inherits it, RELEASE and BREAK leave it, and a boot starts the tracking anew.
TrackedKeepNames == \A l \in LockIds : Tracked(l) => svc.durable[l].name # NoName

\* A record with an expiry has a lease id.
ExpiringAreStored == \A l \in LockIds : svc.locks[l].expiry > 0 => Stored(svc.locks[l])

\* The marker vouches for a stopped node whose streams are still its table.
VouchedReconciles == vouched => phase = "down" /\ Reconciles

WalInv ==
    /\ TypeOK
    /\ StreamTypes
    /\ TrackedKeepNames
    /\ ExpiringAreStored
    /\ VouchedReconciles

\* The frames and identities the store writes are of their types.
LEMMA FrameTypes ==
    ASSUME TypeOK, StreamTypes, NEW l \in LockIds
    PROVE  /\ LeaseFrame(l) \in LiveFrames
           /\ KeptFrame(tracked[l]) \in LiveFrames
           /\ Identity(l) \in Tracks
           /\ [tracked[l] EXCEPT !.kept = TRUE] \in Tracks
  <1>1. /\ svc.locks[l] \in CoreLease /\ svc.durable[l] \in DurableEntry /\ tracked[l] \in Tracks
    BY Zenon DEF TypeOK, Service, StreamTypes
  <1>2. /\ svc.locks[l].lease_id \in Nat /\ svc.locks[l].expiry \in Nat
        /\ tracked[l].lease_id \in Nat /\ tracked[l].entry \in DurableEntry
    BY <1>1, Zenon DEF CoreLease, Tracks
  <1>3. \A id \in Nat : KeptLease(id) \in CoreLease
    BY Zenon DEF KeptLease, CoreLease
  <1>4. LeaseFrame(l) \in LiveFrames
    BY <1>1, <1>2, <1>3, Zenon DEF LeaseFrame, Frame, LiveFrames
  <1>5. KeptFrame(tracked[l]) \in LiveFrames
    BY <1>2, <1>3, Zenon DEF KeptFrame, Frame, LiveFrames
  <1>6. Identity(l) \in Tracks
    BY <1>1, <1>2, Zenon DEF Identity, Tracks
  <1>7. [tracked[l] EXCEPT !.kept = TRUE] \in Tracks
    BY <1>1, Zenon DEF Tracks
  <1> QED BY <1>4, <1>5, <1>6, <1>7, Zenon

\* The literals of an empty store.
LEMMA EmptyStreams == NoFrame \in LiveFrames /\ Untracked \in Tracks
  BY LiteralTypes, Zenon DEF NoFrame, Frame, LiveFrames, Untracked, Tracks

\* Service::execute never takes a name away, and gives every record with an
\* expiry a lease id.
LEMMA OperationKeepsNames ==
    ASSUME TypeOK, ExpiringAreStored, TypeOK',
           \/ \E req \in SetRequests : Set(req)
           \/ \E req \in ReleaseRequests(0..MaxGeneration) : Release(req)
           \/ \E req \in BreakRequests : Break(req)
    PROVE  /\ ExpiringAreStored'
           /\ \A l \in LockIds : svc.durable[l].name # NoName => svc'.durable[l].name # NoName
  <1> DEFINE Kept == /\ ExpiringAreStored'
                     /\ \A l \in LockIds : svc.durable[l].name # NoName
                                             => svc'.durable[l].name # NoName
  <1>t. /\ svc.locks \in [LockIds -> CoreLease] /\ svc.durable \in [LockIds -> DurableEntry]
        /\ svc.generations \in [LockIds -> Nat] /\ now \in Nat
    BY Zenon DEF TypeOK, Service
  <1>1. ASSUME svc' = svc PROVE Kept
    BY <1>1, Zenon DEF ExpiringAreStored
  <1>2. ASSUME NEW l \in LockIds, NEW lease, NEW gen, NEW entry,
               svc' = WithRow(svc, l, lease, gen, entry),
               lease.expiry > 0 => Stored(lease),
               svc.durable[l].name # NoName => entry.name # NoName
        PROVE  Kept
    <2>1. /\ svc'.locks = [svc.locks EXCEPT ![l] = lease]
          /\ svc'.durable = [svc.durable EXCEPT ![l] = entry]
      BY <1>2, Zenon DEF WithRow
    <2>2. \A k \in LockIds : /\ svc'.locks[k] = IF k = l THEN lease ELSE svc.locks[k]
                             /\ svc'.durable[k] = IF k = l THEN entry ELSE svc.durable[k]
      BY <2>1, <1>t, Zenon
    <2> QED BY <1>2, <2>2, Zenon DEF ExpiringAreStored
  <1>3. ASSUME NEW req \in SetRequests, Set(req) PROVE Kept
    <2> DEFINE old == svc.locks[req.lock]
               new == CoreGrant(old, svc.generations[req.lock], now, req)
               gen == IF Live(old, now) THEN svc.generations[req.lock] ELSE new.lease_id
               entry == SetEntry(old, svc.durable[req.lock], now, req)
    <2>1. CASE ~CoreGrants(old, now, req)
      BY <1>1, <1>3, <2>1, Zenon DEF Set, ExecuteSet, Executed
    <2>2. CASE CoreGrants(old, now, req)
      <3>1. req.lock \in LockIds BY Zenon DEF SetRequests
      <3>2. svc' = WithRow(svc, req.lock, new, gen, entry)
        BY <1>3, <2>2, Zenon DEF Set, ExecuteSet, Executed
      <3>3. old \in CoreLease /\ svc.generations[req.lock] \in Nat BY <1>t, <3>1, Zenon
      <3>4. Live(old, now) => Stored(old)
        BY <1>t, <3>1, <3>3 DEF Live, ExpiringAreStored, CoreLease
      <3>5. Stored(new)
        BY <3>3, <3>4 DEF CoreGrant, Stored
      <3>6. entry.name = Inherit(req.name, svc.durable[req.lock].name)
        BY Zenon DEF SetEntry
      <3>7. svc.durable[req.lock].name # NoName => entry.name # NoName
        BY <3>6, Zenon DEF Inherit
      <3> HIDE DEF new, gen, entry
      <3> QED BY <1>2, <3>1, <3>2, <3>5, <3>7, Zenon
    <2> QED BY <2>1, <2>2, Zenon
  <1>4. ASSUME NEW req \in ReleaseRequests(0..MaxGeneration), Release(req) PROVE Kept
    <2> DEFINE old == svc.locks[req.lock]
               new == CoreAfterRelease(old, now)
               entry == ClearedEntry(svc.durable[req.lock])
    <2>1. CASE ~CoreReleases(old, now, req)
      BY <1>1, <1>4, <2>1, Zenon DEF Release, ExecuteRelease, Executed
    <2>2. CASE CoreReleases(old, now, req)
      <3>1. req.lock \in LockIds BY Zenon DEF ReleaseRequests
      <3>2. svc' = WithRow(svc, req.lock, new, svc.generations[req.lock], entry)
        BY <1>4, <2>2, Zenon DEF Release, ExecuteRelease, Executed
      <3>3. new.expiry > 0 => Stored(new)
        BY <3>1 DEF CoreAfterRelease, NoLease, ExpiringAreStored
      <3>4. entry.name = svc.durable[req.lock].name
        BY Zenon DEF ClearedEntry
      <3> HIDE DEF new, entry
      <3> QED BY <1>2, <3>1, <3>2, <3>3, <3>4, Zenon
    <2> QED BY <2>1, <2>2, Zenon
  <1>5. ASSUME NEW req \in BreakRequests, Break(req) PROVE Kept
    <2> DEFINE old == svc.locks[req.lock]
               new == CoreKeeper(old)
               entry == ClearedEntry(svc.durable[req.lock])
    <2>1. CASE ~CoreBreaks(old)
      BY <1>1, <1>5, <2>1, Zenon DEF Break, ExecuteBreak, Executed
    <2>2. CASE CoreBreaks(old)
      <3>1. req.lock \in LockIds BY Zenon DEF BreakRequests
      <3>2. svc' = WithRow(svc, req.lock, new, new.lease_id, entry)
        BY <1>5, <2>2, Zenon DEF Break, ExecuteBreak, Executed
      <3>3. ~(new.expiry > 0) /\ entry.name = svc.durable[req.lock].name
        BY DEF CoreKeeper, ClearedEntry
      <3> HIDE DEF new, entry
      <3> QED BY <1>2, <3>1, <3>2, <3>3, Zenon
    <2> QED BY <2>1, <2>2, Zenon
  <1> QED BY <1>3, <1>4, <1>5, Zenon

\* A batch, landed or refused, writes well-typed rows and tracks named locks.
LEMMA SubmitKeeps ==
    ASSUME TypeOK, StreamTypes, TrackedKeepNames, UNCHANGED vars,
           SubmitLands \/ SubmitRefused
    PROVE  /\ changed' \subseteq LockIds
           /\ tracked' \in [LockIds -> Tracks]
           /\ eph' \in [LockIds -> CoreLease]
           /\ dur' \in [LockIds -> LiveFrames]
           /\ refusals' \in 0..MaxRefusals
           /\ TrackedKeepNames'
  <1>t. /\ svc.locks \in [LockIds -> CoreLease] /\ svc' = svc
        /\ tracked \in [LockIds -> Tracks]
        /\ eph \in [LockIds -> CoreLease] /\ dur \in [LockIds -> LiveFrames]
    BY Zenon DEF TypeOK, Service, StreamTypes, vars
  <1>1. TrackedAfter \in [LockIds -> Tracks]
    BY <1>t, FrameTypes, Zenon DEF TrackedAfter
  <1>2. EphAfter \in [LockIds -> CoreLease]
    BY <1>t, Zenon DEF EphAfter
  <1>3. DurAfter \in [LockIds -> LiveFrames]
    BY <1>t, FrameTypes, Zenon DEF DurAfter
  <1>4. tracked' = TrackedAfter
    BY Zenon DEF SubmitLands, SubmitRefused
  <1>5. TrackedKeepNames'
    <2> SUFFICES ASSUME NEW l \in LockIds, tracked'[l] # Untracked
                 PROVE  svc.durable[l].name # NoName
      BY <1>t, Zenon DEF TrackedKeepNames, Tracked
    <2>1. CASE l \notin Frames
      <3>1. tracked'[l] = tracked[l] BY <1>4, <2>1, Zenon DEF TrackedAfter
      <3> QED BY <3>1, Zenon DEF TrackedKeepNames, Tracked
    <2>2. CASE l \in Frames
      BY <2>2, Zenon DEF Frames, Named, TrackedKeepNames
    <2> QED BY <2>1, <2>2, Zenon
  <1>6. refusals' \in 0..MaxRefusals
    BY WalStoreAssumption DEF SubmitLands, SubmitRefused, StreamTypes
  <1>7. changed' \subseteq LockIds
    BY Zenon DEF SubmitLands, SubmitRefused, StreamTypes
  <1>8. eph' \in [LockIds -> CoreLease] /\ dur' \in [LockIds -> LiveFrames]
    BY <1>t, <1>2, <1>3, Zenon DEF SubmitLands, SubmitRefused
  <1> QED BY <1>1, <1>4, <1>5, <1>6, <1>7, <1>8, Zenon

\* Streams that reconcile share no id: what rides the ephemeral one has no
\* name, what rides the durable one has, or had when it was tracked.
LEMMA ReconciledAreDisjoint ==
    ASSUME TypeOK, StreamTypes, TrackedKeepNames, Reconciles
    PROVE  \A l \in LockIds : ~(Stored(eph[l]) /\ Stored(dur[l].lease))
  <1> SUFFICES ASSUME NEW l \in LockIds, Stored(eph[l]), Stored(dur[l].lease) PROVE FALSE
    BY Zenon
  <1>1. eph[l] = IF Unnamed(l) THEN svc.locks[l] ELSE NoLease
    BY Zenon DEF Reconciles, FlushRecords
  <1>2. ~Stored(NoLease)
    BY DEF Stored, NoLease
  <1>3. Unnamed(l)
    BY <1>1, <1>2, Zenon
  <1>4. ~Named(l) /\ ~Tracked(l)
    BY <1>3, Zenon DEF Unnamed, Named, TrackedKeepNames
  <1>5. dur[l] = NoFrame
    BY <1>4, Zenon DEF Reconciles, FlushFrames
  <1> QED BY <1>2, <1>5 DEF NoFrame, Frame

\* load() over streams that reconcile gives back a table, with every lease in
\* force as it was.
LEMMA LoadedFromReconciled ==
    ASSUME TypeOK, StreamTypes, TrackedKeepNames, ExpiringAreStored, Reconciles
    PROVE  /\ LoadedTable \in Service
           /\ \A l \in LockIds : /\ LoadedTable.locks[l].expiry > 0 => Stored(LoadedTable.locks[l])
                                 /\ Live(svc.locks[l], now) => LoadedTable.locks[l] = svc.locks[l]
  <1> DEFINE row(l) == IF Stored(ScannedEph[l]) THEN Frame(ScannedEph[l], NoEntry) ELSE ScannedDur[l]
  <1>t. /\ svc.locks \in [LockIds -> CoreLease] /\ now \in Nat
        /\ eph \in [LockIds -> CoreLease] /\ dur \in [LockIds -> LiveFrames]
    BY Zenon DEF TypeOK, Service, StreamTypes
  <1>n. ~Stored(NoLease) /\ NoLease.expiry = 0 /\ NoFrame.lease = NoLease
    BY DEF Stored, NoLease, NoFrame, Frame
  <1>1. \A l \in LockIds : /\ ScannedEph[l] = IF Survives(eph[l]) THEN eph[l] ELSE NoLease
                           /\ ScannedDur[l] = IF dur[l].lease.expiry = 0 \/ Survives(dur[l].lease)
                                              THEN dur[l] ELSE NoFrame
    BY Zenon DEF ScannedEph, ScannedDur
  <1>2. ~ \E l \in LockIds : Stored(ScannedEph[l]) /\ Stored(ScannedDur[l].lease)
    BY <1>1, <1>n, ReconciledAreDisjoint, Zenon
  <1>3. LoadedTable = [locks |-> [l \in LockIds |-> row(l).lease],
                       generations |-> [l \in LockIds |-> row(l).lease.lease_id],
                       durable |-> [l \in LockIds |-> row(l).entry]]
    BY <1>2, Zenon DEF LoadedTable
  <1>4. \A l \in LockIds : row(l) \in LiveFrames
    <2> SUFFICES ASSUME NEW l \in LockIds PROVE row(l) \in LiveFrames
      BY Zenon
    <2>1. ScannedEph[l] \in CoreLease /\ ScannedDur[l] \in LiveFrames
      BY <1>t, <1>1, LiteralTypes, EmptyStreams, Zenon
    <2> QED BY <2>1, LiteralTypes, Zenon DEF Frame, LiveFrames
  <1>5. ASSUME NEW l \in LockIds
        PROVE  /\ row(l).lease.expiry > 0 => Stored(row(l).lease)
               /\ Live(svc.locks[l], now) => row(l).lease = svc.locks[l]
    <2>1. svc.locks[l] \in CoreLease /\ svc.locks[l].expiry \in Nat
      BY <1>t, Zenon DEF CoreLease
    <2>2. eph[l] = IF Unnamed(l) THEN svc.locks[l] ELSE NoLease
      BY Zenon DEF Reconciles, FlushRecords
    <2>3. dur[l] = IF Named(l) THEN LeaseFrame(l)
                   ELSE IF Tracked(l) THEN KeptFrame(tracked[l]) ELSE NoFrame
      BY Zenon DEF Reconciles, FlushFrames
    <2>4. KeptFrame(tracked[l]).lease.expiry = 0
      BY Zenon DEF KeptFrame, KeptLease, Frame
    <2>5. LeaseFrame(l).lease.expiry > 0 => LeaseFrame(l).lease = svc.locks[l]
      BY DEF LeaseFrame, Frame, KeptLease
    <2>6. dur[l].lease.expiry > 0 => Named(l) /\ dur[l].lease = svc.locks[l]
      BY <2>3, <2>4, <2>5, <1>n
    <2>7. row(l).lease = IF Stored(ScannedEph[l]) THEN ScannedEph[l] ELSE ScannedDur[l].lease
      BY Zenon DEF Frame
    <2>8. row(l).lease.expiry > 0 => Stored(row(l).lease)
      <3>1. ScannedDur[l].lease.expiry > 0 => ScannedDur[l].lease = svc.locks[l]
        BY <1>1, <1>n, <2>6
      <3> QED BY <2>7, <3>1, Zenon DEF ExpiringAreStored
    <2>9. ASSUME Live(svc.locks[l], now) PROVE row(l).lease = svc.locks[l]
      <3>1. svc.locks[l].expiry > now /\ svc.locks[l].expiry > 0
        BY <1>t, <2>1, <2>9 DEF Live
      <3>2. Stored(svc.locks[l]) BY <3>1, Zenon DEF ExpiringAreStored
      <3>3. Survives(svc.locks[l])
        BY <1>t, <2>1, <3>1, WalStoreAssumption DEF Survives
      <3>4. CASE Unnamed(l)
        BY <1>1, <2>2, <2>7, <3>2, <3>3, <3>4, Zenon
      <3>5. CASE ~Unnamed(l)
        <4>1. Named(l) BY <3>2, <3>5, Zenon DEF Named, Unnamed
        <4>2. LeaseFrame(l).lease = svc.locks[l]
          BY <3>1 DEF LeaseFrame, Frame
        <4>3. dur[l].lease = svc.locks[l] BY <2>3, <4>1, <4>2, Zenon
        <4>4. ~Stored(ScannedEph[l]) BY <1>1, <1>n, <2>2, <3>5, Zenon
        <4>5. ScannedDur[l] = dur[l] BY <1>1, <3>3, <4>3, Zenon
        <4> QED BY <2>7, <4>3, <4>4, <4>5, Zenon
      <3> QED BY <3>4, <3>5, Zenon
    <2> QED BY <2>8, <2>9, Zenon
  <1>6. LoadedTable \in Service
    <2>1. \A l \in LockIds : /\ row(l).lease \in CoreLease /\ row(l).entry \in DurableEntry
                             /\ row(l).lease.lease_id \in Nat
      BY <1>4, Zenon DEF LiveFrames, CoreLease
    <2> HIDE DEF row
    <2> QED BY <1>3, <2>1, Zenon DEF Service
  <1>7. \A l \in LockIds : LoadedTable.locks[l] = row(l).lease
    BY <1>3, Zenon
  <1> HIDE DEF row
  <1> QED BY <1>5, <1>6, <1>7, Zenon

\* After the flush the streams still reconcile: it only flags what it wrote.
LEMMA FlushKeepsReconciled ==
    ASSUME TypeOK, StreamTypes, TrackedKeepNames, Flush
    PROVE  /\ tracked' \in [LockIds -> Tracks]
           /\ TrackedKeepNames'
           /\ Reconciles => Reconciles'
  <1>t. /\ tracked \in [LockIds -> Tracks] /\ svc' = svc /\ eph' = eph /\ dur' = dur
        /\ tracked' = FlushTracked
    BY Zenon DEF StreamTypes, Flush, vars
  <1>1. tracked' \in [LockIds -> Tracks]
    BY <1>t, FrameTypes, Zenon DEF FlushTracked
  <1>2. \A l \in LockIds : tracked'[l] = IF Named(l) THEN Identity(l)
                                         ELSE IF Tracked(l) THEN [tracked[l] EXCEPT !.kept = TRUE]
                                         ELSE tracked[l]
    BY <1>t, Zenon DEF FlushTracked
  <1>3. TrackedKeepNames'
    <2> SUFFICES ASSUME NEW l \in LockIds, tracked'[l] # Untracked
                 PROVE  svc.durable[l].name # NoName
      BY <1>t, Zenon DEF TrackedKeepNames, Tracked
    <2> QED BY <1>2, Zenon DEF TrackedKeepNames, Tracked, Named
  <1>4. ASSUME Reconciles PROVE Reconciles'
    <2>1. FlushRecords' = FlushRecords
      BY <1>t, Zenon DEF FlushRecords, Unnamed
    <2>2. \A l \in LockIds : Named(l)' = Named(l) /\ LeaseFrame(l)' = LeaseFrame(l)
      BY <1>t, Zenon DEF Named, LeaseFrame
    <2>3. ASSUME NEW l \in LockIds, ~Named(l), Tracked(l)
          PROVE  Tracked(l)' /\ KeptFrame(tracked'[l]) = KeptFrame(tracked[l])
      <3>1. tracked'[l] = [tracked[l] EXCEPT !.kept = TRUE] /\ tracked[l] \in Tracks
        BY <1>t, <1>2, <2>3, Zenon
      <3>2. /\ tracked'[l].kept = TRUE /\ tracked'[l].lease_id = tracked[l].lease_id
            /\ tracked'[l].entry = tracked[l].entry
        BY <3>1, Zenon DEF Tracks
      <3>3. Untracked.kept = FALSE
        BY Zenon DEF Untracked
      <3>4. tracked'[l] # Untracked
        BY <3>2, <3>3, Zenon
      <3> QED BY <3>2, <3>4, Zenon DEF Tracked, KeptFrame
    <2>4. ASSUME NEW l \in LockIds, ~Named(l), ~Tracked(l) PROVE ~Tracked(l)'
      BY <1>2, <2>4, Zenon DEF Tracked
    <2>5. \A l \in LockIds : FlushFrames'[l] = FlushFrames[l]
      BY <2>2, <2>3, <2>4, Zenon DEF FlushFrames
    <2>6. FlushFrames' = FlushFrames
      BY <2>5, Zenon DEF FlushFrames
    <2> QED BY <1>t, <1>4, <2>1, <2>6, Zenon DEF Reconciles
  <1> QED BY <1>1, <1>3, <1>4, Zenon

\* WalInv is inductive: operations run only while the node is up, so nothing
\* moves the table between the flush that vouched for it and the boot.
LEMMA WalStep == WalInv /\ [WalNext]_allVars => WalInv'
  <1> SUFFICES ASSUME WalInv, [WalNext]_allVars PROVE WalInv'
    BY Zenon
  <1> USE DEF WalInv
  <1>1. ASSUME \/ \E req \in SetRequests : WalSet(req)
               \/ \E req \in ReleaseRequests(0..MaxGeneration) : WalRelease(req)
               \/ \E req \in BreakRequests : WalBreak(req)
        PROVE  WalInv'
    <2>1. \/ \E req \in SetRequests : Set(req)
          \/ \E req \in ReleaseRequests(0..MaxGeneration) : Release(req)
          \/ \E req \in BreakRequests : Break(req)
      BY <1>1, Zenon DEF WalSet, WalRelease, WalBreak
    <2>2. PICK l \in LockIds : \E transition : Note(l, transition)
      BY <1>1, Zenon DEF WalSet, WalRelease, WalBreak, SetRequests, ReleaseRequests, BreakRequests
    <2>3. TypeOK' BY <2>1, TypeStep, Zenon DEF Next
    <2>4. StreamTypes' BY <2>2, Zenon DEF Note, StreamTypes
    <2>5. /\ ExpiringAreStored'
          /\ \A k \in LockIds : svc.durable[k].name # NoName => svc'.durable[k].name # NoName
      BY <2>1, <2>3, OperationKeepsNames, Zenon
    <2>6. TrackedKeepNames'
      BY <2>2, <2>5, Zenon DEF Note, TrackedKeepNames, Tracked
    <2>7. VouchedReconciles'
      BY <2>2 DEF Note, VouchedReconciles
    <2> QED BY <2>3, <2>4, <2>5, <2>6, <2>7, Zenon
  <1>2. ASSUME svc' = svc, UNCHANGED walVars, TypeOK' PROVE WalInv'
    <2>1. StreamTypes' BY <1>2, Zenon DEF StreamTypes, walVars
    <2>2. TrackedKeepNames' /\ ExpiringAreStored'
      BY <1>2, Zenon DEF TrackedKeepNames, Tracked, ExpiringAreStored, walVars
    <2>3. Reconciles' = Reconciles
      BY <1>2, Zenon DEF walVars, Reconciles, FlushRecords, FlushFrames, Named, Unnamed, Tracked, LeaseFrame
    <2>4. VouchedReconciles'
      BY <1>2, <2>3, Zenon DEF VouchedReconciles, walVars
    <2> QED BY <1>2, <2>1, <2>2, <2>4, Zenon
  <1>3. ASSUME Clock, UNCHANGED walVars PROVE WalInv'
    <2>1. TypeOK' BY <1>3, TypeStep, Zenon DEF Next
    <2> QED BY <1>2, <1>3, <2>1, Zenon DEF Clock
  <1>4. ASSUME UNCHANGED allVars PROVE WalInv'
    <2>1. svc' = svc /\ UNCHANGED walVars /\ UNCHANGED vars
      BY <1>4, Zenon DEF allVars, vars, walVars
    <2>2. TypeOK' BY <2>1, TypeStep, Zenon
    <2> QED BY <1>2, <2>1, <2>2, Zenon
  <1>u. ASSUME UNCHANGED vars PROVE TypeOK' /\ ExpiringAreStored'
    BY <1>u, Zenon DEF TypeOK, ExpiringAreStored, vars
  <1>5. ASSUME Tick \/ StopTick PROVE WalInv'
    <2>1. /\ UNCHANGED vars /\ (SubmitLands \/ SubmitRefused) /\ ~vouched'
          /\ phase' \in {"up", "flush"} /\ UNCHANGED dead
      BY <1>5 DEF Tick, StopTick, VouchedReconciles
    <2>2. StreamTypes'
      BY <1>5, <2>1, SubmitKeeps, Zenon DEF StreamTypes, Tick, StopTick
    <2> QED BY <2>1, <2>2, <1>u, SubmitKeeps, Zenon DEF VouchedReconciles
  <1>6. ASSUME StopTickRefused PROVE WalInv'
    <2>1. UNCHANGED vars /\ vouched' = FALSE /\ phase' = "down" /\ UNCHANGED dead
      BY <1>6, Zenon DEF StopTickRefused
    <2>2. CASE SubmitRefused
      <3>1. StreamTypes' BY <2>1, <2>2, SubmitKeeps, Zenon DEF StreamTypes
      <3> QED BY <2>1, <2>2, <3>1, <1>u, SubmitKeeps, Zenon DEF VouchedReconciles
    <2>3. CASE UNCHANGED <<changed, tracked, eph, dur, refusals>>
      <3>1. StreamTypes' BY <2>1, <2>3, Zenon DEF StreamTypes
      <3>2. TrackedKeepNames' BY <2>1, <2>3, Zenon DEF TrackedKeepNames, Tracked, vars
      <3> QED BY <2>1, <3>1, <3>2, <1>u, Zenon DEF VouchedReconciles
    <2> QED BY <1>6, <2>2, <2>3, Zenon DEF StopTickRefused
  <1>7. ASSUME Flush PROVE WalInv'
    <2>1. /\ UNCHANGED vars /\ phase' = "down" /\ vouched' = Reconciles
          /\ UNCHANGED <<changed, eph, dur, dead, refusals>>
      BY <1>7, Zenon DEF Flush
    <2>2. Reconciles \in BOOLEAN BY Zenon DEF Reconciles
    <2>3. StreamTypes'
      BY <2>1, <2>2, <1>7, FlushKeepsReconciled, Zenon DEF StreamTypes
    <2> QED BY <2>1, <2>3, <1>u, <1>7, FlushKeepsReconciled, Zenon DEF VouchedReconciles
  <1>8. ASSUME Crash PROVE WalInv'
    <2>1. /\ UNCHANGED vars /\ phase' = "down" /\ vouched' = FALSE
          /\ UNCHANGED <<changed, tracked, eph, dur, dead, refusals>>
      BY <1>8, Zenon DEF Crash
    <2>2. StreamTypes' BY <2>1, Zenon DEF StreamTypes
    <2>3. TrackedKeepNames' BY <2>1, Zenon DEF TrackedKeepNames, Tracked, vars
    <2> QED BY <2>1, <2>2, <2>3, <1>u, Zenon DEF VouchedReconciles
  <1>9. ASSUME CleanBoot PROVE WalInv'
    <2>1. Reconciles BY <1>9, Zenon DEF CleanBoot, VouchedReconciles
    <2>2. /\ svc' = LoadedTable /\ UNCHANGED <<now, told, minted>>
          /\ changed' \subseteq LockIds /\ tracked' = [l \in LockIds |-> Untracked]
          /\ eph' = ScannedEph /\ dur' = ScannedDur
          /\ phase' = "up" /\ vouched' = FALSE /\ UNCHANGED <<dead, refusals>>
      BY <1>9, Zenon DEF CleanBoot, Restore
    <2>3. TypeOK'
      BY <2>1, <2>2, LoadedFromReconciled, Zenon DEF TypeOK
    <2>4. eph' \in [LockIds -> CoreLease] /\ dur' \in [LockIds -> LiveFrames]
      BY <2>2, LiteralTypes, EmptyStreams, Zenon DEF StreamTypes, ScannedEph, ScannedDur
    <2>5. StreamTypes'
      BY <2>2, <2>4, EmptyStreams, Zenon DEF StreamTypes
    <2>6. ExpiringAreStored'
      BY <2>1, <2>2, LoadedFromReconciled, Zenon DEF ExpiringAreStored
    <2>7. TrackedKeepNames'
      BY <2>2, Zenon DEF TrackedKeepNames, Tracked
    <2> QED BY <2>2, <2>3, <2>5, <2>6, <2>7, Zenon DEF VouchedReconciles
  <1>10. ASSUME DirtyBoot PROVE WalInv'
    <2>1. /\ UNCHANGED vars /\ changed' \subseteq LockIds
          /\ tracked' = [l \in LockIds |-> Untracked]
          /\ eph' = [l \in LockIds |-> NoLease] /\ dur' = [l \in LockIds |-> NoFrame]
          /\ dead' \in BOOLEAN /\ phase' = "up" /\ ~vouched' /\ UNCHANGED <<vouched, refusals>>
      BY <1>10, Zenon DEF DirtyBoot
    <2>2. StreamTypes'
      BY <2>1, LiteralTypes, EmptyStreams, Zenon DEF StreamTypes
    <2>3. TrackedKeepNames' BY <2>1, Zenon DEF TrackedKeepNames, Tracked
    <2> QED BY <2>1, <2>2, <2>3, <1>u, Zenon DEF VouchedReconciles
  <1> QED BY <1>1, <1>3, <1>4, <1>5, <1>6, <1>7, <1>8, <1>9, <1>10, Zenon DEF WalNext

\* The inductive invariant of the WAL store.
THEOREM WalInvHolds == WalSpec => []WalInv
  <1>1. WalInit => WalInv
    <2> SUFFICES ASSUME WalInit PROVE WalInv
      BY Zenon
    <2>1. TypeOK
      BY LiteralTypes, Zenon DEF WalInit, Init, TypeOK, EmptyService, Service
    <2>2. StreamTypes
      <3>1. /\ tracked \in [LockIds -> Tracks] /\ eph \in [LockIds -> CoreLease]
            /\ dur \in [LockIds -> LiveFrames]
        BY LiteralTypes, EmptyStreams, Zenon DEF WalInit
      <3>2. refusals \in 0..MaxRefusals /\ changed \subseteq LockIds
        BY WalStoreAssumption DEF WalInit
      <3>3. phase = "up" /\ vouched = FALSE /\ dead = FALSE
        BY Zenon DEF WalInit
      <3> QED BY <3>1, <3>2, <3>3, Zenon DEF StreamTypes
    <2>3. TrackedKeepNames
      BY Zenon DEF WalInit, TrackedKeepNames, Tracked
    <2>4. ExpiringAreStored
      BY DEF WalInit, Init, EmptyService, NoLease, ExpiringAreStored
    <2>5. VouchedReconciles
      BY Zenon DEF WalInit, VouchedReconciles
    <2> QED BY <2>1, <2>2, <2>3, <2>4, <2>5, Zenon DEF WalInv
  <1> QED BY <1>1, WalStep, PTL DEF WalSpec

\* An artefact the flushed marker vouches for never has an id in both streams,
\* so load() (wal_snapshot.rs) never meets the content it would drop the whole
\* table for: whatever names were given while locks were held, whatever
\* submits the engine refused and whenever the node crashed.
THEOREM VouchedDisjoint == WalSpec => []VouchedStreamsAreDisjoint
  <1>1. WalInv => VouchedStreamsAreDisjoint
    <2> SUFFICES ASSUME WalInv PROVE VouchedStreamsAreDisjoint
      BY Zenon
    <2>1. WalTypeOK
      BY Zenon DEF WalInv, StreamTypes, WalTypeOK, Tracks, LiveFrames
    <2> QED BY <2>1, ReconciledAreDisjoint, Zenon
            DEF WalInv, VouchedReconciles, VouchedStreamsAreDisjoint
  <1> QED BY <1>1, WalInvHolds, PTL

\* On a wallclock that is never set back, the table that a clean boot loads
\* from the two streams still backs every client: no lease in force is lost
\* or altered by the stop, the flush, the expiry scan and the load.
THEOREM WalBacks ==
    ASSUME ~ClockStepsBack
    PROVE  WalSpec => []TableBacksTheClient
  <1>1. WalInit => TableBacksTheClient
    BY DEF WalInit, Init, TableBacksTheClient, Live, NoLease
  <1>2. WalInv /\ TableBacksTheClient /\ [WalNext]_allVars => TableBacksTheClient'
    <2> SUFFICES ASSUME WalInv, TableBacksTheClient, [WalNext]_allVars PROVE TableBacksTheClient'
      BY Zenon
    <2>1. CASE CleanBoot
      <3>1. Reconciles BY <2>1, Zenon DEF CleanBoot, WalInv, VouchedReconciles
      <3>2. svc' = LoadedTable /\ now' = now /\ told' = told
        BY <2>1, Zenon DEF CleanBoot, Restore
      <3>3. \A l \in LockIds : Live(svc.locks[l], now) => svc'.locks[l] = svc.locks[l]
        BY <3>1, <3>2, LoadedFromReconciled, Zenon DEF WalInv
      <3> QED BY <3>2, <3>3 DEF TableBacksTheClient
    <2>2. CASE ~CleanBoot
      <3>1. [Next]_vars
        BY <2>2, Zenon DEF WalNext, allVars, WalSet, WalRelease, WalBreak, Tick, StopTick,
                    StopTickRefused, Flush, Crash, DirtyBoot, Next
      <3> QED BY <3>1, TableStep, Zenon DEF WalInv
    <2> QED BY <2>1, <2>2, Zenon
  <1> QED BY <1>1, <1>2, WalInvHolds, PTL DEF WalSpec
=============================================================================
