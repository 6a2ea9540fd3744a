------------------------- MODULE LockClusterProofs -------------------------
(***************************************************************************)
(* Proofs about LockCluster for every set of replicas, commands and locks, *)
(* every clock skew, and every number of view changes, restarts and        *)
(* sweeps: what a node answers is committed, a message is executed once in *)
(* a replica's life, and the clients of one primary hold a lock one at a   *)
(* time.                                                                   *)
(***************************************************************************)
EXTENDS LockCluster, SequenceTheorems, TLAPS

\* A leaf that names no prover is for the SMT solver.
USE SMTT(30)

(* ------------------------- the inductive invariant ---------------------- *)

SweepIds == {SweepId(n) : n \in 1..MaxSweeps}

Operations == [id : Messages \cup SweepIds, req : Requests]

Replies == [ok : BOOLEAN, lease : CoreLease,
            transition : {"none", "hold", "renew", "release", "break", "no reply"}]

Answers == [from : Replicas, id : Messages, ok : BOOLEAN, lease : CoreLease]

\* What the log, the queue, the tables and the caches hold.
StateTypes ==
    /\ log \in Seq(Operations) /\ queue \in Seq(Operations)
    /\ leader \in Replicas /\ now \in 1..MaxTime /\ sweeps \in 0..MaxSweeps
    /\ applied \in [Replicas -> Nat]
    /\ svc \in [Replicas -> Service]
    /\ replies \in [Replicas -> [Messages -> Replies]]
    /\ pending \in [Replicas -> SUBSET Messages]
    /\ saved \in [Replicas -> Service \cup {NoSnapshot}]
    /\ answers \subseteq Answers
    /\ faults \in [views : Nat, restarts : Nat]

\* The bounds that relate the positions to the log.
Positions ==
    /\ \A r \in Replicas : applied[r] <= Len(log)
    /\ Len(log) + Len(queue) <= MaxLog

\* A logged client message carries that client's command.
CarriesCommands(s) ==
    \A i \in 1..Len(s) : s[i].id \in Messages => s[i].req = Commands[s[i].id]

\* No id of the sweeper stands twice in s, and all of them are minted.
SweepsOnce(s, n) ==
    /\ \A i \in 1..Len(s) : s[i].id \notin Messages => \E k \in 1..n : s[i].id = SweepId(k)
    /\ \A i, j \in 1..Len(s) : s[i].id \notin Messages /\ s[i].id = s[j].id => i = j

SweepsAreFresh(l, q, n) ==
    /\ SweepsOnce(l, n) /\ SweepsOnce(q, n)
    /\ \A i \in 1..Len(l), j \in 1..Len(q) : l[i].id = q[j].id => l[i].id \in Messages

\* A replica has a reply cached for exactly the messages it has applied.
CacheIsApplied(l, a, c) ==
    /\ \A m \in Messages : c[m] # NoReply => \E i \in 1..a : l[i].id = m
    /\ \A i \in 1..a : l[i].id \in Messages => c[l[i].id] # NoReply

AnswersCommitted(l, as) == \A a \in as : \E i \in 1..Len(l) : l[i].id = a.id

\* What the first primary keeps for as long as it serves: it has not restarted
\* and its answers are the replies it has cached.
FirstView ==
    faults.views = 0 =>
        /\ leader = FirstLeader
        /\ saved[FirstLeader] = NoSnapshot
        /\ \A a \in answers : a.from = FirstLeader =>
              /\ replies[FirstLeader][a.id] # NoReply
              /\ a.ok = replies[FirstLeader][a.id].ok
              /\ a.lease = replies[FirstLeader][a.id].lease

\* The lease the SET c was granted: it ends within c's window from t on, and
\* while it is in force and the first n operations of l spare it, the record of
\* the table s is c's holder's and lasts as long.
TableBacksGrant(s, l, n, t, c, lease) ==
    /\ lease.expiry <= t + c.window
    /\ Live(lease, t) /\ (\A i \in 1..n : Spares(l[i].req, c.lock, c.holder, c.window))
          => /\ s.locks[c.lock].holder = c.holder
             /\ s.locks[c.lock].expiry >= lease.expiry

GrantsAreBacked ==
    faults.views = 0 =>
        \A m \in Messages :
            Commands[m].op = "set" /\ replies[FirstLeader][m].ok =>
                TableBacksGrant(svc[FirstLeader], log, applied[FirstLeader],
                                wallclock(FirstLeader), Commands[m],
                                replies[FirstLeader][m].lease)

ClusterInv ==
    /\ StateTypes
    /\ Positions
    /\ CarriesCommands(log) /\ CarriesCommands(queue)
    /\ SweepsAreFresh(log, queue, sweeps)
    /\ \A r \in Replicas : CacheIsApplied(log, applied[r], replies[r])
    /\ AnswersCommitted(log, answers)
    /\ FirstView
    /\ GrantsAreBacked

(* ---------------- what one operation does to one table ------------------ *)

\* The parts of a request.
LEMMA RequestParts ==
    ASSUME NEW req \in Requests
    PROVE  /\ req.lock \in LockIds
           /\ req.op \in {"get", "set", "release", "break"}
           /\ req.op = "get" => req \in GetRequests
           /\ req.op = "set" => req \in SetRequests
           /\ req.op = "release" => req \in ReleaseRequests(Nat)
           /\ req.op = "break" => req \in BreakRequests
  <1>1. CASE req \in GetRequests BY <1>1, Zenon DEF GetRequests
  <1>2. CASE req \in SetRequests BY <1>2, Zenon DEF SetRequests
  <1>3. CASE req \in ReleaseRequests(Nat) BY <1>3, Zenon DEF ReleaseRequests
  <1>4. CASE req \in BreakRequests BY <1>4, Zenon DEF BreakRequests
  <1> QED BY <1>1, <1>2, <1>3, <1>4, Zenon DEF Requests

\* Service::execute dispatches on the operation.
LEMMA ExecuteIs ==
    ASSUME NEW s, NEW t, NEW req
    PROVE  /\ req.op = "get" => Execute(s, t, req) = ExecuteGet(s, t, req)
           /\ req.op = "set" => Execute(s, t, req) = ExecuteSet(s, t, req)
           /\ req.op = "release" => Execute(s, t, req) = ExecuteRelease(s, t, req)
           /\ req.op = "break" => Execute(s, t, req) = ExecuteBreak(s, t, req)
  BY Zenon DEF Execute

LEMMA LiteralTypes == NoLease \in CoreLease /\ NoEntry \in DurableEntry
  BY LocksAssumption DEF NoLease, NoEntry, CoreLease, DurableEntry

\* The values an operation writes into a row are of the row's types.
LEMMA RowTypes ==
    ASSUME NEW old \in CoreLease, NEW prior \in DurableEntry, NEW gen \in Nat, NEW t \in Nat
    PROVE  /\ \A req \in SetRequests : CoreGrant(old, gen, t, req) \in CoreLease
           /\ \A req \in SetRequests : SetEntry(old, prior, t, req) \in DurableEntry
           /\ CoreAfterRelease(old, t) \in CoreLease
           /\ CoreKeeper(old) \in CoreLease
           /\ ClearedEntry(prior) \in DurableEntry
  <1>1. ASSUME NEW req \in SetRequests
        PROVE CoreGrant(old, gen, t, req) \in CoreLease /\ SetEntry(old, prior, t, req) \in DurableEntry
    <2>1. req.holder \in Holders /\ req.window \in Nat /\ req.name \in Names \cup {NoName}
      BY LocksAssumption, Zenon DEF SetRequests
    <2>2. CoreGrant(old, gen, t, req) \in CoreLease
      BY <2>1 DEF CoreGrant, CoreLease
    <2>3. SetEntry(old, prior, t, req) \in DurableEntry
      BY <2>1, LocksAssumption DEF SetEntry, DurableEntry, Inherit, TakenAtOnHolderChange
    <2> QED BY <2>2, <2>3, Zenon
  <1>2. CoreAfterRelease(old, t) \in CoreLease /\ CoreKeeper(old) \in CoreLease
    BY LiteralTypes DEF CoreAfterRelease, CoreKeeper, CoreLease
  <1>3. ClearedEntry(prior) \in DurableEntry
    BY LocksAssumption DEF ClearedEntry, DurableEntry
  <1> QED BY <1>1, <1>2, <1>3, Zenon

\* An outcome keeps the table well-typed and leaves every row but the
\* request's alone; its reply is one the cache tells from none.
Sane(s, req, out) ==
    /\ out.svc \in Service
    /\ \A l \in LockIds : l # req.lock => out.svc.locks[l] = s.locks[l]
    /\ [ok |-> out.ok, lease |-> out.lease, transition |-> out.transition] \in Replies
    /\ out.transition # "no reply"

LEMMA SameSane ==
    ASSUME NEW s \in Service, NEW req \in Requests, NEW lease \in CoreLease
    PROVE  /\ Sane(s, req, Executed(s, TRUE, lease, "none"))
           /\ Sane(s, req, Executed(s, FALSE, lease, "none"))
  BY Zenon DEF Sane, Executed, Replies

LEMMA RowSane ==
    ASSUME NEW s \in Service, NEW req \in Requests, NEW new \in CoreLease, NEW gen \in Nat,
           NEW entry \in DurableEntry, NEW lease \in CoreLease,
           NEW transition \in {"none", "hold", "renew", "release", "break"}
    PROVE  /\ WithRow(s, req.lock, new, gen, entry).locks[req.lock] = new
           /\ Sane(s, req, Executed(WithRow(s, req.lock, new, gen, entry), TRUE, lease, transition))
  <1>1. req.lock \in LockIds BY RequestParts, Zenon
  <1>2. /\ WithRow(s, req.lock, new, gen, entry) \in Service
        /\ WithRow(s, req.lock, new, gen, entry).locks = [s.locks EXCEPT ![req.lock] = new]
    BY <1>1, Zenon DEF WithRow, Service
  <1>3. s.locks \in [LockIds -> CoreLease] BY Zenon DEF Service
  <1>4. /\ WithRow(s, req.lock, new, gen, entry).locks[req.lock] = new
        /\ \A l \in LockIds : l # req.lock => WithRow(s, req.lock, new, gen, entry).locks[l] = s.locks[l]
    BY <1>1, <1>2, <1>3, Zenon
  <1> DEFINE w == WithRow(s, req.lock, new, gen, entry)
  <1> HIDE DEF w
  <1>5. w \in Service /\ \A l \in LockIds : l # req.lock => w.locks[l] = s.locks[l]
    BY <1>2, <1>4, Zenon DEF w
  <1>6. Sane(s, req, Executed(w, TRUE, lease, transition))
    BY <1>5, Zenon DEF Sane, Executed, Replies
  <1> QED BY <1>4, <1>6, Zenon DEF w

\* Every operation of Service::execute is sane.
LEMMA ExecuteSane ==
    ASSUME NEW s \in Service, NEW t \in Nat, NEW req \in Requests
    PROVE  Sane(s, req, Execute(s, t, req))
  <1> DEFINE l == req.lock
             old == s.locks[l]
             gen == s.generations[l]
             prior == s.durable[l]
             Kinds == {"none", "hold", "renew", "release", "break"}
  <1>1. /\ l \in LockIds /\ old \in CoreLease /\ gen \in Nat /\ prior \in DurableEntry
    BY RequestParts, Zenon DEF Service
  <1>2. CASE req.op = "get"
    <2>1. (IF Live(old, t) THEN old ELSE NoLease) \in CoreLease BY <1>1, LiteralTypes, Zenon
    <2>2. Execute(s, t, req) = Executed(s, TRUE, IF Live(old, t) THEN old ELSE NoLease, "none")
      BY <1>2, ExecuteIs, Zenon DEF ExecuteGet
    <2> QED BY <2>1, <2>2, SameSane, Zenon
  <1>3. CASE req.op = "set"
    <2> DEFINE new == CoreGrant(old, gen, t, req)
               entry == SetEntry(old, prior, t, req)
               ngen == IF Live(old, t) THEN gen ELSE new.lease_id
               refusal == IF Live(old, t) THEN old ELSE NoLease
               kind == IF Live(old, t) THEN "renew" ELSE "hold"
    <2>1. new \in CoreLease /\ entry \in DurableEntry BY <1>1, <1>3, RequestParts, RowTypes, Zenon
    <2>2. ngen \in Nat /\ refusal \in CoreLease /\ kind \in Kinds
      BY <1>1, <2>1, LiteralTypes, Zenon DEF CoreLease
    <2>3. Execute(s, t, req) = IF CoreGrants(old, t, req)
                               THEN Executed(WithRow(s, l, new, ngen, entry), TRUE, new, kind)
                               ELSE Executed(s, FALSE, refusal, "none")
      BY <1>3, ExecuteIs, Zenon DEF ExecuteSet
    <2> HIDE DEF new, entry, ngen, refusal, kind
    <2>4. /\ Sane(s, req, Executed(WithRow(s, l, new, ngen, entry), TRUE, new, kind))
          /\ Sane(s, req, Executed(s, FALSE, refusal, "none"))
      BY <2>1, <2>2, RowSane, SameSane, Zenon
    <2> QED BY <2>3, <2>4, Zenon
  <1>4. CASE req.op = "release"
    <2> DEFINE new == CoreAfterRelease(old, t)
               entry == ClearedEntry(prior)
               kind == IF Live(old, t) THEN "release" ELSE "none"
    <2>1. new \in CoreLease /\ entry \in DurableEntry /\ kind \in Kinds BY <1>1, RowTypes, Zenon
    <2>2. Execute(s, t, req) = IF CoreReleases(old, t, req)
                               THEN Executed(WithRow(s, l, new, gen, entry), TRUE, NoLease, kind)
                               ELSE Executed(s, FALSE, old, "none")
      BY <1>4, ExecuteIs, Zenon DEF ExecuteRelease
    <2> HIDE DEF new, entry, kind
    <2>3. /\ Sane(s, req, Executed(WithRow(s, l, new, gen, entry), TRUE, NoLease, kind))
          /\ Sane(s, req, Executed(s, FALSE, old, "none"))
      BY <1>1, <2>1, LiteralTypes, RowSane, SameSane, Zenon
    <2> QED BY <2>2, <2>3, Zenon
  <1>5. CASE req.op = "break"
    <2> DEFINE new == CoreKeeper(old)
               entry == ClearedEntry(prior)
    <2>1. new \in CoreLease /\ new.lease_id \in Nat /\ entry \in DurableEntry
      BY <1>1, RowTypes, Zenon DEF CoreLease
    <2>2. Execute(s, t, req) = IF CoreBreaks(old)
                               THEN Executed(WithRow(s, l, new, new.lease_id, entry), TRUE, new, "break")
                               ELSE Executed(s, FALSE, NoLease, "none")
      BY <1>5, ExecuteIs, Zenon DEF ExecuteBreak
    <2> HIDE DEF new, entry
    <2>3. /\ Sane(s, req, Executed(WithRow(s, l, new, new.lease_id, entry), TRUE, new, "break"))
          /\ Sane(s, req, Executed(s, FALSE, NoLease, "none"))
      BY <1>1, <2>1, LiteralTypes, RowSane, SameSane, Zenon
    <2> QED BY <2>2, <2>3, Zenon
  <1> QED BY <1>2, <1>3, <1>4, <1>5, RequestParts, Zenon

\* A granted SET's lease is the lock's record: the client's, to the end of the
\* window.
LEMMA ExecuteGrants ==
    ASSUME NEW s \in Service, NEW t \in Nat, NEW req \in Requests, req.op = "set",
           Execute(s, t, req).ok
    PROVE  /\ Execute(s, t, req).svc.locks[req.lock] = Execute(s, t, req).lease
           /\ Execute(s, t, req).lease.holder = req.holder
           /\ Execute(s, t, req).lease.expiry = t + req.window
  <1> DEFINE old == s.locks[req.lock]
             gen == s.generations[req.lock]
             new == CoreGrant(old, gen, t, req)
             entry == SetEntry(old, s.durable[req.lock], t, req)
             ngen == IF Live(old, t) THEN gen ELSE new.lease_id
             kind == IF Live(old, t) THEN "renew" ELSE "hold"
  <1>1. Execute(s, t, req) = Executed(WithRow(s, req.lock, new, ngen, entry), TRUE, new, kind)
    BY ExecuteIs DEF ExecuteSet, Executed
  <1>2. new.holder = req.holder /\ new.expiry = t + req.window BY Zenon DEF CoreGrant
  <1>3. req.lock \in LockIds /\ s.locks \in [LockIds -> CoreLease] BY RequestParts, Zenon DEF Service
  <1> HIDE DEF new, entry, ngen, kind
  <1>4. WithRow(s, req.lock, new, ngen, entry).locks[req.lock] = new
    BY <1>3, Zenon DEF WithRow
  <1> QED BY <1>1, <1>2, <1>4 DEF Executed

\* A record in force whose end is at least e, and e within the window w from
\* now: an operation that spares h's lease of window w leaves it h's, and
\* lasting to e.
LEMMA ExecuteSpares ==
    ASSUME NEW s \in Service, NEW t \in Nat, NEW req \in Requests,
           NEW l \in LockIds, NEW h \in Holders, NEW w \in Nat, NEW e \in Nat,
           s.locks[l].holder = h, s.locks[l].expiry >= e, e > t, e <= t + w,
           Spares(req, l, h, w)
    PROVE  LET n == Execute(s, t, req).svc.locks[l] IN n.holder = h /\ n.expiry >= e
  <1> DEFINE old == s.locks[l]
             out == Execute(s, t, req)
  <1>1. /\ req.lock \in LockIds /\ old \in CoreLease /\ old.expiry \in Nat /\ Live(old, t)
    BY RequestParts DEF Service, CoreLease, Live
  <1>2. CASE req.lock # l
    BY <1>2, ExecuteSane, Zenon DEF Sane
  <1>3. CASE req.lock = l /\ req.op = "get"
    BY <1>3, ExecuteIs DEF ExecuteGet, Executed
  <1>4. CASE req.lock = l /\ req.op = "set"
    <2>1. CASE out.ok
      <3>1. CoreGrants(old, t, req) BY <1>4, <2>1, ExecuteIs DEF ExecuteSet, Executed
      <3>2. req.holder = h BY <1>1, <3>1, Zenon DEF CoreGrants
      <3>3. req.window >= w /\ req.window \in Nat
        BY <1>4, <3>2, RequestParts, LocksAssumption, Zenon DEF Spares, SetRequests
      <3>4. out.svc.locks[l].holder = h /\ out.svc.locks[l].expiry = t + req.window
        BY <1>4, <2>1, <3>2, ExecuteGrants
      <3> QED BY <3>3, <3>4
    <2>2. CASE ~out.ok
      BY <1>4, <2>2, ExecuteIs DEF ExecuteSet, Executed
    <2> QED BY <2>1, <2>2, Zenon
  <1>5. CASE req.lock = l /\ req.op = "release"
    <2>1. req.holder # h BY <1>5, Zenon DEF Spares
    <2>2. ~CoreReleases(old, t, req) BY <1>1, <2>1, Zenon DEF CoreReleases
    <2>3. out.svc = s BY <1>5, <2>2, ExecuteIs DEF ExecuteRelease, Executed
    <2> QED BY <2>3, Zenon
  <1>6. req.lock = l => req.op # "break" BY Zenon DEF Spares
  <1> QED BY <1>2, <1>3, <1>4, <1>5, <1>6, RequestParts, Zenon

(* ------------------------------- Init ----------------------------------- *)

LEMMA InitInv == Init => ClusterInv
  <1> SUFFICES ASSUME Init PROVE ClusterInv
    BY Zenon
  <1> USE DEF Init
  <1>1. EmptyService \in Service BY LiteralTypes, Zenon DEF EmptyService, Service
  <1>2. NoReply \in Replies BY LiteralTypes, Zenon DEF NoReply, Replies
  <1>3. StateTypes
    BY <1>1, <1>2, LockClusterAssumption DEF StateTypes
  <1>4. Positions BY LockClusterAssumption DEF Positions
  <1>5. /\ CarriesCommands(log) /\ CarriesCommands(queue)
        /\ SweepsAreFresh(log, queue, sweeps)
    BY DEF CarriesCommands, SweepsAreFresh, SweepsOnce
  <1>6. /\ \A r \in Replicas : CacheIsApplied(log, applied[r], replies[r])
        /\ AnswersCommitted(log, answers)
    BY DEF CacheIsApplied, AnswersCommitted
  <1>7. FirstView /\ GrantsAreBacked
    BY LockClusterAssumption, Zenon DEF FirstView, GrantsAreBacked, NoReply
  <1> QED BY <1>3, <1>4, <1>5, <1>6, <1>7, Zenon DEF ClusterInv

(* ----------------------------- the requests ----------------------------- *)

\* The cached reply of a message is that of a committed operation.
LEMMA CachedIsCommitted ==
    ASSUME ClusterInv, NEW r \in Replicas, NEW m \in Messages, replies[r][m] # NoReply
    PROVE  /\ Answer(r, m, replies[r][m]) \in Answers
           /\ \E i \in 1..Len(log) : log[i].id = m
  <1>1. replies[r][m] \in Replies BY DEF ClusterInv, StateTypes
  <1>2. Answer(r, m, replies[r][m]) \in Answers BY <1>1, Zenon DEF Answer, Answers, Replies
  <1>3. PICK i \in 1..applied[r] : log[i].id = m BY Zenon DEF ClusterInv, CacheIsApplied
  <1>4. applied[r] \in Nat /\ applied[r] <= Len(log) /\ Len(log) \in Nat
    BY DEF ClusterInv, StateTypes, Positions
  <1> QED BY <1>2, <1>3, <1>4

\* Cached replies may be answered again.
LEMMA AnswerKeeps ==
    ASSUME ClusterInv, NEW r \in Replicas, NEW m \in Messages, replies[r][m] # NoReply,
           NEW as, as = answers \/ as = answers \cup {Answer(r, m, replies[r][m])}
    PROVE  /\ as \subseteq Answers
           /\ AnswersCommitted(log, as)
           /\ faults.views = 0 =>
                \A a \in as : a.from = FirstLeader =>
                   /\ replies[FirstLeader][a.id] # NoReply
                   /\ a.ok = replies[FirstLeader][a.id].ok
                   /\ a.lease = replies[FirstLeader][a.id].lease
  <1> DEFINE new == Answer(r, m, replies[r][m])
  <1>1. new \in Answers /\ \E i \in 1..Len(log) : log[i].id = m BY CachedIsCommitted, Zenon
  <1>2. new.from = r /\ new.id = m /\ new.ok = replies[r][m].ok /\ new.lease = replies[r][m].lease
    BY Zenon DEF Answer
  <1>3. answers \subseteq Answers /\ AnswersCommitted(log, answers) BY Zenon DEF ClusterInv, StateTypes
  <1> HIDE DEF new
  <1>4. AnswersCommitted(log, as) BY <1>1, <1>2, <1>3, Zenon DEF AnswersCommitted, new
  <1>5. ASSUME faults.views = 0, NEW a \in as, a.from = FirstLeader
        PROVE /\ replies[FirstLeader][a.id] # NoReply
              /\ a.ok = replies[FirstLeader][a.id].ok
              /\ a.lease = replies[FirstLeader][a.id].lease
    <2>1. CASE a \in answers BY <1>5, <2>1, Zenon DEF ClusterInv, FirstView
    <2>2. CASE a = new BY <1>2, <1>5, <2>2, Zenon
    <2> QED BY <2>1, <2>2, Zenon DEF new
  <1> QED BY <1>1, <1>3, <1>4, <1>5, Zenon DEF new

\* The clocks.
LEMMA ClockTypes ==
    ASSUME ClusterInv, NEW r \in Replicas
    PROVE  /\ now \in Nat /\ now >= 1 /\ MaxTime \in Nat
           /\ Skew[r] \in Nat /\ wallclock(r) \in Nat
  <1>1. MaxTime \in Nat BY LockClusterAssumption, Zenon
  <1>2. now \in 1..MaxTime BY Zenon DEF ClusterInv, StateTypes
  <1>3. Skew[r] \in Nat BY LockClusterAssumption, Zenon
  <1>4. now \in Nat /\ now >= 1 BY <1>1, <1>2
  <1> QED BY <1>1, <1>3, <1>4 DEF wallclock

LEMMA RequestCachedKeeps ==
    ASSUME ClusterInv, NEW r \in Replicas, NEW m \in Messages, RequestCached(r, m)
    PROVE  ClusterInv'
  <1> USE DEF RequestCached
  <1>1. /\ answers' \subseteq Answers /\ AnswersCommitted(log, answers')
        /\ faults.views = 0 =>
                \A a \in answers' : a.from = FirstLeader =>
                   /\ replies[FirstLeader][a.id] # NoReply
                   /\ a.ok = replies[FirstLeader][a.id].ok
                   /\ a.lease = replies[FirstLeader][a.id].lease
    BY AnswerKeeps
  <1>2. StateTypes' BY <1>1, Zenon DEF ClusterInv, StateTypes
  <1>3. FirstView' BY <1>1, Zenon DEF ClusterInv, FirstView
  <1>4. GrantsAreBacked' BY Zenon DEF ClusterInv, GrantsAreBacked, wallclock
  <1> QED BY <1>1, <1>2, <1>3, <1>4, Zenon DEF ClusterInv, Positions

LEMMA RequestProposedKeeps ==
    ASSUME ClusterInv, NEW r \in Replicas, NEW m \in Messages, RequestProposed(r, m)
    PROVE  ClusterInv'
  <1> DEFINE e == Entry(m, Commands[m])
  <1>1. /\ queue' = Append(queue, e) /\ pending' = [pending EXCEPT ![r] = @ \cup {m}]
        /\ Len(log) + Len(queue) < MaxLog
        /\ UNCHANGED <<log, leader, now, applied, svc, replies, saved, answers, sweeps, faults>>
    BY Zenon DEF RequestProposed
  <1>2. e \in Operations /\ e.id = m /\ e.req = Commands[m]
    BY LockClusterAssumption, Zenon DEF Entry, Operations
  <1> HIDE DEF e
  <1>3. queue \in Seq(Operations) /\ log \in Seq(Operations) /\ sweeps \in Nat
    BY LockClusterAssumption DEF ClusterInv, StateTypes
  <1>4. /\ queue' \in Seq(Operations) /\ Len(queue') = Len(queue) + 1
        /\ \A i \in 1..Len(queue) : queue'[i] = queue[i]
        /\ queue'[Len(queue) + 1] = e
    BY <1>1, <1>2, <1>3
  <1>5. StateTypes' BY <1>1, <1>4, Zenon DEF ClusterInv, StateTypes
  <1>6. Positions' BY <1>1, <1>3, <1>4, LockClusterAssumption DEF ClusterInv, Positions
  <1>a. \A i \in 1..Len(queue') :
           \/ i \in 1..Len(queue) /\ queue'[i] = queue[i]
           \/ queue'[i].id = m /\ queue'[i].req = Commands[m]
    <2> TAKE i \in 1..Len(queue')
    <2>1. i \in 1..Len(queue) \/ i = Len(queue) + 1 BY <1>3, <1>4
    <2> QED BY <1>2, <1>4, <2>1, Zenon
  <1>7. CarriesCommands(queue') BY <1>a, Zenon DEF ClusterInv, CarriesCommands
  <1>8. SweepsAreFresh(log', queue', sweeps')
    <2>1. SweepsAreFresh(log, queue, sweeps) BY Zenon DEF ClusterInv
    <2>2. \A i \in 1..Len(queue') :
             queue'[i].id \notin Messages => i \in 1..Len(queue) /\ queue'[i] = queue[i]
      BY <1>a, Zenon
    <2>3. SweepsOnce(queue', sweeps) BY <2>1, <2>2 DEF SweepsAreFresh, SweepsOnce
    <2>4. \A i \in 1..Len(log), j \in 1..Len(queue') : log[i].id = queue'[j].id => log[i].id \in Messages
      BY <2>1, <2>2, Zenon DEF SweepsAreFresh
    <2> QED BY <1>1, <2>1, <2>3, <2>4, Zenon DEF SweepsAreFresh
  <1>9. FirstView' BY <1>1, Zenon DEF ClusterInv, FirstView
  <1>10. GrantsAreBacked' BY <1>1, Zenon DEF ClusterInv, GrantsAreBacked, wallclock
  <1> QED BY <1>1, <1>5, <1>6, <1>7, <1>8, <1>9, <1>10, Zenon DEF ClusterInv

LEMMA RequestRefusedKeeps ==
    ASSUME ClusterInv, NEW r \in Replicas, NEW m \in Messages, RequestRefused(r, m)
    PROVE  ClusterInv'
  <1> USE DEF RequestRefused
  <1>1. StateTypes' BY Zenon DEF ClusterInv, StateTypes
  <1>2. FirstView' BY Zenon DEF ClusterInv, FirstView
  <1>3. GrantsAreBacked' BY Zenon DEF ClusterInv, GrantsAreBacked, wallclock
  <1> QED BY <1>1, <1>2, <1>3, Zenon DEF ClusterInv, Positions

(* ------------------------------ the sweeper ----------------------------- *)

\* The breaks one sweep proposes: well-typed operations under fresh ids.
Breaks(locks, n) ==
    [i \in 1..Len(locks) |-> Entry(SweepId(n + i), [op |-> "break", lock |-> locks[i]])]

LEMMA BreaksAreFresh ==
    ASSUME NEW r \in Replicas, NEW locks \in Swept(r), NEW n \in Nat,
           n + Len(locks) <= MaxSweeps
    PROVE  /\ Len(locks) \in Nat
           /\ Breaks(locks, n) \in Seq(Operations) /\ Len(Breaks(locks, n)) = Len(locks)
           /\ \A i \in 1..Len(locks) : /\ Breaks(locks, n)[i].id = SweepId(n + i)
                                       /\ Breaks(locks, n)[i].id \notin Messages
  <1> DEFINE breaks == Breaks(locks, n)
  <1>1. PICK k \in 0..SWEEP_BUDGET : locks \in [1..k -> Expired(r)] BY Zenon DEF Swept
  <1>2. k \in Nat BY LockClusterAssumption
  <1>3. Len(locks) = k BY <1>1, <1>2
  <1>4. MaxSweeps \in Nat BY LockClusterAssumption, Zenon
  <1>5. ASSUME NEW i \in 1..k
        PROVE /\ breaks[i] \in Operations /\ breaks[i].id = SweepId(n + i)
              /\ breaks[i].id \notin Messages
    <2>1. breaks[i] = Entry(SweepId(n + i), [op |-> "break", lock |-> locks[i]])
      BY <1>3, <1>5, Zenon DEF Breaks
    <2>2. locks[i] \in LockIds BY <1>1, <1>5, Zenon DEF Expired
    <2>3. [op |-> "break", lock |-> locks[i]] \in Requests BY <2>2, Zenon DEF Requests, BreakRequests
    <2>4. n + i \in 1..MaxSweeps BY <1>2, <1>3, <1>4, <1>5
    <2>5. SweepId(n + i) \in SweepIds /\ SweepId(n + i) \notin Messages
      BY <2>4, LockClusterAssumption, Zenon DEF SweepIds
    <2> QED BY <2>1, <2>3, <2>5 DEF Entry, Operations
  <1>6. breaks \in [1..k -> Operations] BY <1>3, <1>5, Zenon DEF Breaks
  <1>7. breaks \in Seq(Operations) /\ Len(breaks) = k BY <1>2, <1>6
  <1> QED BY <1>2, <1>3, <1>5, <1>7, Zenon

LEMMA SweepKeeps ==
    ASSUME ClusterInv, NEW r \in Replicas, Sweep(r)
    PROVE  ClusterInv'
  <1>1. PICK locks \in Swept(r) :
           /\ sweeps + Len(locks) <= MaxSweeps
           /\ Len(log) + Len(queue) + Len(locks) <= MaxLog
           /\ queue' = queue \o Breaks(locks, sweeps)
           /\ sweeps' = sweeps + Len(locks)
    BY Zenon DEF Sweep, Breaks
  <1> DEFINE breaks == Breaks(locks, sweeps)
             n == Len(locks)
  <1>2. UNCHANGED <<log, leader, now, applied, svc, replies, pending, saved, answers, faults>>
    BY Zenon DEF Sweep
  <1>3. queue \in Seq(Operations) /\ log \in Seq(Operations) /\ sweeps \in Nat /\ MaxSweeps \in Nat
    BY LockClusterAssumption DEF ClusterInv, StateTypes
  <1>4. /\ n \in Nat /\ breaks \in Seq(Operations) /\ Len(breaks) = n
        /\ \A i \in 1..n : breaks[i].id = SweepId(sweeps + i) /\ breaks[i].id \notin Messages
    BY <1>1, <1>3, BreaksAreFresh, Zenon
  <1>5. queue' = queue \o breaks BY <1>1, Zenon
  <1> HIDE DEF breaks, n
  <1>6. /\ queue' \in Seq(Operations) /\ Len(queue') = Len(queue) + n
        /\ \A i \in 1..(Len(queue) + n) :
              queue'[i] = IF i <= Len(queue) THEN queue[i] ELSE breaks[i - Len(queue)]
    BY <1>3, <1>4, <1>5, ConcatProperties, Zenon
  <1>7. sweeps' = sweeps + n /\ sweeps' \in 0..MaxSweeps
    BY <1>1, <1>3, <1>4 DEF n
  <1>8. StateTypes' BY <1>2, <1>6, <1>7, Zenon DEF ClusterInv, StateTypes
  <1>9. Positions' BY <1>1, <1>2, <1>3, <1>4, <1>6, LockClusterAssumption DEF ClusterInv, Positions, n
  <1>10. \A i \in 1..Len(queue') :
            \/ i \in 1..Len(queue) /\ queue'[i] = queue[i]
            \/ /\ i \notin 1..Len(queue) /\ i - Len(queue) \in 1..n
               /\ queue'[i].id = SweepId(sweeps + (i - Len(queue))) /\ queue'[i].id \notin Messages
    BY <1>3, <1>4, <1>6
  <1>11. CarriesCommands(queue') BY <1>10 DEF ClusterInv, CarriesCommands
  <1>12. \A a, b : SweepId(a) = SweepId(b) => a = b BY Zenon DEF SweepId
  <1>13. SweepsOnce(queue', sweeps')
    <2>1. \A i \in 1..Len(queue') : queue'[i].id \notin Messages =>
             \E k \in 1..sweeps' : queue'[i].id = SweepId(k)
      <3> SUFFICES ASSUME NEW i \in 1..Len(queue'), queue'[i].id \notin Messages
                   PROVE \E k \in 1..sweeps' : queue'[i].id = SweepId(k)
        BY Zenon
      <3>1. CASE i \in 1..Len(queue) /\ queue'[i] = queue[i]
        <4>1. PICK k \in 1..sweeps : queue[i].id = SweepId(k)
          BY <3>1, Zenon DEF ClusterInv, SweepsAreFresh, SweepsOnce
        <4> QED BY <1>3, <1>4, <1>7, <3>1, <4>1
      <3>2. CASE i - Len(queue) \in 1..n /\ queue'[i].id = SweepId(sweeps + (i - Len(queue)))
        <4>1. sweeps + (i - Len(queue)) \in 1..sweeps' BY <1>3, <1>4, <1>7, <3>2
        <4> QED BY <3>2, <4>1, Zenon
      <3> QED BY <1>10, <3>1, <3>2, Zenon
    <2>2. ASSUME NEW i \in 1..Len(queue'), NEW j \in 1..Len(queue'),
                 queue'[i].id \notin Messages, queue'[i].id = queue'[j].id
          PROVE i = j
      <3>1. CASE i \in 1..Len(queue) /\ j \in 1..Len(queue)
        BY <1>10, <2>2, <3>1, Zenon DEF ClusterInv, SweepsAreFresh, SweepsOnce
      <3>2. CASE i \in 1..Len(queue) /\ j \notin 1..Len(queue)
        <4>1. PICK k \in 1..sweeps : queue[i].id = SweepId(k)
          BY <1>10, <2>2, <3>2, Zenon DEF ClusterInv, SweepsAreFresh, SweepsOnce
        <4>2. SweepId(k) = SweepId(sweeps + (j - Len(queue))) /\ j - Len(queue) \in 1..n
          BY <1>10, <2>2, <3>2, <4>1, Zenon
        <4> QED BY <1>3, <1>4, <1>12, <4>1, <4>2
      <3>3. CASE i \notin 1..Len(queue) /\ j \in 1..Len(queue)
        <4>1. PICK k \in 1..sweeps : queue[j].id = SweepId(k)
          BY <1>10, <2>2, <3>3, Zenon DEF ClusterInv, SweepsAreFresh, SweepsOnce
        <4>2. SweepId(k) = SweepId(sweeps + (i - Len(queue))) /\ i - Len(queue) \in 1..n
          BY <1>10, <2>2, <3>3, <4>1, Zenon
        <4> QED BY <1>3, <1>4, <1>12, <4>1, <4>2
      <3>4. CASE i \notin 1..Len(queue) /\ j \notin 1..Len(queue)
        <4>1. SweepId(sweeps + (i - Len(queue))) = SweepId(sweeps + (j - Len(queue)))
          BY <1>10, <2>2, <3>4, Zenon
        <4>2. sweeps + (i - Len(queue)) = sweeps + (j - Len(queue)) BY <1>12, <4>1, Zenon
        <4> QED BY <1>3, <4>2
      <3> QED BY <3>1, <3>2, <3>3, <3>4, Zenon
    <2> QED BY <2>1, <2>2, Zenon DEF SweepsOnce
  <1>14. SweepsOnce(log, sweeps')
    BY <1>3, <1>4, <1>7 DEF ClusterInv, SweepsAreFresh, SweepsOnce
  <1>15. ASSUME NEW i \in 1..Len(log), NEW j \in 1..Len(queue'), log[i].id = queue'[j].id
         PROVE log[i].id \in Messages
    <2>1. CASE j \in 1..Len(queue)
      BY <1>10, <1>15, <2>1, Zenon DEF ClusterInv, SweepsAreFresh
    <2>2. CASE j \notin 1..Len(queue) /\ log[i].id \notin Messages
      <3>1. PICK k \in 1..sweeps : log[i].id = SweepId(k)
        BY <2>2, Zenon DEF ClusterInv, SweepsAreFresh, SweepsOnce
      <3>2. SweepId(k) = SweepId(sweeps + (j - Len(queue))) /\ j - Len(queue) \in 1..n
        BY <1>10, <1>15, <2>2, <3>1, Zenon
      <3> QED BY <1>3, <1>4, <1>12, <3>1, <3>2
    <2> QED BY <2>1, <2>2, Zenon
  <1>16. SweepsAreFresh(log', queue', sweeps')
    BY <1>2, <1>13, <1>14, <1>15, Zenon DEF SweepsAreFresh
  <1>17. FirstView' BY <1>2, Zenon DEF ClusterInv, FirstView
  <1>18. GrantsAreBacked' BY <1>2, Zenon DEF ClusterInv, GrantsAreBacked, wallclock
  <1> QED BY <1>2, <1>8, <1>9, <1>11, <1>16, <1>17, <1>18, Zenon DEF ClusterInv

(* ------------------------ the core and the clock ------------------------ *)

LEMMA CommitKeeps ==
    ASSUME ClusterInv, Commit
    PROVE  ClusterInv'
  <1> DEFINE e == Head(queue)
  <1>1. /\ queue # <<>> /\ log' = Append(log, e) /\ queue' = Tail(queue)
        /\ UNCHANGED <<leader, now, applied, svc, replies, pending, saved, answers, sweeps, faults>>
    BY Zenon DEF Commit
  <1>2. queue \in Seq(Operations) /\ log \in Seq(Operations)
    BY Zenon DEF ClusterInv, StateTypes
  <1>3. /\ e \in Operations /\ e = queue[1]
        /\ queue' \in Seq(Operations) /\ Len(queue') = Len(queue) - 1 /\ Len(queue) >= 1
        /\ \A i \in 1..Len(queue') : queue'[i] = queue[i + 1]
    BY <1>1, <1>2, HeadTailProperties
  <1> HIDE DEF e
  <1>4. /\ log' \in Seq(Operations) /\ Len(log') = Len(log) + 1
        /\ \A i \in 1..Len(log) : log'[i] = log[i]
        /\ log'[Len(log) + 1] = queue[1]
    BY <1>1, <1>2, <1>3
  <1>q. 1 \in 1..Len(queue) /\ \A i \in 1..Len(queue') : i + 1 \in 1..Len(queue) /\ i + 1 # 1
    BY <1>2, <1>3
  <1>l. \A i \in 1..Len(log') :
           \/ i \in 1..Len(log) /\ log'[i] = log[i]
           \/ i = Len(log) + 1 /\ log'[i] = queue[1]
    <2> TAKE i \in 1..Len(log')
    <2>1. Len(log) \in Nat BY <1>2
    <2>2. i \in 1..Len(log) \/ i = Len(log) + 1 BY <1>4, <2>1
    <2> QED BY <1>4, <2>2, Zenon
  <1>5. StateTypes' BY <1>1, <1>3, <1>4, Zenon DEF ClusterInv, StateTypes
  <1>6. Positions'
    <2>1. \A r \in Replicas : applied[r] \in Nat /\ applied[r] <= Len(log)
      BY Zenon DEF ClusterInv, StateTypes, Positions
    <2> QED BY <1>1, <1>2, <1>3, <1>4, <2>1 DEF ClusterInv, Positions
  <1>7. CarriesCommands(log') /\ CarriesCommands(queue')
    <2>1. CarriesCommands(log) /\ CarriesCommands(queue) BY Zenon DEF ClusterInv
    <2>2. CarriesCommands(queue')
      <3> SUFFICES ASSUME NEW i \in 1..Len(queue'), queue'[i].id \in Messages
                   PROVE  queue'[i].req = Commands[queue'[i].id]
        BY Zenon DEF CarriesCommands
      <3>1. queue'[i] = queue[i + 1] /\ i + 1 \in 1..Len(queue) BY <1>3, <1>q, Zenon
      <3> QED BY <2>1, <3>1, Zenon DEF CarriesCommands
    <2>3. CarriesCommands(log') BY <1>l, <1>q, <2>1 DEF CarriesCommands
    <2> QED BY <2>2, <2>3, Zenon
  <1>8. SweepsAreFresh(log', queue', sweeps')
    <2>0. SweepsAreFresh(log, queue, sweeps) BY Zenon DEF ClusterInv
    <2>1. 1 \in 1..Len(queue) /\ \A i \in 1..Len(queue') : i + 1 \in 1..Len(queue) /\ i + 1 # 1
      BY <1>q, Zenon
    <2>2. SweepsOnce(queue', sweeps)
      <3>1. SweepsOnce(queue, sweeps) BY <2>0, Zenon DEF SweepsAreFresh
      <3>2. \A i \in 1..Len(queue') : queue'[i].id \notin Messages =>
               \E k \in 1..sweeps : queue'[i].id = SweepId(k)
        BY <1>3, <2>1, <3>1 DEF SweepsOnce
      <3>3. ASSUME NEW i \in 1..Len(queue'), NEW j \in 1..Len(queue'),
                   queue'[i].id \notin Messages, queue'[i].id = queue'[j].id
            PROVE i = j
        <4>1. i + 1 = j + 1 BY <1>3, <2>1, <3>1, <3>3 DEF SweepsOnce
        <4> QED BY <4>1
      <3> QED BY <3>2, <3>3, Zenon DEF SweepsOnce
    <2>3. SweepsOnce(log', sweeps)
      <3>1. ASSUME NEW i \in 1..Len(log')
            PROVE  \/ i \in 1..Len(log) /\ log'[i] = log[i]
                   \/ i = Len(log) + 1 /\ log'[i] = queue[1]
        BY <1>l, Zenon
      <3>2. ASSUME NEW i \in 1..Len(log'), log'[i].id \notin Messages
            PROVE \E k \in 1..sweeps : log'[i].id = SweepId(k)
        <4>1. SweepsOnce(log, sweeps) /\ SweepsOnce(queue, sweeps) BY <2>0, Zenon DEF SweepsAreFresh
        <4>2. CASE i \in 1..Len(log) /\ log'[i] = log[i] BY <3>2, <4>1, <4>2, Zenon DEF SweepsOnce
        <4>3. CASE log'[i] = queue[1] BY <2>1, <3>2, <4>1, <4>3, Zenon DEF SweepsOnce
        <4> QED BY <3>1, <4>2, <4>3, Zenon
      <3>3. ASSUME NEW i \in 1..Len(log'), NEW j \in 1..Len(log'),
                   log'[i].id \notin Messages, log'[i].id = log'[j].id
            PROVE i = j
        <4>1. CASE i \in 1..Len(log) /\ j \in 1..Len(log)
          BY <1>4, <2>0, <3>3, <4>1, Zenon DEF SweepsAreFresh, SweepsOnce
        <4>2. CASE i = Len(log) + 1 /\ j \in 1..Len(log)
          BY <1>4, <2>0, <2>1, <3>3, <4>2, Zenon DEF SweepsAreFresh
        <4>3. CASE i \in 1..Len(log) /\ j = Len(log) + 1
          BY <1>4, <2>0, <2>1, <3>3, <4>3, Zenon DEF SweepsAreFresh
        <4> QED BY <3>1, <4>1, <4>2, <4>3, Zenon
      <3> QED BY <3>2, <3>3, Zenon DEF SweepsOnce
    <2>4. \A i \in 1..Len(log'), j \in 1..Len(queue') : log'[i].id = queue'[j].id => log'[i].id \in Messages
      <3> SUFFICES ASSUME NEW i \in 1..Len(log'), NEW j \in 1..Len(queue'),
                          log'[i].id = queue'[j].id
                   PROVE  log'[i].id \in Messages
        BY Zenon
      <3>1. Len(log) \in Nat BY <1>2
      <3>2. CASE i \in 1..Len(log)
        BY <1>3, <1>4, <2>0, <2>1, <3>2, Zenon DEF SweepsAreFresh
      <3>3. CASE i = Len(log) + 1
        BY <1>3, <1>4, <2>0, <2>1, <3>3 DEF SweepsAreFresh, SweepsOnce
      <3> QED BY <1>4, <3>1, <3>2, <3>3
    <2> QED BY <1>1, <2>2, <2>3, <2>4, Zenon DEF SweepsAreFresh
  <1>9. \A r \in Replicas : CacheIsApplied(log', applied'[r], replies'[r])
    <2> SUFFICES ASSUME NEW r \in Replicas PROVE CacheIsApplied(log', applied[r], replies[r])
      BY <1>1, Zenon
    <2>1. applied[r] \in Nat /\ applied[r] <= Len(log) /\ CacheIsApplied(log, applied[r], replies[r])
      BY Zenon DEF ClusterInv, StateTypes, Positions
    <2>2. \A i \in 1..applied[r] : log'[i] = log[i] BY <1>2, <1>4, <2>1
    <2> QED BY <2>1, <2>2, Zenon DEF CacheIsApplied
  <1>10. AnswersCommitted(log', answers')
    BY <1>1, <1>2, <1>4 DEF ClusterInv, AnswersCommitted
  <1>11. FirstView' BY <1>1, Zenon DEF ClusterInv, FirstView
  <1>12. GrantsAreBacked'
    <2>1. applied[FirstLeader] \in Nat /\ applied[FirstLeader] <= Len(log)
      BY LockClusterAssumption, Zenon DEF ClusterInv, StateTypes, Positions
    <2>2. \A i \in 1..applied[FirstLeader] : log'[i] = log[i] BY <1>2, <1>4, <2>1
    <2>3. GrantsAreBacked BY Zenon DEF ClusterInv
    <2> SUFFICES ASSUME faults.views = 0, NEW m \in Messages, Commands[m].op = "set",
                        replies[FirstLeader][m].ok
                 PROVE  TableBacksGrant(svc[FirstLeader], log', applied[FirstLeader],
                                        wallclock(FirstLeader), Commands[m],
                                        replies[FirstLeader][m].lease)
      BY <1>1, Zenon DEF GrantsAreBacked, wallclock
    <2>4. TableBacksGrant(svc[FirstLeader], log, applied[FirstLeader],
                          wallclock(FirstLeader), Commands[m], replies[FirstLeader][m].lease)
      BY <2>3, Zenon DEF GrantsAreBacked
    <2> QED BY <2>2, <2>4, Zenon DEF TableBacksGrant
  <1> QED BY <1>5, <1>6, <1>7, <1>8, <1>9, <1>10, <1>11, <1>12, Zenon DEF ClusterInv

LEMMA ViewChangeKeeps ==
    ASSUME ClusterInv, NEW r \in Replicas, ViewChange(r)
    PROVE  ClusterInv'
  <1>1. PICK n \in 0..Len(queue) : queue' = SubSeq(queue, 1, n)
    BY Zenon DEF ViewChange
  <1>2. /\ leader' = r /\ faults' = [faults EXCEPT !.views = @ + 1]
        /\ UNCHANGED <<log, now, applied, svc, replies, pending, saved, answers, sweeps>>
    BY Zenon DEF ViewChange
  <1>3. queue \in Seq(Operations) /\ log \in Seq(Operations) /\ n \in Nat /\ n <= Len(queue)
    BY DEF ClusterInv, StateTypes
  <1>4. /\ queue' \in Seq(Operations) /\ Len(queue') = n
        /\ \A i \in 1..n : queue'[i] = queue[i] /\ i \in 1..Len(queue)
    BY <1>1, <1>3, SubSeqProperties
  <1>5. faults' \in [views : Nat, restarts : Nat] /\ faults'.views # 0
    <2>1. faults \in [views : Nat, restarts : Nat] BY Zenon DEF ClusterInv, StateTypes
    <2> QED BY <1>2, <2>1
  <1>6. StateTypes' BY <1>2, <1>4, <1>5, Zenon DEF ClusterInv, StateTypes
  <1>7. Positions' BY <1>2, <1>3, <1>4, LockClusterAssumption DEF ClusterInv, Positions
  <1>8. CarriesCommands(queue') BY <1>4, Zenon DEF ClusterInv, CarriesCommands
  <1>9. SweepsAreFresh(log', queue', sweeps')
    <2>1. SweepsAreFresh(log, queue, sweeps) BY Zenon DEF ClusterInv
    <2>2. \A i \in 1..Len(queue') : queue'[i] = queue[i] /\ i \in 1..Len(queue) BY <1>4, Zenon
    <2>3. SweepsOnce(queue', sweeps) BY <2>1, <2>2 DEF SweepsAreFresh, SweepsOnce
    <2> QED BY <1>2, <2>1, <2>2, <2>3, Zenon DEF SweepsAreFresh
  <1>10. FirstView' /\ GrantsAreBacked' BY <1>5, Zenon DEF FirstView, GrantsAreBacked
  <1> QED BY <1>2, <1>6, <1>7, <1>8, <1>9, <1>10, Zenon DEF ClusterInv

\* Time passes: a lease in force afterwards was in force before.
LEMMA TickKeeps ==
    ASSUME ClusterInv, Tick
    PROVE  ClusterInv'
  <1>1. /\ now < MaxTime /\ now' = now + 1
        /\ UNCHANGED <<log, queue, leader, applied, svc, replies, pending, saved, answers, sweeps, faults>>
    BY Zenon DEF Tick
  <1>0. FirstLeader \in Replicas BY LockClusterAssumption, Zenon
  <1>2. now \in Nat /\ Skew[FirstLeader] \in Nat /\ FirstLeader \in Replicas
    BY <1>0, ClockTypes, Zenon
  <1>3. StateTypes'
    <2>1. now' \in 1..MaxTime BY <1>1, <1>2, <1>0, ClockTypes
    <2> QED BY <1>1, <2>1, Zenon DEF ClusterInv, StateTypes
  <1>4. FirstView' BY <1>1, Zenon DEF ClusterInv, FirstView
  <1>5. GrantsAreBacked'
    <2> SUFFICES ASSUME faults.views = 0, NEW m \in Messages, Commands[m].op = "set",
                        replies[FirstLeader][m].ok
                 PROVE  TableBacksGrant(svc[FirstLeader], log, applied[FirstLeader],
                                        now + 1 + Skew[FirstLeader], Commands[m],
                                        replies[FirstLeader][m].lease)
      BY <1>1, Zenon DEF GrantsAreBacked, wallclock
    <2>1. TableBacksGrant(svc[FirstLeader], log, applied[FirstLeader],
                          now + Skew[FirstLeader], Commands[m], replies[FirstLeader][m].lease)
      BY Zenon DEF ClusterInv, GrantsAreBacked, wallclock
    <2>2. Commands[m].window \in Nat
      <3>1. Commands[m] \in SetRequests BY RequestParts, LockClusterAssumption, Zenon
      <3> QED BY <3>1, LocksAssumption, Zenon DEF SetRequests
    <2>3. replies[FirstLeader][m].lease.expiry \in Nat
      <3>1. replies[FirstLeader][m] \in Replies BY <1>2 DEF ClusterInv, StateTypes
      <3>2. replies[FirstLeader][m].lease \in CoreLease BY <3>1, Zenon DEF Replies
      <3> QED BY <3>2, Zenon DEF CoreLease
    <2> QED BY <1>2, <2>1, <2>2, <2>3 DEF TableBacksGrant, Live
  <1> QED BY <1>1, <1>3, <1>4, <1>5, Zenon DEF ClusterInv, Positions

\* What a clean stop saves is a table, and what a boot loads on demand too.
LEMMA LoadTypes ==
    ASSUME ClusterInv, NEW r \in Replicas
    PROVE  LoadOnDemand(r) \in Service /\ Snapshot(LoadOnDemand(r)) \in Service
  <1>1. LoadOnDemand(r) \in Service
    BY Zenon DEF LoadOnDemand, Restore, ClusterInv, StateTypes
  <1>2. \A s \in Service : Snapshot(s) \in Service
    BY LiteralTypes, Zenon DEF Snapshot, Service
  <1> QED BY <1>1, <1>2, Zenon

LEMMA RestartKeeps ==
    ASSUME ClusterInv, NEW r \in Replicas, NEW clean \in BOOLEAN, Restart(r, clean)
    PROVE  ClusterInv'
  <1> DEFINE none == [m \in Messages |-> NoReply]
             image == IF clean THEN Snapshot(LoadOnDemand(r)) ELSE NoSnapshot
  <1>1. /\ r # leader
        /\ applied' = [applied EXCEPT ![r] = 0]
        /\ svc' = [svc EXCEPT ![r] = EmptyService]
        /\ replies' = [replies EXCEPT ![r] = none]
        /\ pending' = [pending EXCEPT ![r] = {}]
        /\ saved' = [saved EXCEPT ![r] = image]
        /\ faults' = [faults EXCEPT !.restarts = @ + 1]
        /\ UNCHANGED <<log, queue, leader, now, answers, sweeps>>
    BY Zenon DEF Restart
  <1>2. image \in Service \cup {NoSnapshot} BY LoadTypes, Zenon
  <1>3. EmptyService \in Service BY LiteralTypes, Zenon DEF EmptyService, Service
  <1>4. none \in [Messages -> Replies] BY LiteralTypes, Zenon DEF NoReply, Replies
  <1>5. \A m \in Messages : none[m] = NoReply BY Zenon
  <1> HIDE DEF none, image
  <1>6. faults' \in [views : Nat, restarts : Nat] /\ faults'.views = faults.views
    <2>1. faults \in [views : Nat, restarts : Nat] BY Zenon DEF ClusterInv, StateTypes
    <2> QED BY <1>1, <2>1
  <1>7. StateTypes' BY <1>1, <1>2, <1>3, <1>4, <1>6, Zenon DEF ClusterInv, StateTypes
  <1>t. /\ applied \in [Replicas -> Nat] /\ log \in Seq(Operations)
        /\ replies \in [Replicas -> [Messages -> Replies]] /\ svc \in [Replicas -> Service]
        /\ saved \in [Replicas -> Service \cup {NoSnapshot}]
    BY Zenon DEF ClusterInv, StateTypes
  <1>8. Positions' BY <1>1, <1>t DEF ClusterInv, Positions
  <1>9. ASSUME NEW x \in Replicas PROVE CacheIsApplied(log', applied'[x], replies'[x])
    <2>1. CASE x = r
      <3>1. applied'[x] = 0 /\ replies'[x] = none BY <1>1, <1>t, <2>1, Zenon
      <3> QED BY <1>5, <3>1 DEF CacheIsApplied
    <2>2. CASE x # r
      BY <1>1, <1>t, <2>2, Zenon DEF ClusterInv
    <2> QED BY <2>1, <2>2, Zenon
  <1>10. faults'.views = 0 => /\ FirstLeader # r /\ FirstLeader \in Replicas
                              /\ svc'[FirstLeader] = svc[FirstLeader]
                              /\ applied'[FirstLeader] = applied[FirstLeader]
                              /\ replies'[FirstLeader] = replies[FirstLeader]
                              /\ saved'[FirstLeader] = saved[FirstLeader]
    BY <1>1, <1>6, <1>t, LockClusterAssumption DEF ClusterInv, FirstView
  <1>11. FirstView' BY <1>1, <1>6, <1>10, Zenon DEF ClusterInv, FirstView
  <1>12. GrantsAreBacked' BY <1>1, <1>6, <1>10 DEF ClusterInv, GrantsAreBacked, wallclock
  <1> QED BY <1>1, <1>7, <1>8, <1>9, <1>11, <1>12, Zenon DEF ClusterInv

(* ------------------------------- applying ------------------------------- *)

\* The operation a replica applies next.
LEMMA NextOperation ==
    ASSUME ClusterInv, NEW r \in Replicas, applied[r] < Len(log)
    PROVE  /\ applied[r] \in Nat /\ applied[r] + 1 \in 1..Len(log)
           /\ log[applied[r] + 1] \in Operations
           /\ log[applied[r] + 1].req \in Requests
           /\ log[applied[r] + 1].id \in Messages =>
                 log[applied[r] + 1].req = Commands[log[applied[r] + 1].id]
  <1>1. applied[r] \in Nat /\ log \in Seq(Operations) BY Zenon DEF ClusterInv, StateTypes
  <1>2. applied[r] + 1 \in 1..Len(log) BY <1>1
  <1>3. log[applied[r] + 1] \in Operations BY <1>1, <1>2
  <1>4. log[applied[r] + 1].req \in Requests BY <1>3, Zenon DEF Operations
  <1>5. CarriesCommands(log) BY Zenon DEF ClusterInv
  <1> QED BY <1>1, <1>2, <1>3, <1>4, <1>5, Zenon DEF CarriesCommands

\* Applying one more operation moves one position forward.
LEMMA PositionMoves ==
    ASSUME ClusterInv, NEW r \in Replicas, applied[r] < Len(log),
           applied' = [applied EXCEPT ![r] = @ + 1], UNCHANGED <<log, queue>>
    PROVE  /\ Positions'
           /\ applied' \in [Replicas -> Nat]
           /\ applied'[r] = applied[r] + 1
           /\ \A x \in Replicas : x # r => applied'[x] = applied[x]
  <1>1. /\ applied \in [Replicas -> Nat] /\ log \in Seq(Operations)
        /\ \A x \in Replicas : applied[x] <= Len(log)
        /\ Len(log) + Len(queue) <= MaxLog
    BY Zenon DEF ClusterInv, StateTypes, Positions
  <1>2. /\ applied'[r] = applied[r] + 1
        /\ \A x \in Replicas : x # r => applied'[x] = applied[x]
        /\ applied' \in [Replicas -> Nat]
    BY <1>1
  <1>3. applied'[r] <= Len(log) BY <1>1, <1>2
  <1> QED BY <1>1, <1>2, <1>3, Zenon DEF Positions

LEMMA ApplyCachedKeeps ==
    ASSUME ClusterInv, NEW r \in Replicas, ApplyCached(r)
    PROVE  ClusterInv'
  <1> DEFINE m == log[applied[r] + 1].id
  <1>1. /\ applied[r] < Len(log) /\ m \in Messages /\ replies[r][m] # NoReply
        /\ answers' = Deliver(r, m, replies[r][m])
        /\ pending' = [pending EXCEPT ![r] = @ \ {m}]
        /\ applied' = [applied EXCEPT ![r] = @ + 1]
        /\ UNCHANGED <<log, queue, leader, now, svc, replies, saved, sweeps, faults>>
    BY Zenon DEF ApplyCached
  <1> HIDE DEF m
  <1>2. /\ answers' \subseteq Answers /\ AnswersCommitted(log, answers')
        /\ faults.views = 0 =>
                \A a \in answers' : a.from = FirstLeader =>
                   /\ replies[FirstLeader][a.id] # NoReply
                   /\ a.ok = replies[FirstLeader][a.id].ok
                   /\ a.lease = replies[FirstLeader][a.id].lease
    <2>1. answers' = answers \/ answers' = answers \cup {Answer(r, m, replies[r][m])}
      BY <1>1, Zenon DEF Deliver
    <2> QED BY <1>1, <2>1, AnswerKeeps, Zenon
  <1>3. /\ Positions' /\ applied' \in [Replicas -> Nat] /\ applied'[r] = applied[r] + 1
        /\ \A x \in Replicas : x # r => applied'[x] = applied[x]
    BY <1>1, PositionMoves, Zenon
  <1>4. StateTypes' BY <1>1, <1>2, <1>3, Zenon DEF ClusterInv, StateTypes
  <1>5. ASSUME NEW x \in Replicas PROVE CacheIsApplied(log', applied'[x], replies'[x])
    <2>1. CacheIsApplied(log, applied[x], replies[x]) BY Zenon DEF ClusterInv
    <2>2. CASE x # r BY <1>1, <1>3, <2>1, <2>2, Zenon
    <2>3. CASE x = r
      <3>1. applied[r] \in Nat BY <1>1, NextOperation, Zenon
      <3>2. CacheIsApplied(log, applied[r] + 1, replies[r])
        BY <1>1, <2>1, <2>3, <3>1 DEF CacheIsApplied, m
      <3> QED BY <1>1, <1>3, <2>3, <3>2, Zenon
    <2> QED BY <2>2, <2>3, Zenon
  <1>6. FirstView' BY <1>1, <1>2, Zenon DEF ClusterInv, FirstView
  <1>7. GrantsAreBacked'
    <2> SUFFICES ASSUME faults.views = 0, NEW k \in Messages, Commands[k].op = "set",
                        replies[FirstLeader][k].ok
                 PROVE  TableBacksGrant(svc[FirstLeader], log, applied'[FirstLeader],
                                        wallclock(FirstLeader), Commands[k],
                                        replies[FirstLeader][k].lease)
      BY <1>1, Zenon DEF GrantsAreBacked, wallclock
    <2>1. TableBacksGrant(svc[FirstLeader], log, applied[FirstLeader],
                          wallclock(FirstLeader), Commands[k], replies[FirstLeader][k].lease)
      BY Zenon DEF ClusterInv, GrantsAreBacked
    <2>2. 1..applied[FirstLeader] \subseteq 1..applied'[FirstLeader]
      <3>1. applied[r] \in Nat /\ FirstLeader \in Replicas
        BY <1>1, NextOperation, LockClusterAssumption, Zenon
      <3> QED BY <1>3, <3>1
    <2> QED BY <2>1, <2>2, Zenon DEF TableBacksGrant
  <1> QED BY <1>1, <1>2, <1>3, <1>4, <1>5, <1>6, <1>7, Zenon DEF ClusterInv

\* The step that could go wrong: an operation executed by the first primary
\* keeps every grant it has answered and answers one more.
LEMMA ExecutedIsBacked ==
    ASSUME ClusterInv, faults.views = 0, applied[FirstLeader] < Len(log),
           NEW s,
           s = Execute(svc[FirstLeader], wallclock(FirstLeader), log[applied[FirstLeader] + 1].req),
           NEW m \in Messages, Commands[m].op = "set"
    PROVE  /\ replies[FirstLeader][m].ok =>
                TableBacksGrant(s.svc, log, applied[FirstLeader] + 1, wallclock(FirstLeader),
                                Commands[m], replies[FirstLeader][m].lease)
           /\ m = log[applied[FirstLeader] + 1].id /\ s.ok =>
                TableBacksGrant(s.svc, log, applied[FirstLeader] + 1, wallclock(FirstLeader),
                                Commands[m], s.lease)
  <1> DEFINE n == applied[FirstLeader]
             t == wallclock(FirstLeader)
             table == svc[FirstLeader]
             req == log[n + 1].req
             c == Commands[m]
             lease == replies[FirstLeader][m].lease
  <1>1. FirstLeader \in Replicas BY LockClusterAssumption, Zenon
  <1>2. n \in Nat /\ req \in Requests /\ (log[n + 1].id \in Messages => req = Commands[log[n + 1].id])
    BY <1>1, NextOperation, Zenon
  <1>3. t \in Nat /\ table \in Service
    <2>1. svc[FirstLeader] \in Service BY <1>1, Zenon DEF ClusterInv, StateTypes
    <2> QED BY <1>1, <2>1, ClockTypes, Zenon
  <1>4. c \in Requests /\ c.lock \in LockIds /\ c.holder \in Holders /\ c.window \in Nat
    <2>1. c \in Requests BY LockClusterAssumption, Zenon
    <2>2. c \in SetRequests BY <2>1, RequestParts, Zenon
    <2> QED BY <2>1, <2>2, LocksAssumption, Zenon DEF SetRequests
  <1>5. lease.expiry \in Nat
    <2>1. replies[FirstLeader][m] \in Replies BY <1>1, Zenon DEF ClusterInv, StateTypes
    <2>2. replies[FirstLeader][m].lease \in CoreLease BY <2>1, Zenon DEF Replies
    <2> QED BY <2>2, Zenon DEF CoreLease
  <1>6. s = Execute(table, t, req) BY Zenon
  <1> HIDE DEF t, table, req, c, lease, n
  <1>7. ASSUME replies[FirstLeader][m].ok
        PROVE TableBacksGrant(s.svc, log, n + 1, t, c, lease)
    <2>1. TableBacksGrant(table, log, n, t, c, lease)
      BY <1>7, Zenon DEF ClusterInv, GrantsAreBacked, n, t, table, c, lease
    <2>2. ASSUME Live(lease, t), \A i \in 1..(n + 1) : Spares(log[i].req, c.lock, c.holder, c.window)
          PROVE s.svc.locks[c.lock].holder = c.holder /\ s.svc.locks[c.lock].expiry >= lease.expiry
      <3>1. /\ table.locks[c.lock].holder = c.holder /\ table.locks[c.lock].expiry >= lease.expiry
            /\ lease.expiry <= t + c.window
        <4>1. \A i \in 1..n : i \in 1..(n + 1) BY <1>2
        <4> QED BY <2>1, <2>2, <4>1, Zenon DEF TableBacksGrant
      <3>2. lease.expiry > t BY <2>2, Zenon DEF Live
      <3>3. Spares(req, c.lock, c.holder, c.window) BY <1>2, <2>2 DEF req
      <3> QED BY <1>2, <1>3, <1>4, <1>5, <1>6, <3>1, <3>2, <3>3, ExecuteSpares
    <2> QED BY <2>1, <2>2, Zenon DEF TableBacksGrant
  <1>8. ASSUME m = log[n + 1].id, s.ok
        PROVE TableBacksGrant(s.svc, log, n + 1, t, c, s.lease)
    <2>1. req = c BY <1>2, <1>8, Zenon DEF c
    <2>2. c.op = "set" BY Zenon DEF c
    <2>3. /\ s.svc.locks[c.lock] = s.lease /\ s.lease.holder = c.holder
          /\ s.lease.expiry = t + c.window
      BY <1>3, <1>4, <1>6, <1>8, <2>1, <2>2, ExecuteGrants
    <2> QED BY <1>3, <1>4, <2>3 DEF TableBacksGrant
  <1> QED BY <1>7, <1>8, Zenon DEF n, t, table, c, lease

LEMMA ApplyExecutedKeeps ==
    ASSUME ClusterInv, NEW r \in Replicas, ApplyExecuted(r)
    PROVE  ClusterInv'
  <1> DEFINE n == applied[r]
             e == log[n + 1]
             out == Execute(LoadOnDemand(r), wallclock(r), e.req)
             reply == [ok |-> out.ok, lease |-> out.lease, transition |-> out.transition]
             new == Answer(r, e.id, reply)
  <1>1. /\ n < Len(log)
        /\ e.id \in Messages => replies[r][e.id] = NoReply
        /\ svc' = [svc EXCEPT ![r] = out.svc]
        /\ saved' = [saved EXCEPT ![r] = NoSnapshot]
        /\ replies' = IF e.id \in Messages THEN [replies EXCEPT ![r][e.id] = reply] ELSE replies
        /\ answers' = Deliver(r, e.id, reply)
        /\ pending' = [pending EXCEPT ![r] = @ \ {e.id}]
        /\ applied' = [applied EXCEPT ![r] = @ + 1]
        /\ UNCHANGED <<log, queue, leader, now, sweeps, faults>>
    BY Zenon DEF ApplyExecuted
  <1>2. /\ n \in Nat /\ n + 1 \in 1..Len(log) /\ e \in Operations /\ e.req \in Requests
        /\ FirstLeader \in Replicas
    BY <1>1, NextOperation, LockClusterAssumption, Zenon
  <1>3. Sane(LoadOnDemand(r), e.req, out)
    BY <1>2, ClockTypes, LoadTypes, ExecuteSane, Zenon
  <1> HIDE DEF out
  <1>4. out.svc \in Service /\ reply \in Replies /\ reply # NoReply
    BY <1>3, Zenon DEF Sane, NoReply
  <1>5. reply.ok = out.ok /\ reply.lease = out.lease BY Zenon
  <1> HIDE DEF reply, n, e
  <1>t. /\ applied \in [Replicas -> Nat] /\ log \in Seq(Operations)
        /\ replies \in [Replicas -> [Messages -> Replies]] /\ svc \in [Replicas -> Service]
        /\ saved \in [Replicas -> Service \cup {NoSnapshot}]
        /\ pending \in [Replicas -> SUBSET Messages] /\ answers \subseteq Answers
    BY Zenon DEF ClusterInv, StateTypes
  <1>6. /\ Positions' /\ applied' \in [Replicas -> Nat] /\ applied'[r] = n + 1
        /\ \A x \in Replicas : x # r => applied'[x] = applied[x]
    BY <1>1, PositionMoves, Zenon DEF n
  <1>7. /\ svc' \in [Replicas -> Service] /\ svc'[r] = out.svc
        /\ \A x \in Replicas : x # r => svc'[x] = svc[x]
        /\ saved' \in [Replicas -> Service \cup {NoSnapshot}] /\ saved'[r] = NoSnapshot
        /\ \A x \in Replicas : x # r => saved'[x] = saved[x]
    BY <1>1, <1>4, <1>t, Zenon
  <1>8. /\ replies' \in [Replicas -> [Messages -> Replies]]
        /\ \A x \in Replicas, m \in Messages :
              replies'[x][m] = IF x = r /\ m = e.id THEN reply ELSE replies[x][m]
        /\ \A x \in Replicas : x # r => replies'[x] = replies[x]
    BY <1>1, <1>4, <1>t, Zenon
  <1>9. /\ new.from = r /\ new.id = e.id /\ new.ok = reply.ok /\ new.lease = reply.lease
        /\ e.id \in Messages => new \in Answers
    BY <1>4, Zenon DEF Answer, Answers, Replies
  <1>10. /\ answers' \subseteq answers \cup {new}
         /\ new \in answers' => new \in answers \/ e.id \in Messages
    BY <1>1, <1>t, Zenon DEF Deliver
  <1> HIDE DEF new
  <1>11. answers' \subseteq Answers BY <1>9, <1>10, <1>t, Zenon
  <1>12. pending' \in [Replicas -> SUBSET Messages] BY <1>1, <1>t, Zenon
  <1>13. StateTypes' BY <1>1, <1>6, <1>7, <1>8, <1>11, <1>12, Zenon DEF ClusterInv, StateTypes
  <1>14. AnswersCommitted(log', answers')
    <2>1. AnswersCommitted(log, answers) BY Zenon DEF ClusterInv
    <2>2. log' = log BY <1>1, Zenon
    <2> SUFFICES ASSUME NEW a \in answers' PROVE \E i \in 1..Len(log) : log[i].id = a.id
      BY <2>2, Zenon DEF AnswersCommitted
    <2>3. CASE a \in answers BY <2>1, <2>3, Zenon DEF AnswersCommitted
    <2>4. CASE a = new BY <1>2, <1>9, <2>4, Zenon DEF e
    <2> QED BY <1>10, <2>3, <2>4, Zenon
  <1>15. ASSUME NEW x \in Replicas PROVE CacheIsApplied(log', applied'[x], replies'[x])
    <2>1. CacheIsApplied(log, applied[x], replies[x]) BY DEF ClusterInv
    <2>2. CASE x # r BY <1>1, <1>6, <1>8, <2>1, <2>2, Zenon
    <2>3. CASE x = r
      <3>1. ASSUME NEW m \in Messages, replies'[r][m] # NoReply
            PROVE \E i \in 1..(n + 1) : log[i].id = m
        <4>1. CASE m = e.id BY <1>2, <4>1 DEF e
        <4>2. CASE m # e.id
          <5>1. replies[r][m] # NoReply BY <1>8, <3>1, <4>2, Zenon
          <5>2. PICK i \in 1..n : log[i].id = m BY <2>1, <2>3, <5>1, Zenon DEF CacheIsApplied, n
          <5> QED BY <1>2, <5>2
        <4> QED BY <4>1, <4>2, Zenon
      <3>2. ASSUME NEW i \in 1..(n + 1), log[i].id \in Messages
            PROVE replies'[r][log[i].id] # NoReply
        <4>1. CASE log[i].id = e.id BY <1>4, <1>8, <3>2, <4>1, Zenon
        <4>2. CASE log[i].id # e.id
          <5>1. i \in 1..n BY <1>2, <4>2 DEF e
          <5>2. replies[r][log[i].id] # NoReply BY <2>1, <2>3, <3>2, <5>1, Zenon DEF CacheIsApplied, n
          <5> QED BY <1>8, <3>2, <4>2, <5>2, Zenon
        <4> QED BY <4>1, <4>2, Zenon
      <3> QED BY <1>1, <1>6, <2>3, <3>1, <3>2 DEF CacheIsApplied
    <2> QED BY <2>2, <2>3
  <1>16. FirstView'
    <2>1. FirstView /\ faults' = faults /\ leader' = leader BY <1>1, Zenon DEF ClusterInv
    <2> SUFFICES ASSUME faults.views = 0
                 PROVE  /\ leader = FirstLeader /\ saved'[FirstLeader] = NoSnapshot
                        /\ \A a \in answers' : a.from = FirstLeader =>
                              /\ replies'[FirstLeader][a.id] # NoReply
                              /\ a.ok = replies'[FirstLeader][a.id].ok
                              /\ a.lease = replies'[FirstLeader][a.id].lease
      BY <2>1, Zenon DEF FirstView
    <2>2. leader = FirstLeader /\ saved'[FirstLeader] = NoSnapshot
      BY <1>2, <1>7, <2>1, Zenon DEF FirstView
    <2>3. ASSUME NEW a \in answers', a.from = FirstLeader
          PROVE /\ replies'[FirstLeader][a.id] # NoReply
                /\ a.ok = replies'[FirstLeader][a.id].ok
                /\ a.lease = replies'[FirstLeader][a.id].lease
      <3>1. CASE a \in answers
        <4>1. /\ a.id \in Messages /\ replies[FirstLeader][a.id] # NoReply
              /\ a.ok = replies[FirstLeader][a.id].ok
              /\ a.lease = replies[FirstLeader][a.id].lease
          BY <1>t, <2>1, <2>3, <3>1, Zenon DEF FirstView, Answers
        <4>2. ~(FirstLeader = r /\ a.id = e.id) BY <1>1, <4>1, Zenon
        <4>3. replies'[FirstLeader][a.id] = replies[FirstLeader][a.id] BY <1>2, <1>8, <4>1, <4>2, Zenon
        <4> QED BY <4>1, <4>3, Zenon
      <3>2. CASE a = new /\ a \notin answers
        <4>1. e.id \in Messages /\ r = FirstLeader /\ a.id = e.id BY <1>9, <1>10, <2>3, <3>2, Zenon
        <4>2. replies'[FirstLeader][a.id] = reply BY <1>2, <1>8, <4>1, Zenon
        <4> QED BY <1>4, <1>9, <3>2, <4>2, Zenon
      <3> QED BY <1>10, <3>1, <3>2, Zenon
    <2> QED BY <2>2, <2>3, Zenon
  <1>17. GrantsAreBacked'
    <2>1. /\ faults' = faults /\ log' = log /\ now' = now /\ FirstView /\ GrantsAreBacked
      BY <1>1, Zenon DEF ClusterInv
    <2> SUFFICES ASSUME faults.views = 0, NEW m \in Messages, Commands[m].op = "set",
                        replies'[FirstLeader][m].ok
                 PROVE  TableBacksGrant(svc'[FirstLeader], log, applied'[FirstLeader],
                                        wallclock(FirstLeader), Commands[m],
                                        replies'[FirstLeader][m].lease)
      BY <2>1, Zenon DEF GrantsAreBacked, wallclock
    <2>2. CASE r # FirstLeader
      <3>1. /\ svc'[FirstLeader] = svc[FirstLeader] /\ applied'[FirstLeader] = applied[FirstLeader]
            /\ replies'[FirstLeader] = replies[FirstLeader]
        BY <1>2, <1>6, <1>7, <1>8, <2>2, Zenon
      <3> QED BY <2>1, <3>1, Zenon DEF GrantsAreBacked
    <2>3. CASE r = FirstLeader
      <3>1. LoadOnDemand(r) = svc[FirstLeader] BY <2>1, <2>3, Zenon DEF FirstView, LoadOnDemand
      <3>2. out = Execute(svc[FirstLeader], wallclock(FirstLeader), log[applied[FirstLeader] + 1].req)
        BY <2>3, <3>1, Zenon DEF out, e, n
      <3>3. applied[FirstLeader] < Len(log) /\ n = applied[FirstLeader] /\ e = log[applied[FirstLeader] + 1]
        BY <1>1, <2>3, Zenon DEF n, e
      <3>4. /\ replies[FirstLeader][m].ok =>
                TableBacksGrant(out.svc, log, n + 1, wallclock(FirstLeader),
                                Commands[m], replies[FirstLeader][m].lease)
            /\ m = e.id /\ out.ok =>
                TableBacksGrant(out.svc, log, n + 1, wallclock(FirstLeader), Commands[m], out.lease)
        BY <3>2, <3>3, ExecutedIsBacked, Zenon
      <3>5. replies'[FirstLeader][m] = IF m = e.id THEN reply ELSE replies[FirstLeader][m]
        BY <1>2, <1>8, <2>3, Zenon
      <3>6. svc'[FirstLeader] = out.svc /\ applied'[FirstLeader] = n + 1 BY <1>6, <1>7, <2>3, Zenon
      <3>7. CASE m = e.id BY <1>5, <3>4, <3>5, <3>6, <3>7, Zenon
      <3>8. CASE m # e.id BY <3>4, <3>5, <3>6, <3>8, Zenon
      <3> QED BY <3>7, <3>8, Zenon
    <2> QED BY <2>2, <2>3, Zenon
  <1> QED BY <1>1, <1>6, <1>13, <1>14, <1>15, <1>16, <1>17, Zenon DEF ClusterInv

(* ------------------------------ the theorems ---------------------------- *)

LEMMA NextInv == ClusterInv /\ [Next]_vars => ClusterInv'
  <1> SUFFICES ASSUME ClusterInv, [Next]_vars PROVE ClusterInv'
    BY Zenon
  <1>1. ASSUME NEW r \in Replicas, NEW m \in Messages, Request(r, m) PROVE ClusterInv'
    BY <1>1, RequestCachedKeeps, RequestProposedKeeps, RequestRefusedKeeps, Zenon DEF Request
  <1>2. ASSUME NEW r \in Replicas, Apply(r) PROVE ClusterInv'
    BY <1>2, ApplyCachedKeeps, ApplyExecutedKeeps, Zenon DEF Apply
  <1>3. CASE UNCHANGED vars
    <2>1. UNCHANGED <<log, queue, leader, now, applied, svc>>
      BY <1>3, Zenon DEF vars
    <2>2. UNCHANGED <<replies, pending, saved, answers, sweeps, faults>>
      BY <1>3, Zenon DEF vars
    <2>3. StateTypes' BY <2>1, <2>2, Zenon DEF ClusterInv, StateTypes
    <2>4. FirstView' BY <2>1, <2>2, Zenon DEF ClusterInv, FirstView
    <2>5. GrantsAreBacked' BY <2>1, <2>2, Zenon DEF ClusterInv, GrantsAreBacked, wallclock
    <2> QED BY <2>1, <2>2, <2>3, <2>4, <2>5, Zenon DEF ClusterInv, Positions
  <1> QED BY <1>1, <1>2, <1>3, SweepKeeps, ViewChangeKeeps, RestartKeeps, CommitKeeps, TickKeeps, Zenon
          DEF Next

\* The inductive invariant: every replica's cache, position and table, the log
\* and the answers stay in step.
THEOREM ClusterInvHolds == Spec => []ClusterInv
  BY InitInv, NextInv, PTL DEF Spec

\* Whatever view changes take back and restarts forget, a reply that has left
\* a node is that of a committed operation (Node::request and apply_effect).
THEOREM AnswersCommit == Spec => []AnswersAreCommitted
  <1>1. ClusterInv => AnswersAreCommitted
    <2> SUFFICES ASSUME ClusterInv PROVE AnswersAreCommitted
      BY Zenon
    <2>1. \A r \in Replicas : applied[r] \in 0..Len(log)
      <3>1. log \in Seq(Operations) /\ applied \in [Replicas -> Nat] BY Zenon DEF ClusterInv, StateTypes
      <3>2. \A r \in Replicas : applied[r] <= Len(log) BY Zenon DEF ClusterInv, Positions
      <3> QED BY <3>1, <3>2
    <2>2. \A a \in answers : a.id \in Messages /\ a.from \in Replicas
      BY Zenon DEF ClusterInv, StateTypes, Answers
    <2>3. TypeOK BY <2>1, <2>2, Zenon DEF ClusterInv, StateTypes, Positions, TypeOK
    <2> QED BY <2>3, Zenon DEF ClusterInv, AnswersCommitted, AnswersAreCommitted
  <1> QED BY <1>1, ClusterInvHolds, PTL

\* The clients that one primary answers hold a lock one at a time for as long
\* as it serves, through retries, logged duplicates, sweeps, foreign releases,
\* clock skew and restarts of the backups: each would be the holder of the
\* primary's one record.
THEOREM OneHolder == Spec => []OneHolderUnderOnePrimary
  <1>1. ClusterInv => OneHolderUnderOnePrimary
    <2> SUFFICES ASSUME ClusterInv, faults.views = 0,
                        NEW l \in LockIds, NEW g \in Holders, NEW h \in Holders,
                        Relies(g, l, {FirstLeader}), Relies(h, l, {FirstLeader})
                 PROVE  g = h
      BY Zenon DEF OneHolderUnderOnePrimary
    <2>1. ASSUME NEW k \in Holders, Relies(k, l, {FirstLeader})
          PROVE svc[FirstLeader].locks[l].holder = k
      <3>1. PICK a \in answers :
               /\ Commands[a.id].op = "set" /\ Commands[a.id].lock = l /\ Commands[a.id].holder = k
               /\ a.ok /\ a.from \in {FirstLeader} /\ Live(a.lease, wallclock(a.from))
               /\ \A i \in 1..Len(log) : Spares(log[i].req, l, k, Commands[a.id].window)
        BY <2>1, Zenon DEF Relies
      <3>2. a.id \in Messages BY Zenon DEF ClusterInv, StateTypes, Answers
      <3>3. /\ a.ok = replies[FirstLeader][a.id].ok
            /\ a.lease = replies[FirstLeader][a.id].lease
        BY <3>1, Zenon DEF ClusterInv, FirstView
      <3>4. TableBacksGrant(svc[FirstLeader], log, applied[FirstLeader], wallclock(FirstLeader),
                            Commands[a.id], replies[FirstLeader][a.id].lease)
        BY <3>1, <3>2, <3>3, Zenon DEF ClusterInv, GrantsAreBacked
      <3>5. \A i \in 1..applied[FirstLeader] : i \in 1..Len(log)
        <4>1. /\ applied[FirstLeader] \in Nat /\ applied[FirstLeader] <= Len(log)
              /\ log \in Seq(Operations)
          BY LockClusterAssumption, Zenon DEF ClusterInv, StateTypes, Positions
        <4> QED BY <4>1
      <3> QED BY <3>1, <3>3, <3>4, <3>5, Zenon DEF TableBacksGrant
    <2> QED BY <2>1, Zenon
  <1> QED BY <1>1, ClusterInvHolds, PTL

\* Exactly once: a message that retries put into the log again finds its reply
\* cached (apply_effect), and no break of the sweeper is logged twice.
THEOREM ExecutedOnce == Spec => ExecutedOncePerLife
  <1> DEFINE Once == \A r \in Replicas :
                applied'[r] = applied[r] + 1
                   /\ (\E i \in 1..applied[r] : log[i].id = log[applied[r] + 1].id)
                => svc'[r] = svc[r]
  <1>1. ClusterInv /\ [Next]_vars => [Once]_vars
    <2> SUFFICES ASSUME ClusterInv, Next, NEW r \in Replicas,
                        applied'[r] = applied[r] + 1,
                        NEW i \in 1..applied[r], log[i].id = log[applied[r] + 1].id
                 PROVE  svc'[r] = svc[r]
      BY Zenon
    <2>t. /\ applied \in [Replicas -> Nat] /\ svc \in [Replicas -> Service] /\ log \in Seq(Operations)
          /\ \A x \in Replicas : applied[x] <= Len(log)
      BY Zenon DEF ClusterInv, StateTypes, Positions
    <2>1. ASSUME svc' = svc PROVE svc'[r] = svc[r] BY <2>1, Zenon
    <2>3. ASSUME NEW x \in Replicas, ApplyExecuted(x) PROVE svc'[r] = svc[r]
      <3>1. /\ applied[x] < Len(log)
            /\ log[applied[x] + 1].id \in Messages => replies[x][log[applied[x] + 1].id] = NoReply
            /\ applied' = [applied EXCEPT ![x] = @ + 1]
            /\ \E new : svc' = [svc EXCEPT ![x] = new]
        BY <2>3, Zenon DEF ApplyExecuted
      <3>2. CASE x # r BY <2>t, <3>1, <3>2, Zenon
      <3>3. CASE x = r
        <4>1. /\ i \in 1..Len(log) /\ applied[r] + 1 \in 1..Len(log) /\ i # applied[r] + 1
          BY <2>t, <3>1, <3>3
        <4>2. log[i].id \in Messages
          BY <4>1, Zenon DEF ClusterInv, SweepsAreFresh, SweepsOnce
        <4>3. replies[r][log[i].id] # NoReply BY <4>2, Zenon DEF ClusterInv, CacheIsApplied
        <4> QED BY <3>1, <3>3, <4>2, <4>3, Zenon
      <3> QED BY <3>2, <3>3, Zenon
    <2>4. ASSUME NEW x \in Replicas, NEW clean \in BOOLEAN, Restart(x, clean)
          PROVE svc'[r] = svc[r]
      <3>1. applied'[r] = applied[r] \/ applied'[r] = 0 BY <2>4, <2>t, Zenon DEF Restart
      <3> QED BY <2>t, <3>1
    <2>5. ASSUME NEW x \in Replicas, NEW m \in Messages, Request(x, m) PROVE svc'[r] = svc[r]
      BY <2>1, <2>5, Zenon DEF Request, RequestCached, RequestProposed, RequestRefused
    <2>6. ASSUME NEW x \in Replicas, Apply(x) PROVE svc'[r] = svc[r]
      BY <2>1, <2>3, <2>6, Zenon DEF Apply, ApplyCached
    <2>7. ASSUME NEW x \in Replicas, Sweep(x) \/ ViewChange(x) PROVE svc'[r] = svc[r]
      BY <2>1, <2>7, Zenon DEF Sweep, ViewChange
    <2>8. ASSUME Commit \/ Tick PROVE svc'[r] = svc[r]
      BY <2>1, <2>8, Zenon DEF Commit, Tick
    <2> QED BY <2>4, <2>5, <2>6, <2>7, <2>8, Zenon DEF Next
  <1> QED BY <1>1, ClusterInvHolds, PTL DEF Spec, ExecutedOncePerLife
=============================================================================
