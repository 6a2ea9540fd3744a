---------------------------- MODULE LockCluster ----------------------------
(***************************************************************************)
(* The replicated lock service: the adapter node of ffi.rs on every        *)
(* replica, over the uvrr core's committed log.                            *)
(*                                                                         *)
(* The core (external, its source is not in the repository) is modelled by *)
(* what the adapter relies on: one committed log that every replica        *)
(* receives in order, proposals accepted by the current primary only, and  *)
(* view changes that keep every committed operation and some prefix of the *)
(* uncommitted ones.  Each replica applies the log at its own pace and at  *)
(* its own wallclock (apply_effect calls unix_millis()), keeps a reply     *)
(* cache and a pending table, and loses them in a restart.                 *)
(***************************************************************************)
EXTENDS Locks, Sequences

CONSTANTS
    Replicas,
    Commands,              \* message_id -> request: what the clients send
    FirstLeader,           \* the primary of the first view
    Skew,                  \* replica -> how far its wallclock is ahead
    CoreAcceptsDuplicates, \* does the core log an operation id twice?
    SWEEP_BUDGET,          \* breaks one sweep may propose
    MaxTime,               \* bound on the reference clock
    MaxLog,                \* bound on the log's length
    MaxViewChanges,        \* bound on view changes
    MaxRestarts,           \* bound on restarts
    MaxSweeps              \* bound on sweeps

Messages == DOMAIN Commands

\* The message id of the sweeper's n-th break: a fresh UUID, no client's.
SweepId(n) == <<"sweep", n>>

Requests == GetRequests \cup SetRequests \cup ReleaseRequests(Nat) \cup BreakRequests

ASSUME LockClusterAssumption ==
    /\ LockIds \subseteq Nat
    /\ \A m \in Messages : Commands[m] \in Requests
    /\ \A n \in 1..MaxSweeps : SweepId(n) \notin Messages
    /\ FirstLeader \in Replicas
    /\ Skew \in [Replicas -> Nat]
    /\ CoreAcceptsDuplicates \in BOOLEAN
    /\ {SWEEP_BUDGET, MaxTime, MaxLog, MaxViewChanges, MaxRestarts, MaxSweeps} \subseteq Nat
    /\ MaxTime > 0

VARIABLES
    log,       \* the committed operations, in order            (core)
    queue,     \* the primary's uncommitted proposals, in order (core)
    leader,    \* the primary of the current view               (core)
    now,       \* the reference clock
    applied,   \* per replica: how much of log it has applied
    svc,       \* per replica: the lock table
    replies,   \* per replica: message -> cached reply
    pending,   \* per replica: messages whose reply it still owes
    saved,     \* per replica: the snapshot a clean boot may still load
    answers,   \* replies delivered to clients
    sweeps,    \* sweeps so far
    faults     \* [views, restarts]: faults so far

vars == <<log, queue, leader, now, applied, svc, replies, pending, saved, answers, sweeps, faults>>

Entry(id, req) == [id |-> id, req |-> req]
NoReply == [ok |-> FALSE, lease |-> NoLease, transition |-> "no reply"]
NoSnapshot == [locks |-> <<>>]
wallclock(r) == now + Skew[r]

Init ==
    /\ log = <<>> /\ queue = <<>> /\ leader = FirstLeader /\ now = 1
    /\ applied = [r \in Replicas |-> 0]
    /\ svc = [r \in Replicas |-> EmptyService]
    /\ replies = [r \in Replicas |-> [m \in Messages |-> NoReply]]
    /\ pending = [r \in Replicas |-> {}]
    /\ saved = [r \in Replicas |-> NoSnapshot]
    /\ answers = {}
    /\ sweeps = 0
    /\ faults = [views |-> 0, restarts |-> 0]

InFlight(id) == \E i \in 1..Len(log \o queue) : (log \o queue)[i].id = id

(* ---------------------------- Node::request ----------------------------- *)

Answer(r, m, reply) == [from |-> r, id |-> m, ok |-> reply.ok, lease |-> reply.lease]

\* Mutant: the request is acknowledged and the cached reply never queued.
RequestCachedSilent(r, m) ==
    /\ replies[r][m] # NoReply
    /\ UNCHANGED vars

\* A message already executed here: the cached reply, nothing is proposed.
RequestCached(r, m) ==
    /\ replies[r][m] # NoReply
    /\ answers' = answers \cup {Answer(r, m, replies[r][m])}
    /\ UNCHANGED <<log, queue, leader, now, applied, svc, replies, pending, saved, sweeps, faults>>

\* Mutant: the primary answers from its own table before the commit.
RequestProposedEager(r, m) ==
    LET out == Execute(svc[r], wallclock(r), Commands[m]) IN
    /\ replies[r][m] = NoReply
    /\ r = leader
    /\ Len(log) + Len(queue) < MaxLog
    /\ answers' = answers \cup {Answer(r, m, out)}
    /\ queue' = Append(queue, Entry(m, Commands[m]))
    /\ UNCHANGED <<log, leader, now, applied, svc, replies, pending, saved, sweeps, faults>>

\* The primary proposes: the reply is owed when the operation is applied.
RequestProposed(r, m) ==
    /\ replies[r][m] = NoReply
    /\ r = leader
    /\ CoreAcceptsDuplicates \/ ~InFlight(m)
    /\ Len(log) + Len(queue) < MaxLog
    /\ pending' = [pending EXCEPT ![r] = @ \cup {m}]
    /\ queue' = Append(queue, Entry(m, Commands[m]))
    /\ UNCHANGED <<log, leader, now, applied, svc, replies, saved, answers, sweeps, faults>>

\* NOT_LEADER, or a duplicate the core refuses: `pending` loses the entry,
\* even one an earlier proposal of the same message put there.
RequestRefused(r, m) ==
    /\ replies[r][m] = NoReply
    /\ r # leader \/ (~CoreAcceptsDuplicates /\ InFlight(m))
    /\ pending' = [pending EXCEPT ![r] = @ \ {m}]
    /\ UNCHANGED <<log, queue, leader, now, applied, svc, replies, saved, answers, sweeps, faults>>

Request(r, m) == RequestCached(r, m) \/ RequestProposed(r, m) \/ RequestRefused(r, m)

(* ------------------------- Node::sweep_expired -------------------------- *)

Expired(r) == {l \in LockIds : /\ Stored(svc[r].locks[l])
                               /\ svc[r].locks[l].expiry <= wallclock(r)}

\* The first SWEEP_BUDGET expired locks in lock id order, as the one sequence
\* that lists them.
Swept(r) ==
    {s \in UNION {[1..k -> Expired(r)] : k \in 0..SWEEP_BUDGET} :
        /\ \A i, j \in DOMAIN s : i < j => s[i] < s[j]
        /\ \A l \in Expired(r) :
              \/ \E i \in DOMAIN s : s[i] = l
              \/ Len(s) = SWEEP_BUDGET /\ \A i \in DOMAIN s : s[i] < l}

\* state_tick on the primary: one unconditional break per swept lock, each
\* under a fresh message id, judged on the table as applied so far.
Sweep(r) ==
    /\ r = leader
    /\ \E locks \in Swept(r) :
          LET breaks == [i \in 1..Len(locks) |->
                            Entry(SweepId(sweeps + i), [op |-> "break", lock |-> locks[i]])]
          IN /\ locks # <<>>
             /\ sweeps + Len(locks) <= MaxSweeps
             /\ Len(log) + Len(queue) + Len(locks) <= MaxLog
             /\ queue' = queue \o breaks
             /\ sweeps' = sweeps + Len(locks)
    /\ UNCHANGED <<log, leader, now, applied, svc, replies, pending, saved, answers, faults>>

(* --------------------- Effect::Apply of apply_effect -------------------- *)

\* load_state_on_demand: a clean boot's snapshot goes in before the first
\* operation is executed.
LoadOnDemand(r) == IF saved[r] = NoSnapshot THEN svc[r] ELSE Restore(saved[r])

Deliver(r, m, reply) ==
    IF m \in pending[r] THEN answers \cup {Answer(r, m, reply)} ELSE answers

\* The operation was executed before: its cached reply answers, no execution.
ApplyCached(r) ==
    LET m == log[applied[r] + 1].id IN
    /\ applied[r] < Len(log)
    /\ m \in Messages
    /\ replies[r][m] # NoReply
    /\ answers' = Deliver(r, m, replies[r][m])
    /\ pending' = [pending EXCEPT ![r] = @ \ {m}]
    /\ applied' = [applied EXCEPT ![r] = @ + 1]
    /\ UNCHANGED <<log, queue, leader, now, svc, replies, saved, sweeps, faults>>

\* Mutant: a logged duplicate is executed again.
ApplyExecutedAgain(r) ==
    LET e == log[applied[r] + 1]
        out == Execute(LoadOnDemand(r), wallclock(r), e.req)
    IN /\ applied[r] < Len(log)
       /\ svc' = [svc EXCEPT ![r] = out.svc]
       /\ saved' = [saved EXCEPT ![r] = NoSnapshot]
       /\ applied' = [applied EXCEPT ![r] = @ + 1]
       /\ UNCHANGED <<log, queue, leader, now, replies, pending, answers, sweeps, faults>>

\* Execution at this replica's wallclock; the reply is cached, and sent when
\* this replica owes it.
ApplyExecuted(r) ==
    LET e == log[applied[r] + 1]
        out == Execute(LoadOnDemand(r), wallclock(r), e.req)
        reply == [ok |-> out.ok, lease |-> out.lease, transition |-> out.transition]
    IN /\ applied[r] < Len(log)
       /\ e.id \in Messages => replies[r][e.id] = NoReply
       /\ svc' = [svc EXCEPT ![r] = out.svc]
       /\ saved' = [saved EXCEPT ![r] = NoSnapshot]
       /\ replies' = IF e.id \in Messages THEN [replies EXCEPT ![r][e.id] = reply] ELSE replies
       /\ answers' = Deliver(r, e.id, reply)
       /\ pending' = [pending EXCEPT ![r] = @ \ {e.id}]
       /\ applied' = [applied EXCEPT ![r] = @ + 1]
       /\ UNCHANGED <<log, queue, leader, now, sweeps, faults>>

Apply(r) == ApplyCached(r) \/ ApplyExecuted(r)

(* -------------------------- core and environment ------------------------ *)

Commit ==
    /\ queue # <<>>
    /\ log' = Append(log, Head(queue))
    /\ queue' = Tail(queue)
    /\ UNCHANGED <<leader, now, applied, svc, replies, pending, saved, answers, sweeps, faults>>

\* Another replica becomes the primary with a prefix of the uncommitted tail.
ViewChange(r) ==
    /\ r # leader
    /\ faults.views < MaxViewChanges
    /\ leader' = r
    /\ \E n \in 0..Len(queue) : queue' = SubSeq(queue, 1, n)
    /\ faults' = [faults EXCEPT !.views = @ + 1]
    /\ UNCHANGED <<log, now, applied, svc, replies, pending, saved, answers, sweeps>>

\* A backup restarts: reply cache and pending are gone and the log streams in
\* again from the start.  A clean boot keeps the stop's snapshot to load, a
\* crashed one distrusts it (`state_store.forget()`).
Restart(r, clean) ==
    /\ r # leader
    /\ faults.restarts < MaxRestarts
    /\ applied' = [applied EXCEPT ![r] = 0]
    /\ svc' = [svc EXCEPT ![r] = EmptyService]
    /\ replies' = [replies EXCEPT ![r] = [m \in Messages |-> NoReply]]
    /\ pending' = [pending EXCEPT ![r] = {}]
    /\ saved' = [saved EXCEPT ![r] = IF clean THEN Snapshot(LoadOnDemand(r)) ELSE NoSnapshot]
    /\ faults' = [faults EXCEPT !.restarts = @ + 1]
    /\ UNCHANGED <<log, queue, leader, now, answers, sweeps>>

Tick ==
    /\ now < MaxTime
    /\ now' = now + 1
    /\ UNCHANGED <<log, queue, leader, applied, svc, replies, pending, saved, answers, sweeps, faults>>

Next ==
    \/ \E r \in Replicas, m \in Messages : Request(r, m)
    \/ \E r \in Replicas : Apply(r)
    \/ \E r \in Replicas : Sweep(r)
    \/ \E r \in Replicas : ViewChange(r)
    \/ \E r \in Replicas, clean \in BOOLEAN : Restart(r, clean)
    \/ Commit
    \/ Tick

Spec == Init /\ [][Next]_vars

\* The core commits what its primary proposed and every replica applies what
\* is committed (a majority stays connected), and a client re-sends an
\* unanswered message through the host (wait_for_reply in server.tl submits
\* it again on every heartbeat) until it reaches the primary.
FairSpec ==
    /\ Spec
    /\ WF_vars(Commit)
    /\ \A r \in Replicas : WF_vars(Apply(r))
    /\ \A r \in Replicas, m \in Messages : WF_vars(r = leader /\ Request(r, m))

(* ------------------------------ properties ------------------------------ *)

TypeOK ==
    /\ leader \in Replicas
    /\ now \in 1..MaxTime
    /\ svc \in [Replicas -> Service]
    /\ \A r \in Replicas : applied[r] \in 0..Len(log)
    /\ pending \in [Replicas -> SUBSET Messages]
    /\ \A a \in answers : a.id \in Messages /\ a.from \in Replicas
    /\ Len(log) + Len(queue) <= MaxLog

\* A reply leaves a node only for an operation the cluster has committed
\* (apply_effect is the only place that produces one): a view change can take
\* back a proposal, never an answer. The types are part of it.
AnswersAreCommitted ==
    /\ TypeOK
    /\ \A a \in answers : \E i \in 1..Len(log) : log[i].id = a.id

\* Exactly once: within one life of a replica a message that retries put into
\* the log several times changes the table at most once.
ExecutedOncePerLife ==
    [][\A r \in Replicas :
          applied'[r] = applied[r] + 1
             /\ (\E i \in 1..applied[r] : log[i].id = log[applied[r] + 1].id)
          => svc'[r] = svc[r]]_vars

\* A committed request that takes nothing from the lease of that window which
\* h was granted on l: no break, no release of h's own, and no SET of h's own
\* that asks for less time.
Spares(req, l, h, window) ==
    req.lock = l =>
        /\ req.op # "break"
        /\ req.op = "release" => req.holder # h
        /\ req.op = "set" => (req.holder = h => req.window >= window)

\* What a client may rely on: a granted SET answer whose expiry has not passed
\* on the clock of the replica that answered, which the client has not asked to
\* release or to shorten and no break has revoked.
Relies(h, l, from) ==
    \E a \in answers :
        /\ Commands[a.id].op = "set" /\ Commands[a.id].lock = l /\ Commands[a.id].holder = h
        /\ a.ok /\ a.from \in from /\ Live(a.lease, wallclock(a.from))
        /\ \A i \in 1..Len(log) : Spares(log[i].req, l, h, Commands[a.id].window)

\* Mutual exclusion among the clients that one primary answers, for as long as
\* it serves: retries, duplicated log entries, foreign releases and restarts
\* of the backups never give two of them unexpired leases on one lock.
OneHolderUnderOnePrimary ==
    faults.views = 0 =>
        \A l \in LockIds, g, h \in Holders :
            Relies(g, l, {FirstLeader}) /\ Relies(h, l, {FirstLeader}) => g = h

\* Mutual exclusion for clients of the cluster.  client-protocol.md: "The
\* granted window is measured in exactly one clock".
OneHolderPerLock ==
    \A l \in LockIds, g, h \in Holders :
        Relies(g, l, Replicas) /\ Relies(h, l, Replicas) => g = h

\* Every message that is re-sent until it is answered is answered, through
\* view changes, restarts, lost proposals and forgotten pending entries.
EveryMessageAnswered == \A m \in Messages : <>(\E a \in answers : a.id = m)

\* wal_node_test.rs: under the sweeper's beats "the live lease's table row is
\* never broken": a sweep's break never meets a lease in force.
LiveLeaseNeverSwept ==
    [][\A r \in Replicas :
          applied'[r] = applied[r] + 1 /\ log[applied[r] + 1].id \notin Messages
          => ~Live(svc[r].locks[log[applied[r] + 1].req.lock], wallclock(r))]_vars
=============================================================================
