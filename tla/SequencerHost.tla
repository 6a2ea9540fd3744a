--------------------------- MODULE SequencerHost ---------------------------
(***************************************************************************)
(* The client path of the lease-sequencer host (examples/lease-sequencer/   *)
(* src/main.rs, embedded_client.rs, client_gate.rs): three kinds of local   *)
(* clients (the lease driver, the embedded contender, TCP connections), the *)
(* forwarding of verbs to the leader's host, and the claiming of replies.   *)
(*                                                                          *)
(* The adapter and the core below the host are external here (LockCluster   *)
(* models them): one lock, executed once per message at the commit, whose   *)
(* reply a node emits when it owes it and replays when it is asked again.   *)
(*                                                                          *)
(* Deadlines, backoffs and poll waits are not compared with a clock: each   *)
(* may pass at any step. Only the lease's expiry is. `last_get_foreign`     *)
(* selects the label of a log line and is left out, and so is the second    *)
(* and further client of a runner, which shares nothing with the first.     *)
(***************************************************************************)
EXTENDS Integers, FiniteSets

CONSTANTS Node,          \* the hosts
          Nobody,        \* LEADER_UNKNOWN, and the holder of a free lock
          Tcp,           \* external clients, one connection each
          None,          \* no message
          LeaseMs,       \* LEASE_MS, in ticks
          RenewMargin,   \* RENEW_MARGIN_MS
          MaxMessages,   \* bound on the messages all clients send
          MaxLines,      \* bound on the lines a TCP client sends
          Mixes          \* who acts, and how much happens around them: the hosts
                         \* whose driver acts, the hosts with an embedded contender,
                         \* the TCP clients, and bounds on the clock, on elections
                         \* and unsettled nodes, and on datagrams in flight

ASSUME HostAssumption ==
    /\ Nobody \notin Node
    /\ LeaseMs \in Nat /\ RenewMargin \in Nat /\ RenewMargin < LeaseMs
    /\ MaxMessages \in Nat /\ MaxLines \in Nat
    /\ \A x \in Mixes : /\ x.drivers \subseteq Node /\ x.embedded \subseteq Node
                        /\ x.tcp \subseteq Tcp
                        /\ x.time \in Nat \ {0} /\ {x.views, x.net} \subseteq Nat

Driver(n) == <<"driver", n>>
Contender(n) == <<"embedded", n>>
Client(c) == <<"tcp", c>>

Clients == {Driver(n) : n \in Node} \union {Contender(n) : n \in Node}
             \union {Client(c) : c \in Tcp}
Message == [client : Clients, op : {"get", "set", "renew", "extend"}, num : 1..MaxMessages]
Pendings == Message \union {None}

ASSUME NoneIsNoMessage == None \notin Message

VARIABLES
    mix,       \* the member of Mixes this behaviour shows
    leader,    \* the primary
    status,    \* what each adapter reports: [normal, leader]
    prop,      \* messages the primary has proposed and not committed
    done,      \* committed messages with their replies
    owed,      \* each adapter's pending table
    lease,     \* the lock: [holder, expiry]
    now,       \* the clock
    views,     \* elections and departures from the normal state so far
    sends,     \* messages minted so far
    drv,       \* each host's Driver: [pending, held]
    emb,       \* each host's embedded client: [on, sched, holds, pending]
    probed,    \* has the contender absorbed a probe since its start? (history)
    conn,      \* each TCP client's connection: [at, pending, verb, got, lines]
    fwd,       \* forwarded_from: [msg, from] rows of each host
    net,       \* datagrams in flight; each may be lost, late or repeated
    missed     \* TCP clients whose reply was drained before their wait began (history)

coreVars == <<mix, leader, status, prop, done, lease, now, views>>
hostVars == <<drv, emb, probed, conn, fwd, missed>>
vars == <<coreVars, owed, sends, hostVars, net>>

Free == [holder |-> Nobody, expiry |-> 0]
NoReply == [granted |-> FALSE, lease |-> Free, error |-> TRUE]

\* A fresh uuid for a verb.
Mint(client, op) == [client |-> client, op |-> op, num |-> sends + 1]

Init ==
    /\ mix \in Mixes
    /\ leader \in Node
    /\ status = [n \in Node |-> [normal |-> TRUE, leader |-> leader]]
    /\ prop = {} /\ done = {} /\ owed = [n \in Node |-> {}]
    /\ lease = Free /\ now = 1 /\ views = 0 /\ sends = 0
    /\ drv = [n \in Node |-> [pending |-> None, held |-> 0]]
    /\ emb = [n \in Node |-> [on |-> FALSE, sched |-> FALSE, holds |-> FALSE, pending |-> None]]
    /\ probed = [n \in Node |-> FALSE]
    /\ conn = [c \in Tcp |-> [at |-> Nobody, pending |-> None, verb |-> None, got |-> None,
                          lines |-> 0]]
    /\ fwd = [n \in Node |-> {}]
    /\ net = {} /\ missed = {}

-----------------------------------------------------------------------------
(* The adapter and the core below the host (external). *)

Leads(n) == status[n].normal /\ status[n].leader = n
IsDone(m) == \E d \in done : d.msg = m
ReplyTo(m) == (CHOOSE d \in done : d.msg = m).reply

\* What Service::execute answers at the commit.
Execution(m) ==
    LET live == lease.expiry > now
    IN  IF m.op = "get"
        THEN [granted |-> TRUE, lease |-> IF live THEN lease ELSE Free, error |-> FALSE]
        ELSE IF live /\ lease.holder # m.client
        THEN [granted |-> FALSE, lease |-> lease, error |-> FALSE]
        ELSE [granted |-> TRUE, error |-> FALSE,
              lease |-> [holder |-> m.client, expiry |-> now + LeaseMs]]

\* An adapter leaves the normal state; it may or may not still name a leader.
Unsettle(n) ==
    /\ views < mix.views
    /\ status[n].normal
    /\ \E l \in {status[n].leader, Nobody} :
           status' = [status EXCEPT ![n] = [normal |-> FALSE, leader |-> l]]
    /\ views' = views + 1
    /\ UNCHANGED <<mix, leader, prop, done, lease, now, owed, sends, hostVars, net>>

\* A new primary keeps some of the uncommitted proposals.
Elect(n) ==
    /\ views < mix.views /\ n # leader
    /\ leader' = n
    /\ \E kept \in SUBSET prop : prop' = kept
    /\ status' = [status EXCEPT ![n] = [normal |-> TRUE, leader |-> n]]
    /\ views' = views + 1
    /\ UNCHANGED <<mix, done, lease, now, owed, sends, hostVars, net>>

LearnLeader(n) ==
    /\ status[n] # [normal |-> TRUE, leader |-> leader]
    /\ status' = [status EXCEPT ![n] = [normal |-> TRUE, leader |-> leader]]
    /\ UNCHANGED <<mix, leader, prop, done, lease, now, views, owed, sends, hostVars, net>>

Clock ==
    /\ now < mix.time
    /\ now' = now + 1
    /\ UNCHANGED <<mix, leader, status, prop, done, lease, views, owed, sends, hostVars, net>>

\* Node::request of a message without a cached reply: proposed and owed (a
\* deposed primary's proposal is lost), refused as a duplicate, or not leader.
\* `io` is what lies below and between the hosts: [prop, owed, net].
Proposals(n, m, io) ==
    LET owes == [io.owed EXCEPT ![n] = @ \union {m}]
        dropped == [io.owed EXCEPT ![n] = @ \ {m}]
    IN  (IF Leads(n)
         THEN {[rc |-> "ok", io |-> [io EXCEPT !.owed = owes,
                    !.prop = IF n = leader /\ ~IsDone(m) THEN @ \union {m} ELSE @]]}
         ELSE {[rc |-> "not_leader", io |-> [io EXCEPT !.owed = dropped]]})
        \union
        (IF Leads(n) /\ m \in io.prop
         THEN {[rc |-> "refused", io |-> [io EXCEPT !.owed = dropped]]} ELSE {})

IO == [prop |-> prop, owed |-> owed, net |-> net]
InFlight(sent) == Cardinality(sent) <= mix.net /\ net' = sent
Becomes(io) == prop' = io.prop /\ owed' = io.owed /\ InFlight(io.net)

\* The reply may be cached here; on the primary it is.
MayBeCached(n, m) == IsDone(m)
MayBeUncached(n, m) == ~(IsDone(m) /\ n = leader)

-----------------------------------------------------------------------------
(* Submitting: Host::route_op and Host::submit_embedded. *)

Datagram(kind, from, to, m, r) == [kind |-> kind, from |-> from, to |-> to, msg |-> m, reply |-> r]

\* The verb is pending when the node took it or when it was forwarded.
Routed(n, m, io) ==
    {LET target == status[n].leader
         forwards == p.rc = "not_leader" /\ target \notin {Nobody, n}
     IN  [pending |-> IF p.rc = "ok" \/ forwards THEN m ELSE None,
          io |-> IF forwards
                 THEN [p.io EXCEPT !.net = @ \union {Datagram("request", n, target, m, NoReply)}]
                 ELSE p.io] :
     p \in Proposals(n, m, io)}

-----------------------------------------------------------------------------
(* The lease driver. *)

\* driver_step while the replica is not settled: everything is forgotten.
DriverUnsettled(n) ==
    /\ ~status[n].normal
    /\ drv[n] # [pending |-> None, held |-> 0]
    /\ drv' = [drv EXCEPT ![n] = [pending |-> None, held |-> 0]]
    /\ UNCHANGED <<coreVars, owed, sends, emb, probed, conn, fwd, net, missed>>

\* driver_step past the deadline with nothing to relay. (With something to
\* relay the deadline moves and nothing else does.)
DriverDeadline(n) ==
    /\ status[n].normal /\ drv[n].pending # None
    /\ drv' = [drv EXCEPT ![n].pending = None]
    /\ UNCHANGED <<coreVars, owed, sends, emb, probed, conn, fwd, net, missed>>

DriverSubmit(n, op, held) ==
    LET m == Mint(Driver(n), op)
    IN  /\ sends < MaxMessages
        /\ sends' = sends + 1
        /\ \E o \in Routed(n, m, IO) :
               /\ drv' = [drv EXCEPT ![n] = [pending |-> o.pending, held |-> held]]
               /\ Becomes(o.io)
        /\ UNCHANGED <<mix, leader, status, done, lease, now, views, emb, probed, conn, fwd, missed>>

\* driver_step: nothing held (any more): ask.
DriverGet(n) ==
    /\ n \in mix.drivers /\ status[n].normal /\ drv[n].pending = None
    /\ drv[n].held <= now
    /\ DriverSubmit(n, "get", 0)

\* driver_step: held and within the margin: renew.
DriverRenew(n) ==
    /\ status[n].normal /\ drv[n].pending = None
    /\ drv[n].held > now /\ now + RenewMargin >= drv[n].held
    /\ DriverSubmit(n, "renew", drv[n].held)

\* Mutant: a refused SET is taken for a grant.
DriverHeldUnchecked(n, m, r, held) ==
    IF m.op = "get" /\ r.lease.holder # Driver(n) THEN held ELSE r.lease.expiry

\* driver_complete: what the driver holds after the reply.
DriverHeld(n, m, r, held) ==
    IF m.op = "get"
    THEN (IF r.lease.holder = Driver(n) THEN r.lease.expiry ELSE held)
    ELSE IF r.granted THEN r.lease.expiry ELSE 0

\* driver_complete: a free lock is taken at once.
DriverComplete(n, m, r, io) ==
    LET held == DriverHeld(n, m, r, drv[n].held)
        follows == m.op = "get" /\ r.lease = Free /\ sends < MaxMessages
        outcomes == IF follows THEN Routed(n, Mint(Driver(n), "set"), io)
                    ELSE {[pending |-> None, io |-> io]}
    IN  /\ sends' = IF follows THEN sends + 1 ELSE sends
        /\ \E o \in outcomes :
               /\ drv' = [drv EXCEPT ![n] = [pending |-> o.pending, held |-> held]]
               /\ Becomes(o.io)
        /\ UNCHANGED <<emb, probed, conn, missed>>

-----------------------------------------------------------------------------
(* The embedded contender. *)

\* Contender::absorb: the gate after a reply (or after none). A SET counts as
\* taken whatever it was answered; a refused renewal does not.
Absorbed(n, g, m, r) ==
    LET own == ~r.error /\ r.lease.holder = Contender(n) /\ r.granted
    IN  [g EXCEPT !.pending = None,
                  !.sched = TRUE,
                  !.holds = \/ m.op = "set" \/ own
                            \/ @ /\ ~(m.op = "extend" /\ ~r.error /\ r.lease # Free)]

\* The gate after a submit: pending, or absorbed without a reply.
Submitted(n, g, m, o) ==
    IF o.pending = None THEN Absorbed(n, g, m, NoReply) ELSE [g EXCEPT !.pending = m]

\* client_gate::next_op.
NextOp(g) == IF g.sched /\ g.holds THEN "extend" ELSE "get"

EmbeddedSubmit(n, g) ==
    LET m == Mint(Contender(n), NextOp(g))
    IN  /\ sends < MaxMessages
        /\ sends' = sends + 1
        /\ \E o \in Routed(n, m, IO) :
               /\ emb' = [emb EXCEPT ![n] = Submitted(n, g, m, o)]
               /\ Becomes(o.io)
        /\ UNCHANGED <<mix, leader, status, done, lease, now, views, drv, probed, conn, fwd, missed>>

\* Runner::tick after SIGUSR2: the gate starts and the first action goes out.
EmbeddedStart(n) ==
    /\ n \in mix.embedded /\ ~emb[n].on
    /\ EmbeddedSubmit(n, [emb[n] EXCEPT !.on = TRUE])

\* Runner::tick when the client is due.
EmbeddedAct(n) ==
    /\ emb[n].on /\ emb[n].pending = None
    /\ EmbeddedSubmit(n, emb[n])

\* Runner::tick past the deadline: absorbed without a reply. The next action is
\* not due before the wait this sets.
EmbeddedDeadline(n) ==
    /\ emb[n].pending # None
    /\ emb' = [emb EXCEPT ![n] = Absorbed(n, @, @.pending, NoReply)]
    /\ UNCHANGED <<coreVars, owed, sends, drv, probed, conn, fwd, net, missed>>

\* Mutant: the silence leaves the verb in flight pending.
EmbeddedSilenceKeepsPending(n) ==
    /\ emb[n].on
    /\ emb' = [emb EXCEPT ![n] = [on |-> FALSE, sched |-> FALSE, holds |-> FALSE,
                                  pending |-> @.pending]]
    /\ probed' = [probed EXCEPT ![n] = FALSE]
    /\ UNCHANGED <<coreVars, owed, sends, drv, conn, fwd, net, missed>>

\* Runner::tick after SIGUSR1: client_gate::stop, and the pending verb is dropped.
EmbeddedSilence(n) ==
    /\ emb[n].on
    /\ emb' = [emb EXCEPT ![n] = [on |-> FALSE, sched |-> FALSE, holds |-> FALSE,
                                  pending |-> None]]
    /\ probed' = [probed EXCEPT ![n] = FALSE]
    /\ UNCHANGED <<coreVars, owed, sends, drv, conn, fwd, net, missed>>

\* Runner::absorb: the reply, and the SET that follows a probe of a free lock.
EmbeddedComplete(n, m, r, io) ==
    LET g == Absorbed(n, emb[n], m, r)
        follows == m.op = "get" /\ ~r.error /\ r.lease = Free /\ sends < MaxMessages
        next == Mint(Contender(n), "set")
        outcomes == IF follows THEN Routed(n, next, io)
                    ELSE {[pending |-> None, io |-> io]}
    IN  /\ sends' = IF follows THEN sends + 1 ELSE sends
        /\ \E o \in outcomes :
               /\ emb' = [emb EXCEPT ![n] = IF follows THEN Submitted(n, g, next, o) ELSE g]
               /\ Becomes(o.io)
        /\ probed' = [probed EXCEPT ![n] = @ \/ m.op = "get"]
        /\ UNCHANGED <<drv, conn, missed>>

-----------------------------------------------------------------------------
(* Claiming a reply: the tail of Host::flush_outputs and of the forwarded     *)
(* response, which differ only in what they look at first.                    *)

Waiting(n, m) == {c \in Tcp : conn[c].at = n /\ conn[c].pending = m}

\* client_reply.
ConnReply(c, m) == [conn EXCEPT ![c].pending = None, ![c].got = m]

NoSubmit(io) == Becomes(io) /\ UNCHANGED sends

\* Mutant: a connection takes the first reply that comes in.
ConnClaimsAny(n, m, r, io) ==
    /\ drv[n].pending # m /\ emb[n].pending # m
    /\ \E c \in Tcp : /\ conn[c].at = n /\ conn[c].pending # None
                      /\ conn' = ConnReply(c, m)
    /\ NoSubmit(io)
    /\ UNCHANGED <<drv, emb, probed, missed>>

ConnClaims(n, m, r, io) ==
    /\ drv[n].pending # m /\ emb[n].pending # m
    /\ \E c \in Waiting(n, m) : conn' = ConnReply(c, m)
    /\ NoSubmit(io)
    /\ UNCHANGED <<drv, emb, probed, missed>>

\* No claimant: a late ack.
LateAck(n, m, io) ==
    /\ drv[n].pending # m /\ emb[n].pending # m /\ Waiting(n, m) = {}
    /\ NoSubmit(io)
    /\ UNCHANGED <<drv, emb, probed, conn, missed>>

Claim(n, m, r, io) ==
    \/ drv[n].pending = m /\ DriverComplete(n, m, r, io)
    \/ emb[n].pending = m /\ EmbeddedComplete(n, m, r, io)
    \/ ConnClaims(n, m, r, io)
    \/ LateAck(n, m, io)

Rows(n, m) == {f \in fwd[n] : f.msg = m}

\* flush_outputs of one REPLY: a forwarded_from row takes it before anyone.
ReplyOut(n, m, r, io) ==
    \/ /\ Rows(n, m) # {}
       /\ fwd' = [fwd EXCEPT ![n] = @ \ Rows(n, m)]
       /\ NoSubmit([io EXCEPT !.net = @ \union {Datagram("response", n, f.from, m, r) :
                                                 f \in Rows(n, m)}])
       /\ UNCHANGED <<drv, emb, probed, conn, missed>>
    \/ /\ Rows(n, m) = {}
       /\ Claim(n, m, r, io)
       /\ UNCHANGED fwd

\* The primary commits, applies and flushes in one turn of its loop.
Commit ==
    /\ \E m \in prop :
           LET r == Execution(m)
               io == [IO EXCEPT !.prop = @ \ {m}, !.owed[leader] = @ \ {m}]
           IN  /\ done' = done \union {[msg |-> m, reply |-> r]}
               /\ lease' = IF m.op # "get" /\ r.granted THEN r.lease ELSE lease
               /\ \/ m \in owed[leader] /\ ReplyOut(leader, m, r, io)
                  \/ m \notin owed[leader] /\ NoSubmit(io) /\ UNCHANGED hostVars
    /\ UNCHANGED <<mix, leader, status, now, views>>

\* Another replica applies a message whose reply it owes.
ReplyDue(n) ==
    /\ \E m \in owed[n] :
           /\ IsDone(m)
           /\ ReplyOut(n, m, ReplyTo(m), [IO EXCEPT !.owed[n] = @ \ {m}])
    /\ UNCHANGED <<mix, leader, status, done, lease, now, views>>

-----------------------------------------------------------------------------
(* Forwarding between hosts (handle_packet, PEER_APPLICATION). *)

\* 0x01 at a host that leads, not answered before: the row goes in before the
\* request, and out again when the adapter refuses.
ForwardProposed(d, kept) ==
    LET n == d.to
        row == [msg |-> d.msg, from |-> d.from]
    IN  /\ Leads(n) /\ MayBeUncached(n, d.msg)
        /\ \E p \in Proposals(n, d.msg, [IO EXCEPT !.net = kept]) :
               /\ fwd' = [fwd EXCEPT ![n] = IF p.rc = "ok" THEN (@ \ Rows(n, d.msg)) \union {row}
                                            ELSE @ \ Rows(n, d.msg)]
               /\ Becomes(IF p.rc = "ok" THEN p.io
                          ELSE [p.io EXCEPT !.net = @ \union
                                  {Datagram("not_leader", n, d.from, d.msg, NoReply)}])
        /\ UNCHANGED <<mix, leader, status, done, lease, now, views, sends, drv, emb, probed, conn, missed>>

\* 0x01 at a host that leads and has the reply: the flush answers through the row.
ForwardCached(d, kept) ==
    LET n == d.to
    IN  /\ Leads(n) /\ MayBeCached(n, d.msg)
        /\ fwd' = [fwd EXCEPT ![n] = @ \ Rows(n, d.msg)]
        /\ InFlight(kept \union {Datagram("response", n, d.from, d.msg, ReplyTo(d.msg))})
        /\ UNCHANGED <<coreVars, owed, sends, drv, emb, probed, conn, missed>>

ForwardElsewhere(d, kept) ==
    /\ ~Leads(d.to)
    /\ InFlight(kept \union {Datagram("not_leader", d.to, d.from, d.msg, NoReply)})
    /\ UNCHANGED <<coreVars, owed, sends, drv, emb, probed, conn, fwd, missed>>

\* A datagram may be delivered for the last time.
HandleRequest ==
    \E d \in net : \E kept \in {net, net \ {d}} :
        /\ d.kind = "request"
        /\ \/ ForwardProposed(d, kept) \/ ForwardCached(d, kept) \/ ForwardElsewhere(d, kept)

\* 0x02.
HandleResponse ==
    /\ \E d \in net : d.kind = "response" /\ Claim(d.to, d.msg, d.reply, IO)
    /\ UNCHANGED <<mix, leader, status, done, lease, now, views, fwd>>

\* 0x03: the pending verb is given up; a connection is told.
HandleNotLeader ==
    /\ \E d \in net :
           LET n == d.to
               m == d.msg
           IN  /\ d.kind = "not_leader"
               /\ \/ /\ drv[n].pending = m
                     /\ drv' = [drv EXCEPT ![n].pending = None]
                     /\ UNCHANGED <<emb, conn>>
                  \/ /\ drv[n].pending # m /\ emb[n].pending = m
                     /\ emb' = [emb EXCEPT ![n] = Absorbed(n, @, m, NoReply)]
                     /\ UNCHANGED <<drv, conn>>
                  \/ /\ drv[n].pending # m /\ emb[n].pending # m
                     /\ \E c \in Waiting(n, m) : conn' = [conn EXCEPT ![c].pending = None]
                     /\ UNCHANGED <<drv, emb>>
    /\ UNCHANGED <<coreVars, owed, sends, probed, fwd, net, missed>>

\* pump_tcp drops rows past their 30 s.
PurgeForwarded(n) ==
    /\ \E f \in fwd[n] : fwd' = [fwd EXCEPT ![n] = @ \ {f}]
    /\ UNCHANGED <<coreVars, owed, sends, drv, emb, probed, conn, net, missed>>

-----------------------------------------------------------------------------
(* TCP connections. *)

\* The lines a client may send next: a new verb, or the unanswered one again.
Lines(c) ==
    (IF sends < MaxMessages THEN {Mint(Client(c), "set")} ELSE {})
    \union (IF conn[c].verb # None /\ conn[c].got # conn[c].verb THEN {conn[c].verb} ELSE {})

Wait(c, n, m, pending) ==
    conn' = [conn EXCEPT ![c] = [at |-> n, pending |-> pending, verb |-> m,
                                 got |-> IF @.verb = m THEN @.got ELSE None,
                                 lines |-> @.lines + 1]]

\* handle_client_line, not cached: proposed, forwarded, or refused on the line.
LineRouted(c, n, m) ==
    /\ MayBeUncached(n, m)
    /\ \E o \in Routed(n, m, IO) :
           /\ Wait(c, n, m, o.pending)
           /\ Becomes(o.io)
    /\ UNCHANGED <<mix, leader, status, done, lease, now, views, drv, emb, probed, fwd, missed>>

\* handle_client_line, cached: the reply is queued by the request and drained by
\* the flush before the connection waits for it.
LineCached(c, n, m) ==
    /\ MayBeCached(n, m)
    /\ Wait(c, n, m, m)
    /\ fwd' = [fwd EXCEPT ![n] = @ \ Rows(n, m)]
    /\ InFlight(net \union {Datagram("response", n, f.from, m, ReplyTo(m)) : f \in Rows(n, m)})
    /\ missed' = missed \union {c}
    /\ UNCHANGED <<mix, leader, status, prop, done, lease, now, views, owed, drv, emb, probed>>

HandleClientLine(c) ==
    \E n \in Node, m \in Lines(c) :
        /\ conn[c].pending = None /\ conn[c].lines < MaxLines
        /\ LineRouted(c, n, m) \/ LineCached(c, n, m)
        /\ sends' = IF m.num > sends THEN m.num ELSE sends

\* pending_deadline: the connection is closed.
ConnDeadline(c) ==
    /\ conn[c].pending # None
    /\ conn' = [conn EXCEPT ![c].pending = None]
    /\ UNCHANGED <<coreVars, owed, sends, drv, emb, probed, fwd, net, missed>>

-----------------------------------------------------------------------------
CoreNext == Commit \/ Clock \/ \E n \in Node : Unsettle(n) \/ Elect(n) \/ LearnLeader(n)

\* A datagram is delivered any number of times before it is gone.
Gone ==
    /\ \E d \in net : net' = net \ {d}
    /\ UNCHANGED <<coreVars, owed, sends, hostVars>>

HostNext ==
    \/ \E n \in Node :
           \/ DriverUnsettled(n) \/ DriverDeadline(n) \/ DriverGet(n) \/ DriverRenew(n)
           \/ EmbeddedStart(n) \/ EmbeddedAct(n) \/ EmbeddedDeadline(n) \/ EmbeddedSilence(n)
           \/ ReplyDue(n) \/ PurgeForwarded(n)
    \/ HandleRequest \/ HandleResponse \/ HandleNotLeader
    \/ \E c \in mix.tcp : HandleClientLine(c) \/ ConnDeadline(c)

Next == CoreNext \/ HostNext \/ Gone

Spec == Init /\ [][Next]_vars

-----------------------------------------------------------------------------
(* Properties. *)

\* The type invariant.
TypeOK ==
    /\ leader \in Node /\ now \in 1..mix.time /\ sends \in 0..MaxMessages
    /\ prop \subseteq Message /\ \A d \in done : d.msg \in Message
    /\ \A n \in Node :
           /\ status[n].leader \in Node \union {Nobody}
           /\ owed[n] \subseteq Message
           /\ drv[n].pending \in Pendings /\ drv[n].held \in 0..(mix.time + LeaseMs)
           /\ emb[n].pending \in Pendings
           /\ \A f \in fwd[n] : f.msg \in Message /\ f.from \in Node
    /\ \A c \in Tcp : conn[c].pending \in Pendings

\* A driver that believes it holds the lease does: until the expiry it believes
\* in, the committed lease is its own and lasts at least as long. Replies come
\* late, through other hosts and to verbs given up since (main.rs:1209-1271).
HeldLeaseIsHeld ==
    \A n \in Node : drv[n].held > now =>
        lease.holder = Driver(n) /\ lease.expiry >= drv[n].held

\* client_gate.rs:3-7: a silence clears every trace of holdership, so that no late
\* reply finishes a renewal, and a start re-enters as a probe: whatever is still
\* in flight, the contender's first verb after a start is a GET it has absorbed
\* before it sends anything else.
StartsWithAProbe ==
    \A n \in Node :
        /\ ~emb[n].on => ~emb[n].holds /\ ~emb[n].sched
        /\ emb[n].pending # None /\ emb[n].pending.op = "extend" => probed[n]

\* A connection is only ever written the answer to the line it sent last, although
\* answers to its earlier lines may still be on their way (main.rs:2161-2170, 939-953).
\* The types are part of it.
AnswersItsLine == TypeOK /\ \A c \in Tcp : conn[c].got \in {None, conn[c].verb}

\* client-protocol.md: a retry "replays the exact prior reply": the reply a retried
\* line is owed is not thrown away by the handling of that very line.
RetryIsAnswered == missed = {}
=============================================================================
