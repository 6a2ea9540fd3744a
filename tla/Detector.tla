------------------------------ MODULE Detector ------------------------------
(***************************************************************************)
(* Failure detection in the lease-sequencer host: the leader timeout, the   *)
(* `timedout` toggle, the cluster viewchange poll, the election wait, the   *)
(* heartbeat and the relay ledger (timeouts.rs, relay.rs, and the timers of *)
(* main.rs), over a network that loses datagrams. A process that is not up  *)
(* died before the behaviour starts.                                        *)
(*                                                                          *)
(* The core is external: viewstamped replication with one era, reduced to   *)
(* the datagrams the host looks at. A deadline is not compared with a       *)
(* clock; an armed timer may be due at any step. A call of timers() in      *)
(* which several timers are due is the sequence of calls with one due.      *)
(***************************************************************************)
EXTENDS RelayLedger, FiniteSetsExt

CONSTANT Scenes    \* which nodes have voting weight, which processes run, and
                   \* the bounds on views, on proposals, and on lost datagrams
                   \* and client deadlines together; and whether the core answers
                   \* a StartViewChange it has already counted (`reanswers`)

ASSUME DetectorAssumption ==
    \A x \in Scenes : /\ IsFiniteSet(x.voters) /\ IsFiniteSet(x.up)
                     /\ x.voters = 1..Cardinality(x.voters) /\ x.voters # {}
                     /\ x.voters \subseteq Node /\ x.up \subseteq Node
                     /\ {x.views, x.slots, x.losses} \subseteq Nat
                     /\ x.reanswers \in BOOLEAN

VARIABLES
    scene,      \* the member of Scenes this behaviour shows
    core,       \* each replica: [view, state, slot, committed, votes]
    host,       \* each host: [timedout, armed, watched, detected, ledger]
    net,        \* datagrams in flight
    losses,     \* datagrams lost and client deadlines passed so far
    announced,  \* Commits the cores released (history)
    declared,   \* the last leader each node declared dead and has not heard since (history)
    again       \* did a node in the normal state declare that one a second time? (history)

vars == <<scene, core, host, net, losses, announced, declared, again>>

None == 0
voters == scene.voters
up == scene.up
Primary(v) == (v % Cardinality(voters)) + 1
Members == voters \union up
Normal(c) == c.state = "normal"
Leads(n, c) == Normal(c) /\ Primary(c.view) = n

Init ==
    /\ scene \in Scenes
    /\ core = [n \in Node |-> [view |-> 0, state |-> "normal", slot |-> 0, committed |-> 0,
                               votes |-> {}]]
    /\ host = [n \in Node |-> [timedout |-> FALSE, armed |-> FALSE, watched |-> None,
                               detected |-> None, ledger |-> EmptyLedger]]
    /\ net = {} /\ losses = 0 /\ announced = {}
    /\ declared = [n \in Node |-> None] /\ again = FALSE

-----------------------------------------------------------------------------
(* The core (external). Each operator gives the replica and what it releases. *)

To(n, peers, tag, c, slot) ==
    {[tag |-> tag, from |-> n, to |-> p, view |-> c.view, slot |-> slot] : p \in peers \ {n}}

\* A datagram to a dead process is gone.
InFlight(ds) == {d \in ds : d.to \in up}

Still(c) == [core |-> c, outs |-> {}]

\* A replica enters the view change of view v, having seen votes for it.
EnterView(n, c, v, votes) ==
    LET next == [c EXCEPT !.view = v, !.state = "view_change", !.votes = votes]
    IN  [core |-> next,
         outs |-> To(n, Members, "StartViewChange", next, 0)
                    \union (IF votes = {} THEN {} ELSE To(n, {Primary(v)}, "DoViewChange", next, 0))]

\* Input::AdminForceView of the next view.
ForceView(n, c) == EnterView(n, c, c.view + 1, {})

\* Input::Tick: a normal backup may suspect its primary.
Ticks(n, c) ==
    {Still(c)} \union
    (IF Normal(c) /\ Primary(c.view) # n /\ n \in voters /\ c.view < scene.views
     THEN {ForceView(n, c)} ELSE {})

CommitOuts(n, c) == To(n, Members, "Commit", c, c.committed)

CoreReceive(n, c, d) ==
    IF d.view < c.view THEN Still(c) ELSE
    CASE d.tag \in {"StartViewChange", "DoViewChange"} /\ d.view > c.view ->
            EnterView(n, c, d.view, {d.from})
      [] d.tag = "StartViewChange" /\ d.view = c.view /\ ~Normal(c) ->
            [core |-> [c EXCEPT !.votes = @ \union {d.from}],
             outs |-> To(n, {Primary(c.view)}, "DoViewChange", c, 0)
                        \union (IF scene.reanswers /\ d.from \in c.votes
                                THEN To(n, {d.from}, "StartViewChange", c, 0) ELSE {})]
      [] d.tag = "DoViewChange" /\ d.view = c.view /\ Primary(c.view) = n ->
            LET next == [c EXCEPT !.state = "normal", !.votes = {}]
            IN  [core |-> next,
                 outs |-> To(n, IF Normal(c) THEN {d.from} ELSE Members, "StartView", next, c.slot)]
      [] d.tag = "StartView" /\ (d.view > c.view \/ ~Normal(c)) ->
            LET next == [c EXCEPT !.view = d.view, !.state = "normal", !.votes = {}, !.slot = d.slot]
            IN  [core |-> next, outs |-> To(n, {d.from}, "PrepareOk", next, d.slot)]
      [] d.tag = "Prepare" /\ Normal(c) /\ d.view = c.view ->
            LET next == [c EXCEPT !.slot = d.slot]
            IN  [core |-> next, outs |-> To(n, {d.from}, "PrepareOk", next, d.slot)]
      [] d.tag = "PrepareOk" /\ Leads(n, c) /\ d.slot = c.slot ->
            LET next == [c EXCEPT !.committed = d.slot]
            IN  [core |-> next, outs |-> CommitOuts(n, next)]
      [] d.tag = "Commit" /\ Normal(c) /\ d.view = c.view ->
            Still([c EXCEPT !.committed = d.slot])
      [] OTHER -> Still(c)

-----------------------------------------------------------------------------
(* The host. *)

\* flush_outputs: everything released is sent and recorded.
Flush(h, outs) == [h EXCEPT !.ledger = FoldSet(LAMBDA d, l : Record(l, d), @, outs)]

Released(outs) ==
    /\ announced' = announced \union {d \in outs : d.tag = "Commit"}

\* Host::suspect.
Suspect(n, h) == IF n \in voters THEN [h EXCEPT !.timedout = TRUE] ELSE h

\* timers(): a node in a view change has timed out.
Joined(n, h, c) == IF c.state = "view_change" THEN Suspect(n, h) ELSE h

\* Mutant: the detector goes on watching while timed out.
WatchAlways(n, h, c) ==
    IF Primary(c.view) = n THEN h ELSE [h EXCEPT !.watched = Primary(c.view)]

\* leader_timeout_step up to the deadline: a new key is watched.
Watch(n, h, c) ==
    IF h.timedout \/ Primary(c.view) = n THEN h ELSE [h EXCEPT !.watched = Primary(c.view)]

\* timers(): the poll is armed with the toggle and disarmed without.
Arm(h) == [h EXCEPT !.armed = h.timedout]

\* The end of a call of timers() that found the host h, the replica c and that
\* sends `outs` of the core and `relays` of the ledger.
EndTimers(n, h, c, outs, relays) ==
    /\ host' = [host EXCEPT ![n] = h]
    /\ core' = [core EXCEPT ![n] = c]
    /\ net' = InFlight(net \union outs \union relays)
    /\ Released(outs)
    /\ UNCHANGED <<scene, losses>>

\* No timer is due.
TimersQuiet(n) ==
    LET h == Arm(Watch(n, Joined(n, host[n], core[n]), core[n]))
    IN  /\ h # host[n]
        /\ EndTimers(n, h, core[n], {}, {})
        /\ UNCHANGED <<declared, again>>

\* heartbeat_op: the last Commit, to every peer it was released to.
Heartbeat(n, h, c) == IF Leads(n, c) THEN LastCommit(h.ledger, c.view) ELSE {}

\* The heartbeat interval is over: idle, flush, heartbeat.
TimersBeat(n) ==
    \E t \in Ticks(n, core[n]) :
        LET flushed == Flush(host[n], t.outs)
            h == Arm(Watch(n, Joined(n, flushed, core[n]), t.core))
        IN  /\ EndTimers(n, h, t.core, t.outs, Heartbeat(n, flushed, t.core))
            /\ UNCHANGED <<declared, again>>

\* Mutant: a detection is not latched.
LatchedNever(h, c) == FALSE

\* One detection per key in the normal state.
Latched(h, c) == h.detected = Primary(c.view) /\ Normal(c)

\* The leader timeout is due: detect, force the next view, suspect.
TimersLeader(n) ==
    LET h == Joined(n, host[n], core[n])
        key == Primary(core[n].view)
        drives == n \in voters
        forced == IF drives THEN ForceView(n, core[n]) ELSE Still(core[n])
        detected == [h EXCEPT !.detected = key]
    IN  /\ ~h.timedout /\ key # n /\ h.watched = key
        /\ ~Latched(h, core[n])
        /\ drives => core[n].view < scene.views
        /\ EndTimers(n, Arm(Flush(Suspect(n, detected), forced.outs)), forced.core, forced.outs, {})
        /\ declared' = [declared EXCEPT ![n] = key]
        /\ again' = (again \/ (declared[n] = key /\ Normal(core[n])))

\* Mutant: the poll asks for a fresh view change.
PollDriveForces(n, h, c) ==
    IF c.view < scene.views THEN {[step |-> ForceView(n, c), relays |-> {}]}
    ELSE {[step |-> Still(c), relays |-> Relay(h.ledger, c.view)]}

\* Mutant: nothing is sent again in a view change.
PollDriveSilent(n, h, c) ==
    IF c.state = "view_change" THEN {[step |-> Still(c), relays |-> {}]}
    ELSE {[step |-> t, relays |-> {}] : t \in Ticks(n, c)}

\* What a due poll drives: in a view change the retransmit of this ballot, and
\* otherwise the tick.
PollDrive(n, h, c) ==
    IF c.state = "view_change" THEN {[step |-> Still(c), relays |-> Relay(h.ledger, c.view)]}
    ELSE {[step |-> t, relays |-> {}] : t \in Ticks(n, c)}

\* The viewchange poll is due.
TimersPoll(n) ==
    LET h == Joined(n, host[n], core[n])
    IN  /\ h.timedout /\ h.armed
        /\ \E p \in PollDrive(n, h, core[n]) :
               EndTimers(n, Flush(h, p.step.outs), p.step.core, p.step.outs, p.relays)
        /\ UNCHANGED <<declared, again>>

\* The election wait is over: tick, flush, suspect.
TimersElection(n) ==
    LET h == Arm(Watch(n, Joined(n, host[n], core[n]), core[n]))
    IN  /\ ~Leads(n, core[n]) /\ ~h.timedout
        /\ \E t \in Ticks(n, core[n]) :
               EndTimers(n, Suspect(n, Flush(h, t.outs)), t.core, t.outs, {})
        /\ UNCHANGED <<declared, again>>

HeardLeader(c, d) == d.tag = "Commit" /\ Primary(c.view) = d.from

\* on_leader_commit, before the replica sees the datagram.
OnLeaderCommit(n, h, c, d) ==
    IF HeardLeader(c, d) /\ h.timedout
    THEN [h EXCEPT !.timedout = FALSE, !.detected = None]
    ELSE h

\* handle_packet of a PEER_VRR datagram: the ledger, the detector, the replica,
\* the flush.
HandlePacket(d) ==
    LET n == d.to
        h == OnLeaderCommit(n, [host[n] EXCEPT !.ledger = Answered(@, d)], core[n], d)
        r == CoreReceive(n, core[n], d)
    IN  /\ n \in up /\ d.view <= scene.views
        /\ host' = [host EXCEPT ![n] = Flush(h, r.outs)]
        /\ core' = [core EXCEPT ![n] = r.core]
        /\ net' = InFlight((net \ {d}) \union r.outs)
        /\ Released(r.outs)
        /\ declared' = IF HeardLeader(core[n], d) THEN [declared EXCEPT ![n] = None] ELSE declared
        /\ UNCHANGED <<scene, losses, again>>

\* cluster_timeout, when a local client's verb is past its deadline: what of this
\* ballot is not answered is sent again.
ClusterTimeout(n) ==
    /\ n \in up /\ scene.slots > 0 /\ losses < scene.losses
    /\ losses' = losses + 1
    /\ net' = InFlight(net \union Relay(host[n].ledger, core[n].view))
    /\ UNCHANGED <<scene, core, host, announced, declared, again>>

\* A client's verb reaches the primary.
Propose(n) ==
    LET c == [core[n] EXCEPT !.slot = @ + 1]
        outs == To(n, Members, "Prepare", c, c.slot)
    IN  /\ n \in up /\ Leads(n, core[n]) /\ c.slot <= scene.slots
        /\ core[n].slot = core[n].committed
        /\ core' = [core EXCEPT ![n] = c]
        /\ host' = [host EXCEPT ![n] = Flush(@, outs)]
        /\ net' = InFlight(net \union outs)
        /\ UNCHANGED <<scene, losses, announced, declared, again>>

-----------------------------------------------------------------------------
(* The environment (external). *)

Lose(d) ==
    /\ losses < scene.losses
    /\ losses' = losses + 1
    /\ net' = net \ {d}
    /\ UNCHANGED <<scene, core, host, announced, declared, again>>

Timers(n) ==
    /\ n \in up
    /\ \/ TimersQuiet(n) \/ TimersBeat(n) \/ TimersLeader(n)
       \/ TimersPoll(n) \/ TimersElection(n)

Next ==
    \/ \E n \in Node : Timers(n) \/ Propose(n) \/ ClusterTimeout(n)
    \/ \E d \in net : HandlePacket(d) \/ Lose(d)

Spec == Init /\ [][Next]_vars

Arrives(n, tag) == \E d \in net : d.to = n /\ d.tag = tag /\ HandlePacket(d)

\* The loop runs: it drains the socket and calls timers(), and an armed
\* deadline passes.
Fairness ==
    \A n \in Node :
        /\ \A tag \in {"StartViewChange", "DoViewChange", "StartView"} : WF_vars(Arrives(n, tag))
        /\ WF_vars(n \in up /\ TimersQuiet(n))
        /\ WF_vars(n \in up /\ TimersLeader(n))
        /\ WF_vars(n \in up /\ TimersPoll(n))

FairSpec == Spec /\ Fairness

-----------------------------------------------------------------------------
(* Properties. *)

\* The type invariant, with the ledger's own invariant.
TypeOK ==
    /\ scene \in Scenes /\ losses \in 0..scene.losses
    /\ net \subseteq Datagram
    /\ \A n \in Node :
           /\ core[n].view \in 0..scene.views /\ core[n].state \in {"normal", "view_change"}
           /\ host[n].watched \in Node \union {None} /\ host[n].detected \in Node \union {None}
           /\ LedgerInv(host[n].ledger)

\* failure-detection.md: the heartbeat is "the commit it last released, byte for
\* byte": what a leader would beat with is of its own ballot, and no later Commit
\* was released to that peer (relay.rs:103-117, main.rs:703-740). The types and
\* the ledger's invariant are part of it.
HeartbeatIsLastCommit ==
    /\ TypeOK
    /\ \A n \in Node : \A e \in Heartbeat(n, host[n], core[n]) :
          /\ e \in announced /\ e.view = core[n].view
          /\ \A d \in announced :
                d.from = n /\ d.to = e.to /\ d.view = e.view => d.slot <= e.slot

\* failure-detection.md: "one detection per (era, leader)" (main.rs:597-601):
\* a normal node declares a leader dead a second time only after a Commit of the
\* leader it then followed, or after it declared another one.
OneDetectionPerKey == ~again

\* While a node is timed out the detector is neither re-armed nor checked
\* (main.rs:577-579): its key and its latch stay as they are.
DetectorStandsDown ==
    [][\A n \in Node : host[n].timedout /\ host'[n].timedout =>
           /\ host'[n].watched = host[n].watched
           /\ host'[n].detected = host[n].detected]_vars

\* "The view number does not move on a retransmit": a node in a view change raises
\* its view only for a datagram of that view, however often its poll is due.
ViewMovesOnlyByPeers ==
    [][\A n \in Node : core[n].state = "view_change" /\ core'[n].view > core[n].view =>
           \E d \in net : d.to = n /\ d.view = core'[n].view]_vars

\* Three voters whose first primary is dead and two of which run: whichever
\* datagrams of the election the network loses, the two come to a view that one of
\* them leads (main.rs:1862-1905, relay.rs:127-134).
FailoverCompletes ==
    Primary(0) \notin up /\ Cardinality(up) = 2 =>
        []<>(\E v \in 1..scene.views : /\ Primary(v) \in up
                                      /\ \A n \in up : Normal(core[n]) /\ core[n].view = v)
=============================================================================
