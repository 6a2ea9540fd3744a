------------------------------- MODULE Peers -------------------------------
(***************************************************************************)
(* Who is who in the lease-sequencer host (examples/lease-sequencer/src/    *)
(* main.rs, membership.rs): the addressing tables `peers` and `addr_to_id`, *)
(* the remap of an endpoint whose process was reincarnated, and the         *)
(* advisory membership model with its admin verbs, discovery, dissemination *)
(* and sidecar.                                                             *)
(*                                                                          *)
(* A process has one endpoint and, over its lives, several identities       *)
(* <<process, life>>. The core is external: it refuses or commits a verb,   *)
(* seats a reincarnated node once its announcement was attributed to the    *)
(* new identity, and tells every replica the configuration some time later. *)
(* Process 1 leads throughout and never stops; Membership models changes of *)
(* the leader. A deadline may pass any time; a datagram may be lost.        *)
(***************************************************************************)
EXTENDS Naturals, Sequences, FiniteSets, FiniteSetsExt

CONSTANTS Proc,        \* the processes, 1 the leader
          Genesis,     \* the descriptor's genesis lines, at life 1
          QueueCap,    \* QUEUE_CAP of the sidecar writer (the code's is 64)
          Flight,      \* bound on the answers to discovery in flight
          Scenes       \* the processes that take part, the admin verbs sent, the restarts
                       \* of each process, the replicas whose core learns of changes, and
                       \* the hosts whose sidecar writer has not failed

Action == {"join", "increment", "decrement", "leave"}

ASSUME PeersAssumption ==
    /\ Proc \subseteq Nat /\ 1 \in Genesis /\ Genesis \subseteq Proc
    /\ QueueCap \in Nat \ {0} /\ Flight \in Nat
    /\ \A x \in Scenes :
           /\ \A v \in x.verbs : v.action \in Action /\ v.id[1] \in Proc /\ v.id[2] \in Nat
           /\ x.dirty \in [Proc -> Nat] /\ x.clean \in [Proc -> Nat]
           /\ x.dirty[1] = 0 /\ x.clean[1] = 0
           /\ 1 \in x.procs /\ x.procs \subseteq Proc
           /\ x.folds \subseteq x.procs /\ x.writers \subseteq x.procs

VARIABLES
    scene,     \* the member of Scenes this behaviour shows
    life,      \* each process's crash counter
    fenced,    \* reincarnated and without a vote
    stops,     \* clean restarts of each process so far
    era,       \* the core's era at the leader
    config,    \* the identities the core has in its configuration
    known,     \* each process: the configuration its core has learnt
    proposal,  \* the verb the core has outstanding, or none
    host,      \* each host: [peers, addr, model, disc, queue]
    sidecar,   \* each sidecar on disk
    drive,     \* TcpPending::Admin at the leader: verb -> [era, slot], 0 when not pending
    sent,      \* verbs sent so far
    net,       \* datagrams in flight
    held,      \* who held which snapshot at some time (history)
    misread    \* whose announcements were attributed to another identity (history)

procs == <<scene, life, fenced, stops>>
core == <<era, config, known, proposal>>
admin == <<drive, sent>>
vars == <<procs, core, host, sidecar, admin, net, held, misread>>

Leader == 1
Unknown == 0
NoVerb == [action |-> "none", id |-> <<0, 0>>]
Own(h) == <<h, life[h]>>

(* -------------------------- membership.rs ------------------------------- *)

\* A snapshot: members are identities with a weight, in canonical order.
Snapshot(e, s, members) == [era |-> e, slot |-> s, members |-> members]
NoSnapshot == Snapshot(0, 0, << >>)

newer(a, b) == a.era > b.era \/ (a.era = b.era /\ a.slot > b.slot)

\* More than half of the weight has responded.
quorum_reached(members, ids) ==
    LET weight(i) == members[i] IN
    MapThenSumSet(weight, ids \cap DOMAIN members)
      >= (MapThenSumSet(weight, DOMAIN members) \div 2) + 1

descriptor_model == Snapshot(1, 0, [i \in Genesis \X {1} |-> 1])

\* Model::apply_change: does the verb apply, and to what.
Applies(members, v) == (v.action = "join") <=> (v.id \notin DOMAIN members)
Changed(members, v) ==
    IF v.action = "leave" THEN [i \in DOMAIN members \ {v.id} |-> members[i]]
    ELSE [i \in DOMAIN members \union {v.id} |->
             IF i # v.id THEN members[i] ELSE IF v.action = "increment" THEN 1 ELSE 0]

\* Mutant: the stamp stays.
AdvancedNot(m, s, members) == Snapshot(m.era, m.slot, members)

\* Model::advance.
Advanced(m, s, members) == Snapshot(m.era + 1, s, members)

\* SidecarWriter::enqueue: a full queue, or a writer that stopped after a failed
\* write, drops the snapshot.
Enqueued(h, queue, snap) ==
    IF h \in scene.writers /\ Len(queue) < QueueCap THEN Append(queue, snap) ELSE queue

\* encode_response refuses to pack an empty list, and decode_response to read one.
WellFormed(snap) == DOMAIN snap.members # {}

(* --------------------------- the tables --------------------------------- *)

\* serve: the descriptor's rows and the own row of a joining member.
DescriptorRows(h) == (Genesis \union {h}) \X {1}

\* add_member_rows: members not in `peers` get a row, and their endpoint their id.
\* Rows are added in ascending order of the identities.
WithRows(t, ids) ==
    LET fresh == ids \ t.peers
        lives(p) == {i[2] : i \in {j \in fresh : j[1] = p}}
    IN  [t EXCEPT !.peers = @ \union fresh,
                  !.addr = [p \in Proc |-> IF lives(p) = {} THEN @[p] ELSE Max(lives(p))]]

\* The join line and the remap insert their row whatever the tables hold.
WithRow(t, id) == [t EXCEPT !.peers = @ \union {id}, !.addr[id[1]] = id[2]]

\* pump_udp: an endpoint without a row is looked up in the model.
Known(t, p) == t.addr[p] # Unknown
Learnable(t, p) == {i \in DOMAIN t.model.members : i[1] = p /\ i \notin t.peers}
Learned(t, p) ==
    IF Known(t, p) THEN {t}
    ELSE {WithRow(t, i) : i \in {j \in Learnable(t, p) :
                                    \A k \in Learnable(t, p) : j[2] <= k[2]}}

Targets(h, t) == {i[1] : i \in t.peers \ {Own(h)}} \cap scene.procs

Discovery(m, active) == [active |-> active, era |-> m.era, slot |-> m.slot, tallies |-> {}]

\* serve: the tables of a process that starts with this model.
Booted(h, m) ==
    [peers |-> DescriptorRows(h),
     addr |-> [p \in Proc |-> IF p \in Genesis \union {h} THEN 1 ELSE Unknown],
     model |-> m, disc |-> Discovery(m, TRUE), queue |-> << >>]

\* A founded cluster past its first discovery window; the others boot.
Init ==
    /\ scene \in Scenes
    /\ life = [p \in Proc |-> 1] /\ fenced = [p \in Proc |-> FALSE]
    /\ stops = [p \in Proc |-> 0]
    /\ era = 1 /\ proposal = NoVerb
    /\ config = Genesis \X {1} /\ known = [h \in Proc |-> config]
    /\ host = [h \in Proc |-> [Booted(h, descriptor_model) EXCEPT !.disc.active = h \notin Genesis]]
    /\ sidecar = [h \in Proc |-> NoSnapshot]
    /\ drive = [v \in {} |-> 0] /\ sent = {}
    /\ net = {} /\ held = {<<p, descriptor_model>> : p \in Proc} /\ misread = {}

(* --------------------------- the core ----------------------------------- *)

\* The outstanding verb commits, or dies. The leader's core knows at once.
Commit ==
    /\ proposal # NoVerb
    /\ proposal' = NoVerb
    /\ \/ /\ era' = era + 1
          /\ config' = CASE proposal.action = "join" -> config \union {proposal.id}
                         [] proposal.action = "leave" -> config \ {proposal.id}
                         [] OTHER -> config
          /\ known' = [known EXCEPT ![Leader] = config']
       \/ UNCHANGED <<era, config, known>>
    /\ UNCHANGED <<procs, admin, host, sidecar, net, held, misread>>

\* The walk seats a reincarnated node in place of its earlier life.
Seat(p) ==
    /\ fenced[p] /\ proposal = NoVerb
    /\ host[Leader].addr[p] = life[p]
    /\ fenced' = [fenced EXCEPT ![p] = FALSE]
    /\ era' = era + 1
    /\ config' = {i \in config : i[1] # p} \union {Own(p)}
    /\ known' = [known EXCEPT ![Leader] = config']
    /\ UNCHANGED <<admin, scene, life, stops, proposal, host, sidecar, net, held, misread>>

\* The replication stream tells another replica.
Fold(h) ==
    /\ h \in scene.folds /\ known[h] # config
    /\ known' = [known EXCEPT ![h] = config]
    /\ UNCHANGED <<procs, admin, era, config, proposal, host, sidecar, net, held, misread>>

(* ------------------------- datagrams of the core ------------------------ *)

\* A datagram already in flight is not repeated.
Sends(ds) == ~(ds \subseteq net) /\ net' = net \union ds

Announcement(p, h) == [kind |-> "reincarnation", from |-> p, to |-> h,
                       old |-> life[p] - 1, new |-> life[p]]

\* timers: Node::recover of a fenced node, whose announcement the flush sends.
Announce(p) ==
    /\ fenced[p]
    /\ Sends({Announcement(p, h) : h \in Targets(p, host[p]) \ {p}})
    /\ UNCHANGED <<procs, core, admin, host, sidecar, held, misread>>

\* timers: join_gossip of a node whose core is outside the configuration it knows.
\* It carries nothing, so its handling is one step with its sending; it counts when
\* a row is learnt.
JoinGossip(p, h) ==
    /\ Own(p) \notin known[p] /\ h \in Targets(p, host[p])
    /\ \E t \in Learned(host[h], p) \ {host[h]} : host' = [host EXCEPT ![h] = t]
    /\ UNCHANGED <<procs, core, admin, sidecar, net, held, misread>>

\* Mutant: the remap waits for a snapshot that names the new life.
RemapsListed(t, d) ==
    d.old = t.addr[d.from] /\ <<d.from, d.new>> \in DOMAIN t.model.members

\* handle_packet: does the announcement move the endpoint?
Remaps(t, d) == d.old = t.addr[d.from] /\ <<d.from, d.new>> \notin t.peers

\* handle_packet of the announcement.
HandleVrr(d) ==
    /\ d.kind = "reincarnation"
    /\ \E t \in Learned(host[d.to], d.from) :
           LET r == IF Remaps(t, d) THEN WithRow(t, <<d.from, d.new>>) ELSE t
           IN  /\ host' = [host EXCEPT ![d.to] = r]
               /\ misread' = IF d.new = life[d.from] /\ r.addr[d.from] # d.new
                             THEN misread \union {d.from} ELSE misread
    /\ net' = net \ {d}
    /\ UNCHANGED <<procs, core, admin, sidecar, held>>

(* --------------------------- admin verbs -------------------------------- *)

\* handle_client_line at the leader. A refused verb leaves everything as it was.
AdminLine(v) ==
    /\ v \in scene.verbs \ sent
    /\ proposal = NoVerb
    /\ proposal' = v
    /\ sent' = sent \union {v}
    /\ drive' = [w \in DOMAIN drive \union {v} |->
                    IF w = v THEN [era |-> era, slot |-> Cardinality(sent')] ELSE drive[w]]
    /\ host' = IF v.action = "join" THEN [host EXCEPT ![Leader] = WithRow(@, v.id)] ELSE host
    /\ UNCHANGED <<procs, era, config, known, sidecar, net, held, misread>>

Settled(v) == drive' = [w \in DOMAIN drive \ {v} |-> drive[w]]

Response(from, to, snap) == [kind |-> "snapshot", from |-> from, to |-> to, snap |-> snap]

\* pending_deadline once the era has moved: the model takes the verb, and
\* disseminate sends and persists it.
AdminEstablished(v) ==
    LET t == host[Leader]
        m == Advanced(t.model, drive[v].slot, Changed(t.model.members, v))
        applies == Applies(t.model.members, v)
    IN  /\ v \in DOMAIN drive /\ era > drive[v].era
        /\ applies => WellFormed(m)
        /\ host' = IF applies
                   THEN [host EXCEPT ![Leader].model = m, ![Leader].queue = Enqueued(Leader, @, m)]
                   ELSE host
        /\ net' = IF applies THEN net \union {Response(Leader, h, m) : h \in Targets(Leader, t)}
                  ELSE net
        /\ held' = held \union {<<Leader, host'[Leader].model>>}
        /\ Settled(v)
        /\ UNCHANGED <<procs, core, sidecar, sent, misread>>

AdminDeadline(v) ==
    /\ v \in DOMAIN drive /\ era <= drive[v].era
    /\ Settled(v)
    /\ UNCHANGED <<procs, core, host, sidecar, sent, net, held, misread>>

(* ------------------------------ snapshots ------------------------------- *)

\* discovery_step asks every row again, and handle_snapshot_packet answers an
\* endpoint pump_udp lets through. A request carries nothing, so its handling is
\* one step with its sending.
DiscoveryRequest(h, p) ==
    /\ host[h].disc.active /\ p \in Targets(h, host[h])
    /\ \E t \in Learned(host[p], h) :
           /\ WellFormed(t.model)
           /\ host' = [host EXCEPT ![p] = t]
           /\ Sends({Response(p, h, t.model)})
    /\ Cardinality({d \in net : d.kind = "snapshot"}) < Flight
    /\ UNCHANGED <<procs, core, admin, sidecar, held, misread>>

\* Host::adopt.
Adopted(h, t, snap) ==
    IF newer(snap, t.model)
    THEN [WithRows(t, DOMAIN snap.members) EXCEPT !.model = snap, !.queue = Enqueued(h, @, snap)]
    ELSE t

\* A newer stamp: the older answers are dropped, this one is not counted.
Escalated(t, snap) ==
    [WithRows(t, DOMAIN snap.members) EXCEPT !.disc = Discovery(snap, TRUE)]

\* The same stamp: the responder is counted once per agreeing answer. The tallies
\* are not read again once a quorum agrees.
Tallied(h, t, responder, snap) ==
    LET vote == {[snap |-> snap, id |-> i] : i \in {responder} \cap DOMAIN snap.members}
        tallies == t.disc.tallies \union vote
        ids == {v.id : v \in {w \in tallies : w.snap = snap}}
        counted == [t EXCEPT !.disc.tallies = tallies]
    IN  IF quorum_reached(snap.members, ids)
        THEN Adopted(h, [counted EXCEPT !.disc.active = FALSE, !.disc.tallies = {}], snap)
        ELSE counted

\* Mutant: an answer is adopted while discovery still collects.
ReceivedAtOnce(h, t, from, snap) == Adopted(h, [t EXCEPT !.disc.active = FALSE], snap)

\* handle_snapshot_packet of a response.
Received(h, t, from, snap) ==
    IF ~t.disc.active THEN Adopted(h, t, snap)
    ELSE IF newer(snap, t.disc) THEN Escalated(t, snap)
    ELSE IF newer(t.disc, snap) THEN t
    ELSE Tallied(h, t, <<from, t.addr[from]>>, snap)

HandleResponse(d) ==
    /\ d.kind = "snapshot"
    /\ \E t \in Learned(host[d.to], d.from) :
           host' = [host EXCEPT ![d.to] = Received(d.to, t, d.from, d.snap)]
    /\ held' = held \union {<<d.to, host'[d.to].model>>}
    /\ net' = net \ {d}
    /\ UNCHANGED <<procs, core, admin, sidecar, misread>>

\* discovery_step past its deadline. The tallies are not read again.
DiscoveryDeadline(h) ==
    /\ host[h].disc.active
    /\ host' = [host EXCEPT ![h].disc.active = FALSE, ![h].disc.tallies = {}]
    /\ UNCHANGED <<procs, core, admin, sidecar, net, held, misread>>

\* A datagram is lost, or comes from an endpoint nobody knows. (One that is not
\* needed for the bound may as well stay in flight for ever.)
Dropped(d) ==
    /\ d.kind = "snapshot" \/ Learned(host[d.to], d.from) = {}
    /\ net' = net \ {d}
    /\ UNCHANGED <<procs, core, admin, host, sidecar, held, misread>>

(* ------------------------------ restarts -------------------------------- *)

\* The writer thread: temporary file, rename, no fsync.
WriteSidecar(h) ==
    /\ host[h].queue # << >>
    /\ sidecar' = [sidecar EXCEPT ![h] = Head(host[h].queue)]
    /\ host' = [host EXCEPT ![h].queue = Tail(@)]
    /\ UNCHANGED <<procs, core, admin, net, held, misread>>

\* serve: the model of the sidecar, or of the descriptor.
Loaded(snap) == IF snap = NoSnapshot THEN descriptor_model ELSE snap

Restart(h) ==
    /\ host' = [host EXCEPT ![h] = Booted(h, Loaded(sidecar[h]))]
    /\ known' = [known EXCEPT ![h] = Genesis \X {1}]
    /\ UNCHANGED <<admin, scene, era, config, proposal, sidecar, net, held, misread>>

DirtyRestart(h) ==
    /\ life[h] - 1 < scene.dirty[h]
    /\ life' = [life EXCEPT ![h] = @ + 1]
    /\ fenced' = [fenced EXCEPT ![h] = TRUE]
    /\ Restart(h)
    /\ UNCHANGED stops

CleanRestart(h) ==
    /\ stops[h] < scene.clean[h]
    /\ stops' = [stops EXCEPT ![h] = @ + 1]
    /\ Restart(h)
    /\ UNCHANGED <<life, fenced>>

-----------------------------------------------------------------------------

Next ==
    \/ Commit
    \/ \E v \in scene.verbs : AdminLine(v) \/ AdminEstablished(v) \/ AdminDeadline(v)
    \/ \E d \in net : HandleVrr(d) \/ HandleResponse(d) \/ Dropped(d)
    \/ \E h \in scene.procs :
           \/ Seat(h) \/ Fold(h) \/ DiscoveryDeadline(h) \/ WriteSidecar(h)
           \/ Announce(h) \/ \E p \in scene.procs : JoinGossip(h, p) \/ DiscoveryRequest(h, p)
           \/ DirtyRestart(h) \/ CleanRestart(h)

Spec == Init /\ [][Next]_vars

-----------------------------------------------------------------------------

Ids == Proc \X Nat
IsSnapshot(s) ==
    /\ s.era \in Nat /\ s.slot \in Nat
    /\ DOMAIN s.members \subseteq Ids /\ \A i \in DOMAIN s.members : s.members[i] \in {0, 1}

\* The types, and: the sidecar queue is bounded, every endpoint a host attributes
\* has the row it is attributed to, and discovery never falls behind the model.
TypeOK ==
    /\ scene \in Scenes /\ DOMAIN drive \subseteq sent /\ sent \subseteq scene.verbs
    /\ \A h \in Proc :
           /\ life[h] \in Nat \ {0} /\ known[h] \subseteq Ids
           /\ IsSnapshot(host[h].model) /\ IsSnapshot(sidecar[h])
           /\ host[h].peers \subseteq Ids /\ Len(host[h].queue) <= QueueCap
           /\ \A p \in Proc : Known(host[h], p) => <<p, host[h].addr[p]>> \in host[h].peers
           /\ host[h].disc.active => ~newer(host[h].model, host[h].disc)

\* Two hosts whose models carry the same era and slot have the same members:
\* every stamp is minted by one admin verb (Model::advance).
SameStampSameMembers ==
    \A g, h \in Proc :
        LET a == host[g].model
            b == host[h].model
        IN  a.era = b.era /\ a.slot = b.slot => a = b

\* The leader has a row for every identity of the core's configuration, so the
\* assertion of flush_outputs never fails there: the row of a join is added with
\* the proposal, and a reincarnated node is seated only after its remap.
LeaderAddressesMembers == config \subseteq host[Leader].peers

\* While a process has crashed at most once, each announcement is attributed to
\* the identity it announces, whichever rows snapshots, joins and restarts left.
OneCrashIsAttributed == \A p \in misread : life[p] > 2

\* Who is where: the types with the tables' agreement, the leader's rows, and the
\* attribution of announcements.
AddressesAreSound == TypeOK /\ LeaderAddressesMembers /\ OneCrashIsAttributed

\* A running host's model moves only to a newer stamp (Model::adopt, advance).
ModelMovesForward ==
    [][\A h \in Proc :
          \/ host'[h].model = host[h].model
          \/ newer(host'[h].model, host[h].model)
          \/ life'[h] # life[h] \/ stops'[h] # stops[h]]_vars

\* A host that is discovering takes a model only when members with more than half
\* of the model's own weight are processes that held it.
DiscoveryAdoptsAQuorum ==
    [][\A h \in Proc :
          LET m == host'[h].model
              voters == {i \in DOMAIN m.members : m.members[i] = 1}
              vouching == {i \in voters : <<i[1], m>> \in held}
          IN  host[h].disc.active /\ newer(m, host[h].model) /\ h # Leader
                => 2 * Cardinality(vouching) > Cardinality(voters)]_vars

\* A host takes a model only forward, and while it discovers only from a quorum.
AdoptionIsSound == ModelMovesForward /\ DiscoveryAdoptsAQuorum

\* Every member of the configuration a replica's core has learnt can be addressed
\* by its host: what the assertion of flush_outputs says before each send.
EveryMemberAddressable == \A h \in Proc : known[h] \subseteq host[h].peers \union {Own(h)}
=============================================================================
