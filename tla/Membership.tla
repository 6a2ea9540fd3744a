----------------------------- MODULE Membership -----------------------------
(***************************************************************************)
(* Live reconfiguration and membership snapshots in the Teal host          *)
(* (server.tl, snapshot.tl, admin.tl): every process keeps an advisory     *)
(* model of the membership beside the core's folded configuration.  The    *)
(* leader's admin drive moves it, dissemination and boot-time discovery    *)
(* carry it to the other processes over UDP, a sidecar keeps it over a     *)
(* restart.                                                                *)
(*                                                                         *)
(* The core (external) is one list of committed configurations that every  *)
(* node folds at its own pace, and at most one proposed reconfiguration    *)
(* per primary.  A deposed primary acts as one until it learns of the new  *)
(* view, and a view change may lose an uncommitted proposal, whose slot is *)
(* then used again.  A node's endpoint is its id: the reincarnation remap  *)
(* is not modelled here.                                                   *)
(***************************************************************************)
EXTENDS Integers, Sequences, FiniteSetsExt

CONSTANTS
    Nodes,            \* member ids
    Genesis,          \* the descriptor's genesis lines
    Messages,         \* the admin verbs' message_ids
    Orders,           \* what they may carry: functions from Messages to [action, id]
    FirstPrimary,
    VOTING_MINIMUM,   \* fewest voters a configuration may have (the code's is 3)
    ADMIN_CACHE_LIMIT,
    Disturbed,        \* the processes that may restart or be quarantined
    MaxFaults         \* bound on view changes, restarts and quarantines together

Actions == {"join", "increment", "decrement", "leave"}

ASSUME MembershipAssumption ==
    /\ Nodes \subseteq Nat /\ IsFiniteSet(Nodes)
    /\ Genesis \subseteq Nodes /\ FirstPrimary \in Genesis
    /\ VOTING_MINIMUM \in Nat \ {0} /\ Cardinality(Genesis) >= VOTING_MINIMUM
    /\ Orders \subseteq [Messages -> [action : Actions, id : Nodes]]
    /\ Disturbed \subseteq Nodes
    /\ ADMIN_CACHE_LIMIT \in Nat \ {0}
    /\ MaxFaults \in Nat

VARIABLES
    configs,   \* committed configurations, configs[era]        (core)
    primary,   \* the primary of the current view               (core)
    folded,    \* per node: the era its core has folded         (core)
    leading,   \* the nodes whose core's status names themselves leader (core)
    proposal,  \* per node: the reconfiguration its core has proposed (core)
    model,     \* per node: model_era, model_slot, model_members
    rows,      \* per node: ids its addressing tables reach
    disc,      \* per node: discovery_done, _era, _slot and _tallies
    guard,     \* per node: guard.dirty
    sidecar,   \* per node: the membership sidecar on disk
    cache,     \* per node: the verb dedup cache, in claim order
    drive,     \* per node and message: the running handle_admin
    net,       \* datagrams sent; any may be lost, repeated or late
    verbs,     \* what each message carries
    acks,      \* acknowledgments given
    faults     \* [views, others]: faults so far

coreVars == <<configs, primary, folded, leading, proposal>>
hostVars == <<model, rows, disc, guard, sidecar>>
verbVars == <<cache, drive, acks, verbs>>
vars == <<coreVars, hostVars, verbVars, net, faults>>

(* -------------------- snapshot.tl: the membership model ----------------- *)

\* members: id -> weight, -1 for an id that is not a member.
Absent == -1
Members == [Nodes -> {Absent, 0, 1}]
Model(era, slot, members) == [era |-> era, slot |-> slot, members |-> members]

newer(a, b) == a.era > b.era \/ (a.era = b.era /\ a.slot > b.slot)

Weight(members, ids) ==
    LET weight(n) == members[n] IN MapThenSumSet(weight, {n \in ids : members[n] # Absent})

\* Mutant: half the weight is enough.
quorum_reachedByHalf(members, ids) == 2 * Weight(members, ids) >= Weight(members, Nodes)

\* The weighted majority, learners contributing nothing.
quorum_reached(members, ids) == Weight(members, ids) >= (Weight(members, Nodes) \div 2) + 1

DescriptorModel == Model(1, 0, [n \in Nodes |-> IF n \in Genesis THEN 1 ELSE Absent])

voting_members(members) == {n \in Nodes : members[n] # Absent /\ members[n] > 0}

crosses_the_floor(members, verb) ==
    /\ verb.action \in {"decrement", "leave"}
    /\ verb.id \in voting_members(members)
    /\ Cardinality(voting_members(members)) <= VOTING_MINIMUM

\* apply_change: whether a verb applies to a member list, and the list after it.
ChangeApplies(members, verb) ==
    /\ ~crosses_the_floor(members, verb)
    /\ (verb.action = "join") <=> (members[verb.id] = Absent)
Changed(members, verb) ==
    [members EXCEPT ![verb.id] = CASE verb.action = "increment" -> 1
                                   [] verb.action = "leave" -> Absent
                                   [] OTHER -> 0]

(* --------------------------- admin.tl: the cache ------------------------ *)

CacheEntry(m, ack) == [id |-> m, ack |-> ack]
InFlight == "in flight"
Seen(n, m) == \E i \in DOMAIN cache[n] : cache[n][i].id = m

\* Mutant: the oldest entry yields its slot even while its drive runs.
ClaimedEvictingOldest(n, m) ==
    LET order == Append(cache[n], CacheEntry(m, InFlight))
    IN SubSeq(order, Max({1, Len(order) - ADMIN_CACHE_LIMIT + 1}), Len(order))

\* claim: append, then drop settled entries from the old end over the limit.
Claimed(n, m) ==
    LET order == Append(cache[n], CacheEntry(m, InFlight))
        over == Len(order) - ADMIN_CACHE_LIMIT
        drop == Max({k \in 0..Len(order) : k <= over /\ \A i \in 1..k : order[i].ack # InFlight} \cup {0})
    IN SubSeq(order, drop + 1, Len(order))
Released(order, m) ==
    LET i == CHOOSE i \in DOMAIN order : order[i].id = m
    IN SubSeq(order, 1, i - 1) \o SubSeq(order, i + 1, Len(order))
Settled(order, m, ack) ==
    [i \in DOMAIN order |-> IF order[i] = CacheEntry(m, InFlight) THEN CacheEntry(m, ack) ELSE order[i]]

(* --------------------------------- Init --------------------------------- *)

NoProposal == [id |-> "none", slot |-> 0]
Proposal(m, slot) == [id |-> m, slot |-> slot]
Config(m, slot, members) == [id |-> m, slot |-> slot, members |-> members]
NotDriving == [era |-> 0, slot |-> 0]
Discovery(done, m) == [done |-> done, era |-> m.era, slot |-> m.slot, tallies |-> {}]
NoSidecar == Model(0, 0, DescriptorModel.members)
DescriptorRows(n) == Genesis \cup {n}

\* A founded cluster whose processes are past their first discovery window.
Init ==
    /\ configs = <<Config("genesis", 0, DescriptorModel.members)>>
    /\ primary = FirstPrimary
    /\ folded = [n \in Nodes |-> 1]
    /\ leading = {FirstPrimary}
    /\ proposal = [n \in Nodes |-> NoProposal]
    /\ model = [n \in Nodes |-> DescriptorModel]
    /\ rows = [n \in Nodes |-> DescriptorRows(n)]
    /\ disc = [n \in Nodes |-> Discovery(TRUE, DescriptorModel)]
    /\ guard = [n \in Nodes |-> FALSE]
    /\ sidecar = [n \in Nodes |-> NoSidecar]
    /\ cache = [n \in Nodes |-> <<>>]
    /\ drive = [n \in Nodes |-> [m \in Messages |-> NotDriving]]
    /\ net = {} /\ acks = {} /\ verbs \in Orders
    /\ faults = [views |-> 0, others |-> 0]

(* ------------------------------- the core ------------------------------- *)

CoreMembers(n) == configs[folded[n]].members

\* Mutant: the adapter trusts the host's admission check.
AdapterAdmitsAll(n, verb) == TRUE

\* Node::reconfigure refuses below the floor of the folded configuration.
AdapterAdmits(n, verb) == ~crosses_the_floor(CoreMembers(n), verb)

\* The fold gate and the transition-outstanding gate.
CoreAdmits(n, verb) ==
    /\ proposal[n] = NoProposal
    /\ CoreMembers(n)[verb.id] = CASE verb.action = "join" -> Absent
                                   [] verb.action = "decrement" -> 1
                                   [] OTHER -> 0

NextSlot(n) == configs[folded[n]].slot + 1

Commit ==
    LET p == proposal[primary] IN
    /\ p # NoProposal
    /\ configs' = Append(configs, Config(p.id, p.slot, Changed(CoreMembers(primary), verbs[p.id])))
    /\ proposal' = [proposal EXCEPT ![primary] = NoProposal]
    /\ folded' = [folded EXCEPT ![primary] = Len(configs) + 1]
    /\ UNCHANGED <<primary, leading, hostVars, verbVars, net, faults>>

\* A node that follows the current primary folds its committed stream; only a
\* running drive observes it.
Fold(n) ==
    /\ n \notin leading /\ \E m \in Messages : drive[n][m] # NotDriving
    /\ folded[n] < Len(configs)
    /\ folded' = [folded EXCEPT ![n] = @ + 1]
    /\ UNCHANGED <<configs, primary, leading, proposal, hostVars, verbVars, net, faults>>

\* The new primary has everything committed, and the proposal if it got it.
ViewChange(n) ==
    /\ faults.views + faults.others < MaxFaults
    /\ n # primary /\ n \in voting_members(configs[Len(configs)].members)
    /\ primary' = n
    /\ folded' = [folded EXCEPT ![n] = Len(configs)]
    /\ leading' = leading \cup {n}
    /\ \E p \in {NoProposal, proposal[primary]} : proposal' = [proposal EXCEPT ![n] = p]
    /\ faults' = [faults EXCEPT !.views = @ + 1]
    /\ UNCHANGED <<configs, hostVars, verbVars, net>>

LearnView(n) ==
    /\ n \in leading \ {primary}
    /\ leading' = leading \ {n}
    /\ proposal' = [proposal EXCEPT ![n] = NoProposal]
    /\ UNCHANGED <<configs, primary, folded, hostVars, verbVars, net, faults>>

(* ------------------------ server.tl: handle_admin ----------------------- *)

Snapshot(from, to, snap) == [kind |-> "snapshot", from |-> from, to |-> to, snap |-> snap]
Change(action, id, from, to) == [kind |-> action, id |-> id, from |-> from, to |-> to]

\* A verb reaches a process that names itself leader and has no entry for it.
Drivable(n, m) == ~guard[n] /\ n \in leading /\ ~Seen(n, m)

\* An outcome without a drive settles the claim at once.
SettleNow(n, m, ack) ==
    /\ cache' = [cache EXCEPT ![n] = Settled(Claimed(n, m), m, ack)]
    /\ acks' = acks \cup {[id |-> m, ack |-> ack]}
    /\ UNCHANGED <<drive, verbs>>

DriveFloor(n, m) ==
    /\ Drivable(n, m)
    /\ crosses_the_floor(model[n].members, verbs[m])
    /\ SettleNow(n, m, "voting-floor")
    /\ UNCHANGED <<coreVars, hostVars, net, faults>>

\* The joining member's row is added before the drive, whatever becomes of it.
RowForDrive(n, verb) == rows' = IF verb.action = "join" THEN [rows EXCEPT ![n] = @ \cup {verb.id}] ELSE rows

DriveRejected(n, m) ==
    /\ Drivable(n, m)
    /\ ~crosses_the_floor(model[n].members, verbs[m])
    /\ ~AdapterAdmits(n, verbs[m]) \/ ~CoreAdmits(n, verbs[m])
    /\ RowForDrive(n, verbs[m])
    /\ SettleNow(n, m, "rejected")
    /\ UNCHANGED <<coreVars, model, disc, guard, sidecar, net, faults>>

\* The core is between views although its status still names the node: the
\* claim is released, the entries it evicted are gone.
DriveNotPrimary(n, m) ==
    /\ Drivable(n, m) /\ n # primary
    /\ ~crosses_the_floor(model[n].members, verbs[m])
    /\ RowForDrive(n, verbs[m])
    /\ cache' = [cache EXCEPT ![n] = Released(Claimed(n, m), m)]
    /\ UNCHANGED <<coreVars, model, disc, guard, sidecar, drive, acks, verbs, net, faults>>

DriveProposed(n, m) ==
    LET verb == verbs[m] IN
    /\ Drivable(n, m)
    /\ ~crosses_the_floor(model[n].members, verb)
    /\ AdapterAdmits(n, verb) /\ CoreAdmits(n, verb)
    /\ RowForDrive(n, verb)
    /\ proposal' = [proposal EXCEPT ![n] = Proposal(m, NextSlot(n))]
    /\ cache' = [cache EXCEPT ![n] = Claimed(n, m)]
    /\ drive' = [drive EXCEPT ![n][m] = [era |-> folded[n], slot |-> NextSlot(n)]]
    /\ net' = IF verb.action = "join"
              THEN net \cup {Change("join", verb.id, n, r) : r \in rows'[n] \ {n}} ELSE net
    /\ UNCHANGED <<configs, primary, folded, leading, model, disc, guard, sidecar, acks, verbs, faults>>

Settle(n, m, ack) ==
    /\ cache' = [cache EXCEPT ![n] = Settled(@, m, ack)]
    /\ acks' = acks \cup {[id |-> m, ack |-> ack]}
    /\ drive' = [drive EXCEPT ![n][m] = NotDriving]
    /\ UNCHANGED verbs

\* Mutant: the poll compares with `<` and ends at once.
EraAdvancedAtOnce(n, m) == folded[n] >= drive[n][m].era

\* Has the era moved past the one read after the proposal?
EraAdvanced(n, m) == folded[n] > drive[n][m].era

\* The era advanced within the deadline: the model takes the change at the
\* establishing slot, and the new membership is told.
DriveEstablished(n, m) ==
    LET verb == verbs[m]
        applies == ChangeApplies(model[n].members, verb)
        next == Model(model[n].era + 1, drive[n][m].slot, Changed(model[n].members, verb))
        leave == verb.action = "leave"
        left == IF leave THEN rows[n] \ {verb.id} ELSE rows[n]
    IN /\ drive[n][m] # NotDriving /\ EraAdvanced(n, m)
       /\ model' = IF applies THEN [model EXCEPT ![n] = next] ELSE model
       /\ rows' = [rows EXCEPT ![n] = left]
       /\ net' = net \cup (IF leave THEN {Change("leave", verb.id, n, r) : r \in rows[n] \ {n}} ELSE {})
                     \cup (IF applies THEN {Snapshot(n, r, next) : r \in left \ {n}} ELSE {})
       /\ Settle(n, m, "accepted")
       /\ UNCHANGED <<coreVars, disc, guard, sidecar, faults>>

DriveDeadline(n, m) ==
    /\ drive[n][m] # NotDriving /\ ~EraAdvanced(n, m)
    /\ Settle(n, m, "deadline")
    /\ UNCHANGED <<coreVars, hostVars, net, faults>>

(* ----------------- server.tl: snapshots and broadcasts ------------------ *)

\* adopt_snapshot.
Adopts(n, snap) == newer(snap, model[n])
adopt_snapshot(n, snap) ==
    /\ model' = IF Adopts(n, snap) THEN [model EXCEPT ![n] = snap] ELSE model
    /\ rows' = IF Adopts(n, snap)
               THEN [rows EXCEPT ![n] = @ \cup {r \in Nodes : snap.members[r] # Absent}] ELSE rows

\* A running discovery asks every row; a listed, undisturbed process answers.
AnswerRequest(n, r) ==
    /\ ~disc[n].done /\ ~guard[n] /\ ~guard[r]
    /\ r \in rows[n] \ {n} /\ n \in rows[r] \cup Genesis
    /\ net' = net \cup {Snapshot(r, n, model[r])}
    /\ UNCHANGED <<coreVars, hostVars, verbVars, faults>>

\* During discovery: a newer stamp escalates and forgets the older answers,
\* the same stamp is tallied, and a quorum of agreeing answers is adopted.
Escalate(n, snap) ==
    /\ newer(snap, disc[n])
    /\ disc' = [disc EXCEPT ![n] = Discovery(FALSE, snap)]
    /\ rows' = [rows EXCEPT ![n] = @ \cup {r \in Nodes : snap.members[r] # Absent}]
    /\ UNCHANGED model

Tally(n, from, snap) ==
    LET ids == {from} \cup {t.id : t \in {u \in disc[n].tallies : u.snap = snap}}
        known == [id |-> from, snap |-> snap] \in disc[n].tallies
    IN /\ snap.era = disc[n].era /\ snap.slot = disc[n].slot
       /\ snap.members[from] # Absent /\ ~known
       /\ IF quorum_reached(snap.members, ids)
          THEN adopt_snapshot(n, snap) /\ disc' = [disc EXCEPT ![n] = Discovery(TRUE, disc[n])]
          ELSE /\ disc' = [disc EXCEPT ![n].tallies = @ \cup {[id |-> from, snap |-> snap]}]
               /\ UNCHANGED <<model, rows>>

\* Afterwards: the up-to-dateness check alone.
Disseminated(n, snap) == disc[n].done /\ Adopts(n, snap) /\ adopt_snapshot(n, snap) /\ UNCHANGED disc

handle_snapshot_response(n, msg) ==
    /\ msg.kind = "snapshot" /\ msg.to = n
    /\ ~guard[n] /\ msg.from \in rows[n]
    /\ \/ ~disc[n].done /\ (Escalate(n, msg.snap) \/ Tally(n, msg.from, msg.snap))
       \/ Disseminated(n, msg.snap)
    /\ UNCHANGED <<coreVars, guard, sidecar, verbVars, net, faults>>

DiscoveryDeadline(n) ==
    /\ ~disc[n].done
    /\ disc' = [disc EXCEPT ![n].done = TRUE]
    /\ UNCHANGED <<coreVars, model, rows, guard, sidecar, verbVars, net, faults>>

\* decode_change applied idempotently to the addressing tables.
ReceiveChange(n, msg) ==
    /\ msg.kind \in {"join", "leave"} /\ msg.to = n
    /\ ~guard[n] /\ msg.from \in rows[n] \cup Genesis
    /\ rows' = [rows EXCEPT ![n] = IF msg.kind = "join" THEN @ \cup {msg.id} ELSE @ \ {msg.id}]
    /\ UNCHANGED <<coreVars, model, disc, guard, sidecar, verbVars, net, faults>>

\* write_behind_loop: an adopted or driven change is persisted later, where a
\* restart may read it.
WriteBehind(n) ==
    /\ n \in Disturbed /\ ~guard[n] /\ sidecar[n] # model[n] /\ model[n] # DescriptorModel
    /\ sidecar' = [sidecar EXCEPT ![n] = model[n]]
    /\ UNCHANGED <<coreVars, model, rows, disc, guard, verbVars, net, faults>>

\* quarantine: a well-formed datagram with a foreign fingerprint.
Quarantine(n) ==
    /\ n \in Disturbed /\ ~guard[n] /\ faults.views + faults.others < MaxFaults
    /\ guard' = [guard EXCEPT ![n] = TRUE]
    /\ faults' = [faults EXCEPT !.others = @ + 1]
    /\ UNCHANGED <<coreVars, model, rows, disc, sidecar, verbVars, net>>

\* A process other than the primary stops and boots: the sidecar or the
\* descriptor gives the model, the descriptor the rows, discovery starts.
Restart(n) ==
    LET boot == IF sidecar[n] = NoSidecar THEN DescriptorModel ELSE sidecar[n] IN
    /\ n \in Disturbed /\ faults.views + faults.others < MaxFaults /\ n # primary
    /\ model' = [model EXCEPT ![n] = boot]
    /\ rows' = [rows EXCEPT ![n] = DescriptorRows(n)]
    /\ disc' = [disc EXCEPT ![n] = Discovery(FALSE, boot)]
    /\ guard' = [guard EXCEPT ![n] = FALSE]
    /\ cache' = [cache EXCEPT ![n] = <<>>]
    /\ drive' = [drive EXCEPT ![n] = [m \in Messages |-> NotDriving]]
    /\ folded' = [folded EXCEPT ![n] = 1]
    /\ leading' = leading \ {n}
    /\ proposal' = [proposal EXCEPT ![n] = NoProposal]
    /\ faults' = [faults EXCEPT !.others = @ + 1]
    /\ UNCHANGED <<configs, primary, sidecar, acks, verbs, net>>

Next ==
    \/ Commit
    \/ \E n \in Nodes :
        \/ Fold(n) \/ ViewChange(n) \/ LearnView(n)
        \/ \E m \in Messages : \/ DriveFloor(n, m) \/ DriveRejected(n, m) \/ DriveNotPrimary(n, m)
                               \/ DriveProposed(n, m)
                               \/ DriveEstablished(n, m) \/ DriveDeadline(n, m)
        \/ \E r \in Nodes : AnswerRequest(n, r)
        \/ \E msg \in net : handle_snapshot_response(n, msg) \/ ReceiveChange(n, msg)
        \/ DiscoveryDeadline(n) \/ WriteBehind(n) \/ Quarantine(n) \/ Restart(n)

Spec == Init /\ [][Next]_vars

(* ------------------------------ properties ------------------------------ *)

Models == [era : Nat, slot : Nat, members : Members]

TypeOK ==
    /\ \A e \in DOMAIN configs : configs[e].slot \in Nat /\ configs[e].members \in Members
    /\ primary \in Nodes
    /\ folded \in [Nodes -> 1..Len(configs)]
    /\ leading \subseteq Nodes /\ primary \in leading
    /\ \A n \in Nodes : proposal[n].id \in Messages \cup {"none"} /\ proposal[n].slot \in Nat
    /\ \A n \in Nodes : model[n] \in Models /\ sidecar[n] \in Models
    /\ rows \in [Nodes -> SUBSET Nodes]
    /\ \A n \in Nodes : disc[n].done \in BOOLEAN /\ disc[n].era \in Nat /\ disc[n].slot \in Nat
    /\ guard \in [Nodes -> BOOLEAN]
    /\ \A n \in Nodes : \A i, j \in DOMAIN cache[n] :
          cache[n][i].id \in Messages /\ (cache[n][i].id = cache[n][j].id => i = j)
    /\ \A n \in Nodes : \A m \in Messages : drive[n][m].era \in Nat /\ drive[n][m].slot \in Nat
    /\ {a.id : a \in acks} \subseteq Messages /\ verbs \in Orders

\* snapshot.tl: "the model never records a sub-three configuration, whatever
\* path reaches it", and the adapter's gate holds the same floor "(defence in
\* depth: a lagging model admits, the core's folded configuration still
\* refuses)": no committed configuration, model, sidecar or datagram has fewer
\* than the minimum of voters, however stale the model a verb was admitted on.
\* The types are part of it.
VotingFloorHolds ==
    LET sound(members) == Cardinality(voting_members(members)) >= VOTING_MINIMUM IN
    /\ TypeOK
    /\ \A e \in DOMAIN configs : sound(configs[e].members)
    /\ \A n \in Nodes : sound(model[n].members) /\ sound(sidecar[n].members)
    /\ \A msg \in net : msg.kind = "snapshot" => sound(msg.snap.members)

\* client-protocol.md: an accepted acknowledgment says "the establishing
\* operation committed and the leader's era advanced".
AcceptedVerbsCommitted ==
    \A a \in acks : a.ack = "accepted" => \E e \in DOMAIN configs : configs[e].id = a.id

\* While one primary serves, the advanced era that handle_admin waits for is
\* its own verb's, also after earlier verbs ran into the deadline.
AcceptedUnderOnePrimary == faults.views = 0 => AcceptedVerbsCommitted

\* admin.tl: "A drive still in flight is never evicted, so a duplicate can
\* never re-drive it and race a refusal ahead of the true ack", with the cache
\* at its limit, claims released and entries settled in any order.
DrivesStayCached ==
    \A n \in Nodes : \A m \in Messages :
        drive[n][m] # NotDriving => \E i \in DOMAIN cache[n] : cache[n][i] = CacheEntry(m, InFlight)

\* membership-snapshots.md: "the model adopts at a quorum, never from one
\* node's word": whatever answers were repeated, delayed or overtaken by an
\* escalation, a model that discovery adopts was sent to this process by a
\* majority of the voters it names.
DiscoveryAdoptsAQuorum ==
    [][\A n \in Nodes :
        disc'[n].done /\ ~disc[n].done /\ model'[n] # model[n] =>
            LET voters == voting_members(model'[n].members)
            IN 2 * Cardinality({v \in voters : Snapshot(v, n, model'[n]) \in net}) > Cardinality(voters)]_vars

\* membership-snapshots.md: "the model never regresses": within one run of the
\* process its (era, slot) only grows, whichever of the drive, discovery and
\* dissemination moves it; a new list of members always has a new stamp.
ModelMovesForward ==
    [][\A n \in Nodes : model'[n] = model[n] \/ newer(model'[n], model[n]) \/ Restart(n)]_vars

\* A process takes a model only forward, and out of discovery only from a quorum.
AdoptionIsSound == DiscoveryAdoptsAQuorum /\ ModelMovesForward
=============================================================================
