-------------------------- MODULE MembershipProofs --------------------------
(***************************************************************************)
(* Theorems about Membership, for any set of nodes, descriptor, verbs,     *)
(* voting minimum, cache limit and number of faults: every configuration,  *)
(* model, sidecar and datagram keeps the voting floor; an accepted verb is *)
(* committed while one primary serves; a running drive keeps its cache     *)
(* entry; a model moves only forward, and discovery adopts only what a     *)
(* majority of the named voters sent.                                      *)
(*                                                                         *)
(* The floor of a committed configuration is checked when the verb is      *)
(* proposed and used when it commits.  What carries it from one to the     *)
(* other is that the members the core admitted it against are still the    *)
(* ones its primary has folded (ProposalsFit), which is the transition-    *)
(* outstanding gate at work.                                               *)
(***************************************************************************)
EXTENDS Membership, FiniteSetTheorems, SequenceTheorems, WellFoundedInduction, TLAPS

\* A leaf that names no prover is for the SMT solver.
USE SMTT(30)

(* ------------------------ the inductive invariants ---------------------- *)

Sound(members) == Cardinality(voting_members(members)) >= VOTING_MINIMUM

\* What a verb must satisfy for the changed list to keep the floor.
Fits(members, verb) ==
    /\ ~crosses_the_floor(members, verb)
    /\ verb.action = "join" => members[verb.id] = Absent

AckNames == {InFlight, "voting-floor", "rejected", "accepted", "deadline"}
Entries == [id : Messages, ack : AckNames]
SnapshotMsgs == [kind : {"snapshot"}, from : Nodes, to : Nodes, snap : Models]
ChangeMsgs == [kind : {"join", "leave"}, id : Nodes, from : Nodes, to : Nodes]
Discoveries == [done : BOOLEAN, era : Nat, slot : Nat, tallies : SUBSET [id : Nodes, snap : Models]]

CoreTypes ==
    /\ configs \in Seq([id : Messages \cup {"genesis"}, slot : Nat, members : Members])
    /\ primary \in Nodes
    /\ folded \in [Nodes -> 1..Len(configs)]
    /\ leading \subseteq Nodes /\ primary \in leading
    /\ proposal \in [Nodes -> {NoProposal} \cup [id : Messages, slot : Nat]]
    /\ verbs \in Orders
    /\ faults \in [views : Nat, others : Nat]

HostTypes ==
    /\ model \in [Nodes -> Models] /\ sidecar \in [Nodes -> Models]
    /\ rows \in [Nodes -> SUBSET Nodes]
    /\ disc \in [Nodes -> Discoveries]
    /\ guard \in [Nodes -> BOOLEAN]
    /\ net \subseteq SnapshotMsgs \cup ChangeMsgs

VerbTypes ==
    /\ cache \in [Nodes -> Seq(Entries)]
    /\ drive \in [Nodes -> [Messages -> [era : Nat, slot : Nat]]]
    /\ acks \subseteq Entries

\* A message has at most one entry in a cache.
OneEntryEach(order) == \A i, j \in DOMAIN order : order[i].id = order[j].id => i = j

\* The primary has folded what is committed, and an outstanding proposal still
\* fits the members it was admitted against.
ProposalsFit ==
    /\ folded[primary] = Len(configs)
    /\ \A n \in Nodes : proposal[n] # NoProposal =>
          /\ n \in leading
          /\ Fits(CoreMembers(n), verbs[proposal[n].id])

FloorsHold ==
    /\ \A e \in DOMAIN configs : Sound(configs[e].members)
    /\ \A n \in Nodes : Sound(model[n].members) /\ Sound(sidecar[n].members)
    /\ \A msg \in net : msg.kind = "snapshot" => Sound(msg.snap.members)

\* A tallied answer was sent by the node it is tallied for.
TalliesWereSent ==
    \A n \in Nodes : \A t \in disc[n].tallies : Snapshot(t.id, n, t.snap) \in net

CachesFit ==
    /\ \A n \in Nodes : OneEntryEach(cache[n])
    /\ DrivesStayCached

Committed(m) == \E e \in DOMAIN configs : configs[e].id = m

\* Under the first primary: only it drives, and a drive whose verb is not
\* committed is the outstanding proposal, made in the era still folded.
DrivesUnderOnePrimary ==
    faults.views = 0 =>
        /\ primary = FirstPrimary /\ leading = {FirstPrimary}
        /\ \A n \in Nodes : \A m \in Messages : drive[n][m] # NotDriving =>
              /\ n = FirstPrimary
              /\ \/ Committed(m)
                 \/ proposal[n] # NoProposal /\ proposal[n].id = m /\ drive[n][m].era = folded[n]
        /\ AcceptedVerbsCommitted

TypesInv == CoreTypes /\ HostTypes /\ VerbTypes
MembershipInv ==
    TypesInv /\ ProposalsFit /\ FloorsHold /\ TalliesWereSent /\ CachesFit /\ DrivesUnderOnePrimary
(* ------------------------- lemmas about operators ----------------------- *)

\* Every non-empty set of naturals has a least element.
LEMMA MinNat ==
    ASSUME NEW T, T \subseteq Nat, T # {}
    PROVE  \E x \in T : \A y \in T : x <= y
  <1> DEFINE R == OpToRel(<, Nat)
  <1>1. \E x \in T : \A y \in T : ~(<<y, x>> \in R)
    <2>1. IsWellFoundedOn(R, Nat)
      BY NatLessThanWellFounded, Zenon
    <2> HIDE DEF R
    <2> QED BY <2>1, WFMin, Zenon
  <1>2. PICK x \in T : \A y \in T : ~(<<y, x>> \in R)
    BY <1>1, Zenon
  <1>3. \A y \in T : ~(y < x)
    BY <1>2, Zenon DEF OpToRel
  <1> QED BY <1>3

\* A non-empty set of naturals with a bound has a greatest element, Max.
LEMMA MaxNat ==
    ASSUME NEW n \in Nat, NEW T, T \subseteq 0..n, T # {}
    PROVE  Max(T) \in T /\ \A y \in T : Max(T) >= y
  <1> DEFINE D == {d \in Nat : n - d \in T}
  <1>1. D \subseteq Nat /\ D # {}
    <2>1. PICK y : y \in T
      BY Zenon
    <2>2. n - y \in Nat /\ n - (n - y) = y
      BY <2>1
    <2> QED BY <2>1, <2>2, Zenon
  <1>2. PICK d \in D : \A e \in D : d <= e
    <2> HIDE DEF D
    <2> QED BY <1>1, MinNat, Zenon
  <1>3. n - d \in T
    BY Zenon
  <1>4. \A y \in T : n - d >= y
    <2> SUFFICES ASSUME NEW y \in T PROVE n - d >= y
      BY Zenon
    <2>1. n - y \in Nat /\ n - (n - y) = y
      OBVIOUS
    <2>2. n - y \in D
      BY <2>1, Zenon
    <2> QED BY <2>1, <2>2, <1>2
  <1>5. \E x \in T : \A y \in T : x >= y
    BY <1>3, <1>4, Zenon
  <1> QED BY <1>5, Zenon DEF Max

\* Nodes are finite, so is every set of voters.
LEMMA VotersFinite ==
    ASSUME NEW members
    PROVE  /\ voting_members(members) \subseteq Nodes
           /\ IsFiniteSet(voting_members(members))
           /\ Cardinality(voting_members(members)) \in Nat
  <1>1. voting_members(members) \subseteq Nodes
    BY Zenon DEF voting_members
  <1>2. IsFiniteSet(voting_members(members))
    BY <1>1, FS_Subset, MembershipAssumption, Zenon
  <1> QED BY <1>1, <1>2, FS_CardinalityType, Zenon

\* The list after a verb: the weight of the verb's member, and no other's.
LEMMA ChangedIs ==
    ASSUME NEW members \in Members, NEW verb \in [action : Actions, id : Nodes]
    PROVE  /\ Changed(members, verb) \in Members
           /\ Changed(members, verb)[verb.id] = IF verb.action = "increment" THEN 1
                                                ELSE IF verb.action = "leave" THEN Absent ELSE 0
           /\ \A n \in Nodes \ {verb.id} : Changed(members, verb)[n] = members[n]
  BY Zenon DEF Changed, Members, Absent, Actions

\* A verb that fits leaves the floor standing: it takes at most one vote away,
\* and none from a list that has no vote to spare.
LEMMA ChangeKeepsFloor ==
    ASSUME NEW members \in Members, NEW verb \in [action : Actions, id : Nodes],
           Sound(members), Fits(members, verb)
    PROVE  Sound(Changed(members, verb))
  <1> DEFINE V == voting_members(members)
             W == voting_members(Changed(members, verb))
  <1>1. VOTING_MINIMUM \in Nat
    BY MembershipAssumption, Zenon
  <1>2. /\ IsFiniteSet(V) /\ IsFiniteSet(W)
        /\ Cardinality(V) \in Nat /\ Cardinality(W) \in Nat
    BY VotersFinite, Zenon
  <1>3. V \ {verb.id} \subseteq W
    BY ChangedIs DEF voting_members
  <1>4. CASE V \subseteq W
    <2>1. Cardinality(V) <= Cardinality(W)
      BY <1>2, <1>4, FS_Subset, Zenon
    <2> QED BY <2>1, <1>1, <1>2 DEF Sound
  <1>5. CASE ~(V \subseteq W)
    <2>1. verb.id \in V /\ verb.id \notin W
      BY <1>3, <1>5, Zenon
    <2>2. verb.action \in {"decrement", "leave"}
      <3>1. members[verb.id] > 0 /\ members[verb.id] # Absent
        BY <2>1, Zenon DEF voting_members
      <3>2. verb.action # "join"
        BY <3>1, Zenon DEF Fits
      <3>3. verb.action # "increment"
        BY <2>1, ChangedIs DEF voting_members, Absent
      <3> QED BY <3>2, <3>3, Zenon DEF Actions
    <2>3. ~(Cardinality(V) <= VOTING_MINIMUM)
      BY <2>1, <2>2, Zenon DEF Fits, crosses_the_floor
    <2>4. Cardinality(V \ {verb.id}) = Cardinality(V) - 1
      BY <2>1, <1>2, FS_RemoveElement, Zenon
    <2>5. Cardinality(V \ {verb.id}) <= Cardinality(W)
      BY <1>2, <1>3, FS_Subset, Zenon
    <2> QED BY <2>3, <2>4, <2>5, <1>1, <1>2 DEF Sound
  <1> QED BY <1>4, <1>5, Zenon
\* Weight counts the voters of a set: what MapThenSumSet adds up one member at
\* a time, whichever it picks first.  The fold's equation has the count as a
\* solution, and no other: a smallest set on which two solutions differ has a
\* rest on which they differ too.
LEMMA WeightCounts ==
    ASSUME NEW members \in Members, NEW ids \in SUBSET Nodes
    PROVE  Weight(members, ids) = Cardinality(ids \cap voting_members(members))
  <1> DEFINE V == voting_members(members)
             S == {n \in ids : members[n] # Absent}
             Pick(s) == CHOOSE x \in s : TRUE
             Step(g) == [s \in SUBSET S |-> IF s = {} THEN 0
                                            ELSE members[Pick(s)] + g[s \ {Pick(s)}]]
             iter == CHOOSE g : g = Step(g)
             votes == [s \in SUBSET S |-> Cardinality(s \cap V)]
  <1>1. Weight(members, ids) = iter[S]
    BY Zenon DEF Weight, MapThenSumSet, MapThenFoldSet
  <1>2. \A s \in SUBSET S : IsFiniteSet(s) /\ Cardinality(s) \in Nat
    <2>1. \A s \in SUBSET S : s \in SUBSET Nodes
      BY Zenon
    <2> QED BY <2>1, FS_Subset, FS_CardinalityType, MembershipAssumption, Zenon
  <1>3. \A s \in SUBSET S : s # {} => Pick(s) \in s /\ s \ {Pick(s)} \in SUBSET S
    BY Zenon
  <1>4. ASSUME NEW s \in SUBSET S, s # {}
        PROVE  Cardinality(s \cap V) = members[Pick(s)] + Cardinality((s \ {Pick(s)}) \cap V)
    <2> DEFINE x == Pick(s)
    <2>1. x \in s /\ members[x] \in {0, 1}
      BY <1>3, <1>4, Zenon DEF Members, Absent
    <2>2. s \cap V \in SUBSET S
      BY Zenon
    <2>3. IsFiniteSet(s \cap V) /\ Cardinality(s \cap V) \in Nat
      BY <1>2, <2>2, Zenon
    <2> HIDE DEF x
    <2>4. CASE members[x] = 1
      <3>1. x \in s \cap V /\ (s \ {x}) \cap V = (s \cap V) \ {x}
        BY <2>1, <2>4 DEF voting_members, Absent
      <3>2. Cardinality((s \cap V) \ {x}) = Cardinality(s \cap V) - 1
        BY <3>1, <2>3, FS_RemoveElement, Zenon
      <3>3. Cardinality((s \ {x}) \cap V) = Cardinality(s \cap V) - 1
        BY <3>1, <3>2, Zenon
      <3> HIDE DEF V
      <3>4. Cardinality(s \cap V) = 1 + Cardinality((s \ {x}) \cap V)
        BY <3>3, <2>3
      <3> QED BY <3>4, <2>4, Zenon DEF x
    <2>5. CASE members[x] = 0
      <3>1. (s \ {x}) \cap V = s \cap V
        BY <2>5 DEF voting_members
      <3> QED BY <3>1, <2>3, <2>5 DEF x
    <2> QED BY <2>1, <2>4, <2>5, Zenon
  <1>5. votes = Step(votes)
    <2> SUFFICES ASSUME NEW s \in SUBSET S
                 PROVE  votes[s] = IF s = {} THEN 0 ELSE members[Pick(s)] + votes[s \ {Pick(s)}]
      BY Zenon
    <2>1. CASE s = {}
      <3>1. s \cap V = {}
        BY <2>1, Zenon
      <3> QED BY <3>1, <2>1, FS_EmptySet, Zenon
    <2>2. CASE s # {}
      BY <2>2, <1>3, <1>4, Zenon
    <2> QED BY <2>1, <2>2, Zenon
  <1>6. iter = Step(iter)
    BY <1>5, Zenon
  <1> HIDE DEF iter
  <1>7. \A s \in SUBSET S : iter[s] = Cardinality(s \cap V)
    <2> DEFINE Bad == {s \in SUBSET S : iter[s] # Cardinality(s \cap V)}
               T == {Cardinality(s) : s \in Bad}
    <2> SUFFICES ASSUME Bad # {} PROVE FALSE
      BY Zenon
    <2>1. T \subseteq Nat /\ T # {}
      BY <1>2, Zenon
    <2>2. PICK k \in T : \A j \in T : k <= j
      <3> HIDE DEF T
      <3> QED BY <2>1, MinNat, Zenon
    <2>3. PICK s \in Bad : Cardinality(s) = k
      BY Zenon
    <2>4. s # {}
      <3> SUFFICES ASSUME s = {} PROVE FALSE
        BY Zenon
      <3>1. s \cap V = {} /\ iter[s] = 0
        BY <1>6, Zenon
      <3> QED BY <3>1, FS_EmptySet, Zenon
    <2>5. iter[s] = members[Pick(s)] + iter[s \ {Pick(s)}]
      BY <1>6, <2>4, Zenon
    <2>6. s \ {Pick(s)} \in Bad
      BY <2>4, <2>5, <1>3, <1>4, Zenon
    <2>7. Cardinality(s \ {Pick(s)}) = Cardinality(s) - 1
      BY <2>4, <1>2, <1>3, FS_RemoveElement, Zenon
    <2>8. Cardinality(s \ {Pick(s)}) \in T
      BY <2>6, Zenon
    <2>9. k \in Nat /\ k <= k - 1
      BY <2>1, <2>2, <2>3, <2>7, <2>8, Zenon
    <2> QED BY <2>9
  <1>8. S \cap V = ids \cap V
    BY Zenon DEF voting_members
  <1> QED BY <1>1, <1>7, <1>8, Zenon

\* A quorum of a member list is a majority of its voters.
LEMMA QuorumIsMajority ==
    ASSUME NEW members \in Members, NEW ids \in SUBSET Nodes, quorum_reached(members, ids)
    PROVE  2 * Cardinality(ids \cap voting_members(members)) > Cardinality(voting_members(members))
  <1> DEFINE V == voting_members(members)
  <1>1. Nodes \cap V = V
    BY VotersFinite, Zenon
  <1>2. Weight(members, Nodes) = Cardinality(V)
    BY <1>1, WeightCounts, Zenon
  <1>3. Weight(members, ids) = Cardinality(ids \cap V)
    BY WeightCounts, Zenon
  <1>4. Cardinality(V) \in Nat /\ Cardinality(ids \cap V) \in Nat
    BY VotersFinite, FS_Subset, FS_CardinalityType, Zenon
  <1>5. Cardinality(ids \cap V) >= (Cardinality(V) \div 2) + 1
    BY <1>2, <1>3, Zenon DEF quorum_reached
  <1>6. \A a, b \in Nat : a >= (b \div 2) + 1 => 2 * a > b
    OBVIOUS
  <1> QED BY <1>4, <1>5, <1>6, Zenon
(* ------------------------------ the cache ------------------------------- *)

Holds(order, m) == \E i \in DOMAIN order : order[i] = CacheEntry(m, InFlight)
Names(order, m) == \E i \in DOMAIN order : order[i].id = m

LEMMA EntryTypes ==
    ASSUME NEW m \in Messages, NEW ack \in AckNames
    PROVE  /\ CacheEntry(m, ack) \in Entries
           /\ CacheEntry(m, ack).id = m /\ CacheEntry(m, ack).ack = ack
           /\ InFlight \in AckNames
  BY Zenon DEF CacheEntry, Entries, AckNames

\* A claim drops a prefix of settled entries, never its own.
LEMMA ClaimedIs ==
    ASSUME NEW n, NEW m \in Messages, cache[n] \in Seq(Entries)
    PROVE  \E drop \in 0..Len(cache[n]) :
              /\ Claimed(n, m) = SubSeq(Append(cache[n], CacheEntry(m, InFlight)), drop + 1, Len(cache[n]) + 1)
              /\ \A i \in 1..drop : cache[n][i].ack # InFlight
  <1> DEFINE order == Append(cache[n], CacheEntry(m, InFlight))
             over == Len(order) - ADMIN_CACHE_LIMIT
             T == {k \in 0..Len(order) : k <= over /\ \A i \in 1..k : order[i].ack # InFlight} \cup {0}
  <1>1. /\ Len(cache[n]) \in Nat /\ Len(order) = Len(cache[n]) + 1
        /\ order[Len(order)].ack = InFlight
        /\ \A i \in 1..Len(cache[n]) : order[i] = cache[n][i]
    BY EntryTypes DEF AckNames
  <1>2. Claimed(n, m) = SubSeq(order, Max(T) + 1, Len(order))
    BY Zenon DEF Claimed
  <1> HIDE DEF order
  <1>3. T \subseteq 0..Len(order) /\ T # {} /\ Len(order) \in Nat
    BY <1>1
  <1>4. Max(T) \in T
    <2> HIDE DEF T
    <2> QED BY <1>3, MaxNat, Zenon
  <1>5. /\ Max(T) \in 0..Len(order)
        /\ \A i \in 1..Max(T) : order[i].ack # InFlight
    <2> DEFINE k == Max(T)
    <2>1. k \in T
      BY <1>4, Zenon
    <2> HIDE DEF k
    <2>2. k \in 0..Len(order) /\ \A i \in 1..k : order[i].ack # InFlight
      BY <2>1, <1>1
    <2> QED BY <2>2, Zenon DEF k
  <1> HIDE DEF T
  <1>6. Max(T) # Len(order)
    BY <1>1, <1>5
  <1>7. Max(T) \in 0..Len(cache[n])
    BY <1>1, <1>5, <1>6
  <1>8. \A i \in 1..Max(T) : cache[n][i].ack # InFlight
    BY <1>1, <1>5, <1>7
  <1> QED BY <1>1, <1>2, <1>7, <1>8, Zenon DEF order

\* A claim keeps every running entry and adds its own, with no id twice.
LEMMA ClaimedKeeps ==
    ASSUME NEW n, NEW m \in Messages, cache[n] \in Seq(Entries)
    PROVE  /\ Claimed(n, m) \in Seq(Entries)
           /\ Holds(Claimed(n, m), m)
           /\ \A o \in Messages : Holds(cache[n], o) => Holds(Claimed(n, m), o)
           /\ OneEntryEach(cache[n]) /\ ~Seen(n, m) => OneEntryEach(Claimed(n, m))
  <1> DEFINE order == Append(cache[n], CacheEntry(m, InFlight))
             L == Len(cache[n])
  <1>1. PICK drop \in 0..L :
              /\ Claimed(n, m) = SubSeq(order, drop + 1, L + 1)
              /\ \A i \in 1..drop : cache[n][i].ack # InFlight
    BY ClaimedIs, Zenon
  <1>2. CacheEntry(m, InFlight) \in Entries
    BY EntryTypes, Zenon DEF AckNames
  <1>3. /\ L \in Nat /\ order \in Seq(Entries) /\ Len(order) = L + 1
        /\ order[L + 1] = CacheEntry(m, InFlight)
        /\ \A i \in 1..L : order[i] = cache[n][i]
        /\ DOMAIN cache[n] = 1..L
    BY <1>2
  <1> HIDE DEF order, L
  <1> DEFINE c == SubSeq(order, drop + 1, L + 1)
  <1>4. /\ c \in Seq(Entries) /\ Len(c) = L + 1 - drop
        /\ DOMAIN c = 1..(L + 1 - drop)
        /\ \A i \in 1..(L + 1 - drop) : c[i] = order[drop + i]
    BY <1>3, SubSeqProperties
  <1> HIDE DEF c
  <1>5. Holds(c, m)
    <2>1. L + 1 - drop \in 1..(L + 1 - drop) /\ drop + (L + 1 - drop) = L + 1
      BY <1>3
    <2> QED BY <2>1, <1>3, <1>4 DEF Holds
  <1>6. ASSUME NEW o \in Messages, Holds(cache[n], o)
        PROVE  Holds(c, o)
    <2>1. PICK i \in 1..L : cache[n][i] = CacheEntry(o, InFlight)
      BY <1>3, <1>6, Zenon DEF Holds
    <2>2. i \notin 1..drop
      BY <1>1, <2>1, EntryTypes DEF AckNames
    <2>3. i - drop \in 1..(L + 1 - drop) /\ drop + (i - drop) = i
      BY <1>3, <2>2
    <2>4. c[i - drop] = CacheEntry(o, InFlight)
      BY <1>3, <1>4, <2>1, <2>3, Zenon
    <2> QED BY <1>4, <2>3, <2>4, Zenon DEF Holds
  <1>7. ASSUME OneEntryEach(cache[n]), ~Seen(n, m)
        PROVE  OneEntryEach(c)
    <2>1. \A i, j \in 1..(L + 1) : order[i].id = order[j].id => i = j
      <3> SUFFICES ASSUME NEW i \in 1..(L + 1), NEW j \in 1..(L + 1), order[i].id = order[j].id
                   PROVE  i = j
        BY Zenon
      <3>1. \A k \in 1..L : order[k].id # m
        BY <1>3, <1>7, Zenon DEF Seen
      <3>2. order[L + 1].id = m
        BY <1>3, EntryTypes DEF AckNames
      <3>3. CASE i = L + 1 \/ j = L + 1
        BY <3>1, <3>2, <3>3, <1>3
      <3>4. CASE i \in 1..L /\ j \in 1..L
        BY <3>4, <1>3, <1>7, Zenon DEF OneEntryEach
      <3> QED BY <3>3, <3>4, <1>3
    <2> SUFFICES ASSUME NEW i \in 1..(L + 1 - drop), NEW j \in 1..(L + 1 - drop), c[i].id = c[j].id
                 PROVE  i = j
      BY <1>4, Zenon DEF OneEntryEach
    <2>2. drop + i \in 1..(L + 1) /\ drop + j \in 1..(L + 1)
      BY <1>3
    <2>3. drop + i = drop + j
      BY <1>4, <2>1, <2>2
    <2> QED BY <2>3
  <1>8. Claimed(n, m) = c
    BY <1>1, Zenon DEF c
  <1> QED BY <1>4, <1>5, <1>6, <1>7, <1>8, Zenon

\* Settling touches the entry of its own message only.
LEMMA SettledKeeps ==
    ASSUME NEW order \in Seq(Entries), NEW m \in Messages, NEW ack \in AckNames
    PROVE  /\ Settled(order, m, ack) \in Seq(Entries)
           /\ \A o \in Messages \ {m} : Holds(order, o) => Holds(Settled(order, m, ack), o)
           /\ OneEntryEach(order) => OneEntryEach(Settled(order, m, ack))
  <1> DEFINE s == Settled(order, m, ack)
  <1>1. CacheEntry(m, ack) \in Entries
    BY EntryTypes, Zenon
  <1>2. /\ DOMAIN s = DOMAIN order
        /\ \A i \in DOMAIN order :
              s[i] = IF order[i] = CacheEntry(m, InFlight) THEN CacheEntry(m, ack) ELSE order[i]
    BY Zenon DEF Settled
  <1>3. s \in Seq(Entries)
    <2>1. \A i \in 1..Len(order) : (IF order[i] = CacheEntry(m, InFlight) THEN CacheEntry(m, ack) ELSE order[i]) \in Entries
      BY <1>1
    <2> QED BY <2>1 DEF Settled
  <1> HIDE DEF s
  <1>4. \A i \in DOMAIN order : s[i].id = order[i].id
    BY <1>2, EntryTypes DEF AckNames
  <1>5. ASSUME NEW o \in Messages \ {m}, Holds(order, o)
        PROVE  Holds(s, o)
    <2>1. CacheEntry(o, InFlight) # CacheEntry(m, InFlight)
      BY EntryTypes DEF AckNames
    <2> QED BY <1>2, <1>5, <2>1, Zenon DEF Holds
  <1>6. OneEntryEach(order) => OneEntryEach(s)
    BY <1>2, <1>4, Zenon DEF OneEntryEach
  <1> QED BY <1>3, <1>5, <1>6, Zenon DEF s

\* Releasing takes the entry of its own message away, and no other.
LEMMA ReleasedKeeps ==
    ASSUME NEW order \in Seq(Entries), NEW m \in Messages, Names(order, m)
    PROVE  /\ Released(order, m) \in Seq(Entries)
           /\ \A o \in Messages \ {m} : Holds(order, o) => Holds(Released(order, m), o)
           /\ OneEntryEach(order) => OneEntryEach(Released(order, m))
  <1> DEFINE at == CHOOSE i \in DOMAIN order : order[i].id = m
             L == Len(order)
             a == SubSeq(order, 1, at - 1)
             b == SubSeq(order, at + 1, L)
             r == a \o b
  <1>1. at \in 1..L /\ order[at].id = m /\ L \in Nat /\ DOMAIN order = 1..L
    BY DEF Names
  <1>2. Released(order, m) = r
    BY Zenon DEF Released
  <1> HIDE DEF at, L
  <1>3. /\ a \in Seq(Entries) /\ Len(a) = at - 1
        /\ \A i \in 1..(at - 1) : a[i] = order[i]
    <2>1. 1 \in 1..(L + 1) /\ at - 1 \in 0..L
      BY <1>1
    <2> QED BY <1>1, <2>1, SubSeqProperties DEF L
  <1>4. /\ b \in Seq(Entries) /\ Len(b) = L - at
        /\ \A i \in 1..(L - at) : b[i] = order[at + i]
    <2>1. at + 1 \in 1..(L + 1) /\ L \in 0..L
      BY <1>1
    <2>2. /\ b \in Seq(Entries)
          /\ Len(b) = IF at + 1 <= L THEN L - (at + 1) + 1 ELSE 0
          /\ \A i \in 1..(L - (at + 1) + 1) : b[i] = order[(at + 1) + i - 1]
      BY <2>1, SubSeqProperties DEF L
    <2>3. L - (at + 1) + 1 = L - at /\ \A i \in Nat : (at + 1) + i - 1 = at + i
      BY <1>1
    <2> QED BY <1>1, <2>2, <2>3
  <1> HIDE DEF a, b
  <1>5. /\ r \in Seq(Entries) /\ Len(r) = L - 1 /\ DOMAIN r = 1..(L - 1)
        /\ \A i \in 1..(L - 1) : r[i] = IF i < at THEN order[i] ELSE order[i + 1]
    <2>1. r \in Seq(Entries) /\ Len(r) = Len(a) + Len(b)
      BY <1>3, <1>4, ConcatProperties, Zenon
    <2>2. Len(r) = L - 1
      BY <2>1, <1>1, <1>3, <1>4
    <2>3. ASSUME NEW i \in 1..(L - 1)
          PROVE  r[i] = IF i < at THEN order[i] ELSE order[i + 1]
      <3>1. CASE i < at
        BY <3>1, <1>1, <1>3, <1>4, ConcatProperties
      <3>2. CASE ~(i < at)
        <4>1. i - (at - 1) \in 1..(L - at) /\ at + (i - (at - 1)) = i + 1
          BY <3>2, <1>1
        <4>2. r[i] = b[i - (at - 1)]
          BY <3>2, <1>1, <1>3, <1>4, ConcatProperties
        <4> QED BY <4>1, <4>2, <3>2, <1>4, Zenon
      <3> QED BY <3>1, <3>2, Zenon
    <2> QED BY <2>1, <2>2, <2>3
  <1> HIDE DEF r
  <1>6. ASSUME NEW o \in Messages \ {m}, Holds(order, o)
        PROVE  Holds(r, o)
    <2>1. PICK i \in 1..L : order[i] = CacheEntry(o, InFlight)
      BY <1>1, <1>6, Zenon DEF Holds
    <2>2. i # at
      BY <1>1, <2>1, EntryTypes DEF AckNames
    <2>3. CASE i < at
      <3>1. i \in 1..(L - 1) /\ r[i] = CacheEntry(o, InFlight)
        BY <2>1, <2>3, <1>1, <1>5
      <3> QED BY <3>1, <1>5, Zenon DEF Holds
    <2>4. CASE i > at
      <3>1. i - 1 \in 1..(L - 1) /\ ~(i - 1 < at) /\ (i - 1) + 1 = i
        BY <2>1, <2>4, <1>1
      <3>2. r[i - 1] = CacheEntry(o, InFlight)
        BY <3>1, <2>1, <1>5, Zenon
      <3> QED BY <3>1, <3>2, <1>5, Zenon DEF Holds
    <2> QED BY <2>2, <2>3, <2>4, <1>1
  <1>7. ASSUME OneEntryEach(order)
        PROVE  OneEntryEach(r)
    <2> SUFFICES ASSUME NEW i \in 1..(L - 1), NEW j \in 1..(L - 1), r[i].id = r[j].id
                 PROVE  i = j
      BY <1>5, Zenon DEF OneEntryEach
    <2> DEFINE p == IF i < at THEN i ELSE i + 1
               q == IF j < at THEN j ELSE j + 1
    <2>1. p \in 1..L /\ q \in 1..L /\ r[i] = order[p] /\ r[j] = order[q]
      BY <1>1, <1>5
    <2>2. order[p].id = order[q].id
      BY <2>1, Zenon
    <2>3. p = q
      <3> HIDE DEF p, q
      <3> QED BY <2>1, <2>2, <1>1, <1>7, Zenon DEF OneEntryEach
    <2> QED BY <2>3, <1>1
  <1> QED BY <1>2, <1>5, <1>6, <1>7, Zenon
(* ------------------------------- the start ------------------------------ *)

LEMMA DescriptorSound ==
    /\ DescriptorModel \in Models /\ NoSidecar \in Models
    /\ Sound(DescriptorModel.members) /\ Sound(NoSidecar.members)
  <1> DEFINE members == [n \in Nodes |-> IF n \in Genesis THEN 1 ELSE Absent]
  <1>1. members \in Members
    BY Zenon DEF Members
  <1>2. DescriptorModel = [era |-> 1, slot |-> 0, members |-> members]
    BY Zenon DEF DescriptorModel, Model
  <1>3. NoSidecar = [era |-> 0, slot |-> 0, members |-> members]
    BY <1>2, Zenon DEF NoSidecar, Model
  <1>4. voting_members(members) = Genesis
    <2>1. \A n \in Nodes : members[n] = IF n \in Genesis THEN 1 ELSE -1
      BY Zenon DEF Absent
    <2> HIDE DEF members
    <2>2. \A n \in Nodes : members[n] # -1 /\ members[n] > 0 <=> n \in Genesis
      BY <2>1
    <2> QED BY <2>2, MembershipAssumption, Zenon DEF voting_members, Absent
  <1>5. Sound(members)
    BY <1>4, MembershipAssumption, Zenon DEF Sound
  <1> HIDE DEF members
  <1> QED BY <1>1, <1>2, <1>3, <1>5, Zenon DEF Models

LEMMA InitInv == Init => MembershipInv
  <1> SUFFICES ASSUME Init PROVE MembershipInv
    BY Zenon
  <1> DEFINE first == Config("genesis", 0, DescriptorModel.members)
  <1>1. /\ first \in [id : Messages \cup {"genesis"}, slot : Nat, members : Members]
        /\ first.members = DescriptorModel.members
    BY DescriptorSound, Zenon DEF Config, Models
  <1>2. configs = <<first>>
    BY Zenon DEF Init
  <1> HIDE DEF first
  <1>3. /\ Len(configs) = 1 /\ DOMAIN configs = {1} /\ configs[1] = first
        /\ configs \in Seq([id : Messages \cup {"genesis"}, slot : Nat, members : Members])
    BY <1>1, <1>2
  <1>4. FirstPrimary \in Nodes
    BY MembershipAssumption, Zenon
  <1>5. CoreTypes
    <2>1. folded \in [Nodes -> 1..Len(configs)] /\ primary \in Nodes
      BY <1>3, <1>4 DEF Init
    <2>2. leading \subseteq Nodes /\ primary \in leading
      BY <1>4, Zenon DEF Init
    <2>3. proposal \in [Nodes -> {NoProposal} \cup [id : Messages, slot : Nat]]
      BY Zenon DEF Init
    <2> QED BY <1>3, <2>1, <2>2, <2>3, Zenon DEF CoreTypes, Init
  <1>6. HostTypes
    <2>1. \A n \in Nodes : DescriptorRows(n) \subseteq Nodes
      BY MembershipAssumption, Zenon DEF DescriptorRows
    <2>2. Discovery(TRUE, DescriptorModel) \in Discoveries
      BY DescriptorSound, Zenon DEF Discovery, Discoveries, Models
    <2>3. rows \in [Nodes -> SUBSET Nodes] /\ guard \in [Nodes -> BOOLEAN]
      BY <2>1, Zenon DEF Init
    <2>4. disc \in [Nodes -> Discoveries]
      BY <2>2, Zenon DEF Init
    <2>5. model \in [Nodes -> Models] /\ sidecar \in [Nodes -> Models]
      BY DescriptorSound, Zenon DEF Init
    <2> QED BY <2>3, <2>4, <2>5, Zenon DEF HostTypes, Init
  <1>7. VerbTypes
    BY DEF VerbTypes, Init, NotDriving
  <1>8. ProposalsFit
    BY <1>3, <1>4, Zenon DEF ProposalsFit, Init
  <1>9. FloorsHold
    <2>1. \A e \in DOMAIN configs : Sound(configs[e].members)
      BY <1>1, <1>3, DescriptorSound, Zenon
    <2>2. \A n \in Nodes : Sound(model[n].members) /\ Sound(sidecar[n].members)
      BY DescriptorSound, Zenon DEF Init
    <2> QED BY <2>1, <2>2, Zenon DEF FloorsHold, Init
  <1>10. TalliesWereSent
    BY Zenon DEF TalliesWereSent, Init, Discovery
  <1>11. CachesFit
    BY DEF CachesFit, OneEntryEach, DrivesStayCached, Init
  <1>12. DrivesUnderOnePrimary
    BY Zenon DEF DrivesUnderOnePrimary, AcceptedVerbsCommitted, Init
  <1> QED BY <1>5, <1>6, <1>7, <1>8, <1>9, <1>10, <1>11, <1>12, Zenon DEF MembershipInv, TypesInv

(* ------------------- what a step that leaves a part alone keeps ---------- *)

LEMMA CoreFrame ==
    ASSUME MembershipInv, UNCHANGED <<coreVars, verbs>>, faults' \in [views : Nat, others : Nat]
    PROVE  CoreTypes' /\ ProposalsFit'
  <1>1. CoreTypes /\ ProposalsFit
    BY Zenon DEF MembershipInv, TypesInv
  <1> QED BY <1>1, Zenon DEF CoreTypes, ProposalsFit, CoreMembers, coreVars

LEMMA HostFrame ==
    ASSUME MembershipInv, UNCHANGED hostVars, UNCHANGED net
    PROVE  HostTypes' /\ TalliesWereSent'
  <1>1. HostTypes /\ TalliesWereSent
    BY Zenon DEF MembershipInv, TypesInv
  <1> QED BY <1>1, Zenon DEF HostTypes, TalliesWereSent, hostVars

LEMMA FloorFrame ==
    ASSUME MembershipInv, UNCHANGED <<configs, model, sidecar, net>>
    PROVE  FloorsHold'
  BY Zenon DEF MembershipInv, FloorsHold

LEMMA VerbFrame ==
    ASSUME MembershipInv, UNCHANGED <<cache, drive, acks>>
    PROVE  VerbTypes' /\ CachesFit'
  BY Zenon DEF MembershipInv, TypesInv, VerbTypes, CachesFit, DrivesStayCached

LEMMA OnePrimaryFrame ==
    ASSUME MembershipInv, UNCHANGED <<coreVars, drive, acks>>,
           faults'.views = 0 => faults.views = 0
    PROVE  DrivesUnderOnePrimary'
  BY DEF MembershipInv, DrivesUnderOnePrimary, Committed, AcceptedVerbsCommitted, coreVars
(* ------------------------------- the core ------------------------------- *)

LEMMA VerbTypesOf ==
    ASSUME CoreTypes
    PROVE  \A m \in Messages : verbs[m] \in [action : Actions, id : Nodes]
  BY MembershipAssumption, Zenon DEF CoreTypes

LEMMA CoreMembersTypes ==
    ASSUME CoreTypes, NEW n \in Nodes
    PROVE  /\ folded[n] \in 1..Len(configs) /\ folded[n] \in DOMAIN configs /\ Len(configs) \in Nat
           /\ configs[folded[n]].slot \in Nat /\ CoreMembers(n) \in Members
  <1> DEFINE Cs == [id : Messages \cup {"genesis"}, slot : Nat, members : Members]
  <1>1. configs \in Seq(Cs) /\ folded[n] \in 1..Len(configs)
    BY Zenon DEF CoreTypes
  <1> HIDE DEF Cs
  <1>2. folded[n] \in DOMAIN configs /\ Len(configs) \in Nat /\ configs[folded[n]] \in Cs
    BY <1>1
  <1> QED BY <1>1, <1>2, Zenon DEF CoreMembers, Cs

LEMMA CommitKeeps == MembershipInv /\ Commit => MembershipInv'
  <1> SUFFICES ASSUME MembershipInv, Commit PROVE MembershipInv'
    BY Zenon
  <1> DEFINE Cs == [id : Messages \cup {"genesis"}, slot : Nat, members : Members]
             p == proposal[primary]
             new == Config(p.id, p.slot, Changed(CoreMembers(primary), verbs[p.id]))
  <1>1. CoreTypes /\ ProposalsFit /\ FloorsHold /\ DrivesUnderOnePrimary
    BY Zenon DEF MembershipInv, TypesInv
  <1>2. primary \in Nodes /\ p \in [id : Messages, slot : Nat] /\ p # NoProposal
    BY <1>1, Zenon DEF CoreTypes, Commit
  <1>3. /\ verbs[p.id] \in [action : Actions, id : Nodes]
        /\ CoreMembers(primary) \in Members
    BY <1>1, <1>2, VerbTypesOf, CoreMembersTypes, Zenon
  <1>4. new \in Cs /\ new.id = p.id /\ new.members = Changed(CoreMembers(primary), verbs[p.id])
    BY <1>2, <1>3, ChangedIs, Zenon DEF Config
  <1>5. Sound(new.members)
    <2>1. Sound(CoreMembers(primary))
      BY <1>1, <1>2, CoreMembersTypes, Zenon DEF FloorsHold, CoreMembers
    <2>2. Fits(CoreMembers(primary), verbs[p.id])
      BY <1>1, <1>2, Zenon DEF ProposalsFit
    <2> QED BY <2>1, <2>2, <1>3, <1>4, ChangeKeepsFloor, Zenon
  <1>6. /\ configs' = Append(configs, new)
        /\ proposal' = [proposal EXCEPT ![primary] = NoProposal]
        /\ folded' = [folded EXCEPT ![primary] = Len(configs) + 1]
        /\ UNCHANGED <<primary, leading, hostVars, verbVars, net, faults>>
    BY Zenon DEF Commit
  <1> HIDE DEF p, new
  <1>7. /\ configs \in Seq(Cs) /\ configs' \in Seq(Cs) /\ Len(configs) \in Nat
        /\ Len(configs') = Len(configs) + 1
        /\ DOMAIN configs = 1..Len(configs) /\ DOMAIN configs' = 1..(Len(configs) + 1)
        /\ \A e \in 1..Len(configs) : configs'[e] = configs[e]
        /\ configs'[Len(configs) + 1] = new
    BY <1>1, <1>4, <1>6 DEF CoreTypes
  <1>8. folded \in [Nodes -> 1..Len(configs)]
    BY <1>1, Zenon DEF CoreTypes
  <1>9. CoreTypes'
    <2>1. folded' \in [Nodes -> 1..Len(configs')]
      <3>1. 1..Len(configs) \subseteq 1..Len(configs') /\ Len(configs) + 1 \in 1..Len(configs')
        BY <1>7
      <3> QED BY <3>1, <1>6, <1>8, Zenon
    <2>2. proposal' \in [Nodes -> {NoProposal} \cup [id : Messages, slot : Nat]]
      BY <1>1, <1>6, Zenon DEF CoreTypes
    <2> QED BY <1>1, <1>6, <1>7, <2>1, <2>2, Zenon DEF CoreTypes, verbVars
  <1>10. ProposalsFit'
    <2>1. folded'[primary'] = Len(configs')
      BY <1>2, <1>6, <1>7, <1>8, Zenon
    <2>2. ASSUME NEW n \in Nodes, proposal'[n] # NoProposal
          PROVE  n \in leading' /\ Fits(CoreMembers(n)', verbs'[proposal'[n].id])
      <3>1. n # primary /\ proposal'[n] = proposal[n]
        BY <2>2, <1>1, <1>2, <1>6, Zenon DEF CoreTypes
      <3>2. CoreMembers(n)' = CoreMembers(n)
        BY <3>1, <1>6, <1>7, <1>8, Zenon DEF CoreMembers
      <3> QED BY <3>1, <3>2, <2>2, <1>1, <1>6, Zenon DEF ProposalsFit, verbVars
    <2> QED BY <2>1, <2>2, Zenon DEF ProposalsFit
  <1>11. FloorsHold'
    <2>1. \A e \in DOMAIN configs' : Sound(configs'[e].members)
      BY <1>1, <1>5, <1>7 DEF FloorsHold
    <2> QED BY <2>1, <1>1, <1>6, Zenon DEF FloorsHold, hostVars
  <1>12. DrivesUnderOnePrimary'
    <2>1. \A m \in Messages : Committed(m) => Committed(m)'
      BY <1>7 DEF Committed
    <2>2. ASSUME NEW m, m = p.id
          PROVE  Committed(m)'
      <3>1. Len(configs) + 1 \in DOMAIN configs' /\ configs'[Len(configs) + 1].id = m
        BY <2>2, <1>4, <1>7
      <3> QED BY <3>1, Zenon DEF Committed
    <2> SUFFICES ASSUME faults.views = 0
                 PROVE  /\ primary = FirstPrimary /\ leading = {FirstPrimary}
                        /\ \A n \in Nodes : \A m \in Messages : drive[n][m] # NotDriving =>
                              n = FirstPrimary /\ Committed(m)'
                        /\ AcceptedVerbsCommitted'
      BY <1>6, Zenon DEF DrivesUnderOnePrimary, verbVars
    <2>3. primary = FirstPrimary /\ leading = {FirstPrimary} /\ AcceptedVerbsCommitted
      BY <1>1, Zenon DEF DrivesUnderOnePrimary
    <2>4. ASSUME NEW n \in Nodes, NEW m \in Messages, drive[n][m] # NotDriving
          PROVE  n = FirstPrimary /\ Committed(m)'
      <3>1. n = FirstPrimary /\ (Committed(m) \/ proposal[n].id = m)
        BY <2>4, <1>1, Zenon DEF DrivesUnderOnePrimary
      <3>2. CASE Committed(m)
        BY <3>1, <3>2, <2>1, Zenon
      <3>3. CASE proposal[n].id = m
        <4>1. m = p.id
          BY <3>1, <3>3, <2>3, Zenon DEF p
        <4> QED BY <4>1, <3>1, <2>2, Zenon
      <3> QED BY <3>1, <3>2, <3>3, Zenon
    <2>5. AcceptedVerbsCommitted'
      BY <2>3, <1>6, <1>7 DEF AcceptedVerbsCommitted, verbVars
    <2> QED BY <2>3, <2>4, <2>5, Zenon
  <1>13. HostTypes' /\ TalliesWereSent' /\ VerbTypes' /\ CachesFit'
    BY <1>6, HostFrame, VerbFrame, Zenon DEF verbVars
  <1> QED BY <1>9, <1>10, <1>11, <1>12, <1>13, Zenon DEF MembershipInv, TypesInv

LEMMA FoldKeeps ==
    ASSUME NEW n \in Nodes, MembershipInv, Fold(n)
    PROVE  MembershipInv'
  <1>1. CoreTypes /\ ProposalsFit /\ DrivesUnderOnePrimary
    BY Zenon DEF MembershipInv, TypesInv
  <1>2. /\ n \notin leading /\ folded[n] < Len(configs)
        /\ folded' = [folded EXCEPT ![n] = @ + 1]
        /\ UNCHANGED <<configs, primary, leading, proposal, hostVars, verbVars, net, faults>>
    BY Zenon DEF Fold
  <1>3. folded \in [Nodes -> 1..Len(configs)] /\ Len(configs) \in Nat
    BY <1>1 DEF CoreTypes
  <1>4. \A k \in Nodes \ {n} : folded'[k] = folded[k]
    BY <1>2, <1>3, Zenon
  <1>5. CoreTypes'
    <2>1. folded' \in [Nodes -> 1..Len(configs)]
      BY <1>2, <1>3
    <2> QED BY <2>1, <1>1, <1>2, Zenon DEF CoreTypes, verbVars
  <1>6. ProposalsFit'
    <2>1. primary # n
      BY <1>1, <1>2, Zenon DEF CoreTypes
    <2>2. \A k \in Nodes : proposal[k] # NoProposal => k # n
      BY <1>1, <1>2, Zenon DEF ProposalsFit
    <2> QED BY <2>1, <2>2, <1>1, <1>2, <1>4, Zenon DEF ProposalsFit, CoreTypes, CoreMembers, verbVars
  <1>7. DrivesUnderOnePrimary'
    <2> SUFFICES ASSUME faults.views = 0
                 PROVE  /\ primary = FirstPrimary /\ leading = {FirstPrimary}
                        /\ \A k \in Nodes : \A m \in Messages : drive[k][m] # NotDriving =>
                              /\ k = FirstPrimary
                              /\ \/ Committed(m)'
                                 \/ proposal[k] # NoProposal /\ proposal[k].id = m /\ drive[k][m].era = folded'[k]
                        /\ AcceptedVerbsCommitted'
      BY <1>2 DEF DrivesUnderOnePrimary, verbVars
    <2>1. n # FirstPrimary
      BY <1>1, <1>2, Zenon DEF DrivesUnderOnePrimary
    <2>2. AcceptedVerbsCommitted' /\ \A m \in Messages : Committed(m) => Committed(m)'
      BY <1>1, <1>2, Zenon DEF DrivesUnderOnePrimary, AcceptedVerbsCommitted, Committed, verbVars
    <2> QED BY <2>1, <2>2, <1>1, <1>4 DEF DrivesUnderOnePrimary
  <1>8. HostTypes' /\ TalliesWereSent' /\ VerbTypes' /\ CachesFit' /\ FloorsHold'
    BY <1>2, HostFrame, VerbFrame, FloorFrame, Zenon DEF verbVars, hostVars
  <1> QED BY <1>5, <1>6, <1>7, <1>8, Zenon DEF MembershipInv, TypesInv

LEMMA ViewChangeKeeps ==
    ASSUME NEW n \in Nodes, MembershipInv, ViewChange(n)
    PROVE  MembershipInv'
  <1>1. CoreTypes /\ ProposalsFit
    BY Zenon DEF MembershipInv, TypesInv
  <1>2. PICK p \in {NoProposal, proposal[primary]} : proposal' = [proposal EXCEPT ![n] = p]
    BY Zenon DEF ViewChange
  <1>3. /\ primary' = n
        /\ folded' = [folded EXCEPT ![n] = Len(configs)]
        /\ leading' = leading \cup {n}
        /\ faults' = [faults EXCEPT !.views = @ + 1]
        /\ UNCHANGED <<configs, hostVars, verbVars, net>>
    BY Zenon DEF ViewChange
  <1>4. /\ folded \in [Nodes -> 1..Len(configs)] /\ Len(configs) \in Nat /\ primary \in Nodes
        /\ folded[primary] = Len(configs)
    BY <1>1 DEF CoreTypes, ProposalsFit
  <1>5. Len(configs) \in 1..Len(configs)
    BY <1>4, Zenon
  <1>6. faults' \in [views : Nat, others : Nat] /\ faults'.views # 0
    <2>1. faults \in [views : Nat, others : Nat]
      BY <1>1, Zenon DEF CoreTypes
    <2> QED BY <2>1, <1>3
  <1>7. CoreTypes'
    <2>1. folded' \in [Nodes -> 1..Len(configs)]
      BY <1>3, <1>4, <1>5, Zenon
    <2>2. proposal' \in [Nodes -> {NoProposal} \cup [id : Messages, slot : Nat]]
      BY <1>1, <1>2, Zenon DEF CoreTypes
    <2> QED BY <2>1, <2>2, <1>1, <1>3, <1>6, Zenon DEF CoreTypes, verbVars
  <1>8. ProposalsFit'
    <2>1. folded'[primary'] = Len(configs')
      BY <1>3, <1>4, Zenon
    <2>2. ASSUME NEW k \in Nodes, proposal'[k] # NoProposal
          PROVE  k \in leading' /\ Fits(CoreMembers(k)', verbs'[proposal'[k].id])
      <3>1. CASE k = n
        <4>1. proposal'[k] = proposal[primary]
          BY <3>1, <2>2, <1>1, <1>2, Zenon DEF CoreTypes
        <4>2. CoreMembers(k)' = CoreMembers(primary)
          BY <3>1, <1>3, <1>4, Zenon DEF CoreMembers
        <4> QED BY <4>1, <4>2, <3>1, <2>2, <1>1, <1>3, <1>4, Zenon DEF ProposalsFit, verbVars
      <3>2. CASE k # n
        <4>1. proposal'[k] = proposal[k]
          BY <3>2, <1>1, <1>2, Zenon DEF CoreTypes
        <4>2. CoreMembers(k)' = CoreMembers(k)
          BY <3>2, <1>3, <1>4, Zenon DEF CoreMembers
        <4> QED BY <4>1, <4>2, <2>2, <1>1, <1>3, Zenon DEF ProposalsFit, verbVars
      <3> QED BY <3>1, <3>2, Zenon
    <2> QED BY <2>1, <2>2, Zenon DEF ProposalsFit
  <1>9. DrivesUnderOnePrimary'
    BY <1>6, Zenon DEF DrivesUnderOnePrimary
  <1>10. HostTypes' /\ TalliesWereSent' /\ VerbTypes' /\ CachesFit' /\ FloorsHold'
    BY <1>3, HostFrame, VerbFrame, FloorFrame, Zenon DEF verbVars, hostVars
  <1> QED BY <1>7, <1>8, <1>9, <1>10, Zenon DEF MembershipInv, TypesInv

LEMMA LearnViewKeeps ==
    ASSUME NEW n \in Nodes, MembershipInv, LearnView(n)
    PROVE  MembershipInv'
  <1>1. CoreTypes /\ ProposalsFit /\ DrivesUnderOnePrimary
    BY DEF MembershipInv, TypesInv
  <1>2. /\ n \in leading \ {primary}
        /\ leading' = leading \ {n}
        /\ proposal' = [proposal EXCEPT ![n] = NoProposal]
        /\ UNCHANGED <<configs, primary, folded, hostVars, verbVars, net, faults>>
    BY Zenon DEF LearnView
  <1>3. proposal \in [Nodes -> {NoProposal} \cup [id : Messages, slot : Nat]]
    BY <1>1, Zenon DEF CoreTypes
  <1>4. CoreTypes'
    <2>1. proposal' \in [Nodes -> {NoProposal} \cup [id : Messages, slot : Nat]]
      BY <1>2, <1>3, Zenon
    <2> QED BY <2>1, <1>1, <1>2, Zenon DEF CoreTypes, verbVars
  <1>5. ProposalsFit'
    <2>1. \A k \in Nodes : proposal'[k] # NoProposal => k # n /\ proposal'[k] = proposal[k]
      BY <1>2, <1>3, Zenon
    <2> QED BY <2>1, <1>1, <1>2, Zenon DEF ProposalsFit, CoreMembers, verbVars
  <1>6. faults.views # 0
    BY <1>1, <1>2, Zenon DEF DrivesUnderOnePrimary
  <1>7. DrivesUnderOnePrimary'
    BY <1>2, <1>6, Zenon DEF DrivesUnderOnePrimary
  <1>8. HostTypes' /\ TalliesWereSent' /\ VerbTypes' /\ CachesFit' /\ FloorsHold'
    BY <1>2, HostFrame, VerbFrame, FloorFrame, Zenon DEF verbVars, hostVars
  <1> QED BY <1>4, <1>5, <1>7, <1>8 DEF MembershipInv, TypesInv
(* ------------------------------ handle_admin ---------------------------- *)

\* Only the addressing rows moved.
LEMMA RowsFrame ==
    ASSUME MembershipInv, rows' \in [Nodes -> SUBSET Nodes], UNCHANGED <<model, disc, guard, sidecar, net>>
    PROVE  HostTypes' /\ TalliesWereSent'
  <1>1. HostTypes /\ TalliesWereSent
    BY Zenon DEF MembershipInv, TypesInv
  <1> QED BY <1>1, Zenon DEF HostTypes, TalliesWereSent

LEMMA RowForDriveTypes ==
    ASSUME MembershipInv, NEW n \in Nodes, NEW m \in Messages, RowForDrive(n, verbs[m])
    PROVE  rows' \in [Nodes -> SUBSET Nodes]
  <1>1. rows \in [Nodes -> SUBSET Nodes] /\ verbs[m].id \in Nodes
    BY VerbTypesOf, Zenon DEF MembershipInv, TypesInv, HostTypes
  <1> QED BY <1>1, Zenon DEF RowForDrive

\* A verb without an entry has no drive.
LEMMA UnseenIsIdle ==
    ASSUME CachesFit, NEW n \in Nodes, NEW m \in Messages, ~Seen(n, m)
    PROVE  drive[n][m] = NotDriving
  BY EntryTypes DEF CachesFit, DrivesStayCached, Seen, AckNames

\* The cache of one node is replaced by one that is well formed and keeps the
\* running entries.
LEMMA CacheMoves ==
    ASSUME VerbTypes, CachesFit, NEW n \in Nodes, NEW order \in Seq(Entries),
           cache' = [cache EXCEPT ![n] = order], OneEntryEach(order),
           drive' \in [Nodes -> [Messages -> [era : Nat, slot : Nat]]], acks' \subseteq Entries,
           \A k \in Nodes \ {n} : \A o \in Messages : drive'[k][o] = drive[k][o],
           \A o \in Messages : drive'[n][o] # NotDriving => Holds(order, o)
    PROVE  VerbTypes' /\ CachesFit'
  <1>1. cache \in [Nodes -> Seq(Entries)]
    BY Zenon DEF VerbTypes
  <1>2. cache' \in [Nodes -> Seq(Entries)] /\ cache'[n] = order /\ \A k \in Nodes \ {n} : cache'[k] = cache[k]
    BY <1>1, Zenon
  <1>3. VerbTypes'
    BY <1>2, Zenon DEF VerbTypes
  <1>4. \A k \in Nodes : OneEntryEach(cache'[k])
    BY <1>2, Zenon DEF CachesFit
  <1>5. ASSUME NEW k \in Nodes, NEW o \in Messages, drive'[k][o] # NotDriving
        PROVE  \E i \in DOMAIN cache'[k] : cache'[k][i] = CacheEntry(o, InFlight)
    <2>1. CASE k = n
      BY <2>1, <1>2, <1>5, Zenon DEF Holds
    <2>2. CASE k # n
      <3>1. cache'[k] = cache[k] /\ drive[k][o] # NotDriving
        BY <2>2, <1>2, <1>5
      <3>2. \E i \in DOMAIN cache[k] : cache[k][i] = CacheEntry(o, InFlight)
        BY <3>1, Zenon DEF CachesFit, DrivesStayCached
      <3> QED BY <3>1, <3>2, Zenon
    <2> QED BY <2>1, <2>2, Zenon
  <1> QED BY <1>3, <1>4, <1>5, Zenon DEF CachesFit, DrivesStayCached

\* handle_admin's early outcomes: claimed and settled at once, no drive.
LEMMA SettleNowKeeps ==
    ASSUME MembershipInv, NEW n \in Nodes, NEW m \in Messages, NEW ack \in {"voting-floor", "rejected"},
           Drivable(n, m), SettleNow(n, m, ack), UNCHANGED coreVars, UNCHANGED faults
    PROVE  VerbTypes' /\ CachesFit' /\ DrivesUnderOnePrimary'
  <1> DEFINE c == Claimed(n, m)
             s == Settled(c, m, ack)
  <1>1. VerbTypes /\ CachesFit /\ DrivesUnderOnePrimary
    BY Zenon DEF MembershipInv, TypesInv
  <1>2. /\ cache' = [cache EXCEPT ![n] = s]
        /\ acks' = acks \cup {[id |-> m, ack |-> ack]}
        /\ drive' = drive /\ verbs' = verbs /\ ~Seen(n, m)
    BY Zenon DEF SettleNow, Drivable
  <1>3. cache[n] \in Seq(Entries) /\ OneEntryEach(cache[n]) /\ ack \in AckNames
    BY <1>1, Zenon DEF VerbTypes, CachesFit, AckNames
  <1>4. /\ c \in Seq(Entries) /\ OneEntryEach(c)
        /\ \A o \in Messages : Holds(cache[n], o) => Holds(c, o)
    BY <1>2, <1>3, ClaimedKeeps, Zenon
  <1> HIDE DEF c
  <1>5. /\ s \in Seq(Entries) /\ OneEntryEach(s)
        /\ \A o \in Messages \ {m} : Holds(c, o) => Holds(s, o)
    BY <1>3, <1>4, SettledKeeps, Zenon
  <1> HIDE DEF s
  <1>6. \A o \in Messages : drive[n][o] # NotDriving => Holds(s, o)
    <2>1. drive[n][m] = NotDriving
      BY <1>1, <1>2, UnseenIsIdle, Zenon
    <2>2. \A o \in Messages : drive[n][o] # NotDriving => Holds(cache[n], o)
      BY <1>1, Zenon DEF CachesFit, DrivesStayCached, Holds
    <2> QED BY <2>1, <2>2, <1>4, <1>5, Zenon
  <1>7. acks' \subseteq Entries /\ drive \in [Nodes -> [Messages -> [era : Nat, slot : Nat]]]
    BY <1>1, <1>2, <1>3 DEF VerbTypes, Entries
  <1>8. VerbTypes' /\ CachesFit'
    BY <1>1, <1>2, <1>5, <1>6, <1>7, CacheMoves, Zenon
  <1>9. AcceptedVerbsCommitted => AcceptedVerbsCommitted'
    BY <1>2 DEF AcceptedVerbsCommitted, coreVars
  <1>10. DrivesUnderOnePrimary'
    BY <1>1, <1>2, <1>9 DEF DrivesUnderOnePrimary, Committed, coreVars
  <1> QED BY <1>8, <1>10, Zenon

LEMMA DriveFloorKeeps ==
    ASSUME NEW n \in Nodes, NEW m \in Messages, MembershipInv, DriveFloor(n, m)
    PROVE  MembershipInv'
  <1>1. /\ Drivable(n, m) /\ SettleNow(n, m, "voting-floor")
        /\ UNCHANGED <<coreVars, hostVars, net, faults>>
    BY Zenon DEF DriveFloor
  <1>2. faults \in [views : Nat, others : Nat] /\ verbs' = verbs
    BY <1>1, Zenon DEF MembershipInv, TypesInv, CoreTypes, SettleNow
  <1>3. VerbTypes' /\ CachesFit' /\ DrivesUnderOnePrimary'
    BY <1>1, SettleNowKeeps, Zenon
  <1>4. CoreTypes' /\ ProposalsFit'
    BY <1>1, <1>2, CoreFrame, Zenon
  <1>5. HostTypes' /\ TalliesWereSent' /\ FloorsHold'
    BY <1>1, HostFrame, FloorFrame, Zenon DEF coreVars, hostVars
  <1> QED BY <1>3, <1>4, <1>5, Zenon DEF MembershipInv, TypesInv

LEMMA DriveRejectedKeeps ==
    ASSUME NEW n \in Nodes, NEW m \in Messages, MembershipInv, DriveRejected(n, m)
    PROVE  MembershipInv'
  <1>1. /\ Drivable(n, m) /\ SettleNow(n, m, "rejected") /\ RowForDrive(n, verbs[m])
        /\ UNCHANGED <<coreVars, model, disc, guard, sidecar, net, faults>>
    BY Zenon DEF DriveRejected
  <1>2. faults \in [views : Nat, others : Nat] /\ verbs' = verbs
    BY <1>1, Zenon DEF MembershipInv, TypesInv, CoreTypes, SettleNow
  <1>3. VerbTypes' /\ CachesFit' /\ DrivesUnderOnePrimary'
    BY <1>1, SettleNowKeeps, Zenon
  <1>4. CoreTypes' /\ ProposalsFit'
    BY <1>1, <1>2, CoreFrame, Zenon
  <1>5. HostTypes' /\ TalliesWereSent' /\ FloorsHold'
    BY <1>1, RowForDriveTypes, RowsFrame, FloorFrame, Zenon DEF coreVars
  <1> QED BY <1>3, <1>4, <1>5 DEF MembershipInv, TypesInv

LEMMA DriveNotPrimaryKeeps ==
    ASSUME NEW n \in Nodes, NEW m \in Messages, MembershipInv, DriveNotPrimary(n, m)
    PROVE  MembershipInv'
  <1> DEFINE c == Claimed(n, m)
             r == Released(c, m)
  <1>1. /\ Drivable(n, m) /\ RowForDrive(n, verbs[m])
        /\ cache' = [cache EXCEPT ![n] = r]
        /\ UNCHANGED <<coreVars, model, disc, guard, sidecar, drive, acks, verbs, net, faults>>
    BY Zenon DEF DriveNotPrimary
  <1>2. VerbTypes /\ CachesFit /\ ~Seen(n, m) /\ faults \in [views : Nat, others : Nat]
    BY <1>1, Zenon DEF MembershipInv, TypesInv, CoreTypes, Drivable
  <1>3. cache[n] \in Seq(Entries) /\ OneEntryEach(cache[n])
    BY <1>2, Zenon DEF VerbTypes, CachesFit
  <1>4. /\ c \in Seq(Entries) /\ OneEntryEach(c) /\ Holds(c, m)
        /\ \A o \in Messages : Holds(cache[n], o) => Holds(c, o)
    BY <1>2, <1>3, ClaimedKeeps, Zenon
  <1> HIDE DEF c
  <1>5. Names(c, m)
    BY <1>4, EntryTypes DEF Holds, Names, AckNames
  <1>6. /\ r \in Seq(Entries) /\ OneEntryEach(r)
        /\ \A o \in Messages \ {m} : Holds(c, o) => Holds(r, o)
    BY <1>4, <1>5, ReleasedKeeps, Zenon
  <1> HIDE DEF r
  <1>7. \A o \in Messages : drive[n][o] # NotDriving => Holds(r, o)
    <2>1. drive[n][m] = NotDriving
      BY <1>2, UnseenIsIdle, Zenon
    <2>2. \A o \in Messages : drive[n][o] # NotDriving => Holds(cache[n], o)
      BY <1>2, Zenon DEF CachesFit, DrivesStayCached, Holds
    <2> QED BY <2>1, <2>2, <1>4, <1>6, Zenon
  <1>8. VerbTypes' /\ CachesFit'
    <2>1. acks' \subseteq Entries /\ drive' = drive /\ drive \in [Nodes -> [Messages -> [era : Nat, slot : Nat]]]
      BY <1>1, <1>2, Zenon DEF VerbTypes
    <2> QED BY <2>1, <1>1, <1>2, <1>6, <1>7, CacheMoves, Zenon
  <1>9. CoreTypes' /\ ProposalsFit' /\ DrivesUnderOnePrimary'
    BY <1>1, <1>2, CoreFrame, OnePrimaryFrame, Zenon
  <1>10. HostTypes' /\ TalliesWereSent' /\ FloorsHold'
    BY <1>1, RowForDriveTypes, RowsFrame, FloorFrame, Zenon DEF coreVars
  <1> QED BY <1>8, <1>9, <1>10, Zenon DEF MembershipInv, TypesInv
LEMMA DriveProposedKeeps ==
    ASSUME NEW n \in Nodes, NEW m \in Messages, MembershipInv, DriveProposed(n, m)
    PROVE  MembershipInv'
  <1> DEFINE verb == verbs[m]
             c == Claimed(n, m)
             joins == {Change("join", verb.id, n, r) : r \in rows'[n] \ {n}}
  <1>1. /\ Drivable(n, m) /\ AdapterAdmits(n, verb) /\ CoreAdmits(n, verb) /\ RowForDrive(n, verb)
        /\ proposal' = [proposal EXCEPT ![n] = Proposal(m, NextSlot(n))]
        /\ cache' = [cache EXCEPT ![n] = c]
        /\ drive' = [drive EXCEPT ![n][m] = [era |-> folded[n], slot |-> NextSlot(n)]]
        /\ net' = IF verb.action = "join" THEN net \cup joins ELSE net
        /\ UNCHANGED <<configs, primary, folded, leading, model, disc, guard, sidecar, acks, verbs, faults>>
    BY Zenon DEF DriveProposed
  <1>2. CoreTypes /\ HostTypes /\ VerbTypes /\ ProposalsFit /\ CachesFit /\ FloorsHold /\ TalliesWereSent
    BY Zenon DEF MembershipInv, TypesInv
  <1>3. /\ folded[n] \in Nat \ {0} /\ NextSlot(n) \in Nat
        /\ CoreMembers(n) \in Members /\ verb \in [action : Actions, id : Nodes]
    BY <1>2, CoreMembersTypes, VerbTypesOf DEF NextSlot
  <1>4. ~Seen(n, m) /\ n \in leading /\ proposal[n] = NoProposal
    BY <1>1, Zenon DEF Drivable, CoreAdmits
  <1>5. Fits(CoreMembers(n), verb)
    BY <1>1, <1>3, Zenon DEF Fits, AdapterAdmits, CoreAdmits
  <1>6. /\ proposal \in [Nodes -> {NoProposal} \cup [id : Messages, slot : Nat]]
        /\ Proposal(m, NextSlot(n)) \in [id : Messages, slot : Nat]
        /\ Proposal(m, NextSlot(n)).id = m
        /\ Proposal(m, NextSlot(n)) # NoProposal
    <2>1. Proposal(m, NextSlot(n)).slot # 0
      BY <1>2, CoreMembersTypes DEF Proposal, NextSlot
    <2>2. NoProposal.slot = 0
      BY Zenon DEF NoProposal
    <2> QED BY <2>1, <2>2, <1>2, <1>3, Zenon DEF CoreTypes, Proposal
  <1>7. /\ proposal'[n] = Proposal(m, NextSlot(n))
        /\ \A k \in Nodes \ {n} : proposal'[k] = proposal[k]
    BY <1>1, <1>6, Zenon
  <1>8. CoreTypes'
    <2>1. proposal' \in [Nodes -> {NoProposal} \cup [id : Messages, slot : Nat]]
      BY <1>1, <1>6, Zenon
    <2> QED BY <2>1, <1>1, <1>2, Zenon DEF CoreTypes
  <1>9. ProposalsFit'
    <2>1. \A k \in Nodes : CoreMembers(k)' = CoreMembers(k)
      BY <1>1, Zenon DEF CoreMembers
    <2>2. folded'[primary'] = Len(configs')
      BY <1>1, <1>2, Zenon DEF ProposalsFit
    <2>3. ASSUME NEW k \in Nodes, proposal'[k] # NoProposal
          PROVE  k \in leading' /\ Fits(CoreMembers(k)', verbs'[proposal'[k].id])
      <3>1. CASE k = n
        <4>1. verbs'[proposal'[k].id] = verb
          BY <3>1, <1>1, <1>6, <1>7, Zenon
        <4> QED BY <4>1, <3>1, <2>1, <1>1, <1>4, <1>5, Zenon
      <3>2. CASE k # n
        BY <3>2, <2>1, <2>3, <1>1, <1>2, <1>7, Zenon DEF ProposalsFit
      <3> QED BY <3>1, <3>2, Zenon
    <2> QED BY <2>2, <2>3, Zenon DEF ProposalsFit
  <1>10. cache[n] \in Seq(Entries) /\ OneEntryEach(cache[n])
    BY <1>2, Zenon DEF VerbTypes, CachesFit
  <1>11. /\ c \in Seq(Entries) /\ OneEntryEach(c) /\ Holds(c, m)
         /\ \A o \in Messages : Holds(cache[n], o) => Holds(c, o)
    BY <1>4, <1>10, ClaimedKeeps, Zenon
  <1> HIDE DEF c
  <1>12. /\ drive \in [Nodes -> [Messages -> [era : Nat, slot : Nat]]]
         /\ drive' \in [Nodes -> [Messages -> [era : Nat, slot : Nat]]]
         /\ drive'[n][m] = [era |-> folded[n], slot |-> NextSlot(n)]
         /\ \A o \in Messages \ {m} : drive'[n][o] = drive[n][o]
         /\ \A k \in Nodes \ {n} : drive'[k] = drive[k]
    <2>1. drive \in [Nodes -> [Messages -> [era : Nat, slot : Nat]]]
      BY <1>2, Zenon DEF VerbTypes
    <2>2. [era |-> folded[n], slot |-> NextSlot(n)] \in [era : Nat, slot : Nat]
      BY <1>3, Zenon
    <2> QED BY <1>1, <2>1, <2>2, Zenon
  <1>13. VerbTypes' /\ CachesFit'
    <2>1. \A o \in Messages : drive'[n][o] # NotDriving => Holds(c, o)
      <3>1. \A o \in Messages : drive[n][o] # NotDriving => Holds(cache[n], o)
        BY <1>2, Zenon DEF CachesFit, DrivesStayCached, Holds
      <3> QED BY <3>1, <1>11, <1>12, Zenon
    <2>2. acks' \subseteq Entries
      BY <1>1, <1>2, Zenon DEF VerbTypes
    <2> QED BY <2>1, <2>2, <1>1, <1>2, <1>11, <1>12, CacheMoves, Zenon
  <1>14. rows' \in [Nodes -> SUBSET Nodes]
    BY <1>1, RowForDriveTypes, Zenon
  <1>15. net' \subseteq net \cup ChangeMsgs /\ net \subseteq net'
    <2>1. rows'[n] \ {n} \in SUBSET Nodes
      BY <1>14, Zenon
    <2>2. joins \subseteq ChangeMsgs
      BY <2>1, <1>3 DEF Change, ChangeMsgs
    <2> HIDE DEF joins
    <2> QED BY <2>2, <1>1, Zenon
  <1>16. HostTypes' /\ TalliesWereSent'
    BY <1>1, <1>2, <1>14, <1>15, Zenon DEF HostTypes, TalliesWereSent
  <1>17. FloorsHold'
    BY <1>1, <1>2, <1>15, Zenon DEF FloorsHold, ChangeMsgs
  <1>18. DrivesUnderOnePrimary'
    <2> SUFFICES ASSUME faults.views = 0
                 PROVE  /\ primary = FirstPrimary /\ leading = {FirstPrimary}
                        /\ \A k \in Nodes : \A o \in Messages : drive'[k][o] # NotDriving =>
                              /\ k = FirstPrimary
                              /\ \/ Committed(o)'
                                 \/ proposal'[k] # NoProposal /\ proposal'[k].id = o /\ drive'[k][o].era = folded[k]
                        /\ AcceptedVerbsCommitted'
      BY <1>1 DEF DrivesUnderOnePrimary
    <2>1. /\ primary = FirstPrimary /\ leading = {FirstPrimary} /\ AcceptedVerbsCommitted
          /\ \A k \in Nodes : \A o \in Messages : drive[k][o] # NotDriving =>
                              k = FirstPrimary /\ (Committed(o) \/ proposal[k] # NoProposal)
      BY Zenon DEF MembershipInv, DrivesUnderOnePrimary
    <2>2. n = FirstPrimary
      BY <2>1, <1>4, Zenon
    <2>3. AcceptedVerbsCommitted' /\ \A o \in Messages : Committed(o) => Committed(o)'
      BY <2>1, <1>1, Zenon DEF AcceptedVerbsCommitted, Committed
    <2>4. ASSUME NEW k \in Nodes, NEW o \in Messages, drive'[k][o] # NotDriving
          PROVE  /\ k = FirstPrimary
                 /\ \/ Committed(o)'
                    \/ proposal'[k] # NoProposal /\ proposal'[k].id = o /\ drive'[k][o].era = folded[k]
      <3>1. CASE k = n /\ o = m
        BY <3>1, <2>2, <1>6, <1>7, <1>12
      <3>2. CASE ~(k = n /\ o = m)
        <4>1. drive[k][o] # NotDriving
          BY <3>2, <2>4, <1>12, Zenon
        <4> QED BY <4>1, <2>1, <2>2, <2>3, <1>4, Zenon
      <3> QED BY <3>1, <3>2, Zenon
    <2> QED BY <2>1, <2>3, <2>4, Zenon
  <1> QED BY <1>8, <1>9, <1>13, <1>16, <1>17, <1>18, Zenon DEF MembershipInv, TypesInv
\* The end of a drive: its entry is settled and the drive is over.
LEMMA SettleKeeps ==
    ASSUME VerbTypes, CachesFit, NEW n \in Nodes, NEW m \in Messages, NEW ack \in AckNames, Settle(n, m, ack)
    PROVE  /\ VerbTypes' /\ CachesFit'
           /\ \A k \in Nodes : \A o \in Messages : drive'[k][o] # NotDriving => drive'[k][o] = drive[k][o]
  <1> DEFINE s == Settled(cache[n], m, ack)
  <1>1. /\ cache \in [Nodes -> Seq(Entries)] /\ OneEntryEach(cache[n])
        /\ drive \in [Nodes -> [Messages -> [era : Nat, slot : Nat]]]
        /\ acks \subseteq Entries
    BY Zenon DEF VerbTypes, CachesFit
  <1>2. /\ cache' = [cache EXCEPT ![n] = s]
        /\ acks' = acks \cup {[id |-> m, ack |-> ack]}
        /\ drive' = [drive EXCEPT ![n][m] = NotDriving]
    BY Zenon DEF Settle
  <1>3. /\ s \in Seq(Entries) /\ OneEntryEach(s)
        /\ \A o \in Messages \ {m} : Holds(cache[n], o) => Holds(s, o)
    BY <1>1, SettledKeeps, Zenon
  <1> HIDE DEF s
  <1>4. NotDriving \in [era : Nat, slot : Nat]
    BY Zenon DEF NotDriving
  <1>5. /\ drive' \in [Nodes -> [Messages -> [era : Nat, slot : Nat]]]
        /\ drive'[n][m] = NotDriving
        /\ \A o \in Messages \ {m} : drive'[n][o] = drive[n][o]
        /\ \A k \in Nodes \ {n} : drive'[k] = drive[k]
    BY <1>1, <1>2, <1>4, Zenon
  <1>6. \A o \in Messages : drive'[n][o] # NotDriving => Holds(s, o)
    <2>1. \A o \in Messages : drive[n][o] # NotDriving => Holds(cache[n], o)
      BY Zenon DEF CachesFit, DrivesStayCached, Holds
    <2> QED BY <2>1, <1>3, <1>5, Zenon
  <1>7. acks' \subseteq Entries
    BY <1>1, <1>2 DEF Entries
  <1>8. VerbTypes' /\ CachesFit'
    BY <1>2, <1>3, <1>5, <1>6, <1>7, CacheMoves, Zenon
  <1> QED BY <1>5, <1>8, Zenon

\* Under one primary a drive that ends accepted has its verb committed: the
\* era can only have moved by committing the outstanding proposal.
LEMMA SettleOnePrimary ==
    ASSUME MembershipInv, NEW n \in Nodes, NEW m \in Messages, NEW ack \in AckNames, Settle(n, m, ack),
           UNCHANGED coreVars, UNCHANGED faults, drive[n][m] # NotDriving,
           ack = "accepted" => EraAdvanced(n, m)
    PROVE  DrivesUnderOnePrimary'
  <1>1. VerbTypes /\ CachesFit /\ CoreTypes /\ DrivesUnderOnePrimary
    BY Zenon DEF MembershipInv, TypesInv
  <1> SUFFICES ASSUME faults.views = 0
               PROVE  /\ primary = FirstPrimary /\ leading = {FirstPrimary}
                      /\ \A k \in Nodes : \A o \in Messages : drive'[k][o] # NotDriving =>
                            /\ k = FirstPrimary
                            /\ \/ Committed(o)'
                               \/ proposal[k] # NoProposal /\ proposal[k].id = o /\ drive'[k][o].era = folded[k]
                      /\ AcceptedVerbsCommitted'
    BY DEF DrivesUnderOnePrimary, coreVars
  <1>2. \A o \in Messages : Committed(o) <=> Committed(o)'
    BY Zenon DEF Committed, coreVars
  <1>3. \A k \in Nodes : \A o \in Messages : drive'[k][o] # NotDriving => drive'[k][o] = drive[k][o]
    BY <1>1, SettleKeeps, Zenon
  <1>4. ack = "accepted" => Committed(m)
    <2>1. folded[n] \in Nat /\ (ack = "accepted" => folded[n] > drive[n][m].era)
      BY <1>1, CoreMembersTypes DEF EraAdvanced
    <2>2. Committed(m) \/ drive[n][m].era = folded[n]
      BY <1>1, Zenon DEF DrivesUnderOnePrimary
    <2> QED BY <2>1, <2>2
  <1>5. AcceptedVerbsCommitted'
    <2>1. AcceptedVerbsCommitted
      BY <1>1, Zenon DEF DrivesUnderOnePrimary
    <2>2. acks' = acks \cup {[id |-> m, ack |-> ack]} /\ configs' = configs
      BY Zenon DEF Settle, coreVars
    <2> QED BY <2>1, <2>2, <1>4 DEF AcceptedVerbsCommitted, Committed
  <1> QED BY <1>1, <1>2, <1>3, <1>5 DEF DrivesUnderOnePrimary

LEMMA DriveDeadlineKeeps ==
    ASSUME NEW n \in Nodes, NEW m \in Messages, MembershipInv, DriveDeadline(n, m)
    PROVE  MembershipInv'
  <1>1. /\ drive[n][m] # NotDriving /\ Settle(n, m, "deadline")
        /\ UNCHANGED <<coreVars, hostVars, net, faults>>
    BY Zenon DEF DriveDeadline
  <1>2. /\ VerbTypes /\ CachesFit /\ faults \in [views : Nat, others : Nat]
        /\ verbs' = verbs /\ "deadline" \in AckNames
    BY <1>1, Zenon DEF MembershipInv, TypesInv, CoreTypes, Settle, AckNames
  <1>3. VerbTypes' /\ CachesFit' /\ DrivesUnderOnePrimary'
    BY <1>1, <1>2, SettleKeeps, SettleOnePrimary, Zenon
  <1>4. CoreTypes' /\ ProposalsFit'
    BY <1>1, <1>2, CoreFrame, Zenon
  <1>5. HostTypes' /\ TalliesWereSent' /\ FloorsHold'
    BY <1>1, HostFrame, FloorFrame, Zenon DEF coreVars, hostVars
  <1> QED BY <1>3, <1>4, <1>5 DEF MembershipInv, TypesInv

LEMMA DriveEstablishedKeeps ==
    ASSUME NEW n \in Nodes, NEW m \in Messages, MembershipInv, DriveEstablished(n, m)
    PROVE  MembershipInv'
  <1> DEFINE verb == verbs[m]
             applies == ChangeApplies(model[n].members, verb)
             next == Model(model[n].era + 1, drive[n][m].slot, Changed(model[n].members, verb))
             leave == verb.action = "leave"
             left == IF leave THEN rows[n] \ {verb.id} ELSE rows[n]
             leaves == IF leave THEN {Change("leave", verb.id, n, r) : r \in rows[n] \ {n}} ELSE {}
             snaps == IF applies THEN {Snapshot(n, r, next) : r \in left \ {n}} ELSE {}
  <1>1. /\ drive[n][m] # NotDriving /\ EraAdvanced(n, m)
        /\ model' = IF applies THEN [model EXCEPT ![n] = next] ELSE model
        /\ rows' = [rows EXCEPT ![n] = left]
        /\ net' = (net \cup leaves) \cup snaps
        /\ Settle(n, m, "accepted")
        /\ UNCHANGED <<coreVars, disc, guard, sidecar, faults>>
    BY Zenon DEF DriveEstablished
  <1>2. /\ CoreTypes /\ HostTypes /\ VerbTypes /\ CachesFit /\ FloorsHold /\ TalliesWereSent
        /\ faults \in [views : Nat, others : Nat]
        /\ verbs' = verbs /\ "accepted" \in AckNames
    BY <1>1, Zenon DEF MembershipInv, TypesInv, CoreTypes, Settle, AckNames
  <1>3. VerbTypes' /\ CachesFit' /\ DrivesUnderOnePrimary'
    BY <1>1, <1>2, SettleKeeps, SettleOnePrimary, Zenon
  <1>4. CoreTypes' /\ ProposalsFit'
    BY <1>1, <1>2, CoreFrame, Zenon
  <1>5. /\ verb \in [action : Actions, id : Nodes] /\ model[n] \in Models
        /\ rows[n] \subseteq Nodes /\ rows \in [Nodes -> SUBSET Nodes]
        /\ model \in [Nodes -> Models] /\ drive[n][m].slot \in Nat
    BY <1>2, VerbTypesOf DEF HostTypes, VerbTypes
  <1>6. next \in Models /\ next.members = Changed(model[n].members, verb)
    <2>1. model[n].members \in Members /\ model[n].era \in Nat
      BY <1>5, Zenon DEF Models
    <2> QED BY <2>1, <1>5, ChangedIs DEF Models, Model
  <1>7. applies => Sound(next.members)
    <2> SUFFICES ASSUME applies PROVE Sound(Changed(model[n].members, verb))
      BY <1>6, Zenon
    <2>1. model[n].members \in Members /\ Sound(model[n].members)
      BY <1>2, <1>5, Zenon DEF Models, FloorsHold
    <2>2. Fits(model[n].members, verb)
      BY Zenon DEF ChangeApplies, Fits
    <2> QED BY <2>1, <2>2, <1>5, ChangeKeepsFloor, Zenon
  <1>8. left \in SUBSET Nodes
    BY <1>5, Zenon
  <1>9. leaves \subseteq ChangeMsgs
    BY <1>5 DEF Change, ChangeMsgs
  <1> HIDE DEF next, applies, left, leaves
  <1>10. snaps \subseteq SnapshotMsgs /\ \A msg \in snaps : applies /\ msg.snap = next
    BY <1>6, <1>8 DEF Snapshot, SnapshotMsgs
  <1> HIDE DEF snaps
  <1>11. model' \in [Nodes -> Models] /\ \A k \in Nodes : model'[k] = model[k] \/ (applies /\ model'[k] = next)
    BY <1>1, <1>5, <1>6, Zenon
  <1>12. HostTypes'
    <2>1. rows' \in [Nodes -> SUBSET Nodes]
      BY <1>1, <1>5, <1>8, Zenon
    <2>2. net' \subseteq SnapshotMsgs \cup ChangeMsgs
      BY <1>1, <1>2, <1>9, <1>10, Zenon DEF HostTypes
    <2> QED BY <2>1, <2>2, <1>1, <1>2, <1>11, Zenon DEF HostTypes
  <1>13. TalliesWereSent'
    BY <1>1, <1>2, Zenon DEF TalliesWereSent
  <1>14. FloorsHold'
    <2>1. \A e \in DOMAIN configs' : Sound(configs'[e].members)
      BY <1>1, <1>2, Zenon DEF FloorsHold, coreVars
    <2>2. \A k \in Nodes : Sound(model'[k].members) /\ Sound(sidecar'[k].members)
      BY <1>1, <1>2, <1>7, <1>11, Zenon DEF FloorsHold
    <2>3. \A msg \in net' : msg.kind = "snapshot" => Sound(msg.snap.members)
      <3>1. \A msg \in leaves : msg.kind # "snapshot"
        BY <1>9, Zenon DEF ChangeMsgs
      <3> QED BY <3>1, <1>1, <1>2, <1>7, <1>10, Zenon DEF FloorsHold
    <2> QED BY <2>1, <2>2, <2>3, Zenon DEF FloorsHold
  <1> QED BY <1>3, <1>4, <1>12, <1>13, <1>14, Zenon DEF MembershipInv, TypesInv

(* ------------------------ snapshots and broadcasts ---------------------- *)

\* A step of the host alone: the core and the verbs are as they were.
LEMMA HostStep ==
    ASSUME MembershipInv, UNCHANGED <<coreVars, verbVars>>, faults' \in [views : Nat, others : Nat],
           faults'.views = faults.views, HostTypes', TalliesWereSent', FloorsHold'
    PROVE  MembershipInv'
  <1>1. UNCHANGED <<coreVars, verbs>> /\ UNCHANGED <<cache, drive, acks>>
    BY Zenon DEF verbVars
  <1>2. CoreTypes' /\ ProposalsFit'
    BY <1>1, CoreFrame, Zenon
  <1>3. VerbTypes' /\ CachesFit' /\ DrivesUnderOnePrimary'
    BY <1>1, VerbFrame, OnePrimaryFrame, Zenon
  <1> QED BY <1>2, <1>3, Zenon DEF MembershipInv, TypesInv

LEMMA HostFacts ==
    ASSUME MembershipInv
    PROVE  /\ HostTypes /\ TalliesWereSent /\ FloorsHold /\ faults \in [views : Nat, others : Nat]
           /\ model \in [Nodes -> Models] /\ sidecar \in [Nodes -> Models]
           /\ rows \in [Nodes -> SUBSET Nodes] /\ disc \in [Nodes -> Discoveries]
           /\ guard \in [Nodes -> BOOLEAN] /\ net \subseteq SnapshotMsgs \cup ChangeMsgs
  BY Zenon DEF MembershipInv, TypesInv, HostTypes, CoreTypes

LEMMA AnswerRequestKeeps ==
    ASSUME NEW n \in Nodes, NEW r \in Nodes, MembershipInv, AnswerRequest(n, r)
    PROVE  MembershipInv'
  <1> DEFINE s == Snapshot(r, n, model[r])
  <1>1. net' = net \cup {s} /\ UNCHANGED <<coreVars, hostVars, verbVars, faults>>
    BY Zenon DEF AnswerRequest
  <1>2. s \in SnapshotMsgs /\ s.snap = model[r]
    BY HostFacts, Zenon DEF Snapshot, SnapshotMsgs
  <1> HIDE DEF s
  <1>3. HostTypes' /\ TalliesWereSent'
    BY <1>1, <1>2, HostFacts, Zenon DEF HostTypes, TalliesWereSent, hostVars
  <1>4. FloorsHold'
    BY <1>1, <1>2, HostFacts, Zenon DEF FloorsHold, hostVars, coreVars
  <1> QED BY <1>1, <1>3, <1>4, HostFacts, HostStep, Zenon
\* adopt_snapshot moves at most this process's model, to a newer one.
LEMMA AdoptMoves ==
    ASSUME HostTypes, FloorsHold, NEW n \in Nodes, NEW snap \in Models, Sound(snap.members),
           adopt_snapshot(n, snap)
    PROVE  /\ model' \in [Nodes -> Models] /\ rows' \in [Nodes -> SUBSET Nodes]
           /\ \A k \in Nodes : Sound(model'[k].members)
           /\ \A k \in Nodes : model'[k] = model[k] \/ (k = n /\ model'[k] = snap /\ newer(snap, model[k]))
  <1>1. model \in [Nodes -> Models] /\ rows \in [Nodes -> SUBSET Nodes]
    BY Zenon DEF HostTypes
  <1>2. \A k \in Nodes : model'[k] = model[k] \/ (k = n /\ model'[k] = snap /\ newer(snap, model[k]))
    BY <1>1, Zenon DEF adopt_snapshot, Adopts
  <1>3. model' \in [Nodes -> Models]
    BY <1>1, Zenon DEF adopt_snapshot
  <1>4. rows' \in [Nodes -> SUBSET Nodes]
    <2>1. {r \in Nodes : snap.members[r] # Absent} \subseteq Nodes
      BY Zenon
    <2> QED BY <2>1, <1>1, Zenon DEF adopt_snapshot
  <1> QED BY <1>2, <1>3, <1>4, Zenon DEF FloorsHold

\* A response a process takes in was sent to it, well formed and sound.
LEMMA ResponseFacts ==
    ASSUME MembershipInv, NEW n \in Nodes, NEW msg \in net, msg.kind = "snapshot", msg.to = n
    PROVE  /\ msg.from \in Nodes /\ msg.snap \in Models /\ Sound(msg.snap.members)
           /\ Snapshot(msg.from, n, msg.snap) \in net
  <1>1. msg \in SnapshotMsgs
    BY HostFacts, Zenon DEF ChangeMsgs
  <1>2. msg = [kind |-> "snapshot", from |-> msg.from, to |-> n, snap |-> msg.snap]
    BY <1>1, Zenon DEF SnapshotMsgs
  <1>3. Sound(msg.snap.members)
    BY HostFacts, Zenon DEF FloorsHold
  <1> QED BY <1>1, <1>2, <1>3, Zenon DEF SnapshotMsgs, Snapshot

\* Discovery's records keep their types, and a tally names a sent answer.
LEMMA DiscoveryMoves ==
    ASSUME MembershipInv, NEW n \in Nodes, NEW d \in Discoveries, disc' = [disc EXCEPT ![n] = d], net' = net,
           \A t \in d.tallies : Snapshot(t.id, n, t.snap) \in net
    PROVE  disc' \in [Nodes -> Discoveries] /\ TalliesWereSent'
  <1>1. disc \in [Nodes -> Discoveries] /\ TalliesWereSent
    BY HostFacts, Zenon
  <1>2. disc' \in [Nodes -> Discoveries] /\ disc'[n] = d /\ \A k \in Nodes \ {n} : disc'[k] = disc[k]
    BY <1>1, Zenon
  <1> QED BY <1>1, <1>2, Zenon DEF TalliesWereSent

LEMMA DiscoveryTypes ==
    ASSUME NEW done \in BOOLEAN, NEW m, m.era \in Nat, m.slot \in Nat
    PROVE  Discovery(done, m) \in Discoveries /\ Discovery(done, m).tallies = {}
  BY Zenon DEF Discovery, Discoveries

LEMMA TallyTypes ==
    ASSUME NEW d \in Discoveries, NEW id \in Nodes, NEW snap \in Models
    PROVE  /\ [d EXCEPT !.tallies = @ \cup {[id |-> id, snap |-> snap]}] \in Discoveries
           /\ [d EXCEPT !.tallies = @ \cup {[id |-> id, snap |-> snap]}].tallies
                 = d.tallies \cup {[id |-> id, snap |-> snap]}
  BY DEF Discoveries

LEMMA ResponseKeeps ==
    ASSUME NEW n \in Nodes, NEW msg \in net, MembershipInv, handle_snapshot_response(n, msg)
    PROVE  MembershipInv'
  <1> DEFINE snap == msg.snap
             from == msg.from
             mine == [id |-> from, snap |-> snap]
  <1>1. /\ msg.kind = "snapshot" /\ msg.to = n
        /\ UNCHANGED <<coreVars, guard, sidecar, verbVars, net, faults>>
    BY Zenon DEF handle_snapshot_response
  <1>2. /\ from \in Nodes /\ snap \in Models /\ Sound(snap.members)
        /\ Snapshot(from, n, snap) \in net
    BY <1>1, ResponseFacts, Zenon
  <1>3. snap.era \in Nat /\ snap.slot \in Nat
    BY <1>2, Zenon DEF Models
  <1>4. disc[n] \in Discoveries /\ \A t \in disc[n].tallies : Snapshot(t.id, n, t.snap) \in net
    BY HostFacts, Zenon DEF TalliesWereSent
  <1>5. HostTypes /\ FloorsHold /\ net \subseteq SnapshotMsgs \cup ChangeMsgs
    BY HostFacts, Zenon
  <1>6. ASSUME NEW d \in Discoveries, disc' = [disc EXCEPT ![n] = d],
               \A t \in d.tallies : Snapshot(t.id, n, t.snap) \in net,
               model' \in [Nodes -> Models], rows' \in [Nodes -> SUBSET Nodes],
               \A k \in Nodes : Sound(model'[k].members)
        PROVE  MembershipInv'
    <2>1. disc' \in [Nodes -> Discoveries] /\ TalliesWereSent'
      BY <1>1, <1>6, DiscoveryMoves, Zenon
    <2>2. HostTypes'
      BY <2>1, <1>1, <1>5, <1>6, Zenon DEF HostTypes
    <2>3. FloorsHold'
      BY <1>1, <1>5, <1>6, Zenon DEF FloorsHold, coreVars
    <2> QED BY <2>1, <2>2, <2>3, <1>1, HostFacts, HostStep, Zenon
  <1>7. model \in [Nodes -> Models] /\ rows \in [Nodes -> SUBSET Nodes] /\ \A k \in Nodes : Sound(model[k].members)
    BY HostFacts, Zenon DEF FloorsHold
  <1>8. CASE Escalate(n, snap)
    <2>1. /\ disc' = [disc EXCEPT ![n] = Discovery(FALSE, snap)] /\ model' = model
          /\ rows' = [rows EXCEPT ![n] = @ \cup {r \in Nodes : snap.members[r] # Absent}]
      BY <1>8, Zenon DEF Escalate
    <2>2. rows' \in [Nodes -> SUBSET Nodes]
      BY <2>1, <1>7, Zenon
    <2>3. Discovery(FALSE, snap) \in Discoveries /\ Discovery(FALSE, snap).tallies = {}
      BY <1>3, DiscoveryTypes, Zenon
    <2> QED BY <2>1, <2>2, <2>3, <1>6, <1>7, Zenon
  <1>9. CASE Tally(n, from, snap)
    <2>1. CASE quorum_reached(snap.members, {from} \cup {t.id : t \in {u \in disc[n].tallies : u.snap = snap}})
      <3>1. adopt_snapshot(n, snap) /\ disc' = [disc EXCEPT ![n] = Discovery(TRUE, disc[n])]
        BY <1>9, <2>1, Zenon DEF Tally
      <3>2. disc[n].era \in Nat /\ disc[n].slot \in Nat
        BY <1>4, Zenon DEF Discoveries
      <3>3. Discovery(TRUE, disc[n]) \in Discoveries /\ Discovery(TRUE, disc[n]).tallies = {}
        BY <3>2, DiscoveryTypes, Zenon
      <3>4. /\ model' \in [Nodes -> Models] /\ rows' \in [Nodes -> SUBSET Nodes]
            /\ \A k \in Nodes : Sound(model'[k].members)
        BY <3>1, <1>2, <1>5, AdoptMoves, Zenon
      <3> QED BY <3>1, <3>3, <3>4, <1>6, Zenon
    <2>2. CASE ~quorum_reached(snap.members, {from} \cup {t.id : t \in {u \in disc[n].tallies : u.snap = snap}})
      <3> DEFINE d == [disc[n] EXCEPT !.tallies = @ \cup {mine}]
      <3>1. disc' = [disc EXCEPT ![n].tallies = @ \cup {mine}] /\ model' = model /\ rows' = rows
        BY <1>9, <2>2, Zenon DEF Tally
      <3>2. disc' = [disc EXCEPT ![n] = d]
        BY <3>1, Zenon
      <3>3. d \in Discoveries /\ d.tallies = disc[n].tallies \cup {mine}
        BY <1>2, <1>4, TallyTypes
      <3>4. \A t \in d.tallies : Snapshot(t.id, n, t.snap) \in net
        BY <3>3, <1>2, <1>4
      <3> HIDE DEF d
      <3> QED BY <3>1, <3>2, <3>3, <3>4, <1>6, <1>7, Zenon
    <2> QED BY <2>1, <2>2, Zenon
  <1>10. CASE Disseminated(n, snap)
    <2>1. adopt_snapshot(n, snap) /\ disc' = disc
      BY <1>10, Zenon DEF Disseminated
    <2>2. disc' = [disc EXCEPT ![n] = disc[n]]
      BY <2>1, HostFacts, Zenon
    <2>3. /\ model' \in [Nodes -> Models] /\ rows' \in [Nodes -> SUBSET Nodes]
          /\ \A k \in Nodes : Sound(model'[k].members)
      BY <2>1, <1>2, <1>5, AdoptMoves, Zenon
    <2> QED BY <2>2, <2>3, <1>4, <1>6, Zenon
  <1> QED BY <1>8, <1>9, <1>10, Zenon DEF handle_snapshot_response

LEMMA ReceiveChangeKeeps ==
    ASSUME NEW n \in Nodes, NEW msg \in net, MembershipInv, ReceiveChange(n, msg)
    PROVE  MembershipInv'
  <1>1. /\ msg.kind \in {"join", "leave"}
        /\ rows' = [rows EXCEPT ![n] = IF msg.kind = "join" THEN @ \cup {msg.id} ELSE @ \ {msg.id}]
        /\ UNCHANGED <<coreVars, model, disc, guard, sidecar, verbVars, net, faults>>
    BY Zenon DEF ReceiveChange
  <1>2. msg.id \in Nodes
    BY <1>1, HostFacts, Zenon DEF SnapshotMsgs, ChangeMsgs
  <1>3. rows' \in [Nodes -> SUBSET Nodes]
    BY <1>1, <1>2, HostFacts, Zenon
  <1>4. HostTypes' /\ TalliesWereSent' /\ FloorsHold'
    BY <1>1, <1>3, RowsFrame, FloorFrame, Zenon DEF coreVars
  <1> QED BY <1>1, <1>4, HostFacts, HostStep, Zenon

LEMMA DiscoveryDeadlineKeeps ==
    ASSUME NEW n \in Nodes, MembershipInv, DiscoveryDeadline(n)
    PROVE  MembershipInv'
  <1> DEFINE d == [disc[n] EXCEPT !.done = TRUE]
  <1>1. /\ disc' = [disc EXCEPT ![n].done = TRUE]
        /\ UNCHANGED <<coreVars, model, rows, guard, sidecar, verbVars, net, faults>>
    BY Zenon DEF DiscoveryDeadline
  <1>2. disc[n] \in Discoveries /\ TalliesWereSent /\ HostTypes
    BY HostFacts, Zenon
  <1>3. d \in Discoveries /\ d.tallies = disc[n].tallies
    BY <1>2, Zenon DEF Discoveries
  <1>4. disc' = [disc EXCEPT ![n] = d]
    BY <1>1, Zenon
  <1> HIDE DEF d
  <1>5. disc' \in [Nodes -> Discoveries] /\ TalliesWereSent'
    <2>1. \A t \in d.tallies : Snapshot(t.id, n, t.snap) \in net
      BY <1>2, <1>3, Zenon DEF TalliesWereSent
    <2> QED BY <2>1, <1>1, <1>3, <1>4, DiscoveryMoves, Zenon
  <1>6. HostTypes' /\ FloorsHold'
    BY <1>1, <1>2, <1>5, FloorFrame, Zenon DEF HostTypes, coreVars
  <1> QED BY <1>1, <1>5, <1>6, HostFacts, HostStep, Zenon

LEMMA WriteBehindKeeps ==
    ASSUME NEW n \in Nodes, MembershipInv, WriteBehind(n)
    PROVE  MembershipInv'
  <1>1. /\ sidecar' = [sidecar EXCEPT ![n] = model[n]]
        /\ UNCHANGED <<coreVars, model, rows, disc, guard, verbVars, net, faults>>
    BY Zenon DEF WriteBehind
  <1>2. /\ sidecar' \in [Nodes -> Models]
        /\ \A k \in Nodes : sidecar'[k] = sidecar[k] \/ sidecar'[k] = model[n]
    BY <1>1, HostFacts, Zenon
  <1>3. HostTypes' /\ TalliesWereSent'
    BY <1>1, <1>2, HostFacts, Zenon DEF HostTypes, TalliesWereSent
  <1>4. FloorsHold'
    BY <1>1, <1>2, HostFacts, Zenon DEF FloorsHold, coreVars
  <1> QED BY <1>1, <1>3, <1>4, HostFacts, HostStep, Zenon

LEMMA QuarantineKeeps ==
    ASSUME NEW n \in Nodes, MembershipInv, Quarantine(n)
    PROVE  MembershipInv'
  <1>1. /\ guard' = [guard EXCEPT ![n] = TRUE]
        /\ faults' = [faults EXCEPT !.others = @ + 1]
        /\ UNCHANGED <<coreVars, model, rows, disc, sidecar, verbVars, net>>
    BY Zenon DEF Quarantine
  <1>2. faults' \in [views : Nat, others : Nat] /\ faults'.views = faults.views
    <2>1. faults \in [views : Nat, others : Nat]
      BY HostFacts, Zenon
    <2> QED BY <2>1, <1>1
  <1>3. HostTypes' /\ TalliesWereSent'
    <2>1. guard' \in [Nodes -> BOOLEAN]
      BY <1>1, HostFacts, Zenon
    <2> QED BY <2>1, <1>1, HostFacts, Zenon DEF HostTypes, TalliesWereSent
  <1>4. FloorsHold'
    BY <1>1, FloorFrame, Zenon DEF coreVars
  <1> QED BY <1>1, <1>2, <1>3, <1>4, HostStep, Zenon
LEMMA RestartKeeps ==
    ASSUME NEW n \in Nodes, MembershipInv, Restart(n)
    PROVE  MembershipInv'
  <1> DEFINE boot == IF sidecar[n] = NoSidecar THEN DescriptorModel ELSE sidecar[n]
             idle == [m \in Messages |-> NotDriving]
  <1>1. /\ n # primary
        /\ model' = [model EXCEPT ![n] = boot]
        /\ rows' = [rows EXCEPT ![n] = DescriptorRows(n)]
        /\ disc' = [disc EXCEPT ![n] = Discovery(FALSE, boot)]
        /\ guard' = [guard EXCEPT ![n] = FALSE]
        /\ cache' = [cache EXCEPT ![n] = <<>>]
        /\ drive' = [drive EXCEPT ![n] = idle]
        /\ folded' = [folded EXCEPT ![n] = 1]
        /\ leading' = leading \ {n}
        /\ proposal' = [proposal EXCEPT ![n] = NoProposal]
        /\ faults' = [faults EXCEPT !.others = @ + 1]
        /\ UNCHANGED <<configs, primary, sidecar, acks, verbs, net>>
    BY Zenon DEF Restart
  <1>2. CoreTypes /\ VerbTypes /\ ProposalsFit /\ CachesFit /\ DrivesUnderOnePrimary
    BY Zenon DEF MembershipInv, TypesInv
  <1>3. boot \in Models /\ Sound(boot.members)
    BY HostFacts, DescriptorSound, Zenon DEF FloorsHold
  <1> HIDE DEF boot
  <1>4. faults' \in [views : Nat, others : Nat] /\ faults'.views = faults.views
    <2>1. faults \in [views : Nat, others : Nat]
      BY HostFacts
    <2> QED BY <2>1, <1>1
  <1>5. /\ folded \in [Nodes -> 1..Len(configs)] /\ 1 \in 1..Len(configs)
        /\ proposal \in [Nodes -> {NoProposal} \cup [id : Messages, slot : Nat]]
    <2>1. folded \in [Nodes -> 1..Len(configs)] /\ folded[n] \in 1..Len(configs) /\ Len(configs) \in Nat
      BY <1>2, CoreMembersTypes, Zenon DEF CoreTypes
    <2> QED BY <2>1, <1>2 DEF CoreTypes
  <1>6. /\ \A k \in Nodes \ {n} : folded'[k] = folded[k] /\ proposal'[k] = proposal[k]
        /\ folded' \in [Nodes -> 1..Len(configs)] /\ proposal'[n] = NoProposal
        /\ proposal' \in [Nodes -> {NoProposal} \cup [id : Messages, slot : Nat]]
    BY <1>1, <1>5, Zenon
  <1>7. CoreTypes'
    BY <1>1, <1>2, <1>4, <1>6, Zenon DEF CoreTypes
  <1>8. ProposalsFit'
    <2>1. folded'[primary'] = Len(configs')
      BY <1>1, <1>2, <1>6, Zenon DEF ProposalsFit, CoreTypes
    <2>2. ASSUME NEW k \in Nodes, proposal'[k] # NoProposal
          PROVE  k \in leading' /\ Fits(CoreMembers(k)', verbs'[proposal'[k].id])
      <3>1. k # n /\ proposal'[k] = proposal[k] /\ folded'[k] = folded[k]
        BY <2>2, <1>6, Zenon
      <3>2. CoreMembers(k)' = CoreMembers(k)
        BY <3>1, <1>1, Zenon DEF CoreMembers
      <3> QED BY <3>1, <3>2, <2>2, <1>1, <1>2, Zenon DEF ProposalsFit
    <2> QED BY <2>1, <2>2, Zenon DEF ProposalsFit
  <1>9. /\ drive \in [Nodes -> [Messages -> [era : Nat, slot : Nat]]]
        /\ drive' \in [Nodes -> [Messages -> [era : Nat, slot : Nat]]]
        /\ \A m \in Messages : drive'[n][m] = NotDriving
        /\ \A k \in Nodes \ {n} : drive'[k] = drive[k]
    <2>1. drive \in [Nodes -> [Messages -> [era : Nat, slot : Nat]]]
      BY <1>2, Zenon DEF VerbTypes
    <2>2. idle \in [Messages -> [era : Nat, slot : Nat]]
      BY Zenon DEF NotDriving
    <2> QED BY <2>1, <2>2, <1>1, Zenon
  <1>10. VerbTypes' /\ CachesFit'
    <2>1. <<>> \in Seq(Entries) /\ OneEntryEach(<<>>)
      BY DEF OneEntryEach
    <2>2. acks' \subseteq Entries
      BY <1>1, <1>2, Zenon DEF VerbTypes
    <2> QED BY <2>1, <2>2, <1>1, <1>2, <1>9, CacheMoves, Zenon
  <1>11. HostTypes' /\ TalliesWereSent'
    <2>1. boot.era \in Nat /\ boot.slot \in Nat
      BY <1>3, Zenon DEF Models
    <2>2. Discovery(FALSE, boot) \in Discoveries /\ Discovery(FALSE, boot).tallies = {}
      BY <2>1, DiscoveryTypes, Zenon
    <2>3. disc' \in [Nodes -> Discoveries] /\ TalliesWereSent'
      BY <2>2, <1>1, DiscoveryMoves, Zenon
    <2>4. DescriptorRows(n) \subseteq Nodes
      BY MembershipAssumption, Zenon DEF DescriptorRows
    <2>5. rows' \in [Nodes -> SUBSET Nodes] /\ model' \in [Nodes -> Models] /\ guard' \in [Nodes -> BOOLEAN]
      BY <2>4, <1>1, <1>3, HostFacts, Zenon
    <2> QED BY <2>3, <2>5, <1>1, HostFacts, Zenon DEF HostTypes
  <1>12. FloorsHold'
    <2>1. \A k \in Nodes : model'[k] = model[k] \/ model'[k] = boot
      BY <1>1, HostFacts, Zenon
    <2> QED BY <2>1, <1>1, <1>3, HostFacts, Zenon DEF FloorsHold
  <1>13. DrivesUnderOnePrimary'
    <2> SUFFICES ASSUME faults.views = 0
                 PROVE  /\ primary = FirstPrimary /\ leading' = {FirstPrimary}
                        /\ \A k \in Nodes : \A m \in Messages : drive'[k][m] # NotDriving =>
                              /\ k = FirstPrimary
                              /\ \/ Committed(m)'
                                 \/ proposal'[k] # NoProposal /\ proposal'[k].id = m /\ drive'[k][m].era = folded'[k]
                        /\ AcceptedVerbsCommitted'
      BY <1>1, <1>4, Zenon DEF DrivesUnderOnePrimary
    <2>1. /\ primary = FirstPrimary /\ leading = {FirstPrimary} /\ AcceptedVerbsCommitted
          /\ \A k \in Nodes : \A m \in Messages : drive[k][m] # NotDriving =>
                /\ k = FirstPrimary
                /\ \/ Committed(m)
                   \/ proposal[k] # NoProposal /\ proposal[k].id = m /\ drive[k][m].era = folded[k]
      BY <1>2, Zenon DEF DrivesUnderOnePrimary
    <2>2. n # FirstPrimary /\ leading' = {FirstPrimary}
      BY <2>1, <1>1, Zenon
    <2>3. AcceptedVerbsCommitted' /\ \A m \in Messages : Committed(m) => Committed(m)'
      BY <2>1, <1>1, Zenon DEF AcceptedVerbsCommitted, Committed
    <2>4. ASSUME NEW k \in Nodes, NEW m \in Messages, drive'[k][m] # NotDriving
          PROVE  /\ k = FirstPrimary
                 /\ \/ Committed(m)'
                    \/ proposal'[k] # NoProposal /\ proposal'[k].id = m /\ drive'[k][m].era = folded'[k]
      <3>1. k # n
        BY <2>4, <1>9, Zenon
      <3>2. drive'[k][m] = drive[k][m] /\ proposal'[k] = proposal[k] /\ folded'[k] = folded[k]
        BY <3>1, <1>6, <1>9, Zenon
      <3>3. drive[k][m] # NotDriving
        BY <3>2, <2>4, Zenon
      <3> QED BY <3>2, <3>3, <2>1, <2>3
    <2> QED BY <2>1, <2>2, <2>3, <2>4, Zenon
  <1> QED BY <1>7, <1>8, <1>10, <1>11, <1>12, <1>13, Zenon DEF MembershipInv, TypesInv

(* ------------------------------- the theorems --------------------------- *)

LEMMA NextInv == MembershipInv /\ [Next]_vars => MembershipInv'
  <1> SUFFICES ASSUME MembershipInv, [Next]_vars PROVE MembershipInv'
    BY Zenon
  <1>1. CASE UNCHANGED vars
    <2>1. /\ UNCHANGED <<coreVars, verbVars>> /\ UNCHANGED hostVars /\ UNCHANGED net /\ UNCHANGED faults
      BY <1>1, Zenon DEF vars
    <2>2. HostTypes' /\ TalliesWereSent' /\ FloorsHold'
      BY <2>1, HostFrame, FloorFrame, Zenon DEF hostVars, coreVars
    <2> QED BY <2>1, <2>2, HostFacts, HostStep, Zenon
  <1>2. CASE Commit
    BY <1>2, CommitKeeps, Zenon
  <1>3. ASSUME NEW n \in Nodes, Fold(n) \/ ViewChange(n) \/ LearnView(n)
        PROVE  MembershipInv'
    BY <1>3, FoldKeeps, ViewChangeKeeps, LearnViewKeeps, Zenon
  <1>4. ASSUME NEW n \in Nodes, NEW m \in Messages,
               \/ DriveFloor(n, m) \/ DriveRejected(n, m) \/ DriveNotPrimary(n, m)
               \/ DriveProposed(n, m) \/ DriveEstablished(n, m) \/ DriveDeadline(n, m)
        PROVE  MembershipInv'
    BY <1>4, DriveFloorKeeps, DriveRejectedKeeps, DriveNotPrimaryKeeps, DriveProposedKeeps,
       DriveEstablishedKeeps, DriveDeadlineKeeps, Zenon
  <1>5. ASSUME NEW n \in Nodes, NEW r \in Nodes, AnswerRequest(n, r)
        PROVE  MembershipInv'
    BY <1>5, AnswerRequestKeeps, Zenon
  <1>6. ASSUME NEW n \in Nodes, NEW msg \in net, handle_snapshot_response(n, msg) \/ ReceiveChange(n, msg)
        PROVE  MembershipInv'
    BY <1>6, ResponseKeeps, ReceiveChangeKeeps, Zenon
  <1>7. ASSUME NEW n \in Nodes, DiscoveryDeadline(n) \/ WriteBehind(n) \/ Quarantine(n) \/ Restart(n)
        PROVE  MembershipInv'
    BY <1>7, DiscoveryDeadlineKeeps, WriteBehindKeeps, QuarantineKeeps, RestartKeeps, Zenon
  <1> QED BY <1>1, <1>2, <1>3, <1>4, <1>5, <1>6, <1>7, Zenon DEF Next

\* The inductive invariant holds in every reachable state.
THEOREM MembershipInvHolds == Spec => []MembershipInv
  BY InitInv, NextInv, PTL DEF Spec

LEMMA TypesFollow == MembershipInv => TypeOK
  <1> SUFFICES ASSUME MembershipInv PROVE TypeOK
    BY Zenon
  <1> DEFINE Cs == [id : Messages \cup {"genesis"}, slot : Nat, members : Members]
  <1>1. CoreTypes /\ VerbTypes /\ CachesFit
    BY Zenon DEF MembershipInv, TypesInv
  <1>2. \A e \in DOMAIN configs : configs[e].slot \in Nat /\ configs[e].members \in Members
    <2>1. configs \in Seq(Cs)
      BY <1>1, Zenon DEF CoreTypes
    <2> HIDE DEF Cs
    <2>2. \A e \in DOMAIN configs : configs[e] \in Cs
      BY <2>1
    <2> QED BY <2>2, Zenon DEF Cs
  <1>3. \A n \in Nodes : proposal[n].id \in Messages \cup {"none"} /\ proposal[n].slot \in Nat
    BY <1>1 DEF CoreTypes, NoProposal
  <1>4. \A n \in Nodes : disc[n].done \in BOOLEAN /\ disc[n].era \in Nat /\ disc[n].slot \in Nat
    BY HostFacts, Zenon DEF Discoveries
  <1>5. \A n \in Nodes : \A i, j \in DOMAIN cache[n] :
          cache[n][i].id \in Messages /\ (cache[n][i].id = cache[n][j].id => i = j)
    <2> SUFFICES ASSUME NEW n \in Nodes, NEW i \in DOMAIN cache[n], NEW j \in DOMAIN cache[n]
                 PROVE  cache[n][i].id \in Messages /\ (cache[n][i].id = cache[n][j].id => i = j)
      BY Zenon
    <2>1. cache[n] \in Seq(Entries) /\ OneEntryEach(cache[n])
      BY <1>1, Zenon DEF VerbTypes, CachesFit
    <2>2. cache[n][i] \in Entries
      BY <2>1
    <2> QED BY <2>1, <2>2, Zenon DEF OneEntryEach, Entries
  <1>6. \A n \in Nodes : \A m \in Messages : drive[n][m].era \in Nat /\ drive[n][m].slot \in Nat
    BY <1>1, Zenon DEF VerbTypes
  <1>7. {a.id : a \in acks} \subseteq Messages
    BY <1>1 DEF VerbTypes, Entries
  <1> QED BY <1>1, <1>2, <1>3, <1>4, <1>5, <1>6, <1>7, HostFacts, Zenon DEF TypeOK, CoreTypes

\* apply_change and Node::reconfigure: no committed configuration, model,
\* sidecar or datagram ever has fewer than the minimum of voters.
THEOREM FloorHolds == Spec => []VotingFloorHolds
  <1>1. MembershipInv => VotingFloorHolds
    BY TypesFollow, Zenon DEF MembershipInv, FloorsHold, VotingFloorHolds, Sound
  <1> QED BY <1>1, MembershipInvHolds, PTL

\* handle_admin under one primary: an accepted verb is a committed one.
THEOREM AcceptedIsCommitted == Spec => []AcceptedUnderOnePrimary
  <1>1. MembershipInv => AcceptedUnderOnePrimary
    BY Zenon DEF MembershipInv, DrivesUnderOnePrimary, AcceptedUnderOnePrimary
  <1> QED BY <1>1, MembershipInvHolds, PTL

\* cache_claim: a drive in flight keeps its entry, whatever else is claimed,
\* released or settled.
THEOREM DrivesCached == Spec => []DrivesStayCached
  <1>1. MembershipInv => DrivesStayCached
    BY Zenon DEF MembershipInv, CachesFit
  <1> QED BY <1>1, MembershipInvHolds, PTL

\* One step takes a model forward, leaves it, or is the restart of its process.
LEMMA StepMovesForward ==
    ASSUME MembershipInv, Next, NEW k \in Nodes
    PROVE  model'[k] = model[k] \/ newer(model'[k], model[k]) \/ Restart(k)
  <1>1. CASE UNCHANGED model
    BY <1>1, Zenon
  <1>2. ASSUME NEW n \in Nodes, NEW m \in Messages, DriveEstablished(n, m)
        PROVE  model'[k] = model[k] \/ newer(model'[k], model[k])
    <2> DEFINE next == Model(model[n].era + 1, drive[n][m].slot, Changed(model[n].members, verbs[m]))
    <2>1. model' = model \/ model' = [model EXCEPT ![n] = next]
      BY <1>2, Zenon DEF DriveEstablished
    <2>2. model[n].era \in Nat /\ model \in [Nodes -> Models]
      BY HostFacts, Zenon DEF Models
    <2>3. next.era = model[n].era + 1
      BY Zenon DEF Model
    <2> HIDE DEF next
    <2> QED BY <2>1, <2>2, <2>3 DEF newer
  <1>3. ASSUME NEW n \in Nodes, NEW msg \in net, handle_snapshot_response(n, msg)
        PROVE  model'[k] = model[k] \/ newer(model'[k], model[k])
    <2>1. msg.kind = "snapshot" /\ msg.to = n
      BY <1>3, Zenon DEF handle_snapshot_response
    <2>2. msg.snap \in Models /\ Sound(msg.snap.members)
      BY <2>1, ResponseFacts, Zenon
    <2>3. UNCHANGED model \/ adopt_snapshot(n, msg.snap)
      BY <1>3, Zenon DEF handle_snapshot_response, Escalate, Tally, Disseminated
    <2> QED BY <2>2, <2>3, HostFacts, AdoptMoves, Zenon
  <1>4. ASSUME NEW n \in Nodes, Restart(n)
        PROVE  model'[k] = model[k] \/ Restart(k)
    BY <1>4, HostFacts, Zenon DEF Restart
  <1>5. CASE Commit
    BY <1>5, Zenon DEF Commit, hostVars
  <1>6. ASSUME NEW n \in Nodes, Fold(n) \/ ViewChange(n) \/ LearnView(n)
        PROVE  UNCHANGED model
    BY <1>6, Zenon DEF Fold, ViewChange, LearnView, hostVars
  <1>7. ASSUME NEW n \in Nodes, NEW m \in Messages,
               \/ DriveFloor(n, m) \/ DriveRejected(n, m) \/ DriveNotPrimary(n, m)
               \/ DriveProposed(n, m) \/ DriveDeadline(n, m)
        PROVE  UNCHANGED model
    BY <1>7, Zenon DEF DriveFloor, DriveRejected, DriveNotPrimary, DriveProposed, DriveDeadline, hostVars
  <1>8. ASSUME NEW n \in Nodes, NEW r \in Nodes, AnswerRequest(n, r)
        PROVE  UNCHANGED model
    BY <1>8, Zenon DEF AnswerRequest, hostVars
  <1>9. ASSUME NEW n \in Nodes, NEW msg \in net, ReceiveChange(n, msg)
        PROVE  UNCHANGED model
    BY <1>9, Zenon DEF ReceiveChange
  <1>10. ASSUME NEW n \in Nodes, DiscoveryDeadline(n) \/ WriteBehind(n) \/ Quarantine(n)
         PROVE  UNCHANGED model
    BY <1>10, Zenon DEF DiscoveryDeadline, WriteBehind, Quarantine
  <1> QED BY <1>1, <1>2, <1>3, <1>4, <1>5, <1>6, <1>7, <1>8, <1>9, <1>10, Zenon DEF Next
\* A tally that reaches its quorum: every voter of the adopted list whose
\* answer counts sent that list to this process.
LEMMA TallyIsMajority ==
    ASSUME MembershipInv, NEW n \in Nodes, NEW from \in Nodes, NEW snap \in Models,
           Snapshot(from, n, snap) \in net,
           quorum_reached(snap.members, {from} \cup {t.id : t \in {u \in disc[n].tallies : u.snap = snap}})
    PROVE  LET voters == voting_members(snap.members)
           IN 2 * Cardinality({v \in voters : Snapshot(v, n, snap) \in net}) > Cardinality(voters)
  <1> DEFINE ids == {from} \cup {t.id : t \in {u \in disc[n].tallies : u.snap = snap}}
             voters == voting_members(snap.members)
             senders == {v \in voters : Snapshot(v, n, snap) \in net}
  <1>1. disc[n] \in Discoveries /\ \A t \in disc[n].tallies : Snapshot(t.id, n, t.snap) \in net
    BY HostFacts, Zenon DEF TalliesWereSent
  <1>2. \A v \in ids : v \in Nodes /\ Snapshot(v, n, snap) \in net
    BY <1>1, Zenon DEF Discoveries
  <1>3. snap.members \in Members /\ ids \in SUBSET Nodes
    BY <1>2, Zenon DEF Models
  <1>4. quorum_reached(snap.members, ids)
    BY Zenon
  <1> HIDE DEF ids
  <1>5. 2 * Cardinality(ids \cap voters) > Cardinality(voters)
    BY <1>3, <1>4, QuorumIsMajority, Zenon
  <1>6. ids \cap voters \subseteq senders /\ senders \subseteq voters
    BY <1>2, Zenon
  <1>7. IsFiniteSet(voters) /\ Cardinality(voters) \in Nat
    BY VotersFinite, Zenon
  <1> HIDE DEF voters, senders
  <1>8. IsFiniteSet(senders) /\ Cardinality(senders) \in Nat
    BY <1>6, <1>7, FS_Subset, FS_CardinalityType, Zenon
  <1>9. Cardinality(ids \cap voters) <= Cardinality(senders) /\ Cardinality(ids \cap voters) \in Nat
    BY <1>6, <1>8, FS_Subset, FS_CardinalityType, Zenon
  <1>10. 2 * Cardinality(senders) > Cardinality(voters)
    BY <1>5, <1>7, <1>8, <1>9
  <1> QED BY <1>10, Zenon DEF voters, senders

LEMMA StepAdoptsAQuorum ==
    ASSUME MembershipInv, Next, NEW k \in Nodes, disc'[k].done, ~disc[k].done, model'[k] # model[k]
    PROVE  LET voters == voting_members(model'[k].members)
           IN 2 * Cardinality({v \in voters : Snapshot(v, k, model'[k]) \in net}) > Cardinality(voters)
  <1>1. ~(UNCHANGED model) /\ ~(UNCHANGED disc)
    BY Zenon
  <1>2. ~Commit
    BY <1>1, Zenon DEF Commit, hostVars
  <1>3. \A n \in Nodes : ~(Fold(n) \/ ViewChange(n) \/ LearnView(n))
    BY <1>1, Zenon DEF Fold, ViewChange, LearnView, hostVars
  <1>4. \A n \in Nodes, m \in Messages :
           ~(\/ DriveFloor(n, m) \/ DriveRejected(n, m) \/ DriveNotPrimary(n, m)
             \/ DriveProposed(n, m) \/ DriveEstablished(n, m) \/ DriveDeadline(n, m))
    BY <1>1 DEF DriveFloor, DriveRejected, DriveNotPrimary, DriveProposed, DriveEstablished, DriveDeadline, hostVars
  <1>5. \A n \in Nodes, r \in Nodes : ~AnswerRequest(n, r)
    BY <1>1, Zenon DEF AnswerRequest, hostVars
  <1>6. \A n \in Nodes, msg \in net : ~ReceiveChange(n, msg)
    BY <1>1, Zenon DEF ReceiveChange
  <1>7. \A n \in Nodes : ~(DiscoveryDeadline(n) \/ WriteBehind(n) \/ Quarantine(n))
    BY <1>1, Zenon DEF DiscoveryDeadline, WriteBehind, Quarantine
  <1>8. \A n \in Nodes : ~Restart(n)
    <2> SUFFICES ASSUME NEW n \in Nodes, Restart(n) PROVE FALSE
      BY Zenon
    <2>1. PICK boot : /\ model' = [model EXCEPT ![n] = boot]
                      /\ disc' = [disc EXCEPT ![n] = Discovery(FALSE, boot)]
      BY Zenon DEF Restart
    <2>2. k = n
      BY <2>1, HostFacts, Zenon
    <2>3. disc'[k] = Discovery(FALSE, boot)
      BY <2>1, <2>2, HostFacts, Zenon
    <2> QED BY <2>3 DEF Discovery
  <1>9. PICK n \in Nodes, msg \in net : handle_snapshot_response(n, msg)
    BY <1>2, <1>3, <1>4, <1>5, <1>6, <1>7, <1>8, Zenon DEF Next
  <1>10. msg.kind = "snapshot" /\ msg.to = n
    BY <1>9, Zenon DEF handle_snapshot_response
  <1>11. /\ msg.from \in Nodes /\ msg.snap \in Models /\ Sound(msg.snap.members)
         /\ Snapshot(msg.from, n, msg.snap) \in net
    BY <1>10, ResponseFacts, Zenon
  <1>12. Tally(n, msg.from, msg.snap)
    BY <1>1, <1>9, Zenon DEF handle_snapshot_response, Escalate, Disseminated
  <1>13. /\ quorum_reached(msg.snap.members, {msg.from} \cup {t.id : t \in {u \in disc[n].tallies : u.snap = msg.snap}})
         /\ adopt_snapshot(n, msg.snap)
    BY <1>1, <1>12, ZenonT(30) DEF Tally
  <1>14. k = n /\ model'[k] = msg.snap
    BY <1>11, <1>13, HostFacts, AdoptMoves
  <1> QED BY <1>11, <1>13, <1>14, TallyIsMajority

\* adopt_snapshot, handle_snapshot_response and the admin drive: a model only
\* moves forward within a run of its process, and what discovery adopts was
\* sent by a majority of the voters it names.
THEOREM AdoptionSound == Spec => AdoptionIsSound
  <1>1. MembershipInv /\ [Next]_vars =>
          [\A n \in Nodes : model'[n] = model[n] \/ newer(model'[n], model[n]) \/ Restart(n)]_vars
    BY StepMovesForward, Zenon
  <1>2. MembershipInv /\ [Next]_vars =>
          [\A n \in Nodes :
             disc'[n].done /\ ~disc[n].done /\ model'[n] # model[n] =>
               LET voters == voting_members(model'[n].members)
               IN 2 * Cardinality({v \in voters : Snapshot(v, n, model'[n]) \in net}) > Cardinality(voters)]_vars
    BY StepAdoptsAQuorum, Zenon
  <1>3. Spec => ModelMovesForward
    BY <1>1, MembershipInvHolds, PTL DEF Spec, ModelMovesForward
  <1>4. Spec => DiscoveryAdoptsAQuorum
    BY <1>2, MembershipInvHolds, PTL DEF Spec, DiscoveryAdoptsAQuorum
  <1> QED BY <1>3, <1>4, Zenon DEF AdoptionIsSound
=============================================================================
