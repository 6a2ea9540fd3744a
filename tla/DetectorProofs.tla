--------------------------- MODULE DetectorProofs ---------------------------
(***************************************************************************)
(* The failure detector, for every set of nodes, every configuration and   *)
(* every bound: a timed-out detector stands down, a view change is raised  *)
(* only by a peer's datagram, the heartbeat is the last Commit released,   *)
(* and a leader is declared dead once.                                     *)
(*                                                                         *)
(* The first two are action properties and rest on the shapes of the state *)
(* alone. The invariant of the other two relates the ledger to what the    *)
(* cores announced. A flush records its outputs in the order FoldSet picks *)
(* and an answer filters the list by a recursive function: what both leave *)
(* is proved from a least counterexample (MinNat), the fold itself from    *)
(* the existence of its defining function.                                 *)
(***************************************************************************)
EXTENDS Detector, SequenceTheorems, FiniteSetTheorems, WellFoundedInduction, TLAPS

\* A leaf that names no prover is for the SMT solver.
USE SMTT(30)

\* A host's record, whatever its ledger holds.
HostRec(h) ==
    /\ h.timedout \in BOOLEAN /\ h.armed \in BOOLEAN
    /\ h = [timedout |-> h.timedout, armed |-> h.armed, watched |-> h.watched,
            detected |-> h.detected, ledger |-> h.ledger]

\* A replica's record.
CoreRec(c) ==
    /\ c.view \in Nat /\ c.state \in {"normal", "view_change"}
    /\ c = [view |-> c.view, state |-> c.state, slot |-> c.slot, committed |-> c.committed,
            votes |-> c.votes]

Shapes ==
    /\ scene \in Scenes
    /\ host = [n \in Node |-> host[n]] /\ core = [n \in Node |-> core[n]]
    /\ \A n \in Node : HostRec(host[n]) /\ CoreRec(core[n])
    /\ \A d \in net : d.view \in Nat

CoreFieldNames == {"view", "state", "slot", "committed", "votes"}

\* The datagrams of a set carry views.
Viewed(ds) == \A d \in ds : d.view \in Nat

(* ------------------------------- the host ------------------------------- *)

LEMMA HostFields ==
    ASSUME NEW h, HostRec(h)
    PROVE  h.timedout \in BOOLEAN /\ h.armed \in BOOLEAN
  BY Zenon DEF HostRec

\* flush_outputs touches the ledger only.
LEMMA FlushKeeps ==
    ASSUME NEW h, HostRec(h), NEW outs
    PROVE  /\ HostRec(Flush(h, outs))
           /\ Flush(h, outs).timedout = h.timedout /\ Flush(h, outs).watched = h.watched
           /\ Flush(h, outs).detected = h.detected
<1> DEFINE l == FoldSet(LAMBDA d, m : Record(m, d), h.ledger, outs)
<1>1. Flush(h, outs) = [h EXCEPT !.ledger = l] BY Zenon DEF Flush
<1> HIDE DEF l
<1> QED BY <1>1, Zenon DEF HostRec

\* suspect and the view-change check of timers() only ever set the toggle.
LEMMA JoinedKeeps ==
    ASSUME NEW n, NEW h, HostRec(h), NEW c
    PROVE  /\ HostRec(Joined(n, h, c)) /\ HostRec(Suspect(n, h))
           /\ h.timedout => Joined(n, h, c).timedout
           /\ Joined(n, h, c).watched = h.watched /\ Joined(n, h, c).detected = h.detected
           /\ c.state = "view_change" /\ n \in voters => Joined(n, h, c).timedout
<1>1. /\ HostRec(Suspect(n, h)) /\ (h.timedout => Suspect(n, h).timedout)
      /\ Suspect(n, h).watched = h.watched /\ Suspect(n, h).detected = h.detected
      /\ n \in voters => Suspect(n, h).timedout
  BY Zenon DEF HostRec, Suspect
<1> QED BY <1>1, Zenon DEF Joined

\* leader_timeout_step watches nothing while the toggle is set.
LEMMA WatchKeeps ==
    ASSUME NEW n, NEW h, HostRec(h), NEW c
    PROVE  /\ HostRec(Arm(Watch(n, h, c)))
           /\ Arm(Watch(n, h, c)).timedout = h.timedout
           /\ Arm(Watch(n, h, c)).detected = h.detected
           /\ h.timedout => Arm(Watch(n, h, c)).watched = h.watched
<1>1. /\ HostRec(Watch(n, h, c)) /\ Watch(n, h, c).timedout = h.timedout
      /\ Watch(n, h, c).detected = h.detected
      /\ h.timedout => Watch(n, h, c).watched = h.watched
  BY Zenon DEF HostRec, Watch
<1>2. ASSUME NEW g, HostRec(g)
      PROVE  /\ HostRec(Arm(g)) /\ Arm(g).timedout = g.timedout
             /\ Arm(g).detected = g.detected /\ Arm(g).watched = g.watched
  BY <1>2 DEF HostRec, Arm
<1> QED BY <1>1, <1>2, Zenon

LEMMA ArmKeeps == ASSUME NEW h, HostRec(h) PROVE HostRec(Arm(h))
  BY DEF HostRec, Arm

(* ------------------------------- the core ------------------------------- *)

LEMMA CoreFields ==
    ASSUME NEW c, CoreRec(c)
    PROVE  c.view \in Nat /\ c.state \in {"normal", "view_change"}
  BY Zenon DEF CoreRec

LEMMA ToViewed ==
    ASSUME NEW n, NEW peers, NEW tag, NEW c, CoreRec(c), NEW slot
    PROVE  Viewed(To(n, peers, tag, c, slot))
  BY CoreFields DEF To, Viewed

LEMMA EnterViewKeeps ==
    ASSUME NEW n, NEW c, CoreRec(c), NEW v \in Nat, NEW votes
    PROVE  /\ CoreRec(EnterView(n, c, v, votes).core)
           /\ EnterView(n, c, v, votes).core.view = v
           /\ Viewed(EnterView(n, c, v, votes).outs)
<1> DEFINE next == [c EXCEPT !.view = v, !.state = "view_change", !.votes = votes]
<1>1. CoreRec(next) /\ next.view = v
  <2>1. DOMAIN c = CoreFieldNames BY Zenon DEF CoreRec, CoreFieldNames
  <2>2. next = [f \in CoreFieldNames |-> IF f = "view" THEN v ELSE IF f = "state" THEN "view_change"
                                         ELSE IF f = "votes" THEN votes ELSE c[f]]
    BY <2>1, Zenon DEF CoreFieldNames
  <2> QED BY <2>2 DEF CoreRec, CoreFieldNames
<1>2. /\ EnterView(n, c, v, votes).core = next
      /\ EnterView(n, c, v, votes).outs = To(n, Members, "StartViewChange", next, 0)
           \union (IF votes = {} THEN {} ELSE To(n, {Primary(v)}, "DoViewChange", next, 0))
  BY Zenon DEF EnterView
<1> HIDE DEF next
<1>3. Viewed(To(n, Members, "StartViewChange", next, 0)) BY <1>1, ToViewed, Zenon
<1>4. Viewed(To(n, {Primary(v)}, "DoViewChange", next, 0)) BY <1>1, ToViewed, Zenon
<1> QED BY <1>1, <1>2, <1>3, <1>4, Zenon DEF Viewed

LEMMA StillKeeps ==
    ASSUME NEW c PROVE Still(c).core = c /\ Viewed(Still(c).outs)
  BY Zenon DEF Still, Viewed

\* A tick leaves a view change alone.
LEMMA TicksKeep ==
    ASSUME NEW n, NEW c, CoreRec(c), NEW t \in Ticks(n, c)
    PROVE  /\ CoreRec(t.core) /\ Viewed(t.outs)
           /\ c.state = "view_change" => t.core = c
<1>1. t = Still(c) \/ (c.state = "normal" /\ t = ForceView(n, c))
  BY Zenon DEF Ticks, Normal
<1>2. CoreRec(ForceView(n, c).core) /\ Viewed(ForceView(n, c).outs)
  <2>1. c.view + 1 \in Nat BY CoreFields
  <2> QED BY <2>1, EnterViewKeeps, Zenon DEF ForceView
<1> QED BY <1>1, <1>2, StillKeeps, Zenon

\* Whatever a datagram does to the replica, its view is the old one or the
\* datagram's.
LEMMA ReceiveKeeps ==
    ASSUME NEW n, NEW c, CoreRec(c), NEW d, d.view \in Nat
    PROVE  /\ CoreRec(CoreReceive(n, c, d).core) /\ Viewed(CoreReceive(n, c, d).outs)
           /\ CoreReceive(n, c, d).core.view \in {c.view, d.view}
<1> DEFINE r == CoreReceive(n, c, d)
           counted == [c EXCEPT !.votes = @ \union {d.from}]
           leading == [c EXCEPT !.state = "normal", !.votes = {}]
           started == [c EXCEPT !.view = d.view, !.state = "normal", !.votes = {}, !.slot = d.slot]
           prepared == [c EXCEPT !.slot = d.slot]
           settled == [c EXCEPT !.committed = d.slot]
<1>1. /\ CoreRec(counted) /\ counted.view = c.view
      /\ CoreRec(leading) /\ leading.view = c.view
      /\ CoreRec(started) /\ started.view = d.view
      /\ CoreRec(prepared) /\ prepared.view = c.view
      /\ CoreRec(settled) /\ settled.view = c.view
  <2>0. DOMAIN c = CoreFieldNames BY Zenon DEF CoreRec, CoreFieldNames
  <2>1. CoreRec(counted) /\ counted.view = c.view BY DEF CoreRec
  <2>2. CoreRec(leading) /\ leading.view = c.view
    <3>1. leading = [f \in CoreFieldNames |-> IF f = "state" THEN "normal"
                                              ELSE IF f = "votes" THEN {} ELSE c[f]]
      BY <2>0, Zenon DEF CoreFieldNames
    <3> QED BY <3>1 DEF CoreRec, CoreFieldNames
  <2>3. CoreRec(started) /\ started.view = d.view
    <3>1. started = [f \in CoreFieldNames |-> IF f = "view" THEN d.view
                                              ELSE IF f = "state" THEN "normal"
                                              ELSE IF f = "votes" THEN {}
                                              ELSE IF f = "slot" THEN d.slot ELSE c[f]]
      BY <2>0, Zenon DEF CoreFieldNames
    <3> QED BY <3>1 DEF CoreRec, CoreFieldNames
  <2>4. CoreRec(prepared) /\ prepared.view = c.view BY DEF CoreRec
  <2>5. CoreRec(settled) /\ settled.view = c.view BY DEF CoreRec
  <2> QED BY <2>1, <2>2, <2>3, <2>4, <2>5, Zenon
<1>2. \/ r = Still(c)
      \/ r = EnterView(n, c, d.view, {d.from})
      \/ r = [core |-> counted,
              outs |-> To(n, {Primary(c.view)}, "DoViewChange", c, 0)
                         \union (IF scene.reanswers /\ d.from \in c.votes
                                 THEN To(n, {d.from}, "StartViewChange", c, 0) ELSE {})]
      \/ r = [core |-> leading,
              outs |-> To(n, IF Normal(c) THEN {d.from} ELSE Members, "StartView", leading, c.slot)]
      \/ r = [core |-> started, outs |-> To(n, {d.from}, "PrepareOk", started, d.slot)]
      \/ r = [core |-> prepared, outs |-> To(n, {d.from}, "PrepareOk", prepared, d.slot)]
      \/ r = [core |-> settled, outs |-> CommitOuts(n, settled)]
      \/ r = Still(settled)
  BY Zenon DEF CoreReceive
<1> HIDE DEF r, counted, leading, started, prepared, settled
<1>3. ASSUME NEW peers, NEW tag, NEW slot
      PROVE  /\ Viewed(To(n, peers, tag, c, slot)) /\ Viewed(To(n, peers, tag, leading, slot))
             /\ Viewed(To(n, peers, tag, started, slot)) /\ Viewed(To(n, peers, tag, prepared, slot))
             /\ Viewed(To(n, peers, tag, settled, slot))
  BY <1>1, ToViewed, Zenon
<1>4. Viewed(CommitOuts(n, settled)) BY <1>3, Zenon DEF CommitOuts
<1>5. /\ CoreRec(EnterView(n, c, d.view, {d.from}).core)
      /\ EnterView(n, c, d.view, {d.from}).core.view = d.view
      /\ Viewed(EnterView(n, c, d.view, {d.from}).outs)
  BY EnterViewKeeps, Zenon
<1>6. CASE r = [core |-> counted,
              outs |-> To(n, {Primary(c.view)}, "DoViewChange", c, 0)
                         \union (IF scene.reanswers /\ d.from \in c.votes
                                 THEN To(n, {d.from}, "StartViewChange", c, 0) ELSE {})]
  <2>1. /\ Viewed(To(n, {Primary(c.view)}, "DoViewChange", c, 0))
        /\ Viewed(To(n, {d.from}, "StartViewChange", c, 0))
    BY <1>3, Zenon
  <2>2. r.core = counted /\ Viewed(r.outs) BY <1>6, <2>1, Zenon DEF Viewed
  <2> QED BY <1>1, <2>2, Zenon DEF r
<1>7. CASE r = Still(c) \/ r = Still(settled)
  BY <1>1, <1>7, StillKeeps DEF r
<1>8. CASE r = EnterView(n, c, d.view, {d.from})
  BY <1>5, <1>8, Zenon DEF r
<1>9. CASE r = [core |-> leading,
                outs |-> To(n, IF Normal(c) THEN {d.from} ELSE Members, "StartView", leading, c.slot)]
  BY <1>1, <1>3, <1>9 DEF r
<1>10. CASE r = [core |-> started, outs |-> To(n, {d.from}, "PrepareOk", started, d.slot)]
  BY <1>1, <1>3, <1>10 DEF r
<1>11. CASE r = [core |-> prepared, outs |-> To(n, {d.from}, "PrepareOk", prepared, d.slot)]
  BY <1>1, <1>3, <1>11 DEF r
<1>12. CASE r = [core |-> settled, outs |-> CommitOuts(n, settled)]
  BY <1>1, <1>4, <1>12 DEF r
<1> QED BY <1>2, <1>6, <1>7, <1>8, <1>9, <1>10, <1>11, <1>12, Zenon

(* ------------------------------ the actions ----------------------------- *)

LEMMA SceneUp == Shapes => up \subseteq Node
  BY DetectorAssumption, Zenon DEF Shapes, up

\* What the end of a call of timers() leaves.
LEMMA EndTimersKeeps ==
    ASSUME Shapes, NEW n \in Node, NEW h, HostRec(h), NEW c, CoreRec(c), NEW outs, Viewed(outs),
           NEW relays, Viewed(relays), EndTimers(n, h, c, outs, relays)
    PROVE  /\ Shapes'
           /\ \A m \in Node : host'[m] = IF m = n THEN h ELSE host[m]
           /\ \A m \in Node : core'[m] = IF m = n THEN c ELSE core[m]
<1>1. /\ host' = [host EXCEPT ![n] = h] /\ core' = [core EXCEPT ![n] = c]
      /\ net' = InFlight(net \union outs \union relays) /\ scene' = scene
  BY Zenon DEF EndTimers
<1>2. \A m \in Node : host'[m] = IF m = n THEN h ELSE host[m] BY <1>1, Zenon DEF Shapes
<1>3. \A m \in Node : core'[m] = IF m = n THEN c ELSE core[m] BY <1>1, Zenon DEF Shapes
<1>4. host' = [m \in Node |-> host'[m]] /\ core' = [m \in Node |-> core'[m]]
  BY <1>1, Zenon DEF Shapes
<1>5. \A d \in net' : d.view \in Nat BY <1>1, Zenon DEF InFlight, Viewed, Shapes
<1> QED BY <1>1, <1>2, <1>3, <1>4, <1>5, Zenon DEF Shapes

LEMMA RelayViewed ==
    ASSUME NEW l, NEW v \in Nat PROVE Viewed(Relay(l, v)) /\ Viewed(LastCommit(l, v))
  BY Zenon DEF Relay, LastCommit, Viewed

\* What every action of host m does, as far as the two properties can tell.
Lawful(m) ==
    /\ host[m].timedout /\ host'[m].timedout =>
           host'[m].watched = host[m].watched /\ host'[m].detected = host[m].detected
    /\ core[m].state = "view_change" /\ core'[m].view > core[m].view =>
           \E d \in net : d.to = m /\ d.view = core'[m].view

LEMMA UnmovedLawful ==
    ASSUME Shapes, NEW m \in Node, host'[m] = host[m], core'[m] = core[m]
    PROVE  Lawful(m)
  BY CoreFields DEF Lawful, Shapes

LEMMA StepLawful == Shapes /\ [Next]_vars => Shapes' /\ \A m \in Node : Lawful(m)
<1> SUFFICES ASSUME Shapes, [Next]_vars PROVE Shapes' /\ \A m \in Node : Lawful(m)
  BY Zenon
<1>1. ASSUME NEW n \in Node PROVE HostRec(host[n]) /\ CoreRec(core[n]) /\ core[n].view \in Nat
                                   /\ HostRec(Joined(n, host[n], core[n]))
  BY CoreFields, JoinedKeeps, Zenon DEF Shapes
<1>2. ASSUME NEW n \in Node, TimersQuiet(n) PROVE Shapes' /\ \A m \in Node : Lawful(m)
  <2> DEFINE j == Joined(n, host[n], core[n])
             h == Arm(Watch(n, j, core[n]))
  <2>1. /\ HostRec(h) /\ h.timedout = j.timedout /\ h.detected = j.detected
        /\ j.timedout => h.watched = j.watched
    BY <1>1, WatchKeeps
  <2>2. /\ host[n].timedout => j.timedout
        /\ j.watched = host[n].watched /\ j.detected = host[n].detected
    <3>1. HostRec(host[n]) BY <1>1, Zenon
    <3>2. HostRec(j) /\ (host[n].timedout => j.timedout) BY <3>1, JoinedKeeps, Zenon
    <3>3. j.watched = host[n].watched BY <3>1, Zenon DEF Joined, Suspect, HostRec
    <3>4. j.detected = host[n].detected BY <3>1, Zenon DEF Joined, Suspect, HostRec
    <3> QED BY <3>2, <3>3, <3>4, Zenon
  <2>3. EndTimers(n, h, core[n], {}, {}) BY <1>2, Zenon DEF TimersQuiet
  <2> HIDE DEF h, j
  <2>4. /\ Shapes' /\ \A m \in Node : host'[m] = IF m = n THEN h ELSE host[m]
        /\ \A m \in Node : core'[m] = IF m = n THEN core[n] ELSE core[m]
    BY <1>1, <2>1, <2>3, EndTimersKeeps DEF Viewed
  <2>5. Lawful(n) BY <1>1, <2>1, <2>2, <2>4 DEF Lawful
  <2> QED BY <2>4, <2>5, UnmovedLawful, Zenon
<1>3. ASSUME NEW n \in Node, TimersBeat(n) PROVE Shapes' /\ \A m \in Node : Lawful(m)
  <2>1. PICK t \in Ticks(n, core[n]) :
           LET flushed == Flush(host[n], t.outs)
               h == Arm(Watch(n, Joined(n, flushed, core[n]), t.core))
           IN  EndTimers(n, h, t.core, t.outs, Heartbeat(n, flushed, t.core))
    BY <1>3, Zenon DEF TimersBeat
  <2> DEFINE flushed == Flush(host[n], t.outs)
             j == Joined(n, flushed, core[n])
             h == Arm(Watch(n, j, t.core))
             beat == Heartbeat(n, flushed, t.core)
  <2>2. /\ CoreRec(t.core) /\ Viewed(t.outs) /\ t.core.view \in Nat
        /\ core[n].state = "view_change" => t.core = core[n]
    BY <1>1, TicksKeep, CoreFields, Zenon
  <2>3. /\ HostRec(flushed) /\ flushed.timedout = host[n].timedout
        /\ flushed.watched = host[n].watched /\ flushed.detected = host[n].detected
    BY <1>1, FlushKeeps, Zenon
  <2>4. EndTimers(n, h, t.core, t.outs, beat) BY <2>1, Zenon
  <2>5. Viewed(beat)
    BY <2>2, RelayViewed, Zenon DEF Heartbeat, Viewed
  <2> HIDE DEF flushed, beat
  <2>6. /\ HostRec(j) /\ (flushed.timedout => j.timedout)
        /\ j.watched = flushed.watched /\ j.detected = flushed.detected
    <3>1. HostRec(j) /\ (flushed.timedout => j.timedout) BY <2>3, JoinedKeeps, Zenon
    <3>2. j.watched = flushed.watched BY <2>3, Zenon DEF Joined, Suspect, HostRec
    <3>3. j.detected = flushed.detected BY <2>3, Zenon DEF Joined, Suspect, HostRec
    <3> QED BY <3>1, <3>2, <3>3, Zenon
  <2> HIDE DEF j
  <2>7. /\ HostRec(h) /\ h.timedout = j.timedout /\ h.detected = j.detected
        /\ j.timedout => h.watched = j.watched
    BY <2>6, WatchKeeps, Zenon
  <2> HIDE DEF h
  <2>8. /\ Shapes' /\ \A m \in Node : host'[m] = IF m = n THEN h ELSE host[m]
        /\ \A m \in Node : core'[m] = IF m = n THEN t.core ELSE core[m]
    BY <2>2, <2>4, <2>5, <2>7, EndTimersKeeps
  <2>9. Lawful(n) BY <1>1, <2>2, <2>3, <2>6, <2>7, <2>8 DEF Lawful
  <2> QED BY <2>8, <2>9, UnmovedLawful, Zenon
<1>4. ASSUME NEW n \in Node, TimersLeader(n) PROVE Shapes' /\ \A m \in Node : Lawful(m)
  <2> DEFINE j == Joined(n, host[n], core[n])
             drives == n \in voters
             forced == IF drives THEN ForceView(n, core[n]) ELSE Still(core[n])
             detected == [j EXCEPT !.detected = Primary(core[n].view)]
             h == Arm(Flush(Suspect(n, detected), forced.outs))
  <2>1. ~j.timedout /\ EndTimers(n, h, forced.core, forced.outs, {})
    BY <1>4, Zenon DEF TimersLeader
  <2>2. /\ host[n].timedout => j.timedout
        /\ core[n].state = "view_change" /\ drives => j.timedout
    BY <1>1, JoinedKeeps, Zenon
  <2>3. ~host[n].timedout /\ (core[n].state = "view_change" => forced = Still(core[n]))
    BY <2>1, <2>2, Zenon
  <2>4. CoreRec(forced.core) /\ Viewed(forced.outs)
    <3>1. core[n].view + 1 \in Nat BY <1>1
    <3> QED BY <1>1, <3>1, EnterViewKeeps, StillKeeps, Zenon DEF ForceView
  <2>5. HostRec(detected)
    <3>1. HostRec(j) BY <1>1, Zenon
    <3> HIDE DEF j
    <3> QED BY <3>1 DEF HostRec
  <2> HIDE DEF detected, forced
  <2>6. HostRec(h) BY <2>5, JoinedKeeps, FlushKeeps, ArmKeeps, Zenon
  <2> HIDE DEF h
  <2>7. /\ Shapes' /\ \A m \in Node : host'[m] = IF m = n THEN h ELSE host[m]
        /\ \A m \in Node : core'[m] = IF m = n THEN forced.core ELSE core[m]
    BY <2>1, <2>4, <2>6, EndTimersKeeps DEF Viewed
  <2>8. Lawful(n) BY <1>1, <2>3, <2>7, StillKeeps DEF Lawful
  <2> QED BY <2>7, <2>8, UnmovedLawful, Zenon
<1>5. ASSUME NEW n \in Node, TimersPoll(n) PROVE Shapes' /\ \A m \in Node : Lawful(m)
  <2> DEFINE j == Joined(n, host[n], core[n])
  <2>1. PICK p \in PollDrive(n, j, core[n]) :
           EndTimers(n, Flush(j, p.step.outs), p.step.core, p.step.outs, p.relays)
    BY <1>5, Zenon DEF TimersPoll
  <2>2. /\ HostRec(j) /\ (host[n].timedout => j.timedout)
        /\ j.watched = host[n].watched /\ j.detected = host[n].detected
    <3>1. HostRec(host[n]) BY <1>1, Zenon
    <3>2. HostRec(j) /\ (host[n].timedout => j.timedout) BY <3>1, JoinedKeeps, Zenon
    <3>3. j.watched = host[n].watched BY <3>1, Zenon DEF Joined, Suspect, HostRec
    <3>4. j.detected = host[n].detected BY <3>1, Zenon DEF Joined, Suspect, HostRec
    <3> QED BY <3>2, <3>3, <3>4, Zenon
  <2> HIDE DEF j
  <2>3. /\ CoreRec(p.step.core) /\ Viewed(p.step.outs) /\ Viewed(p.relays)
        /\ core[n].state = "view_change" => p.step.core = core[n]
    <3>1. CASE core[n].state = "view_change"
      <4>1. p.step = Still(core[n]) /\ p.relays = Relay(j.ledger, core[n].view)
        BY <3>1 DEF PollDrive
      <4> QED BY <1>1, <4>1, StillKeeps, RelayViewed, Zenon
    <3>2. CASE core[n].state # "view_change"
      <4>1. PICK t \in Ticks(n, core[n]) : p = [step |-> t, relays |-> {}]
        BY <3>2, Zenon DEF PollDrive
      <4> QED BY <1>1, <3>2, <4>1, TicksKeep, Zenon DEF Viewed
    <3> QED BY <3>1, <3>2, Zenon
  <2> DEFINE h == Flush(j, p.step.outs)
  <2>4. /\ HostRec(h) /\ h.timedout = j.timedout /\ h.watched = j.watched
        /\ h.detected = j.detected
    BY <2>2, FlushKeeps, Zenon
  <2>5. EndTimers(n, h, p.step.core, p.step.outs, p.relays) BY <2>1, Zenon
  <2> HIDE DEF h
  <2>6. /\ Shapes' /\ \A m \in Node : host'[m] = IF m = n THEN h ELSE host[m]
        /\ \A m \in Node : core'[m] = IF m = n THEN p.step.core ELSE core[m]
    BY <2>3, <2>4, <2>5, EndTimersKeeps
  <2>7. Lawful(n) BY <1>1, <2>2, <2>3, <2>4, <2>6 DEF Lawful
  <2> QED BY <2>6, <2>7, UnmovedLawful, Zenon
<1>6. ASSUME NEW n \in Node, TimersElection(n) PROVE Shapes' /\ \A m \in Node : Lawful(m)
  <2> DEFINE j == Joined(n, host[n], core[n])
             w == Arm(Watch(n, j, core[n]))
  <2>1. ~w.timedout BY <1>6, Zenon DEF TimersElection
  <2>2. PICK t \in Ticks(n, core[n]) :
           EndTimers(n, Suspect(n, Flush(w, t.outs)), t.core, t.outs, {})
    BY <1>6, Zenon DEF TimersElection
  <2>3. HostRec(w) /\ ~host[n].timedout
    <3>1. HostRec(host[n]) /\ HostRec(j) BY <1>1, Zenon
    <3>2. host[n].timedout => j.timedout BY <3>1, JoinedKeeps, Zenon
    <3> HIDE DEF j
    <3>3. HostRec(w) /\ w.timedout = j.timedout BY <3>1, WatchKeeps
    <3> QED BY <2>1, <3>2, <3>3, Zenon
  <2>4. /\ CoreRec(t.core) /\ Viewed(t.outs)
        /\ core[n].state = "view_change" => t.core = core[n]
    BY <1>1, TicksKeep, Zenon
  <2> HIDE DEF w
  <2> DEFINE h == Suspect(n, Flush(w, t.outs))
  <2>5. HostRec(h) BY <2>3, FlushKeeps, JoinedKeeps, Zenon
  <2>6. EndTimers(n, h, t.core, t.outs, {}) BY <2>2, Zenon
  <2> HIDE DEF h
  <2>7. /\ Shapes' /\ \A m \in Node : host'[m] = IF m = n THEN h ELSE host[m]
        /\ \A m \in Node : core'[m] = IF m = n THEN t.core ELSE core[m]
    BY <2>4, <2>5, <2>6, EndTimersKeeps DEF Viewed
  <2>8. Lawful(n) BY <1>1, <2>3, <2>4, <2>7 DEF Lawful
  <2> QED BY <2>7, <2>8, UnmovedLawful
<1>7. ASSUME NEW d \in net, HandlePacket(d) PROVE Shapes' /\ \A m \in Node : Lawful(m)
  <2> DEFINE n == d.to
             a == [host[n] EXCEPT !.ledger = Answered(@, d)]
             b == OnLeaderCommit(n, a, core[n], d)
             r == CoreReceive(n, core[n], d)
             h == Flush(b, r.outs)
  <2>1. /\ n \in up /\ host' = [host EXCEPT ![n] = h] /\ core' = [core EXCEPT ![n] = r.core]
        /\ net' = InFlight((net \ {d}) \union r.outs) /\ scene' = scene
    BY <1>7, Zenon DEF HandlePacket
  <2>2. n \in Node /\ d.view \in Nat BY <2>1, SceneUp, Zenon DEF Shapes
  <2>3. HostRec(host[n]) /\ CoreRec(core[n]) BY <1>1, <2>2, Zenon
  <2>4. /\ HostRec(a) /\ a.timedout = host[n].timedout /\ a.watched = host[n].watched
        /\ a.detected = host[n].detected
    BY <2>3 DEF HostRec
  <2> HIDE DEF a
  <2>5. HostRec(b) /\ (b.timedout => b = a)
    <3>1. CASE b = a BY <2>4, <3>1, Zenon
    <3>2. CASE b = [a EXCEPT !.timedout = FALSE, !.detected = None]
      <4> DEFINE F == {"timedout", "armed", "watched", "detected", "ledger"}
      <4>1. DOMAIN a = F BY <2>4, Zenon DEF HostRec
      <4>2. b = [f \in F |-> IF f = "timedout" THEN FALSE
                             ELSE IF f = "detected" THEN None ELSE a[f]]
        BY <3>2, <4>1, Zenon
      <4>3. b.timedout = FALSE /\ b.armed = a.armed /\ b.watched = a.watched
            /\ b.detected = None /\ b.ledger = a.ledger
        BY <4>2, Zenon
      <4> HIDE DEF b
      <4>4. b = [timedout |-> b.timedout, armed |-> b.armed, watched |-> b.watched,
                 detected |-> b.detected, ledger |-> b.ledger]
        BY <4>2, Zenon
      <4> QED BY <2>4, <4>3, <4>4, Zenon DEF HostRec
    <3> QED BY <3>1, <3>2, Zenon DEF OnLeaderCommit
  <2> HIDE DEF b
  <2>6. /\ CoreRec(r.core) /\ Viewed(r.outs) /\ r.core.view \in {core[n].view, d.view}
    BY <2>2, <2>3, ReceiveKeeps, Zenon
  <2> HIDE DEF r
  <2>7. /\ HostRec(h) /\ h.timedout = b.timedout /\ h.watched = b.watched
        /\ h.detected = b.detected
    BY <2>5, FlushKeeps, Zenon
  <2> HIDE DEF h
  <2>8. /\ \A m \in Node : host'[m] = IF m = n THEN h ELSE host[m]
        /\ \A m \in Node : core'[m] = IF m = n THEN r.core ELSE core[m]
    BY <2>1, <2>2, Zenon DEF Shapes
  <2>9. host' = [m \in Node |-> host'[m]] /\ core' = [m \in Node |-> core'[m]]
    BY <2>1, <2>2, Zenon DEF Shapes
  <2>10. \A e \in net' : e.view \in Nat BY <2>1, <2>6, Zenon DEF InFlight, Viewed, Shapes
  <2>11. Shapes' BY <2>1, <2>6, <2>7, <2>8, <2>9, <2>10, Zenon DEF Shapes
  <2>12. Lawful(n)
    <3>1. host'[n] = h /\ core'[n] = r.core /\ core[n].view \in Nat BY <1>1, <2>2, <2>8, Zenon
    <3> QED BY <2>4, <2>5, <2>6, <2>7, <3>1 DEF Lawful
  <2>13. \A m \in Node : m # n => Lawful(m) BY <2>8, UnmovedLawful, Zenon
  <2> QED BY <2>11, <2>12, <2>13, Zenon
<1>8. ASSUME NEW n \in Node, Propose(n) PROVE Shapes' /\ \A m \in Node : Lawful(m)
  <2> DEFINE c == [core[n] EXCEPT !.slot = @ + 1]
             outs == To(n, Members, "Prepare", c, c.slot)
             h == Flush(host[n], outs)
  <2>1. /\ host' = [host EXCEPT ![n] = h] /\ core' = [core EXCEPT ![n] = c]
        /\ net' = InFlight(net \union outs) /\ scene' = scene
    BY <1>8, Zenon DEF Propose, Shapes
  <2>2. CoreRec(c) /\ c.view = core[n].view
    <3>1. ASSUME NEW k, CoreRec(k), NEW s
          PROVE  CoreRec([k EXCEPT !.slot = s]) /\ [k EXCEPT !.slot = s].view = k.view
      BY <3>1 DEF CoreRec
    <3> QED BY <1>1, <3>1, Zenon
  <2> HIDE DEF c
  <2>3. Viewed(outs) BY <2>2, ToViewed, Zenon
  <2> HIDE DEF outs
  <2>4. /\ HostRec(h) /\ h.timedout = host[n].timedout /\ h.watched = host[n].watched
        /\ h.detected = host[n].detected
    BY <1>1, FlushKeeps, Zenon
  <2> HIDE DEF h
  <2>5. /\ \A m \in Node : host'[m] = IF m = n THEN h ELSE host[m]
        /\ \A m \in Node : core'[m] = IF m = n THEN c ELSE core[m]
    BY <2>1, Zenon DEF Shapes
  <2>6. host' = [m \in Node |-> host'[m]] /\ core' = [m \in Node |-> core'[m]]
    BY <2>1, Zenon DEF Shapes
  <2>7. \A e \in net' : e.view \in Nat BY <2>1, <2>3, Zenon DEF InFlight, Viewed, Shapes
  <2>8. Shapes' BY <2>1, <2>2, <2>4, <2>5, <2>6, <2>7, Zenon DEF Shapes
  <2>9. Lawful(n) BY <1>1, <2>2, <2>4, <2>5 DEF Lawful
  <2> QED BY <2>5, <2>8, <2>9, UnmovedLawful, Zenon
<1>9. ASSUME UNCHANGED <<scene, host, core>>, \A e \in net' : e.view \in Nat
      PROVE  Shapes' /\ \A m \in Node : Lawful(m)
  BY <1>9, UnmovedLawful, Zenon DEF Shapes
<1>10. ASSUME NEW n \in Node, ClusterTimeout(n) PROVE Shapes' /\ \A m \in Node : Lawful(m)
  <2>1. Viewed(Relay(host[n].ledger, core[n].view)) BY <1>1, RelayViewed, Zenon
  <2> QED BY <1>9, <1>10, <2>1, Zenon DEF ClusterTimeout, InFlight, Viewed, Shapes
<1>11. ASSUME NEW d \in net, Lose(d) PROVE Shapes' /\ \A m \in Node : Lawful(m)
  BY <1>9, <1>11, Zenon DEF Lose, Shapes
<1>12. CASE UNCHANGED vars BY <1>9, <1>12, Zenon DEF vars, Shapes
<1> QED
  BY <1>2, <1>3, <1>4, <1>5, <1>6, <1>7, <1>8, <1>10, <1>11, <1>12, Zenon DEF Next, Timers

LEMMA ShapesInit == Init => Shapes
<1> SUFFICES ASSUME Init PROVE Shapes
  BY Zenon
<1>1. ASSUME NEW n \in Node PROVE HostRec(host[n])
  <2>1. host[n] = [timedout |-> FALSE, armed |-> FALSE, watched |-> None, detected |-> None,
                   ledger |-> EmptyLedger]
    BY Zenon DEF Init
  <2> QED BY <2>1 DEF HostRec
<1>2. ASSUME NEW n \in Node PROVE CoreRec(core[n])
  <2>1. core[n] = [view |-> 0, state |-> "normal", slot |-> 0, committed |-> 0, votes |-> {}]
    BY Zenon DEF Init
  <2> QED BY <2>1 DEF CoreRec
<1>3. host = [n \in Node |-> host[n]] /\ core = [n \in Node |-> core[n]]
  BY Zenon DEF Init
<1> QED BY <1>1, <1>2, <1>3, Zenon DEF Init, Shapes

LEMMA ShapesHold == Spec => []Shapes
  BY ShapesInit, StepLawful, PTL DEF Spec

\* While a node is timed out its detector neither arms nor latches, whatever its
\* timers, its peers and its clients do (leader_timeout_step, main.rs:577-579).
THEOREM StandsDown == Spec => DetectorStandsDown
<1>1. Shapes /\ [Next]_vars =>
        [\A n \in Node : host[n].timedout /\ host'[n].timedout =>
           /\ host'[n].watched = host[n].watched
           /\ host'[n].detected = host[n].detected]_vars
  BY StepLawful, Zenon DEF Lawful
<1> QED BY <1>1, ShapesHold, PTL DEF Spec, DetectorStandsDown

\* A node in a view change raises its view only for a datagram of that view that
\* was in flight to it: no timer of its own does (timers, main.rs:1862-1905).
THEOREM ViewMovesByPeers == Spec => ViewMovesOnlyByPeers
<1>1. Shapes /\ [Next]_vars =>
        [\A n \in Node : core[n].state = "view_change" /\ core'[n].view > core[n].view =>
           \E d \in net : d.to = n /\ d.view = core'[n].view]_vars
  BY StepLawful, Zenon DEF Lawful
<1> QED BY <1>1, ShapesHold, PTL DEF Spec, ViewMovesOnlyByPeers

(* ------------------------------ the ledger ------------------------------ *)

\* A ledger of datagrams of D, within its bound and without repetition.
LedgerOver(l, D) ==
    /\ l = [unacked |-> l.unacked, last |-> l.last]
    /\ l.unacked \in Seq(D) /\ Len(l.unacked) <= Bound
    /\ \A i, j \in 1..Len(l.unacked) : l.unacked[i] = l.unacked[j] => i = j
    /\ \A e, f \in l.last : e.tag = "Commit" /\ e.view = f.view /\ (e.to = f.to => e = f)

\* A sequence of distinct elements, as the ledger's list is.
Distinct(s) == \A i, j \in 1..Len(s) : s[i] = s[j] => i = j

\* A datagram pushed on a list that does not hold it.
LEMMA PushKeeps ==
    ASSUME NEW D, NEW s \in Seq(D), Len(s) <= Bound, Distinct(s), NEW d \in D, d \notin Entries(s)
    PROVE  Push(s, d) \in Seq(D) /\ Len(Push(s, d)) <= Bound /\ Distinct(Push(s, d))
<1>1. Bound \in Nat /\ Bound > 0 /\ Len(s) \in Nat
  BY LedgerAssumption, LenProperties
<1>2. \A i \in 1..Len(s) : s[i] # d
  BY Zenon DEF Entries
<1>3. CASE Len(s) >= Bound
  <2>1. Len(s) = Bound /\ s # << >>
    BY <1>1, <1>3
  <2> DEFINE t == Tail(s)
  <2>2. /\ t \in Seq(D) /\ Len(t) = Len(s) - 1
        /\ \A i \in 1..Len(t) : t[i] = s[i + 1]
    BY <2>1, HeadTailProperties, Zenon
  <2> HIDE DEF t
  <2> DEFINE p == Append(t, d)
  <2>3. /\ p \in Seq(D) /\ Len(p) = Len(t) + 1
        /\ \A i \in 1..Len(t) : p[i] = t[i] /\ p[Len(t) + 1] = d
    BY <2>2, AppendProperties
  <2>4. Push(s, d) = p
    BY <1>3, Zenon DEF Push, t
  <2>5. p[Len(t) + 1] = d
    BY <2>2, AppendProperties
  <2> HIDE DEF p
  <2>6. Len(p) = Len(s)
    BY <1>1, <2>2, <2>3
  <2>7. \A i \in 1..Len(s) : (i = Len(s) /\ p[i] = d) \/ (i + 1 \in 1..Len(s) /\ p[i] = s[i + 1])
    BY <1>1, <2>2, <2>3, <2>5
  <2>8. Distinct(p)
    <3> SUFFICES ASSUME NEW i \in 1..Len(s), NEW j \in 1..Len(s), p[i] = p[j] PROVE i = j
      BY <2>6, Zenon DEF Distinct
    <3>1. CASE i = Len(s) /\ p[i] = d
      BY <1>2, <2>7, <3>1, Zenon
    <3>2. CASE j = Len(s) /\ p[j] = d
      BY <1>2, <2>7, <3>2, Zenon
    <3>3. CASE i + 1 \in 1..Len(s) /\ p[i] = s[i + 1] /\ j + 1 \in 1..Len(s) /\ p[j] = s[j + 1]
      <4>1. i + 1 = j + 1
        BY <3>3, Zenon DEF Distinct
      <4> QED
        BY <4>1
    <3> QED
      BY <2>7, <3>1, <3>2, <3>3, Zenon
  <2> QED
    BY <2>1, <2>3, <2>4, <2>6, <2>8, Zenon
<1>4. CASE ~(Len(s) >= Bound)
  <2> DEFINE p == Append(s, d)
  <2>1. /\ p \in Seq(D) /\ Len(p) = Len(s) + 1 /\ p[Len(s) + 1] = d
        /\ \A i \in 1..Len(s) : p[i] = s[i]
    BY AppendProperties
  <2>2. Push(s, d) = p
    BY <1>4, Zenon DEF Push
  <2> HIDE DEF p
  <2>3. \A i \in 1..Len(p) : (i = Len(s) + 1 /\ p[i] = d) \/ (i \in 1..Len(s) /\ p[i] = s[i])
    BY <1>1, <2>1
  <2>4. Distinct(p)
    <3> SUFFICES ASSUME NEW i \in 1..Len(p), NEW j \in 1..Len(p), p[i] = p[j] PROVE i = j
      BY Zenon DEF Distinct
    <3> QED
      BY <1>2, <2>3, Zenon DEF Distinct
  <2>5. Len(p) <= Bound
    BY <1>1, <1>4, <2>1
  <2> QED
    BY <2>1, <2>2, <2>4, <2>5, Zenon
<1> QED
  BY <1>3, <1>4, Zenon

\* Ledger::record keeps the ledger's invariant, and forgets only what a new
\* Commit supersedes.
LEMMA RecordKeeps ==
    ASSUME NEW D, NEW l, LedgerOver(l, D), NEW d \in D
    PROVE  /\ LedgerOver(Record(l, d), D)
           /\ Record(l, d).last = IF d.tag = "Commit" THEN RememberCommit(l.last, d) ELSE l.last
<1>1. CASE ~Relayable(d)
  BY <1>1, Zenon DEF Record, Relayable
<1>2. CASE Relayable(d)
  <2> DEFINE u == IF d \in Entries(l.unacked) THEN l.unacked ELSE Push(l.unacked, d)
             c == IF d.tag = "Commit" THEN RememberCommit(l.last, d) ELSE l.last
  <2>1. Record(l, d) = [unacked |-> u, last |-> c]
    BY <1>2, Zenon DEF Record
  <2>2. u \in Seq(D) /\ Len(u) <= Bound /\ Distinct(u)
    <3>1. l.unacked \in Seq(D) /\ Len(l.unacked) <= Bound /\ Distinct(l.unacked)
      BY Zenon DEF LedgerOver, Distinct
    <3> QED
      BY <3>1, PushKeeps, Zenon
  <2>3. \A e, f \in c : e.tag = "Commit" /\ e.view = f.view /\ (e.to = f.to => e = f)
    BY Zenon DEF LedgerOver, RememberCommit
  <2> HIDE DEF u, c
  <2>4. Record(l, d).unacked = u /\ Record(l, d).last = c
    BY <2>1
  <2>5. Record(l, d) = [unacked |-> Record(l, d).unacked, last |-> Record(l, d).last]
    BY <2>1, <2>4, Zenon
  <2>6. LedgerOver(Record(l, d), D)
    BY <2>2, <2>3, <2>4, <2>5 DEF LedgerOver, Distinct
  <2> QED
    BY <2>4, <2>6, Zenon DEF c
<1> QED
  BY <1>1, <1>2, Zenon

(* ------------------------- induction and folds -------------------------- *)

\* A non-empty set of naturals has a least element.
LEMMA MinNat ==
    ASSUME NEW T, T \subseteq Nat, T # {}
    PROVE  \E x \in T : \A y \in T : x <= y
  <1> DEFINE R == OpToRel(<, Nat)
  <1>1. \E x \in T : \A y \in T : ~(<<y, x>> \in R)
    <2>1. IsWellFoundedOn(R, Nat)
      BY NatLessThanWellFounded, Zenon
    <2> HIDE DEF R
    <2> QED BY <2>1, WFMin, Zenon
  <1>2. PICK x \in T : \A y \in T : ~(<<y, x>> \in R)
    BY <1>1, Zenon
  <1>3. \A y \in T : ~(y < x)
    BY <1>2, Zenon DEF OpToRel
  <1> QED BY <1>3

\* g is the fold of step over s, prefix by prefix.
Folds(g, step, first, s) ==
    /\ g[0] = first
    /\ \A n \in 1..Len(s) : g[n] = step[g[n - 1], s[n]]

\* The recursion that a fold over a sequence is defined by has a solution: one
\* for the first n elements extends to the next.
LEMMA FoldExists ==
    ASSUME NEW D, NEW X, NEW step \in [D \X X -> D], NEW first \in D, NEW s \in Seq(X)
    PROVE  \E g \in [0..Len(s) -> D] : Folds(g, step, first, s)
  <1> DEFINE Solves(g, n) == g[0] = first /\ \A i \in 1..n : g[i] = step[g[i - 1], s[i]]
             Has(n) == \E g \in [0..n -> D] : Solves(g, n)
             Bad == {n \in 0..Len(s) : ~Has(n)}
  <1>1. Has(0)
    <2> DEFINE g == [i \in 0..0 |-> first]
    <2>1. g \in [0..0 -> D] /\ Solves(g, 0)
      OBVIOUS
    <2> QED BY <2>1, Zenon
  <1>2. ASSUME NEW n \in Nat, n + 1 <= Len(s), Has(n) PROVE Has(n + 1)
    <2>1. PICK g \in [0..n -> D] : Solves(g, n)
      BY <1>2, Zenon
    <2> DEFINE m == n + 1
               h == [i \in 0..m |-> IF i = m THEN step[g[n], s[m]] ELSE g[i]]
    <2>2. m \in Nat /\ m # 0 /\ m \in 1..Len(s) /\ m - 1 = n /\ n # m
      <3>1. Len(s) \in Nat
        BY LenProperties, Zenon
      <3>2. n + 1 <= Len(s)
        BY <1>2, Zenon
      <3>3. n \in Nat
        BY Zenon
      <3> QED BY ONLY <3>1, <3>2, <3>3
    <2>3. /\ \A i \in 0..m : i = m \/ i \in 0..n
          /\ \A i \in 1..m : i = m \/ (i \in 1..n /\ i # m /\ i - 1 # m /\ i - 1 \in 0..m)
          /\ n \in 0..m /\ n \in 0..n /\ 0 \in 0..m /\ m \in 0..m
      <3>1. n \in Nat
        BY <1>2, Zenon
      <3> QED BY ONLY <3>1
    <2> HIDE DEF m
    <2>4. step[g[n], s[m]] \in D
      <3>1. s[m] \in X
        BY <2>2, ElementOfSeq, Zenon
      <3>2. g[n] \in D
        BY <2>1, <2>3, Zenon
      <3> QED BY <3>1, <3>2, Zenon
    <2>5. h \in [0..m -> D]
      BY <2>1, <2>3, <2>4, Zenon
    <2>6. h[0] = first /\ h[n] = g[n] /\ h[m] = step[h[m - 1], s[m]]
      BY <2>1, <2>2, <2>3, Zenon
    <2>7. ASSUME NEW i \in 1..n, i \in 1..m, i # m, i - 1 # m, i - 1 \in 0..m
          PROVE  h[i] = step[h[i - 1], s[i]]
      <3>1. i \in 0..m
        BY <2>2, <2>7
      <3>2. h[i] = g[i] /\ h[i - 1] = g[i - 1]
        BY <2>7, <3>1, Zenon
      <3> QED BY <2>1, <3>2, Zenon
    <2> HIDE DEF h
    <2>8. Solves(h, m)
      BY <2>3, <2>6, <2>7, Zenon
    <2> QED BY <2>5, <2>8, Zenon DEF m
  <1> HIDE DEF Has
  <1>3. Bad = {}
    <2> SUFFICES ASSUME Bad # {} PROVE FALSE
      BY Zenon
    <2>1. Bad \subseteq Nat
      OBVIOUS
    <2>2. PICK b \in Bad : \A c \in Bad : b <= c
      <3> HIDE DEF Bad
      <3> QED BY <2>1, MinNat, Zenon
    <2>3. b # 0 /\ b \in 0..Len(s) /\ ~Has(b)
      BY <1>1, Zenon
    <2>4. b - 1 \in Nat /\ b - 1 \in 0..Len(s) /\ (b - 1) + 1 = b
      BY <2>3
    <2>5. Has(b - 1)
      BY <2>2, <2>3, <2>4
    <2> QED BY <1>2, <2>3, <2>4, <2>5
  <1>4. Has(Len(s))
    BY <1>3
  <1> QED BY <1>4, Zenon DEF Has, Folds

\* q lists entries of the first n of s, in number at most n, none twice.
Selects(q, s, n, D) ==
    /\ q \in Seq(D) /\ Len(q) <= n /\ Distinct(q)
    /\ \A i \in 1..Len(q) : \E k \in 1..n : q[i] = s[k]

LEMMA SelectsNext ==
    ASSUME NEW D, NEW s \in Seq(D), Distinct(s), NEW n \in 1..Len(s), NEW q, Selects(q, s, n - 1, D)
    PROVE  Selects(q, s, n, D) /\ Selects(Append(q, s[n]), s, n, D)
<1>1. Len(s) \in Nat /\ n \in Nat /\ n > 0 /\ n <= Len(s) /\ s[n] \in D
  BY LenProperties, ElementOfSeq
<1>2. /\ q \in Seq(D) /\ Len(q) \in Nat /\ Len(q) <= n - 1 /\ Distinct(q)
      /\ \A i \in 1..Len(q) : \E k \in 1..n - 1 : q[i] = s[k]
  BY LenProperties, Zenon DEF Selects
<1>3. \A i \in 1..Len(q) : \E k \in 1..n : q[i] = s[k]
  <2> SUFFICES ASSUME NEW i \in 1..Len(q) PROVE \E k \in 1..n : q[i] = s[k]
    BY Zenon
  <2>1. PICK k \in 1..n - 1 : q[i] = s[k]
    BY <1>2, Zenon
  <2>2. k \in 1..n
    BY <1>1
  <2> QED
    BY <2>1, <2>2, Zenon
<1>4. Len(q) <= n
  BY <1>1, <1>2
<1>5. Selects(q, s, n, D)
  BY <1>2, <1>3, <1>4, Zenon DEF Selects
<1> DEFINE p == Append(q, s[n])
<1>6. /\ p \in Seq(D) /\ Len(p) = Len(q) + 1 /\ p[Len(q) + 1] = s[n]
      /\ \A i \in 1..Len(q) : p[i] = q[i]
  BY <1>1, <1>2, AppendProperties
<1> HIDE DEF p
<1>7. \A i \in 1..Len(p) : (i = Len(q) + 1 /\ p[i] = s[n]) \/ (i \in 1..Len(q) /\ p[i] = q[i])
  BY <1>2, <1>6
<1>8. \A i \in 1..Len(q) : q[i] # s[n]
  <2> SUFFICES ASSUME NEW i \in 1..Len(q), q[i] = s[n] PROVE FALSE
    BY Zenon
  <2>1. PICK k \in 1..n - 1 : q[i] = s[k]
    BY <1>2, Zenon
  <2>2. k \in 1..Len(s) /\ k # n
    BY <1>1
  <2> QED
    BY <2>1, <2>2, Zenon DEF Distinct
<1>9. Distinct(p)
  <2> SUFFICES ASSUME NEW i \in 1..Len(p), NEW j \in 1..Len(p), p[i] = p[j] PROVE i = j
    BY Zenon DEF Distinct
  <2> QED
    BY <1>2, <1>7, <1>8, Zenon DEF Distinct
<1>10. \A i \in 1..Len(p) : \E k \in 1..n : p[i] = s[k]
  <2>1. n \in 1..n
    BY <1>1
  <2> QED
    BY <1>3, <1>7, <2>1, Zenon
<1>11. Len(p) <= n
  BY <1>1, <1>2, <1>6
<1> QED
  BY <1>5, <1>6, <1>9, <1>10, <1>11, Zenon DEF Selects, p

\* Ledger::answered keeps a part of the list, in order and without repetition.
LEMMA StandingKeeps ==
    ASSUME NEW D, NEW s \in Seq(D), Distinct(s), NEW d
    PROVE  Selects(Standing(s, d), s, Len(s), D)
<1> DEFINE L == Len(s)
           Step(g) == [n \in 0..L |-> IF n = 0 THEN << >>
                                      ELSE IF Answers(s[n], d) THEN g[n - 1]
                                      ELSE Append(g[n - 1], s[n])]
           kept == CHOOSE g : g = Step(g)
           step == [p \in Seq(D) \X D |-> IF Answers(p[2], d) THEN p[1] ELSE Append(p[1], p[2])]
<1>1. Standing(s, d) = kept[L]
  BY Zenon DEF Standing
<1>2. L \in Nat /\ \A i \in 1..L : s[i] \in D
  OBVIOUS
<1>3. /\ \A n \in 0..L : n = 0 \/ n \in 1..L
      /\ \A n \in 1..L : n # 0 /\ n \in 0..L /\ n - 1 \in 0..L
      /\ 0 \in 0..L /\ L \in 0..L
  BY <1>2
<1>4. step \in [Seq(D) \X D -> Seq(D)] /\ << >> \in Seq(D)
  <2>1. ASSUME NEW q \in Seq(D), NEW x \in D PROVE Append(q, x) \in Seq(D)
    BY AppendProperties, Zenon
  <2> QED
    BY <2>1
<1>5. PICK g \in [0..L -> Seq(D)] : Folds(g, step, << >>, s)
  <2> HIDE DEF step
  <2> QED
    BY <1>4, FoldExists, Zenon
<1>6. /\ g[0] = << >>
      /\ \A n \in 1..L : g[n] = IF Answers(s[n], d) THEN g[n - 1] ELSE Append(g[n - 1], s[n])
  <2>1. \A n \in 1..L : g[n - 1] \in Seq(D) /\ s[n] \in D
    BY <1>2, <1>3, <1>5, Zenon
  <2>2. \A n \in 1..L : step[g[n - 1], s[n]]
                          = IF Answers(s[n], d) THEN g[n - 1] ELSE Append(g[n - 1], s[n])
    BY <2>1, Zenon
  <2> HIDE DEF step
  <2> QED
    BY <1>5, <2>2, Zenon DEF Folds
<1> HIDE DEF L, step
<1>7. g = Step(g)
  BY <1>3, <1>5, <1>6, Zenon
<1>8. kept = Step(kept)
  BY <1>7, Zenon
<1> HIDE DEF kept
<1>9. /\ kept[0] = << >>
      /\ \A n \in 1..L : kept[n] = IF Answers(s[n], d) THEN kept[n - 1]
                                    ELSE Append(kept[n - 1], s[n])
  <2> DEFINE h == Step(kept)
  <2>1. /\ h[0] = << >>
        /\ \A n \in 1..L : h[n] = IF Answers(s[n], d) THEN kept[n - 1]
                                   ELSE Append(kept[n - 1], s[n])
    BY <1>3, Zenon
  <2> HIDE DEF h
  <2> QED
    BY <1>8, <2>1, Zenon DEF h
<1>10. Selects(<< >>, s, 0, D)
  BY DEF Selects, Distinct
<1>11. \A n \in 0..L : Selects(kept[n], s, n, D)
  <2> DEFINE Bad == {n \in 0..L : ~Selects(kept[n], s, n, D)}
  <2> SUFFICES ASSUME Bad # {} PROVE FALSE
    BY Zenon
  <2>1. Bad \subseteq Nat
    BY <1>2
  <2>2. PICK b \in Bad : \A c \in Bad : b <= c
    <3> HIDE DEF Bad
    <3> QED
      BY <2>1, MinNat, Zenon
  <2>3. b \in 1..L
    BY <1>3, <1>9, <1>10, <2>2, Zenon
  <2>4. b - 1 \in 0..L /\ b - 1 < b
    BY <1>2, <2>3
  <2>5. Selects(kept[b - 1], s, b - 1, D)
    BY <2>2, <2>3, <2>4
  <2>6. Selects(kept[b], s, b, D)
    <3>1. Selects(kept[b - 1], s, b, D) /\ Selects(Append(kept[b - 1], s[b]), s, b, D)
      BY <2>3, <2>5, SelectsNext, Zenon DEF L
    <3> QED
      BY <1>9, <2>3, <3>1, Zenon
  <2> QED
    BY <2>2, <2>6, Zenon
<1> QED
  BY <1>1, <1>3, <1>11, Zenon DEF L

\* The Commits of a set are of one ballot, at most one to each peer.
OneBallot(S) ==
    \A d, e \in S : d.tag = "Commit" /\ e.tag = "Commit" => e.view = d.view /\ (e.to = d.to => e = d)

\* m is the ledger l after the datagrams of s were recorded, in some order.
Recorded(m, s, l, D) ==
    /\ LedgerOver(m, D)
    /\ \A e \in m.last : e \in l.last \/ (e \in s /\ e.tag = "Commit")
    /\ \A d \in s : d.tag = "Commit" => \A e \in m.last : e.view = d.view /\ (e.to = d.to => e = d)

\* One datagram more.
LEMMA RecordedNext ==
    ASSUME NEW D, NEW l, NEW s, NEW x \in s, NEW m, Recorded(m, s \ {x}, l, D),
           s \subseteq D, OneBallot(s)
    PROVE  Recorded(Record(m, x), s, l, D)
<1> DEFINE r == Record(m, x)
<1>1. /\ LedgerOver(r, D)
      /\ r.last = IF x.tag = "Commit" THEN RememberCommit(m.last, x) ELSE m.last
  BY RecordKeeps DEF Recorded
<1> HIDE DEF r
<1>2. ASSUME NEW e \in r.last PROVE e \in m.last \/ (e = x /\ x.tag = "Commit")
  BY <1>1, <1>2, Zenon DEF RememberCommit
<1>3. \A e \in r.last : e \in l.last \/ (e \in s /\ e.tag = "Commit")
  BY <1>2, Zenon DEF Recorded
<1>4. ASSUME NEW d \in s, d.tag = "Commit", NEW e \in r.last
      PROVE  e.view = d.view /\ (e.to = d.to => e = d)
  <2>1. CASE d = x
    BY <1>1, <1>4, <2>1, Zenon DEF RememberCommit
  <2>2. CASE d # x /\ e \in m.last
    BY <1>4, <2>2, Zenon DEF Recorded
  <2>3. CASE e = x /\ x.tag = "Commit"
    BY <1>4, <2>3, Zenon DEF OneBallot
  <2> QED
    BY <1>2, <1>4, <2>1, <2>2, <2>3, Zenon
<1> QED
  BY <1>1, <1>3, <1>4, Zenon DEF Recorded, r

\* flush_outputs records everything the core released: whichever order FoldSet
\* takes, the list keeps its invariant and the last Commits are the new ones.
LEMMA FlushRecords ==
    ASSUME NEW D, NEW l, LedgerOver(l, D), NEW S \in SUBSET D, IsFiniteSet(S), OneBallot(S)
    PROVE  Recorded(FoldSet(LAMBDA d, m : Record(m, d), l, S), S, l, D)
<1> DEFINE Pick(s) == CHOOSE x \in s : TRUE
           T(k) == {s \in SUBSET S : Cardinality(s) <= k}
           Step(g, W) == [s \in W |-> IF s = {} THEN l ELSE Record(g[s \ {Pick(s)}], Pick(s))]
           Has(k) == \E g : g = Step(g, T(k))
           iter == CHOOSE g : g = Step(g, SUBSET S)
<1>1. FoldSet(LAMBDA d, m : Record(m, d), l, S) = iter[S]
  BY Zenon DEF FoldSet, MapThenFoldSet
<1>2. \A s \in SUBSET S : IsFiniteSet(s) /\ Cardinality(s) \in Nat
  BY FS_Subset, FS_CardinalityType, Zenon
<1>3. \A s \in SUBSET S : s # {} => Pick(s) \in s /\ s \ {Pick(s)} \in SUBSET S
  BY Zenon
<1>4. \A s \in SUBSET S : s # {} => Cardinality(s \ {Pick(s)}) = Cardinality(s) - 1
  BY <1>2, <1>3, FS_RemoveElement, Zenon
<1>5. \A s \in SUBSET S : Cardinality(s) = 0 <=> s = {}
  BY <1>2, FS_EmptySet, Zenon
<1> HIDE DEF Pick
<1>6. Has(0)
  <2> DEFINE g == [s \in T(0) |-> l]
  <2>1. \A s \in T(0) : s = {}
    BY <1>2, <1>5
  <2>2. g = Step(g, T(0))
    BY <2>1, Zenon
  <2> QED
    BY <2>2, Zenon
<1>7. ASSUME NEW k \in Nat, Has(k) PROVE Has(k + 1)
  <2>1. PICK g : g = Step(g, T(k))
    BY <1>7, Zenon
  <2> DEFINE h == Step(g, T(k + 1))
  <2>2. \A s \in T(k) : g[s] = IF s = {} THEN l ELSE Record(g[s \ {Pick(s)}], Pick(s))
    <3> DEFINE f == Step(g, T(k))
    <3>1. \A s \in T(k) : f[s] = IF s = {} THEN l ELSE Record(g[s \ {Pick(s)}], Pick(s))
      BY Zenon
    <3> HIDE DEF f
    <3> QED
      BY <2>1, <3>1, Zenon DEF f
  <2>3. \A s \in T(k) : s \in T(k + 1)
    BY <1>2
  <2>4. \A s \in T(k + 1) : h[s] = IF s = {} THEN l ELSE Record(g[s \ {Pick(s)}], Pick(s))
    BY Zenon
  <2>5. \A s \in T(k) : h[s] = g[s]
    <3> HIDE DEF h, T
    <3> QED
      BY <2>2, <2>3, <2>4, Zenon
  <2>6. \A s \in T(k + 1) : s # {} => s \ {Pick(s)} \in T(k)
    <3> SUFFICES ASSUME NEW s \in T(k + 1), s # {} PROVE s \ {Pick(s)} \in T(k)
      BY Zenon
    <3>1. s \in SUBSET S /\ Cardinality(s) <= k + 1 /\ Cardinality(s) \in Nat
      BY <1>2, Zenon
    <3>2. s \ {Pick(s)} \in SUBSET S /\ Cardinality(s \ {Pick(s)}) = Cardinality(s) - 1
      BY <1>3, <1>4, <3>1, Zenon
    <3> QED
      BY <3>1, <3>2
  <2>7. \A s \in T(k + 1) :
          (IF s = {} THEN l ELSE Record(g[s \ {Pick(s)}], Pick(s)))
            = IF s = {} THEN l ELSE Record(h[s \ {Pick(s)}], Pick(s))
    <3> HIDE DEF h, T
    <3> QED
      BY <2>5, <2>6, Zenon
  <2>8. h = Step(h, T(k + 1))
    <3>1. h = [s \in T(k + 1) |-> IF s = {} THEN l ELSE Record(g[s \ {Pick(s)}], Pick(s))]
      BY Zenon
    <3> HIDE DEF h, T
    <3>2. h = [s \in T(k + 1) |-> IF s = {} THEN l ELSE Record(h[s \ {Pick(s)}], Pick(s))]
      BY <2>7, <3>1, Zenon
    <3> QED
      BY <3>2, Zenon
  <2> HIDE DEF h
  <2> QED
    BY <2>8, Zenon
<1> HIDE DEF Has
<1>8. \A k \in Nat : Has(k)
  <2> DEFINE Bad == {k \in Nat : ~Has(k)}
  <2> SUFFICES ASSUME Bad # {} PROVE FALSE
    BY Zenon
  <2>1. PICK b \in Bad : \A c \in Bad : b <= c
    <3>1. Bad \subseteq Nat
      BY Zenon
    <3> HIDE DEF Bad
    <3> QED
      BY <3>1, MinNat, Zenon
  <2>2. b \in Nat /\ ~Has(b) /\ b # 0
    BY <1>6, Zenon
  <2>3. b - 1 \in Nat /\ (b - 1) + 1 = b
    BY <2>2
  <2>4. Has(b - 1)
    BY <2>1, <2>2, <2>3
  <2> QED
    BY <1>7, <2>2, <2>3, <2>4, Zenon
<1>9. iter = Step(iter, SUBSET S)
  <2>1. T(Cardinality(S)) = SUBSET S
    <3>1. \A s \in SUBSET S : Cardinality(s) <= Cardinality(S)
      BY FS_Subset, Zenon
    <3> QED
      BY <3>1, Zenon
  <2>2. Has(Cardinality(S))
    BY <1>2, <1>8, Zenon
  <2>3. \E g : g = Step(g, SUBSET S)
    <3> HIDE DEF T
    <3> QED
      BY <2>1, <2>2, Zenon DEF Has
  <2> QED
    BY <2>3, Zenon
<1> HIDE DEF iter
<1>10. \A s \in SUBSET S : iter[s] = IF s = {} THEN l ELSE Record(iter[s \ {Pick(s)}], Pick(s))
  <2> DEFINE f == Step(iter, SUBSET S)
  <2>1. \A s \in SUBSET S : f[s] = IF s = {} THEN l ELSE Record(iter[s \ {Pick(s)}], Pick(s))
    BY Zenon
  <2> HIDE DEF f
  <2> QED
    BY <1>9, <2>1, Zenon DEF f
<1>11. \A s \in SUBSET S : Recorded(iter[s], s, l, D)
  <2> DEFINE Bad == {Cardinality(s) : s \in {z \in SUBSET S : ~Recorded(iter[z], z, l, D)}}
  <2> SUFFICES ASSUME NEW z \in SUBSET S, ~Recorded(iter[z], z, l, D) PROVE FALSE
    BY Zenon
  <2>1. Bad \subseteq Nat /\ Bad # {}
    BY <1>2, Zenon
  <2>2. PICK b \in Bad : \A c \in Bad : b <= c
    <3> HIDE DEF Bad
    <3> QED
      BY <2>1, MinNat, Zenon
  <2>3. PICK s \in SUBSET S : ~Recorded(iter[s], s, l, D) /\ b = Cardinality(s)
    BY <2>2, Zenon
  <2>4. CASE s = {}
    <3>1. iter[s] = l
      BY <1>10, <2>4, Zenon
    <3>2. Recorded(l, {}, l, D)
      BY Zenon DEF Recorded
    <3> QED
      BY <2>3, <2>4, <3>1, <3>2, Zenon
  <2>5. CASE s # {}
    <3> DEFINE y == Pick(s)
    <3>1. y \in s /\ s \ {y} \in SUBSET S /\ Cardinality(s \ {y}) = Cardinality(s) - 1
      BY <1>3, <1>4, <2>5, Zenon
    <3>2. iter[s] = Record(iter[s \ {y}], y)
      BY <1>10, <2>5, Zenon
    <3> HIDE DEF y
    <3>3. Cardinality(s) \in Nat
      BY <1>2, Zenon
    <3>4. Recorded(iter[s \ {y}], s \ {y}, l, D)
      <4> SUFFICES ASSUME ~Recorded(iter[s \ {y}], s \ {y}, l, D) PROVE FALSE
        BY Zenon
      <4>1. Cardinality(s \ {y}) \in Bad
        BY <3>1, Zenon
      <4>2. b <= Cardinality(s \ {y})
        BY <2>2, <4>1, Zenon
      <4> QED
        BY <2>3, <3>1, <3>3, <4>2
    <3>5. s \subseteq D /\ OneBallot(s)
      BY Zenon DEF OneBallot
    <3>6. Recorded(iter[s], s, l, D)
      BY <3>1, <3>2, <3>4, <3>5, RecordedNext
    <3> QED
      BY <2>3, <3>6, Zenon
  <2> QED
    BY <2>4, <2>5, Zenon
<1> QED
  BY <1>1, <1>11, Zenon

(* --------------------------- what is released --------------------------- *)

\* What may be in flight: nothing to oneself, and a Prepare of a view's primary.
Sent == {d \in Datagram : d.from # d.to /\ (d.tag = "Prepare" => d.from = Primary(d.view))}

\* The configuration: voters and processes are finite sets of nodes, and every
\* view has a primary among the voters.
LEMMA SceneFacts ==
    ASSUME scene \in Scenes
    PROVE  /\ Members \subseteq Node /\ IsFiniteSet(Members) /\ up \subseteq Node
           /\ \A v \in Nat : Primary(v) \in Node /\ Primary(v) # None
           /\ scene.views \in Nat /\ scene.losses \in Nat
<1>1. /\ IsFiniteSet(voters) /\ IsFiniteSet(up) /\ voters = 1..Cardinality(voters)
      /\ voters # {} /\ voters \subseteq Node /\ up \subseteq Node
      /\ scene.views \in Nat /\ scene.losses \in Nat
  BY DetectorAssumption, Zenon DEF voters, up
<1> DEFINE k == Cardinality(voters)
<1>2. k \in Nat /\ k # 0
  BY <1>1, FS_CardinalityType, FS_EmptySet, Zenon
<1>3. \A v \in Nat : (v % k) + 1 \in 1..k
  <2> HIDE DEF k
  <2> QED
    BY <1>2
<1>4. \A v \in Nat : Primary(v) \in 1..k
  BY <1>3, Zenon DEF Primary
<1> HIDE DEF k
<1>5. \A v \in Nat : Primary(v) \in Node /\ Primary(v) # None
  <2>1. 0 \notin 1..k
    BY <1>2
  <2>2. 1..k \subseteq Node
    BY <1>1, Zenon DEF k
  <2> QED
    BY <1>4, <2>1, <2>2, Zenon DEF None
<1>6. Members \subseteq Node /\ IsFiniteSet(Members)
  BY <1>1, FS_Union, Zenon DEF Members
<1> QED
  BY <1>1, <1>5, <1>6, Zenon

\* What one broadcast puts in flight.
LEMMA ToSends ==
    ASSUME scene \in Scenes, NEW n \in Node, NEW peers \in SUBSET Node, IsFiniteSet(peers),
           NEW tag \in Tag, NEW c, c.view \in Nat, NEW slot \in Nat,
           tag = "Prepare" => n = Primary(c.view)
    PROVE  /\ To(n, peers, tag, c, slot) \subseteq Sent
           /\ IsFiniteSet(To(n, peers, tag, c, slot))
           /\ \A d \in To(n, peers, tag, c, slot) :
                 d.from = n /\ d.tag = tag /\ d.view = c.view /\ d.slot = slot
           /\ \A d, e \in To(n, peers, tag, c, slot) : d.to = e.to => d = e
<1> DEFINE P == peers \ {n}
           Make(p) == [tag |-> tag, from |-> n, to |-> p, view |-> c.view, slot |-> slot]
           f == [p \in P |-> Make(p)]
           S == To(n, peers, tag, c, slot)
<1>1. S = {Make(p) : p \in P}
  BY Zenon DEF To
<1>2. ASSUME NEW p \in P PROVE Make(p) \in Sent
  <2>1. p \in Node /\ p # n
    BY Zenon
  <2>2. Make(p) \in Datagram
    BY <2>1, Zenon DEF Datagram
  <2> QED
    BY <2>1, <2>2, Zenon DEF Sent
<1>3. IsFiniteSet(S)
  <2>1. IsFiniteSet(P)
    BY FS_Subset, Zenon
  <2>2. f \in Surjection(P, S)
    BY <1>1, Zenon DEF Surjection
  <2> HIDE DEF f, P, S
  <2> QED
    BY <2>1, <2>2, FS_Surjection, Zenon
<1>4. S \subseteq Sent
  BY <1>1, <1>2, Zenon
<1>5. \A d \in S : d.from = n /\ d.tag = tag /\ d.view = c.view /\ d.slot = slot
  BY <1>1
<1>6. \A d, e \in S : d.to = e.to => d = e
  BY <1>1
<1> QED
  BY <1>3, <1>4, <1>5, <1>6, Zenon

\* What a step of replica n from c may do: its view never goes back, a leader's
\* slot neither while its view stands, and what it releases it may release.
CoreLaw(n, c, r) ==
    /\ CoreRec(r.core) /\ r.core.slot \in Nat /\ r.core.committed \in Nat
    /\ c.view <= r.core.view
    /\ r.core.view = c.view /\ Normal(c) =>
          Normal(r.core) /\ (Primary(c.view) = n => c.slot <= r.core.slot)
    /\ r.outs \subseteq Sent /\ IsFiniteSet(r.outs) /\ OneBallot(r.outs)
    /\ \A d \in r.outs :
          /\ d.from = n
          /\ d.tag = "Commit" => /\ Leads(n, r.core)
                                 /\ d.view = r.core.view /\ d.slot = r.core.slot

\* The replica records this is about.
CoreTyped(c) == CoreRec(c) /\ c.slot \in Nat /\ c.committed \in Nat

LEMMA StillLaw == ASSUME NEW n, NEW c, CoreTyped(c) PROVE CoreLaw(n, c, Still(c))
<1>1. Still(c).core = c /\ Still(c).outs = {}
  BY Zenon DEF Still
<1>2. IsFiniteSet({})
  BY FS_EmptySet, Zenon
<1>3. c.view <= c.view /\ c.slot <= c.slot
  BY DEF CoreTyped, CoreRec
<1> QED
  BY <1>1, <1>2, <1>3, Zenon DEF CoreLaw, CoreTyped, OneBallot

\* Broadcasts of other tags than Commit.
LEMMA QuietLaw ==
    ASSUME NEW n, NEW c, NEW r, CoreTyped(r.core), c.view <= r.core.view,
           r.core.view = c.view /\ Normal(c) =>
              Normal(r.core) /\ (Primary(c.view) = n => c.slot <= r.core.slot),
           r.outs \subseteq Sent, IsFiniteSet(r.outs),
           \A d \in r.outs : d.from = n /\ d.tag # "Commit"
    PROVE  CoreLaw(n, c, r)
  BY Zenon DEF CoreLaw, CoreTyped, OneBallot

\* A replica that enters a later view.
LEMMA EnterLaw ==
    ASSUME scene \in Scenes, NEW n \in Node, NEW c, CoreTyped(c), NEW v \in Nat, c.view < v, NEW votes
    PROVE  CoreLaw(n, c, EnterView(n, c, v, votes))
<1> DEFINE r == EnterView(n, c, v, votes)
           next == [c EXCEPT !.view = v, !.state = "view_change", !.votes = votes]
           starts == To(n, Members, "StartViewChange", next, 0)
           does == To(n, {Primary(v)}, "DoViewChange", next, 0)
<1>1. CoreRec(r.core) /\ r.core.view = v
  BY EnterViewKeeps DEF CoreTyped
<1>2. r.core = next /\ r.outs = starts \union (IF votes = {} THEN {} ELSE does)
  BY Zenon DEF EnterView
<1>3. next.slot = c.slot /\ next.committed = c.committed
  BY Zenon DEF CoreTyped, CoreRec
<1>4. next.view = v
  BY <1>1, <1>2, Zenon
<1> HIDE DEF next, r
<1>5. Members \in SUBSET Node /\ IsFiniteSet(Members) /\ Primary(v) \in Node
  BY SceneFacts, Zenon
<1>6. {Primary(v)} \in SUBSET Node /\ IsFiniteSet({Primary(v)})
  BY <1>5, FS_Singleton, Zenon
<1>7. /\ starts \subseteq Sent /\ IsFiniteSet(starts)
      /\ \A d \in starts : d.from = n /\ d.tag = "StartViewChange"
  BY <1>4, <1>5, ToSends DEF Tag
<1>8. /\ does \subseteq Sent /\ IsFiniteSet(does)
      /\ \A d \in does : d.from = n /\ d.tag = "DoViewChange"
  <2> DEFINE P == {Primary(v)}
  <2>1. P \in SUBSET Node /\ IsFiniteSet(P) /\ "DoViewChange" \in Tag /\ next.view \in Nat
    BY <1>4, <1>6, Zenon DEF Tag
  <2>2. does = To(n, P, "DoViewChange", next, 0)
    BY Zenon
  <2> HIDE DEF P, does
  <2> QED
    BY <2>1, <2>2, ToSends
<1> HIDE DEF starts, does
<1>9. /\ r.outs \subseteq Sent /\ IsFiniteSet(r.outs)
      /\ \A d \in r.outs : d.from = n /\ d.tag # "Commit"
  <2>1. IsFiniteSet(starts \union does)
    BY <1>7, <1>8, FS_Union, Zenon
  <2> QED
    BY <1>2, <1>7, <1>8, <2>1, Zenon
<1>10. CoreTyped(r.core)
  BY <1>1, <1>2, <1>3, Zenon DEF CoreTyped
<1>11. c.view \in Nat /\ c.view <= r.core.view /\ r.core.view # c.view
  BY <1>1 DEF CoreTyped, CoreRec
<1> QED
  BY <1>9, <1>10, <1>11, QuietLaw, Zenon DEF r

LEMMA ForceLaw ==
    ASSUME scene \in Scenes, NEW n \in Node, NEW c, CoreTyped(c)
    PROVE  CoreLaw(n, c, ForceView(n, c)) /\ ForceView(n, c).core.view = c.view + 1
<1>1. c.view \in Nat /\ c.view + 1 \in Nat /\ c.view < c.view + 1
  BY DEF CoreTyped, CoreRec
<1> QED
  BY <1>1, EnterLaw, EnterViewKeeps DEF ForceView, CoreTyped

\* A tick: nothing, or the next view within the bound.
LEMMA TicksLaw ==
    ASSUME scene \in Scenes, NEW n \in Node, NEW c, CoreTyped(c), c.view <= scene.views,
           NEW t \in Ticks(n, c)
    PROVE  CoreLaw(n, c, t) /\ t.core.view <= scene.views
<1>1. t = Still(c) \/ (c.view < scene.views /\ t = ForceView(n, c))
  BY Zenon DEF Ticks
<1>2. CASE t = Still(c)
  <2>1. t.core = c
    BY <1>2, Zenon DEF Still
  <2> QED
    BY <1>2, <2>1, StillLaw, Zenon
<1>3. CASE c.view < scene.views /\ t = ForceView(n, c)
  <2>1. CoreLaw(n, c, t) /\ t.core.view = c.view + 1
    BY <1>3, ForceLaw, Zenon
  <2>2. c.view \in Nat /\ scene.views \in Nat
    BY SceneFacts, Zenon DEF CoreTyped, CoreRec
  <2> QED
    BY <1>3, <2>1, <2>2
<1> QED
  BY <1>1, <1>2, <1>3, Zenon

\* A client's verb at the primary.
LEMMA ProposeLaw ==
    ASSUME scene \in Scenes, NEW n \in Node, NEW c, CoreTyped(c), Leads(n, c)
    PROVE  LET next == [c EXCEPT !.slot = @ + 1]
           IN  CoreLaw(n, c, [core |-> next, outs |-> To(n, Members, "Prepare", next, next.slot)])
               /\ next.view = c.view
<1> DEFINE next == [c EXCEPT !.slot = @ + 1]
           outs == To(n, Members, "Prepare", next, next.slot)
           r == [core |-> next, outs |-> outs]
<1>1. c.slot \in Nat /\ c.slot + 1 \in Nat /\ c.slot <= c.slot + 1 /\ c.view \in Nat /\ c.view <= c.view
  BY DEF CoreTyped, CoreRec
<1>2. CoreRec(next) /\ next.view = c.view /\ next.slot = c.slot + 1
      /\ next.committed = c.committed /\ next.state = c.state
  BY DEF CoreTyped, CoreRec
<1> HIDE DEF next
<1>3. Members \in SUBSET Node /\ IsFiniteSet(Members)
  BY SceneFacts, Zenon
<1>4. /\ outs \subseteq Sent /\ IsFiniteSet(outs)
      /\ \A d \in outs : d.from = n /\ d.tag = "Prepare"
  BY <1>1, <1>2, <1>3, ToSends DEF Tag, Leads
<1>5. r.core = next /\ r.outs = outs
  BY Zenon
<1> HIDE DEF r, outs
<1>6. CoreTyped(r.core)
  BY <1>1, <1>2, <1>5, Zenon DEF CoreTyped
<1>7. CoreLaw(n, c, r)
  BY <1>1, <1>2, <1>4, <1>5, <1>6, QuietLaw, Zenon DEF Normal
<1> QED
  BY <1>2, <1>7, Zenon DEF r, outs, next

\* A datagram that is in flight to n keeps the law, whatever it is: in particular
\* no Prepare of its own view reaches a primary.
LEMMA ReceiveLaw ==
    ASSUME scene \in Scenes, NEW n \in Node, NEW c, CoreTyped(c), NEW d \in Sent, d.to = n
    PROVE  CoreLaw(n, c, CoreReceive(n, c, d))
<1> DEFINE r == CoreReceive(n, c, d)
           counted == [c EXCEPT !.votes = @ \union {d.from}]
           leading == [c EXCEPT !.state = "normal", !.votes = {}]
           started == [c EXCEPT !.view = d.view, !.state = "normal", !.votes = {}, !.slot = d.slot]
           prepared == [c EXCEPT !.slot = d.slot]
           settled == [c EXCEPT !.committed = d.slot]
           peers == IF Normal(c) THEN {d.from} ELSE Members
           asker == {d.from}
           chief == {Primary(c.view)}
           does == To(n, chief, "DoViewChange", c, 0)
           answer == IF scene.reanswers /\ d.from \in c.votes
                     THEN To(n, asker, "StartViewChange", c, 0) ELSE {}
<1>1. /\ d \in Datagram /\ d.from \in Node /\ d.view \in Nat /\ d.slot \in Nat /\ d.from # n
      /\ d.tag = "Prepare" => d.from = Primary(d.view)
  BY Zenon DEF Sent, Datagram
<1>2. /\ c.view \in Nat /\ c.slot \in Nat /\ c.committed \in Nat /\ c.state \in {"normal", "view_change"}
      /\ c.view <= c.view /\ c.slot <= c.slot
  BY DEF CoreTyped, CoreRec
<1>3. \/ r = Still(c)
      \/ d.view > c.view /\ r = EnterView(n, c, d.view, {d.from})
      \/ r = [core |-> counted, outs |-> does \union answer] /\ ~Normal(c)
      \/ r = [core |-> leading, outs |-> To(n, peers, "StartView", leading, c.slot)]
      \/ /\ r = [core |-> started, outs |-> To(n, asker, "PrepareOk", started, d.slot)]
         /\ d.view > c.view \/ (~Normal(c) /\ d.view = c.view)
      \/ /\ r = [core |-> prepared, outs |-> To(n, asker, "PrepareOk", prepared, d.slot)]
         /\ d.tag = "Prepare" /\ d.view = c.view
      \/ /\ r = [core |-> settled, outs |-> CommitOuts(n, settled)]
         /\ Leads(n, c) /\ d.slot = c.slot
      \/ r = Still(settled)
  BY <1>1, <1>2, SMTT(60) DEF CoreReceive
<1>4. DOMAIN c = CoreFieldNames
  BY Zenon DEF CoreTyped, CoreRec, CoreFieldNames
<1>5. /\ CoreTyped(counted) /\ counted.view = c.view /\ counted.slot = c.slot /\ counted.state = c.state
  BY DEF CoreTyped, CoreRec
<1>6. /\ CoreTyped(leading) /\ leading.view = c.view /\ leading.slot = c.slot /\ leading.state = "normal"
  <2>1. leading = [f \in CoreFieldNames |-> IF f = "state" THEN "normal"
                                            ELSE IF f = "votes" THEN {} ELSE c[f]]
    BY <1>4, Zenon DEF CoreFieldNames
  <2> QED
    BY <1>2, <2>1 DEF CoreTyped, CoreRec, CoreFieldNames
<1>7. /\ CoreTyped(started) /\ started.view = d.view /\ started.state = "normal"
  <2>1. started = [f \in CoreFieldNames |-> IF f = "view" THEN d.view
                                            ELSE IF f = "state" THEN "normal"
                                            ELSE IF f = "votes" THEN {}
                                            ELSE IF f = "slot" THEN d.slot ELSE c[f]]
    BY <1>4, Zenon DEF CoreFieldNames
  <2> QED
    BY <1>1, <1>2, <2>1 DEF CoreTyped, CoreRec, CoreFieldNames
<1>8. /\ CoreTyped(prepared) /\ prepared.view = c.view /\ prepared.state = c.state
  BY <1>1 DEF CoreTyped, CoreRec
<1>9. /\ CoreTyped(settled) /\ settled.view = c.view /\ settled.state = c.state
      /\ settled.slot = c.slot /\ settled.committed = d.slot
  BY <1>1 DEF CoreTyped, CoreRec
<1> HIDE DEF r, counted, leading, started, prepared, settled
<1>10. /\ Members \in SUBSET Node /\ IsFiniteSet(Members)
       /\ asker \in SUBSET Node /\ IsFiniteSet(asker)
       /\ peers \in SUBSET Node /\ IsFiniteSet(peers)
       /\ chief \in SUBSET Node /\ IsFiniteSet(chief) /\ 0 \in Nat
  BY <1>1, <1>2, SceneFacts, FS_Singleton, Zenon
<1>11. /\ "StartView" \in Tag /\ "PrepareOk" \in Tag /\ "StartViewChange" \in Tag
       /\ "DoViewChange" \in Tag /\ "Commit" \in Tag
  BY Zenon DEF Tag
<1> HIDE DEF peers, asker, chief
<1>12. ASSUME NEW S \in SUBSET Node, IsFiniteSet(S), NEW tag \in Tag, tag # "Prepare", tag # "Commit",
              NEW k, k.view \in Nat, NEW slot \in Nat
       PROVE  /\ To(n, S, tag, k, slot) \subseteq Sent /\ IsFiniteSet(To(n, S, tag, k, slot))
              /\ \A e \in To(n, S, tag, k, slot) : e.from = n /\ e.tag # "Commit"
  BY <1>12, ToSends
<1>13. CASE r = Still(c)
  BY <1>13, StillLaw, Zenon DEF r
<1>14. CASE d.view > c.view /\ r = EnterView(n, c, d.view, {d.from})
  <2>1. c.view < d.view
    BY <1>1, <1>2, <1>14, Zenon
  <2> QED
    BY <1>1, <1>14, <2>1, EnterLaw, Zenon DEF r
<1>15. CASE r = [core |-> counted, outs |-> does \union answer] /\ ~Normal(c)
  <2>1. /\ does \subseteq Sent /\ IsFiniteSet(does)
        /\ \A e \in does : e.from = n /\ e.tag # "Commit"
    BY <1>2, <1>10, <1>11, <1>12
  <2>2. /\ answer \subseteq Sent /\ IsFiniteSet(answer)
        /\ \A e \in answer : e.from = n /\ e.tag # "Commit"
    <3>1. CASE scene.reanswers /\ d.from \in c.votes
      BY <1>2, <1>10, <1>11, <1>12, <3>1
    <3>2. CASE ~(scene.reanswers /\ d.from \in c.votes)
      BY <3>2, FS_EmptySet, Zenon
    <3> QED
      BY <3>1, <3>2, Zenon
  <2> HIDE DEF does, answer
  <2>3. r.core = counted /\ r.outs = does \union answer
    BY <1>15, Zenon
  <2>4. IsFiniteSet(does \union answer)
    BY <2>1, <2>2, FS_Union, Zenon
  <2>5. /\ r.outs \subseteq Sent /\ IsFiniteSet(r.outs)
        /\ \A e \in r.outs : e.from = n /\ e.tag # "Commit"
    BY <2>1, <2>2, <2>3, <2>4, Zenon
  <2> QED
    BY <1>2, <1>5, <1>15, <2>3, <2>5, QuietLaw, Zenon DEF r
<1> HIDE DEF does, answer
<1>16. CASE r = [core |-> leading, outs |-> To(n, peers, "StartView", leading, c.slot)]
  <2>1. r.core = leading /\ r.outs = To(n, peers, "StartView", leading, c.slot)
    BY <1>16, Zenon
  <2>2. /\ r.outs \subseteq Sent /\ IsFiniteSet(r.outs)
        /\ \A e \in r.outs : e.from = n /\ e.tag # "Commit"
    BY <1>2, <1>6, <1>10, <1>11, <1>12, <2>1
  <2> QED
    BY <1>2, <1>6, <2>1, <2>2, QuietLaw, Zenon DEF r, Normal
<1>17. CASE /\ r = [core |-> started, outs |-> To(n, asker, "PrepareOk", started, d.slot)]
            /\ d.view > c.view \/ (~Normal(c) /\ d.view = c.view)
  <2>1. r.core = started /\ r.outs = To(n, asker, "PrepareOk", started, d.slot)
    BY <1>17, Zenon
  <2>2. /\ r.outs \subseteq Sent /\ IsFiniteSet(r.outs)
        /\ \A e \in r.outs : e.from = n /\ e.tag # "Commit"
    BY <1>1, <1>7, <1>10, <1>11, <1>12, <2>1
  <2>3. c.view <= r.core.view /\ (r.core.view = c.view => ~Normal(c))
    BY <1>1, <1>2, <1>7, <1>17, <2>1
  <2> QED
    BY <1>7, <2>1, <2>2, <2>3, QuietLaw, Zenon DEF r
<1>18. CASE /\ r = [core |-> prepared, outs |-> To(n, asker, "PrepareOk", prepared, d.slot)]
            /\ d.tag = "Prepare" /\ d.view = c.view
  <2>1. r.core = prepared /\ r.outs = To(n, asker, "PrepareOk", prepared, d.slot)
    BY <1>18, Zenon
  <2>2. /\ r.outs \subseteq Sent /\ IsFiniteSet(r.outs)
        /\ \A e \in r.outs : e.from = n /\ e.tag # "Commit"
    BY <1>1, <1>2, <1>8, <1>10, <1>11, <1>12, <2>1
  <2>3. Primary(c.view) # n
    BY <1>1, <1>18, Zenon
  <2> QED
    BY <1>2, <1>8, <2>1, <2>2, <2>3, QuietLaw, Zenon DEF r, Normal
<1>19. CASE r = Still(settled)
  <2>1. r.core = settled /\ r.outs = {}
    BY <1>19, Zenon DEF Still
  <2>2. /\ r.outs \subseteq Sent /\ IsFiniteSet(r.outs)
        /\ \A e \in r.outs : e.from = n /\ e.tag # "Commit"
    BY <2>1, FS_EmptySet, Zenon
  <2> QED
    BY <1>2, <1>9, <2>1, <2>2, QuietLaw, Zenon DEF r, Normal
<1>20. CASE /\ r = [core |-> settled, outs |-> CommitOuts(n, settled)]
            /\ Leads(n, c) /\ d.slot = c.slot
  <2>1. r.core = settled /\ r.outs = To(n, Members, "Commit", settled, settled.committed)
    BY <1>20, Zenon DEF CommitOuts
  <2>2. /\ r.outs \subseteq Sent /\ IsFiniteSet(r.outs)
        /\ \A e \in r.outs : /\ e.from = n /\ e.tag = "Commit" /\ e.view = settled.view
                             /\ e.slot = settled.committed
        /\ \A e, f \in r.outs : e.to = f.to => e = f
    <3>1. settled.view \in Nat /\ settled.committed \in Nat
      BY <1>1, <1>2, <1>9, Zenon
    <3> DEFINE says == To(n, Members, "Commit", settled, settled.committed)
    <3>2. /\ says \subseteq Sent /\ IsFiniteSet(says)
          /\ \A e \in says : /\ e.from = n /\ e.tag = "Commit" /\ e.view = settled.view
                             /\ e.slot = settled.committed
          /\ \A e, f \in says : e.to = f.to => e = f
      BY <1>10, <1>11, <3>1, ToSends
    <3> QED
      BY <2>1, <3>2
  <2>3. OneBallot(r.outs)
    BY <2>2, Zenon DEF OneBallot
  <2>4. Leads(n, r.core) /\ settled.committed = settled.slot
    BY <1>9, <1>20, <2>1, Zenon DEF Leads, Normal
  <2>5. \A e \in r.outs : /\ e.from = n
                          /\ e.tag = "Commit" => /\ Leads(n, r.core)
                                                 /\ e.view = r.core.view /\ e.slot = r.core.slot
    BY <2>1, <2>2, <2>4, Zenon
  <2>6. CoreRec(r.core) /\ r.core.slot \in Nat /\ r.core.committed \in Nat
    BY <1>9, <2>1, Zenon DEF CoreTyped
  <2>7. /\ c.view <= r.core.view
        /\ Normal(c) => Normal(r.core) /\ c.slot <= r.core.slot
    BY <1>2, <1>9, <2>1, Zenon DEF Normal
  <2> QED
    BY <2>2, <2>3, <2>5, <2>6, <2>7, Zenon DEF CoreLaw, r
<1> QED
  BY <1>3, <1>13, <1>14, <1>15, <1>16, <1>17, <1>18, <1>19, <1>20, Zenon

(* ---------------------------- what was said ----------------------------- *)

\* A node n with the replica c and the ledger l, when the cores have announced A:
\* the ledger's last Commits are the newest n announced to those peers in that
\* view, and n announced nothing beyond its own view and slot.
Voiced(n, c, l, A) ==
    /\ CoreTyped(c) /\ c.view <= scene.views
    /\ LedgerOver(l, Sent)
    /\ \A e \in l.last :
          /\ e \in A /\ e.from = n
          /\ \A d \in A : d.from = n /\ d.to = e.to /\ d.view = e.view => d.slot <= e.slot
    /\ \A d \in A : d.from = n =>
          /\ d.tag = "Commit" /\ Primary(d.view) = n /\ d.view <= c.view
          /\ d.view = c.view => Normal(c) /\ d.slot <= c.slot

Speech ==
    /\ net \subseteq Sent /\ announced \subseteq Sent
    /\ \A n \in Node : Voiced(n, core[n], host[n].ledger, announced)

\* A lawful step of the node itself, its outputs recorded in a ledger m.
LEMMA VoicedStep ==
    ASSUME NEW n \in Node, NEW c, NEW l, NEW A, A \subseteq Sent, Voiced(n, c, l, A),
           NEW r, CoreLaw(n, c, r), r.core.view <= scene.views,
           NEW k, k.last = l.last, NEW m, Recorded(m, r.outs, k, Sent)
    PROVE  Voiced(n, r.core, m, A \union {d \in r.outs : d.tag = "Commit"})
<1> DEFINE S == {d \in r.outs : d.tag = "Commit"}
           B == A \union S
<1>1. /\ CoreTyped(r.core) /\ r.core.view \in Nat /\ r.core.slot \in Nat
      /\ CoreTyped(c) /\ c.view \in Nat /\ c.slot \in Nat
      /\ c.view <= r.core.view
      /\ r.core.view = c.view /\ Normal(c) =>
            Normal(r.core) /\ (Primary(c.view) = n => c.slot <= r.core.slot)
  BY Zenon DEF CoreLaw, Voiced, CoreTyped, CoreRec
<1>2. \A d \in A : d.view \in Nat /\ d.slot \in Nat
  BY Zenon DEF Sent, Datagram
<1>3. \A d \in S : /\ d.from = n /\ d.tag = "Commit" /\ Leads(n, r.core)
                   /\ d.view = r.core.view /\ d.slot = r.core.slot
  BY Zenon DEF CoreLaw
<1>4. \A d \in A : d.from = n =>
          /\ d.tag = "Commit" /\ Primary(d.view) = n /\ d.view <= c.view
          /\ d.view = c.view => Normal(c) /\ d.slot <= c.slot
  BY Zenon DEF Voiced
<1>5. \A d \in A : d.from = n /\ d.view = r.core.view => d.view = c.view /\ d.slot <= r.core.slot
                                                         /\ Normal(r.core)
  <2> TAKE d \in A
  <2> HAVE d.from = n /\ d.view = r.core.view
  <2>1. d.view = c.view
    BY <1>1, <1>2, <1>4
  <2>2. Normal(c) /\ d.slot <= c.slot /\ Primary(c.view) = n
    BY <1>4, <2>1, Zenon
  <2>3. Normal(r.core) /\ c.slot <= r.core.slot
    BY <1>1, <2>1, <2>2, Zenon
  <2> QED
    BY <1>1, <1>2, <2>1, <2>2, <2>3
<1>6. \A d \in B : d.from = n =>
          /\ d.tag = "Commit" /\ Primary(d.view) = n /\ d.view <= r.core.view
          /\ d.view = r.core.view => Normal(r.core) /\ d.slot <= r.core.slot
  <2> TAKE d \in B
  <2> HAVE d.from = n
  <2>1. CASE d \in A
    <3>1. d.tag = "Commit" /\ Primary(d.view) = n /\ d.view <= c.view
      BY <1>4, <2>1, Zenon
    <3>2. d.view <= r.core.view
      BY <1>1, <1>2, <2>1, <3>1
    <3> QED
      BY <1>5, <2>1, <3>1, <3>2, Zenon
  <2>2. CASE d \in S
    <3>1. d.tag = "Commit" /\ Leads(n, r.core) /\ d.view = r.core.view /\ d.slot = r.core.slot
      BY <1>3, <2>2, Zenon
    <3> QED
      BY <1>1, <3>1 DEF Leads
  <2> QED
    BY <2>1, <2>2, Zenon
<1>7. LedgerOver(m, Sent)
  BY Zenon DEF Recorded
<1>8. ASSUME NEW e \in m.last
      PROVE  /\ e \in B /\ e.from = n
             /\ \A d \in B : d.from = n /\ d.to = e.to /\ d.view = e.view => d.slot <= e.slot
  <2>1. /\ e \in l.last \/ e \in S
        /\ \A d \in S : e.view = d.view /\ (e.to = d.to => e = d)
    BY Zenon DEF Recorded
  <2>2. \A d \in S : d.to = e.to => d = e /\ d.slot <= e.slot
    BY <1>1, <1>3, <2>1
  <2>3. CASE e \in S
    <3>1. e.from = n /\ e.view = r.core.view /\ e.slot = r.core.slot
      BY <1>3, <2>3, Zenon
    <3>2. \A d \in A : d.from = n /\ d.view = e.view => d.slot <= e.slot
      BY <1>5, <3>1, Zenon
    <3> QED
      BY <2>2, <2>3, <3>1, <3>2, Zenon
  <2>4. CASE e \in l.last
    <3>1. /\ e \in A /\ e.from = n
          /\ \A d \in A : d.from = n /\ d.to = e.to /\ d.view = e.view => d.slot <= e.slot
      BY <2>4, Zenon DEF Voiced
    <3> QED
      BY <2>2, <3>1, Zenon
  <2> QED
    BY <2>1, <2>3, <2>4, Zenon
<1> HIDE DEF B
<1>9. Voiced(n, r.core, m, B)
  BY <1>1, <1>6, <1>7, <1>8, Zenon DEF Voiced
<1> QED
  BY <1>9, Zenon DEF B

\* What another node announces changes nothing.
LEMMA OthersVoiced ==
    ASSUME NEW n, NEW c, NEW l, NEW A, Voiced(n, c, l, A), NEW S, \A d \in S : d.from # n
    PROVE  Voiced(n, c, l, A \union S)
  BY Zenon DEF Voiced

\* The shape all actions have: one node takes a lawful step, its outputs go on the
\* wire and into a ledger with the last Commits it had, and what else goes on the
\* wire was sent before.
LEMMA ActsKeep ==
    ASSUME scene \in Scenes, Speech, NEW n \in Node,
           NEW r, CoreLaw(n, core[n], r), r.core.view <= scene.views,
           NEW k, k.last = host[n].ledger.last, NEW m, Recorded(m, r.outs, k, Sent),
           NEW extra, extra \subseteq Sent,
           scene' = scene, core'[n] = r.core, host'[n].ledger = m,
           \A o \in Node \ {n} : core'[o] = core[o] /\ host'[o] = host[o],
           net' \subseteq net \union r.outs \union extra,
           announced' = announced \union {d \in r.outs : d.tag = "Commit"}
    PROVE  Speech'
<1> DEFINE S == {d \in r.outs : d.tag = "Commit"}
<1>1. /\ r.outs \in SUBSET Sent /\ IsFiniteSet(r.outs) /\ OneBallot(r.outs)
      /\ \A d \in S : d.from = n
  BY Zenon DEF CoreLaw
<1>2. Voiced(n, r.core, m, announced \union S)
  BY VoicedStep, Zenon DEF Speech
<1>3. \A o \in Node \ {n} : Voiced(o, core[o], host[o].ledger, announced \union S)
  BY <1>1, OthersVoiced, Zenon DEF Speech
<1>4. announced' = announced \union S
  BY Zenon
<1> HIDE DEF S
<1>5. \A o \in Node : Voiced(o, core'[o], host'[o].ledger, announced')
  BY <1>2, <1>3, <1>4, Zenon
<1>6. /\ \A v : Primary(v)' = Primary(v) /\ Sent' = Sent /\ scene'.views = scene.views
  BY Zenon DEF Primary, voters, Sent
<1>7. \A o, c, l, A : Voiced(o, c, l, A)' <=> Voiced(o, c, l, A)
  BY ONLY <1>6 DEF Voiced
<1> QED
  BY <1>1, <1>4, <1>5, <1>6, <1>7, Zenon DEF Speech, S

\* What the parts of a host's record become.
LEMMA SuspectFields ==
    ASSUME NEW n, NEW h, HostRec(h)
    PROVE  /\ HostRec(Suspect(n, h)) /\ Suspect(n, h).ledger = h.ledger
           /\ Suspect(n, h).watched = h.watched /\ Suspect(n, h).detected = h.detected
  BY Zenon DEF HostRec, Suspect

LEMMA JoinedFields ==
    ASSUME NEW n, NEW h, HostRec(h), NEW c
    PROVE  /\ HostRec(Joined(n, h, c)) /\ Joined(n, h, c).ledger = h.ledger
           /\ Joined(n, h, c).watched = h.watched /\ Joined(n, h, c).detected = h.detected
  BY SuspectFields, Zenon DEF Joined

LEMMA ArmFields ==
    ASSUME NEW h, HostRec(h)
    PROVE  /\ HostRec(Arm(h)) /\ Arm(h).ledger = h.ledger
           /\ Arm(h).watched = h.watched /\ Arm(h).detected = h.detected
  BY DEF HostRec, Arm

LEMMA WatchFields ==
    ASSUME NEW n, NEW h, HostRec(h), NEW c
    PROVE  /\ HostRec(Arm(Watch(n, h, c))) /\ Arm(Watch(n, h, c)).ledger = h.ledger
           /\ Arm(Watch(n, h, c)).watched \in {h.watched, Primary(c.view)}
           /\ Arm(Watch(n, h, c)).detected = h.detected
<1>1. /\ HostRec(Watch(n, h, c)) /\ Watch(n, h, c).ledger = h.ledger
      /\ Watch(n, h, c).watched \in {h.watched, Primary(c.view)} /\ Watch(n, h, c).detected = h.detected
  BY Zenon DEF HostRec, Watch
<1> QED
  BY <1>1, ArmFields, Zenon

\* What a lawful step's outputs leave in the ledger.
LEMMA FlushLedger ==
    ASSUME NEW h, HostRec(h), LedgerOver(h.ledger, Sent), NEW n, NEW c, NEW r, CoreLaw(n, c, r)
    PROVE  Recorded(Flush(h, r.outs).ledger, r.outs, h.ledger, Sent)
<1> DEFINE m == FoldSet(LAMBDA d, z : Record(z, d), h.ledger, r.outs)
<1>1. r.outs \in SUBSET Sent /\ IsFiniteSet(r.outs) /\ OneBallot(r.outs)
  BY Zenon DEF CoreLaw
<1>2. Recorded(m, r.outs, h.ledger, Sent)
  BY <1>1, FlushRecords, Zenon
<1>3. Flush(h, r.outs) = [h EXCEPT !.ledger = m]
  BY Zenon DEF Flush
<1> HIDE DEF m
<1>4. Flush(h, r.outs).ledger = m
  BY <1>3, Zenon DEF HostRec
<1> QED
  BY <1>2, <1>4, Zenon

\* What is sent again was sent.
LEMMA RelaySent ==
    ASSUME NEW l, LedgerOver(l, Sent), NEW v PROVE Relay(l, v) \subseteq Sent
<1>1. \A i \in 1..Len(l.unacked) : l.unacked[i] \in Sent
  BY ElementOfSeq, Zenon DEF LedgerOver
<1> QED
  BY <1>1, Zenon DEF Relay, Entries

\* A peer's answer takes entries out of the list and leaves the last Commits.
LEMMA AnsweredKeeps ==
    ASSUME NEW D, NEW l, LedgerOver(l, D), NEW d
    PROVE  LedgerOver(Answered(l, d), D) /\ Answered(l, d).last = l.last
<1> DEFINE q == Standing(l.unacked, d)
           a == Answered(l, d)
<1>1. l.unacked \in Seq(D) /\ Distinct(l.unacked) /\ Len(l.unacked) <= Bound
  BY Zenon DEF LedgerOver, Distinct
<1>2. q \in Seq(D) /\ Len(q) <= Len(l.unacked) /\ Distinct(q)
  BY <1>1, StandingKeeps, Zenon DEF Selects
<1>3. a = [unacked |-> q, last |-> l.last]
  <2>1. a = [l EXCEPT !.unacked = q]
    BY Zenon DEF Answered
  <2> HIDE DEF q, a
  <2> QED
    BY <2>1, Zenon DEF LedgerOver
<1> HIDE DEF q, a
<1>4. Len(q) <= Bound
  <2>1. Len(q) \in Nat /\ Len(l.unacked) \in Nat /\ Bound \in Nat
    BY <1>1, <1>2, LenProperties, LedgerAssumption, Zenon
  <2> QED
    BY <1>1, <1>2, <2>1
<1>5. a.unacked = q /\ a.last = l.last
  BY <1>3, Zenon
<1>6. LedgerOver(a, D)
  BY <1>2, <1>3, <1>4, <1>5 DEF LedgerOver, Distinct
<1> QED
  BY <1>5, <1>6, Zenon DEF a

\* The keys of the detector name nodes, and the last leader that a node declared
\* dead and did not hear since is the one its latch holds.
Keys ==
    /\ ~again /\ losses \in 0..scene.losses
    /\ declared = [n \in Node |-> declared[n]]
    /\ \A n \in Node : /\ host[n].watched \in Node \union {None}
                       /\ host[n].detected \in Node \union {None}
                       /\ declared[n] \in {None, host[n].detected}

\* A step of one host that leaves its latch.
LEMMA KeysKeep ==
    ASSUME Keys, NEW n \in Node, NEW h, \A m \in Node : host'[m] = IF m = n THEN h ELSE host[m],
           h.watched \in Node \union {None}, h.detected = host[n].detected,
           UNCHANGED <<scene, losses, declared, again>>
    PROVE  Keys'
  BY Zenon DEF Keys

\* The end of a call of timers().
LEMMA EndTimersSays ==
    ASSUME Shapes, Speech, NEW n \in Node, NEW r, CoreLaw(n, core[n], r), r.core.view <= scene.views,
           NEW h, Recorded(h.ledger, r.outs, host[n].ledger, Sent),
           NEW relays, relays \subseteq Sent, EndTimers(n, h, r.core, r.outs, relays)
    PROVE  /\ Speech' /\ UNCHANGED <<scene, losses>>
           /\ \A m \in Node : host'[m] = IF m = n THEN h ELSE host[m]
<1>1. /\ host' = [host EXCEPT ![n] = h] /\ core' = [core EXCEPT ![n] = r.core]
      /\ net' = InFlight(net \union r.outs \union relays) /\ UNCHANGED <<scene, losses>>
      /\ announced' = announced \union {d \in r.outs : d.tag = "Commit"}
  BY Zenon DEF EndTimers, Released
<1>2. \A m \in Node : host'[m] = IF m = n THEN h ELSE host[m]
  BY <1>1, Zenon DEF Shapes
<1>3. \A m \in Node : core'[m] = IF m = n THEN r.core ELSE core[m]
  BY <1>1, Zenon DEF Shapes
<1>4. net' \subseteq net \union r.outs \union relays
  BY <1>1, Zenon DEF InFlight
<1>5. scene \in Scenes
  BY Zenon DEF Shapes
<1>6. /\ core'[n] = r.core /\ host'[n].ledger = h.ledger
      /\ \A o \in Node \ {n} : core'[o] = core[o] /\ host'[o] = host[o]
  BY <1>2, <1>3, Zenon
<1>7. Speech'
  BY <1>1, <1>4, <1>5, <1>6, ActsKeep, Zenon
<1> QED
  BY <1>1, <1>2, <1>7, Zenon

(* ------------------------- the steps keep it ---------------------------- *)

Told == Shapes /\ Speech /\ Keys

\* What the invariant says of one node.
LEMMA ToldOf ==
    ASSUME Told, NEW n \in Node
    PROVE  /\ scene \in Scenes /\ HostRec(host[n]) /\ CoreTyped(core[n]) /\ CoreRec(core[n])
           /\ core[n].view \in Nat /\ core[n].view <= scene.views
           /\ Primary(core[n].view) \in Node /\ Primary(core[n].view) # None
           /\ LedgerOver(host[n].ledger, Sent) /\ host[n].ledger.last \subseteq Sent
           /\ host[n].watched \in Node \union {None} /\ host[n].detected \in Node \union {None}
           /\ declared[n] \in {None, host[n].detected}
<1>1. /\ scene \in Scenes /\ HostRec(host[n]) /\ CoreTyped(core[n]) /\ CoreRec(core[n])
      /\ core[n].view \in Nat /\ core[n].view <= scene.views
      /\ LedgerOver(host[n].ledger, Sent) /\ host[n].ledger.last \subseteq announced
      /\ announced \subseteq Sent
  BY Zenon DEF Told, Shapes, Speech, Voiced, CoreRec
<1>2. Primary(core[n].view) \in Node /\ Primary(core[n].view) # None
  BY <1>1, SceneFacts, Zenon
<1> QED
  BY <1>1, <1>2, Zenon DEF Told, Keys

LEMMA QuietTold ==
    ASSUME Told, NEW n \in Node, TimersQuiet(n) PROVE Speech' /\ Keys'
<1> DEFINE c == core[n]
           j == Joined(n, host[n], c)
           h == Arm(Watch(n, j, c))
           r == Still(c)
<1>1. /\ HostRec(host[n]) /\ CoreTyped(c) /\ c.view <= scene.views /\ LedgerOver(host[n].ledger, Sent)
      /\ Primary(c.view) \in Node /\ host[n].watched \in Node \union {None}
  BY ToldOf, Zenon
<1>2. EndTimers(n, h, c, {}, {}) /\ UNCHANGED <<declared, again>>
  BY Zenon DEF TimersQuiet
<1>3. /\ HostRec(j) /\ j.ledger = host[n].ledger
      /\ j.watched = host[n].watched /\ j.detected = host[n].detected
  BY <1>1, JoinedFields
<1> HIDE DEF j
<1>4. /\ h.ledger = j.ledger /\ h.watched \in {j.watched, Primary(c.view)} /\ h.detected = j.detected
  BY <1>3, WatchFields
<1>5. CoreLaw(n, c, r) /\ r.core = c /\ r.outs = {}
  BY <1>1, StillLaw, Zenon DEF Still
<1> HIDE DEF h, c, r
<1>6. Recorded(h.ledger, r.outs, host[n].ledger, Sent)
  BY <1>1, <1>3, <1>4, <1>5, Zenon DEF Recorded
<1>7. /\ Speech' /\ UNCHANGED <<scene, losses>>
      /\ \A m \in Node : host'[m] = IF m = n THEN h ELSE host[m]
  <2>1. Shapes /\ Speech /\ CoreLaw(n, core[n], r) /\ r.core.view <= scene.views
    BY <1>1, <1>5, Zenon DEF Told, c
  <2> DEFINE none == {}
  <2>2. EndTimers(n, h, r.core, r.outs, none) /\ none \subseteq Sent
    BY <1>2, <1>5, Zenon
  <2> HIDE DEF none
  <2> QED
    BY <1>6, <2>1, <2>2, EndTimersSays, Zenon
<1>8. h.watched \in Node \union {None} /\ h.detected = host[n].detected
  BY <1>1, <1>3, <1>4, Zenon
<1> QED
  BY <1>2, <1>7, <1>8, KeysKeep, Zenon DEF Told

LEMMA BeatTold ==
    ASSUME Told, NEW n \in Node, TimersBeat(n) PROVE Speech' /\ Keys'
<1>1. PICK t \in Ticks(n, core[n]) :
         LET flushed == Flush(host[n], t.outs)
             h == Arm(Watch(n, Joined(n, flushed, core[n]), t.core))
         IN  EndTimers(n, h, t.core, t.outs, Heartbeat(n, flushed, t.core))
  BY Zenon DEF TimersBeat
<1> DEFINE c == core[n]
           f == Flush(host[n], t.outs)
           j == Joined(n, f, c)
           h == Arm(Watch(n, j, t.core))
           beat == Heartbeat(n, f, t.core)
<1>2. /\ HostRec(host[n]) /\ CoreTyped(c) /\ c.view <= scene.views /\ LedgerOver(host[n].ledger, Sent)
      /\ host[n].watched \in Node \union {None} /\ scene \in Scenes
      /\ host[n].ledger.last \subseteq Sent
  BY ToldOf, Zenon
<1>3. EndTimers(n, h, t.core, t.outs, beat) /\ UNCHANGED <<declared, again>>
  BY <1>1, Zenon DEF TimersBeat
<1>4. CoreLaw(n, core[n], t) /\ t.core.view <= scene.views
  BY <1>2, TicksLaw, Zenon
<1>5. /\ HostRec(f) /\ f.watched = host[n].watched /\ f.detected = host[n].detected
  BY <1>2, FlushKeeps, Zenon
<1>6. Recorded(f.ledger, t.outs, host[n].ledger, Sent)
  BY <1>2, <1>4, FlushLedger, Zenon
<1> HIDE DEF f
<1>7. beat \subseteq Sent
  <2>1. f.ledger.last \subseteq Sent
    BY <1>2, <1>4, <1>6, Zenon DEF Recorded, CoreLaw
  <2> QED
    BY <2>1, Zenon DEF Heartbeat, LastCommit
<1> HIDE DEF beat
<1>8. /\ HostRec(j) /\ j.ledger = f.ledger /\ j.watched = f.watched /\ j.detected = f.detected
  BY <1>5, JoinedFields
<1> HIDE DEF j
<1>9. /\ h.ledger = j.ledger /\ h.watched \in {j.watched, Primary(t.core.view)}
      /\ h.detected = j.detected
  BY <1>8, WatchFields
<1> HIDE DEF h
<1>10. Primary(t.core.view) \in Node
  BY <1>2, <1>4, SceneFacts, Zenon DEF CoreLaw, CoreRec
<1>11. /\ Speech' /\ UNCHANGED <<scene, losses>>
       /\ \A m \in Node : host'[m] = IF m = n THEN h ELSE host[m]
  <2>1. Recorded(h.ledger, t.outs, host[n].ledger, Sent) /\ Shapes /\ Speech
    BY <1>6, <1>8, <1>9, Zenon DEF Told
  <2> QED
    BY <1>3, <1>4, <1>7, <2>1, EndTimersSays, Zenon
<1>12. h.watched \in Node \union {None} /\ h.detected = host[n].detected
  BY <1>2, <1>5, <1>8, <1>9, <1>10, Zenon
<1> QED
  BY <1>3, <1>11, <1>12, KeysKeep, Zenon DEF Told

\* The leader timeout: the latch takes the key, and by the guard it did not hold
\* it in the normal state before.
LEMMA LeaderTold ==
    ASSUME Told, NEW n \in Node, TimersLeader(n) PROVE Speech' /\ Keys'
<1> DEFINE c == core[n]
           j == Joined(n, host[n], c)
           key == Primary(c.view)
           forced == IF n \in voters THEN ForceView(n, c) ELSE Still(c)
           g == [j EXCEPT !.detected = key]
           s == Suspect(n, g)
           f == Flush(s, forced.outs)
           h == Arm(f)
<1>1. /\ HostRec(host[n]) /\ CoreTyped(c) /\ c.view <= scene.views /\ LedgerOver(host[n].ledger, Sent)
      /\ host[n].watched \in Node \union {None} /\ scene \in Scenes /\ c.view \in Nat
      /\ key \in Node /\ key # None /\ declared[n] \in {None, host[n].detected}
  BY ToldOf, Zenon
<1>2. /\ ~Latched(j, c) /\ (n \in voters => c.view < scene.views)
      /\ EndTimers(n, h, forced.core, forced.outs, {})
      /\ declared' = [declared EXCEPT ![n] = key]
      /\ again' = (again \/ (declared[n] = key /\ Normal(c)))
  BY Zenon DEF TimersLeader
<1>3. /\ HostRec(j) /\ j.ledger = host[n].ledger
      /\ j.watched = host[n].watched /\ j.detected = host[n].detected
  BY <1>1, JoinedFields
<1>4. CoreLaw(n, core[n], forced) /\ forced.core.view <= scene.views
  <2>1. CASE n \in voters
    <3>1. CoreLaw(n, c, forced) /\ forced.core.view = c.view + 1
      BY <1>1, <2>1, ForceLaw, Zenon
    <3>2. scene.views \in Nat
      BY <1>1, SceneFacts, Zenon
    <3> QED
      BY <1>1, <1>2, <2>1, <3>1, <3>2
  <2>2. CASE n \notin voters
    <3>1. CoreLaw(n, c, forced) /\ forced.core = c
      BY <1>1, <2>2, StillLaw, Zenon DEF Still
    <3> QED
      BY <1>1, <3>1, Zenon
  <2> QED
    BY <2>1, <2>2, Zenon
<1> HIDE DEF j, forced, key
<1>5. /\ HostRec(g) /\ g.ledger = host[n].ledger /\ g.watched = host[n].watched /\ g.detected = key
  BY <1>3 DEF HostRec
<1> HIDE DEF g
<1>6. /\ HostRec(s) /\ s.ledger = g.ledger /\ s.watched = g.watched /\ s.detected = g.detected
  BY <1>5, SuspectFields
<1> HIDE DEF s
<1>7. LedgerOver(s.ledger, Sent)
  BY <1>1, <1>5, <1>6, Zenon
<1>8. /\ HostRec(f) /\ f.watched = s.watched /\ f.detected = s.detected
  BY <1>6, FlushKeeps, Zenon
<1>9. Recorded(f.ledger, forced.outs, s.ledger, Sent)
  BY <1>4, <1>6, <1>7, FlushLedger, Zenon
<1> HIDE DEF f
<1>10. h.ledger = f.ledger /\ h.watched = f.watched /\ h.detected = f.detected
  BY <1>8, ArmFields, Zenon
<1> HIDE DEF h
<1>11. /\ Speech' /\ UNCHANGED <<scene, losses>>
       /\ \A m \in Node : host'[m] = IF m = n THEN h ELSE host[m]
  <2>1. Recorded(h.ledger, forced.outs, host[n].ledger, Sent) /\ Shapes /\ Speech
    BY <1>5, <1>6, <1>9, <1>10, Zenon DEF Told
  <2> DEFINE none == {}
  <2>2. EndTimers(n, h, forced.core, forced.outs, none) /\ none \subseteq Sent
    BY <1>2, Zenon
  <2> HIDE DEF none
  <2> QED
    BY <1>4, <2>1, <2>2, EndTimersSays, Zenon
<1>12. h.watched \in Node \union {None} /\ h.detected = key
  BY <1>1, <1>5, <1>6, <1>8, <1>10, Zenon
<1>13. ~again'
  <2>1. ~(j.detected = key /\ Normal(c))
    BY <1>2, Zenon DEF Latched, key
  <2>2. ~(declared[n] = key /\ Normal(c)) /\ ~again
    BY <1>1, <1>3, <2>1, Zenon DEF Told, Keys
  <2> QED
    BY <1>2, <2>2, Zenon
<1>14. /\ declared' = [m \in Node |-> declared'[m]]
       /\ \A m \in Node : declared'[m] = IF m = n THEN key ELSE declared[m]
  BY <1>2, Zenon DEF Told, Keys
<1> QED
  BY <1>1, <1>11, <1>12, <1>13, <1>14 DEF Told, Keys

LEMMA PollTold ==
    ASSUME Told, NEW n \in Node, TimersPoll(n) PROVE Speech' /\ Keys'
<1> DEFINE c == core[n]
           j == Joined(n, host[n], c)
<1>1. PICK p \in PollDrive(n, j, c) :
         EndTimers(n, Flush(j, p.step.outs), p.step.core, p.step.outs, p.relays)
  BY Zenon DEF TimersPoll
<1> DEFINE r == p.step
           relays == p.relays
           h == Flush(j, r.outs)
<1>2. /\ HostRec(host[n]) /\ CoreTyped(c) /\ c.view <= scene.views /\ LedgerOver(host[n].ledger, Sent)
      /\ host[n].watched \in Node \union {None} /\ scene \in Scenes
  BY ToldOf, Zenon
<1>3. UNCHANGED <<declared, again>>
  BY Zenon DEF TimersPoll
<1>4. /\ HostRec(j) /\ j.ledger = host[n].ledger
      /\ j.watched = host[n].watched /\ j.detected = host[n].detected
  BY <1>2, JoinedFields
<1> HIDE DEF j
<1>5. CoreLaw(n, core[n], r) /\ r.core.view <= scene.views /\ relays \subseteq Sent
  <2>1. CASE c.state = "view_change"
    <3>1. r = Still(c) /\ relays = Relay(j.ledger, c.view)
      BY <2>1 DEF PollDrive
    <3>2. LedgerOver(j.ledger, Sent)
      BY <1>2, <1>4, Zenon
    <3>3. relays \subseteq Sent
      BY <3>1, <3>2, RelaySent, Zenon
    <3>4. CoreLaw(n, c, r) /\ r.core = c
      BY <1>2, <3>1, StillLaw DEF Still
    <3> QED
      BY <1>2, <3>3, <3>4, Zenon
  <2>2. CASE c.state # "view_change"
    <3>1. PICK t \in Ticks(n, c) : p = [step |-> t, relays |-> {}]
      BY <2>2, Zenon DEF PollDrive
    <3>2. r = t /\ relays = {}
      BY <3>1, Zenon
    <3>3. CoreLaw(n, c, t) /\ t.core.view <= scene.views
      BY <1>2, TicksLaw, Zenon
    <3> QED
      BY <3>2, <3>3, Zenon
  <2> QED
    BY <2>1, <2>2, Zenon
<1> HIDE DEF r, relays
<1>6. HostRec(h) /\ h.watched = j.watched /\ h.detected = j.detected
  BY <1>4, FlushKeeps, Zenon
<1>7. Recorded(h.ledger, r.outs, host[n].ledger, Sent)
  <2>1. LedgerOver(j.ledger, Sent)
    BY <1>2, <1>4
  <2>2. Recorded(h.ledger, r.outs, j.ledger, Sent)
    BY <1>4, <1>5, <2>1, FlushLedger, Zenon
  <2> QED
    BY <1>4, <2>2, Zenon
<1>8. EndTimers(n, h, r.core, r.outs, relays)
  BY <1>1, Zenon DEF r, relays
<1> HIDE DEF h
<1>9. /\ Speech' /\ UNCHANGED <<scene, losses>>
      /\ \A m \in Node : host'[m] = IF m = n THEN h ELSE host[m]
  BY <1>5, <1>7, <1>8, EndTimersSays, Zenon DEF Told
<1>10. h.watched \in Node \union {None} /\ h.detected = host[n].detected
  BY <1>2, <1>4, <1>6, Zenon
<1> QED
  BY <1>3, <1>9, <1>10, KeysKeep, Zenon DEF Told

LEMMA ElectionTold ==
    ASSUME Told, NEW n \in Node, TimersElection(n) PROVE Speech' /\ Keys'
<1> DEFINE c == core[n]
           j == Joined(n, host[n], c)
           w == Arm(Watch(n, j, c))
<1>1. PICK t \in Ticks(n, c) : EndTimers(n, Suspect(n, Flush(w, t.outs)), t.core, t.outs, {})
  BY Zenon DEF TimersElection
<1> DEFINE f == Flush(w, t.outs)
           h == Suspect(n, f)
<1>2. /\ HostRec(host[n]) /\ CoreTyped(c) /\ c.view <= scene.views /\ LedgerOver(host[n].ledger, Sent)
      /\ host[n].watched \in Node \union {None} /\ scene \in Scenes /\ Primary(c.view) \in Node
  BY ToldOf, Zenon
<1>3. UNCHANGED <<declared, again>> /\ EndTimers(n, h, t.core, t.outs, {})
  BY <1>1, Zenon DEF TimersElection
<1>4. /\ HostRec(j) /\ j.ledger = host[n].ledger
      /\ j.watched = host[n].watched /\ j.detected = host[n].detected
  BY <1>2, JoinedFields
<1> HIDE DEF j
<1>5. /\ HostRec(w) /\ w.ledger = j.ledger /\ w.watched \in {j.watched, Primary(c.view)}
      /\ w.detected = j.detected
  BY <1>4, WatchFields
<1> HIDE DEF w
<1>6. CoreLaw(n, core[n], t) /\ t.core.view <= scene.views
  BY <1>2, TicksLaw, Zenon
<1>7. HostRec(f) /\ f.watched = w.watched /\ f.detected = w.detected
  BY <1>5, FlushKeeps, Zenon
<1>8. Recorded(f.ledger, t.outs, host[n].ledger, Sent)
  <2>1. LedgerOver(w.ledger, Sent)
    BY <1>2, <1>4, <1>5, Zenon
  <2>2. Recorded(f.ledger, t.outs, w.ledger, Sent)
    BY <1>5, <1>6, <2>1, FlushLedger, Zenon
  <2> QED
    BY <1>4, <1>5, <2>2, Zenon
<1> HIDE DEF f
<1>9. h.ledger = f.ledger /\ h.watched = f.watched /\ h.detected = f.detected
  BY <1>7, SuspectFields, Zenon
<1> HIDE DEF h
<1>10. /\ Speech' /\ UNCHANGED <<scene, losses>>
       /\ \A m \in Node : host'[m] = IF m = n THEN h ELSE host[m]
  <2>1. Recorded(h.ledger, t.outs, host[n].ledger, Sent) /\ Shapes /\ Speech
    BY <1>8, <1>9, Zenon DEF Told
  <2> DEFINE none == {}
  <2>2. EndTimers(n, h, t.core, t.outs, none) /\ none \subseteq Sent
    BY <1>3, Zenon
  <2> HIDE DEF none
  <2> QED
    BY <1>6, <2>1, <2>2, EndTimersSays, Zenon
<1>11. h.watched \in Node \union {None} /\ h.detected = host[n].detected
  BY <1>2, <1>4, <1>5, <1>7, <1>9, Zenon
<1> QED
  BY <1>3, <1>10, <1>11, KeysKeep, Zenon DEF Told

\* A datagram: the latch is released only when the leader was heard, and the
\* history with it.
LEMMA PacketTold ==
    ASSUME Told, NEW d \in net, HandlePacket(d) PROVE Speech' /\ Keys'
<1> DEFINE n == d.to
           c == core[n]
           k == Answered(host[n].ledger, d)
           a == [host[n] EXCEPT !.ledger = Answered(@, d)]
           b == OnLeaderCommit(n, a, c, d)
           r == CoreReceive(n, c, d)
           h == Flush(b, r.outs)
<1>1. /\ n \in up /\ d.view <= scene.views
      /\ host' = [host EXCEPT ![n] = h] /\ core' = [core EXCEPT ![n] = r.core]
      /\ net' = InFlight((net \ {d}) \union r.outs)
      /\ announced' = announced \union {e \in r.outs : e.tag = "Commit"}
      /\ declared' = IF HeardLeader(c, d) THEN [declared EXCEPT ![n] = None] ELSE declared
      /\ UNCHANGED <<scene, losses, again>>
  BY Zenon DEF HandlePacket, Released
<1>2. n \in Node /\ d \in Sent /\ d.view \in Nat
  BY <1>1, SceneUp, Zenon DEF Told, Speech, Sent, Datagram
<1>3. /\ HostRec(host[n]) /\ CoreTyped(c) /\ CoreRec(c) /\ c.view <= scene.views
      /\ LedgerOver(host[n].ledger, Sent) /\ host[n].watched \in Node \union {None}
      /\ host[n].detected \in Node \union {None} /\ declared[n] \in {None, host[n].detected}
      /\ scene \in Scenes
  BY <1>2, ToldOf, Zenon
<1>4. LedgerOver(k, Sent) /\ k.last = host[n].ledger.last
  BY <1>3, AnsweredKeeps, Zenon
<1>5. CoreLaw(n, core[n], r) /\ r.core.view <= scene.views
  <2>1. CoreLaw(n, c, r)
    BY <1>2, <1>3, ReceiveLaw, Zenon
  <2>2. r.core.view \in {c.view, d.view}
    BY <1>2, <1>3, ReceiveKeeps, Zenon
  <2> QED
    BY <1>1, <1>3, <2>1, <2>2, Zenon
<1> HIDE DEF r
<1>6. a = [host[n] EXCEPT !.ledger = k]
  BY Zenon
<1> HIDE DEF k
<1>7. /\ HostRec(a) /\ a.ledger = k /\ a.timedout = host[n].timedout /\ a.watched = host[n].watched
      /\ a.detected = host[n].detected
  BY <1>3, <1>6 DEF HostRec
<1> HIDE DEF a
<1>8. /\ HostRec(b) /\ b.ledger = k /\ b.watched = a.watched
      /\ b.detected = a.detected \/ (b.detected = None /\ HeardLeader(c, d))
  <2>1. CASE b = a
    BY <1>7, <2>1, Zenon
  <2>2. CASE b = [a EXCEPT !.timedout = FALSE, !.detected = None] /\ HeardLeader(c, d)
    <3> DEFINE F == {"timedout", "armed", "watched", "detected", "ledger"}
    <3>1. DOMAIN a = F
      BY <1>7, Zenon DEF HostRec
    <3>2. b = [x \in F |-> IF x = "timedout" THEN FALSE
                           ELSE IF x = "detected" THEN None ELSE a[x]]
      BY <2>2, <3>1, Zenon
    <3>3. /\ b.timedout = FALSE /\ b.armed = a.armed /\ b.watched = a.watched
          /\ b.detected = None /\ b.ledger = a.ledger
      BY <3>2, Zenon
    <3> HIDE DEF b
    <3>4. b = [timedout |-> b.timedout, armed |-> b.armed, watched |-> b.watched,
               detected |-> b.detected, ledger |-> b.ledger]
      BY <3>2, Zenon
    <3> QED
      BY <1>7, <2>2, <3>3, <3>4, Zenon DEF HostRec
  <2> QED
    BY <2>1, <2>2, Zenon DEF OnLeaderCommit
<1> HIDE DEF b
<1>9. HostRec(h) /\ h.watched = b.watched /\ h.detected = b.detected
  BY <1>8, FlushKeeps, Zenon
<1>10. Recorded(h.ledger, r.outs, k, Sent)
  <2>1. LedgerOver(b.ledger, Sent)
    BY <1>4, <1>8, Zenon
  <2>2. Recorded(h.ledger, r.outs, b.ledger, Sent)
    BY <1>5, <1>8, <2>1, FlushLedger, Zenon
  <2> QED
    BY <1>8, <2>2, Zenon
<1> HIDE DEF h
<1>11. /\ \A m \in Node : host'[m] = IF m = n THEN h ELSE host[m]
       /\ \A m \in Node : core'[m] = IF m = n THEN r.core ELSE core[m]
  BY <1>1, <1>2, Zenon DEF Told, Shapes
<1>12. Speech'
  <2>1. /\ core'[n] = r.core /\ host'[n].ledger = h.ledger
        /\ \A o \in Node \ {n} : core'[o] = core[o] /\ host'[o] = host[o]
    BY <1>2, <1>11, Zenon
  <2> DEFINE none == {}
  <2>2. net' \subseteq net \union r.outs \union none /\ none \subseteq Sent
    BY <1>1, Zenon DEF InFlight
  <2>3. Speech /\ scene' = scene
    BY <1>1, Zenon DEF Told
  <2> HIDE DEF none, n
  <2> QED
    BY <1>1, <1>2, <1>3, <1>4, <1>5, <1>10, <2>1, <2>2, <2>3, ActsKeep, Zenon
<1>13. h.watched \in Node \union {None} /\ h.detected \in Node \union {None}
  BY <1>3, <1>7, <1>8, <1>9, Zenon
<1>14. /\ declared' = [m \in Node |-> declared'[m]]
       /\ \A m \in Node : declared'[m] = IF m = n /\ HeardLeader(c, d) THEN None ELSE declared[m]
  BY <1>1, <1>2, Zenon DEF Told, Keys
<1>15. declared'[n] \in {None, h.detected}
  BY <1>2, <1>3, <1>7, <1>8, <1>9, <1>14, Zenon
<1> QED
  BY <1>1, <1>2, <1>11, <1>12, <1>13, <1>14, <1>15 DEF Told, Keys

LEMMA ProposeTold ==
    ASSUME Told, NEW n \in Node, Propose(n) PROVE Speech' /\ Keys'
<1> DEFINE c == [core[n] EXCEPT !.slot = @ + 1]
           outs == To(n, Members, "Prepare", c, c.slot)
           r == [core |-> c, outs |-> outs]
           h == Flush(host[n], outs)
<1>1. /\ host' = [host EXCEPT ![n] = h] /\ core' = [core EXCEPT ![n] = c]
      /\ net' = InFlight(net \union outs) /\ Leads(n, core[n])
      /\ UNCHANGED <<scene, losses, announced, declared, again>>
  BY Zenon DEF Propose, Told, Shapes
<1>2. /\ HostRec(host[n]) /\ CoreTyped(core[n]) /\ core[n].view <= scene.views
      /\ LedgerOver(host[n].ledger, Sent) /\ host[n].watched \in Node \union {None}
      /\ scene \in Scenes
  BY ToldOf, Zenon
<1>3. CoreLaw(n, core[n], r) /\ c.view = core[n].view
  BY <1>1, <1>2, ProposeLaw, Zenon
<1>4. \A d \in outs : d.tag = "Prepare"
  BY DEF To
<1>5. r.core = c /\ r.outs = outs
  BY Zenon
<1> HIDE DEF c, outs, r
<1>6. HostRec(h) /\ h.watched = host[n].watched /\ h.detected = host[n].detected
  BY <1>2, FlushKeeps, Zenon
<1>7. Recorded(h.ledger, r.outs, host[n].ledger, Sent)
  <2>1. Recorded(Flush(host[n], r.outs).ledger, r.outs, host[n].ledger, Sent)
    BY <1>2, <1>3, FlushLedger, Zenon
  <2> QED
    BY <1>5, <2>1, Zenon
<1> HIDE DEF h
<1>8. /\ \A m \in Node : host'[m] = IF m = n THEN h ELSE host[m]
      /\ \A m \in Node : core'[m] = IF m = n THEN r.core ELSE core[m]
  BY <1>1, <1>5, Zenon DEF Told, Shapes
<1>9. Speech'
  <2>1. /\ core'[n] = r.core /\ host'[n].ledger = h.ledger
        /\ \A o \in Node \ {n} : core'[o] = core[o] /\ host'[o] = host[o]
    BY <1>8, Zenon
  <2> DEFINE none == {}
  <2>2. net' \subseteq net \union r.outs \union none /\ none \subseteq Sent
    BY <1>1, <1>5, Zenon DEF InFlight
  <2>3. Speech /\ scene' = scene /\ r.core.view <= scene.views
    BY <1>1, <1>2, <1>3, <1>5, Zenon DEF Told
  <2>4. announced' = announced \union {d \in r.outs : d.tag = "Commit"}
    BY <1>1, <1>4, <1>5, Zenon
  <2> HIDE DEF none
  <2> QED
    BY <1>2, <1>3, <1>7, <2>1, <2>2, <2>3, <2>4, ActsKeep, Zenon
<1>10. h.watched \in Node \union {None}
  BY <1>2, <1>6, Zenon
<1> QED
  BY <1>1, <1>6, <1>8, <1>9, <1>10, KeysKeep DEF Told

\* Nothing but the wire and the count of losses changes.
LEMMA WireTold ==
    ASSUME Told, UNCHANGED <<scene, core, host, announced, declared, again>>,
           net' \subseteq Sent, losses' \in 0..scene.losses
    PROVE  Speech' /\ Keys'
<1>1. Sent' = Sent
  BY Zenon DEF Sent, Primary, voters
<1>2. \A n, c, l, A : Voiced(n, c, l, A)' <=> Voiced(n, c, l, A)
  <2>1. \A v : Primary(v)' = Primary(v) /\ Sent' = Sent /\ scene'.views = scene.views
    BY <1>1, Zenon DEF Primary, voters
  <2> QED
    BY ONLY <2>1 DEF Voiced
<1>3. Speech'
  BY <1>1, <1>2, Zenon DEF Told, Speech
<1> QED
  BY <1>3, Zenon DEF Told, Keys

\* Every step keeps the invariant.
LEMMA ToldStep == Told /\ [Next]_vars => Told'
<1> SUFFICES ASSUME Told, [Next]_vars PROVE Speech' /\ Keys'
  BY StepLawful, Zenon DEF Told
<1>1. scene \in Scenes /\ net \subseteq Sent /\ losses \in 0..scene.losses /\ scene.losses \in Nat
  BY SceneFacts, Zenon DEF Told, Shapes, Speech, Keys
<1>2. ASSUME NEW n \in Node, ClusterTimeout(n) PROVE Speech' /\ Keys'
  <2>1. Relay(host[n].ledger, core[n].view) \subseteq Sent
    BY ToldOf, RelaySent, Zenon
  <2>2. /\ UNCHANGED <<scene, core, host, announced, declared, again>>
        /\ net' = InFlight(net \union Relay(host[n].ledger, core[n].view))
        /\ losses < scene.losses /\ losses' = losses + 1
    BY <1>2, Zenon DEF ClusterTimeout
  <2>3. net' \subseteq Sent
    BY <1>1, <2>1, <2>2, Zenon DEF InFlight
  <2>4. losses' \in 0..scene.losses
    BY <1>1, <2>2
  <2> QED
    BY <2>2, <2>3, <2>4, WireTold, Zenon
<1>3. ASSUME NEW d \in net, Lose(d) PROVE Speech' /\ Keys'
  <2>1. /\ UNCHANGED <<scene, core, host, announced, declared, again>>
        /\ net' \subseteq net /\ losses < scene.losses /\ losses' = losses + 1
    BY <1>3, Zenon DEF Lose
  <2>2. net' \subseteq Sent /\ losses' \in 0..scene.losses
    BY <1>1, <2>1
  <2> QED
    BY <2>1, <2>2, WireTold, Zenon
<1>4. CASE UNCHANGED vars
  <2>1. /\ UNCHANGED <<scene, core, host, announced, declared, again>>
        /\ net' \subseteq Sent /\ losses' \in 0..scene.losses
    BY <1>1, <1>4, Zenon DEF vars
  <2> QED
    BY <2>1, WireTold, Zenon
<1>5. CASE Next
  <2>1. \/ \E n \in Node : \/ TimersQuiet(n) \/ TimersBeat(n) \/ TimersLeader(n)
                           \/ TimersPoll(n) \/ TimersElection(n)
                           \/ Propose(n) \/ ClusterTimeout(n)
        \/ \E d \in net : HandlePacket(d) \/ Lose(d)
    BY <1>5, Zenon DEF Next, Timers
  <2> QED
    BY <1>2, <1>3, <2>1, QuietTold, BeatTold, LeaderTold, PollTold, ElectionTold, PacketTold, ProposeTold, Zenon
<1> QED
  BY <1>4, <1>5, Zenon

LEMMA ToldInit == Init => Told
<1> SUFFICES ASSUME Init PROVE Speech /\ Keys
  BY ShapesInit, Zenon DEF Told
<1>1. scene \in Scenes /\ scene.losses \in Nat /\ scene.views \in Nat
  BY SceneFacts, Zenon DEF Init
<1>2. LedgerOver(EmptyLedger, Sent)
  <2>1. << >> \in Seq(Sent) /\ Len(<< >>) = 0 /\ 0 <= Bound
    BY LedgerAssumption, EmptySeq
  <2> QED
    BY <2>1 DEF LedgerOver, EmptyLedger
<1>3. ASSUME NEW n \in Node PROVE Voiced(n, core[n], host[n].ledger, {})
  <2>1. /\ core[n] = [view |-> 0, state |-> "normal", slot |-> 0, committed |-> 0, votes |-> {}]
        /\ host[n].ledger = EmptyLedger
    BY Zenon DEF Init
  <2>2. CoreTyped(core[n]) /\ core[n].view = 0 /\ 0 <= scene.views
    BY <1>1, <2>1 DEF CoreTyped, CoreRec
  <2>3. EmptyLedger.last = {}
    BY Zenon DEF EmptyLedger
  <2> QED
    BY <1>2, <2>1, <2>2, <2>3, Zenon DEF Voiced
<1>4. Speech
  BY <1>3, Zenon DEF Init, Speech
<1>5. ASSUME NEW n \in Node
      PROVE  host[n].watched = None /\ host[n].detected = None /\ declared[n] = None
  BY Zenon DEF Init
<1>6. declared = [n \in Node |-> declared[n]] /\ ~again /\ losses \in 0..scene.losses
  BY <1>1 DEF Init
<1>7. Keys
  BY <1>5, <1>6, Zenon DEF Keys
<1> QED
  BY <1>4, <1>7, Zenon

\* The inductive invariant: shapes, what was said, and the detector's keys.
THEOREM DetectorHolds == Spec => []Told
  BY ToldInit, ToldStep, PTL DEF Spec

\* What a leader would beat with is a Commit of its own view that it released, and
\* it released no later one to that peer in that view; and the relay ledger stays
\* within its bound, lists nothing twice and keeps one ballot's Commits, one to a
\* peer (relay.rs, heartbeat_op). For every cluster, every bound on the ledger,
\* and whatever is lost, late or repeated.
THEOREM HeartbeatTrue == Spec => []HeartbeatIsLastCommit
<1>1. Told => HeartbeatIsLastCommit
  <2> SUFFICES ASSUME Told PROVE HeartbeatIsLastCommit
    BY Zenon
  <2>1. scene \in Scenes /\ losses \in 0..scene.losses /\ net \subseteq Datagram /\ scene.views \in Nat
    BY SceneFacts, Zenon DEF Told, Shapes, Keys, Speech, Sent
  <2>2. ASSUME NEW n \in Node
        PROVE  /\ core[n].view \in 0..scene.views /\ core[n].state \in {"normal", "view_change"}
               /\ host[n].watched \in Node \union {None} /\ host[n].detected \in Node \union {None}
               /\ LedgerInv(host[n].ledger)
    <3>1. /\ core[n].view \in 0..scene.views /\ core[n].state \in {"normal", "view_change"}
          /\ host[n].watched \in Node \union {None} /\ host[n].detected \in Node \union {None}
      <4>1. /\ core[n].view \in Nat /\ core[n].view <= scene.views /\ CoreRec(core[n])
            /\ host[n].watched \in Node \union {None} /\ host[n].detected \in Node \union {None}
        BY ToldOf, Zenon
      <4>2. core[n].state \in {"normal", "view_change"}
        BY <4>1, Zenon DEF CoreRec
      <4> QED
        BY <2>1, <4>1, <4>2
    <3> DEFINE l == host[n].ledger
    <3>2. LedgerOver(l, Sent)
      BY ToldOf, Zenon
    <3> HIDE DEF l
    <3>3. l.unacked \in Seq(Datagram)
      <4>1. /\ l.unacked \in Seq(Sent) /\ Len(l.unacked) \in Nat
            /\ \A i \in 1..Len(l.unacked) : l.unacked[i] \in Datagram
        BY <3>2, LenProperties, ElementOfSeq DEF LedgerOver, Sent
      <4>2. l.unacked = [i \in 1..Len(l.unacked) |-> l.unacked[i]]
        BY <4>1, SeqDef
      <4> QED
        BY <4>1, <4>2, SeqDef
    <3>4. LedgerInv(l)
      BY <3>2, <3>3, Zenon DEF LedgerOver, LedgerInv
    <3> QED
      BY <3>1, <3>4, Zenon DEF l
  <2>3. ASSUME NEW n \in Node, NEW e \in Heartbeat(n, host[n], core[n])
        PROVE  /\ e \in announced /\ e.view = core[n].view
               /\ \A d \in announced :
                     d.from = n /\ d.to = e.to /\ d.view = e.view => d.slot <= e.slot
    <3>1. e \in host[n].ledger.last /\ e.view = core[n].view
      BY <2>3, Zenon DEF Heartbeat, LastCommit
    <3> QED
      BY <3>1, Zenon DEF Told, Speech, Voiced
  <2> QED
    BY <2>1, <2>2, <2>3, Zenon DEF HeartbeatIsLastCommit, TypeOK
<1> QED
  BY <1>1, DetectorHolds, PTL

\* A normal node declares a leader dead a second time only after a Commit of the
\* leader it then followed, or after it declared another one: the latch holds the
\* last leader declared until then (Latched, on_leader_commit; main.rs:597-601).
THEOREM DetectsOnce == Spec => []OneDetectionPerKey
<1>1. Told => OneDetectionPerKey
  BY Zenon DEF Told, Keys, OneDetectionPerKey
<1> QED
  BY <1>1, DetectorHolds, PTL
=============================================================================
