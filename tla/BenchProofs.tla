---------------------------- MODULE BenchProofs ----------------------------
(***************************************************************************)
(* The disciplined store of one bench node, for every number of lives:     *)
(* what surprises the discipline really happened, no burnt life runs, and  *)
(* an orderly teardown leaves the automaton at rest.                       *)
(*                                                                         *)
(* The invariant has two halves.  LivesInv ties the identity the process   *)
(* runs under to the one the store has recorded, and holds whatever the    *)
(* driver does.  CalmInv says where the signal, the process and the        *)
(* automaton stand in each phase, as long as nobody was hasty or died.     *)
(***************************************************************************)
EXTENDS Bench, TLAPS

\* A leaf that names no prover is for the SMT solver.
USE SMTT(30)

Discs == [phase : Phases, incarnation : 0..MaxLife, bumps : 0..2, surprise : Surprises]

\* The type invariant in two halves, the words of the state and its flags.
Words ==
    /\ disc \in Discs
    /\ pc \in {"down", "construct", "up"} \cup Booting \cup Halting
    /\ verdict \in {"none", "stopped", "joining"}
    /\ life \in 0..MaxLife + 1
    /\ flags \subseteq {"TERM", "USR1", "USR2"} /\ after \in {"exit", "cycle"}
    /\ at \in {"ready", "send", "exit", "wait", "torn", "last send", "last exit", "done"}
    /\ op \in {"none", "TERM", "KILL", "USR1", "USR2"}
    /\ burnt \subseteq 1..MaxLife

Bools == failure \in BOOLEAN /\ seated \in BOOLEAN /\ hasty \in BOOLEAN /\ died \in BOOLEAN

(* ---------------------------- the invariant ----------------------------- *)

Live == {"construct", "up"} \cup Halting

\* Lives: a running process has the recorded identity, every burnt life is
\* recorded or older, and the identity a clean boot reuses is not burnt.
LivesInv ==
    /\ disc.phase = "Unseated" => disc.bumps <= 1
    /\ \A b \in burnt : b <= disc.incarnation
    /\ disc.phase = "FirstBoot" => burnt = {}
    /\ disc.phase = "CleanBoot" => disc.incarnation \in 1..MaxLife /\ disc.incarnation \notin burnt
    /\ pc \in {"commit"} \cup Live =>
          /\ life \in 1..MaxLife /\ life \notin burnt
          /\ disc.phase \notin {"FirstBoot", "CleanBoot"}
    /\ pc \in Live => life = disc.incarnation
    /\ pc = "commit" => \A b \in burnt : b <= life

Waits == {"wait", "torn"}
Leaving == {"exit", "last exit"}

\* A stop (a crash) the discipline was told of is about to be sent, or caught.
StopOnItsWay ==
    \/ at = "send" /\ op \in {"TERM", "USR1"} /\ flags = {}
    \/ at = "last send" /\ flags = {}
    \/ at \in Leaving /\ flags = {"TERM"}
    \/ at \in Waits /\ flags = {"USR1"}

CrashOnItsWay ==
    \/ at = "send" /\ op \in {"KILL", "USR2"} /\ flags = {}
    \/ at \in Waits /\ flags = {"USR2"}

\* The stop runs, and the driver waits for its end.
StopRuns ==
    \/ at \in Leaving /\ flags = {"TERM"} /\ after = "exit"
    \/ at \in Waits /\ flags = {} /\ after = "cycle"

\* The process is gone, or boots again with no signal caught.
Back ==
    \/ pc = "down" /\ at \in Leaving \cup {"done"}
    \/ pc = "read" /\ at \in Waits /\ flags = {}

\* Nothing is signalled.
Quiet == at \in Waits \cup {"ready"} /\ flags = {}

Deferred == pc \in {"construct", "up"} /\ ~seated /\ verdict = "joining" /\ disc.bumps = 1

Settled == \/ pc = "construct" /\ verdict # "joining"
           \/ pc = "up" /\ seated

\* Where everyone stands in each phase of the discipline.
CalmInv ==
    /\ disc.surprise = "none" /\ failure = FALSE
    /\ disc.phase = "FirstBoot" => pc = "read" /\ Quiet
    /\ disc.phase = "Latch" => pc = "commit" /\ verdict # "joining" /\ Quiet
    /\ disc.phase = "Running" => Settled /\ Quiet
    /\ disc.phase = "Unseated" =>
          /\ Quiet
          /\ \/ Deferred
             \/ /\ pc = "commit" /\ verdict = "joining" /\ ~seated
                /\ disc.bumps = 0 /\ life = disc.incarnation + 1
    /\ disc.phase = "ExpectStopping" => Settled /\ StopOnItsWay
    /\ disc.phase = "StopFromUnseated" => (Deferred /\ StopOnItsWay) \/ Back
    /\ disc.phase = "ExpectDrain" => pc = "drain" /\ StopRuns
    /\ disc.phase = "ExpectStopped" => pc = "finish" /\ StopRuns
    /\ disc.phase = "CleanBoot" => Back
    /\ disc.phase = "DirtyBoot" => (pc \in {"construct", "up"} /\ CrashOnItsWay) \/ Back

\* A driver about to send has a signal to send.
SendsASignal == at = "send" => op # "none"

BenchInv == TypeOK /\ LivesInv /\ (~hasty /\ ~died => CalmInv)

(* ------------------------- the discipline's calls ----------------------- *)

\* A refused call keeps everything but the first surprise.
LEMMA ViolateKeeps ==
    ASSUME NEW d \in Discs, NEW what \in Surprises
    PROVE  /\ Violate(d, what) \in Discs
           /\ Violate(d, what).phase = d.phase /\ Violate(d, what).bumps = d.bumps
           /\ Violate(d, what).incarnation = d.incarnation
  BY DEF Violate, Discs

\* signal_clean_stop moves a running or unseated identity, and no other.
LEMMA StopSignalMoves ==
    ASSUME NEW d \in Discs
    PROVE  LET e == SignalCleanStop(d) IN
           /\ e \in Discs /\ e.incarnation = d.incarnation /\ e.bumps = d.bumps
           /\ d.phase = "Running" => e.phase = "ExpectStopping" /\ e.surprise = d.surprise
           /\ d.phase = "Unseated" => e.phase = "StopFromUnseated" /\ e.surprise = d.surprise
           /\ d.phase \notin {"Running", "Unseated"} => e.phase = d.phase
<1>1. CASE d.phase = "Running"
  BY <1>1 DEF SignalCleanStop, Discs, Phases
<1>2. CASE d.phase = "Unseated"
  BY <1>2 DEF SignalCleanStop, Discs, Phases
<1>3. CASE d.phase \notin {"Running", "Unseated"}
  <2>1. SignalCleanStop(d) = Violate(d, "stop signal") BY <1>3, Zenon DEF SignalCleanStop
  <2>2. "stop signal" \in Surprises BY DEF Surprises
  <2> QED BY <1>3, <2>1, <2>2, ViolateKeeps, ZenonT(30)
<1> QED BY <1>1, <1>2, <1>3

\* signal_crash likewise.
LEMMA CrashSignalMoves ==
    ASSUME NEW d \in Discs
    PROVE  LET e == SignalCrash(d) IN
           /\ e \in Discs /\ e.incarnation = d.incarnation /\ e.bumps = d.bumps
           /\ d.phase \in {"Running", "Unseated"} => e.phase = "DirtyBoot" /\ e.surprise = d.surprise
           /\ d.phase \notin {"Running", "Unseated"} => e.phase = d.phase
<1>1. CASE d.phase \in {"Running", "Unseated"}
  BY <1>1 DEF SignalCrash, Discs, Phases
<1>2. CASE d.phase \notin {"Running", "Unseated"}
  <2>1. SignalCrash(d) = Violate(d, "crash signal") BY <1>2 DEF SignalCrash
  <2>2. "crash signal" \in Surprises BY DEF Surprises
  <2> QED BY <1>2, <2>1, <2>2, ViolateKeeps, ZenonT(30)
<1> QED BY <1>1, <1>2

\* on_read answers from the phase and enters the boot it announced.
LEMMA ReadMoves ==
    ASSUME NEW d \in Discs
    PROVE  LET e == OnRead(d) IN
           /\ e \in Discs /\ e.incarnation = d.incarnation
           /\ ReadVerdict(d) \in {"none", "stopped"} =>
                 e.phase = "Latch" /\ e.bumps = 0 /\ e.surprise = d.surprise
           /\ ReadVerdict(d) = "joining" =>
                 e.phase = "Unseated" /\ e.bumps = 0 /\ e.surprise = d.surprise
           /\ ReadVerdict(d) = "refused" => e.phase = d.phase /\ e.bumps = 0
<1> DEFINE reset == [d EXCEPT !.bumps = 0]
<1>1. reset \in Discs /\ reset.phase = d.phase /\ reset.incarnation = d.incarnation
      /\ reset.bumps = 0 /\ reset.surprise = d.surprise
  BY DEF Discs
<1>2. ReadVerdict(d) \in {"none", "stopped", "joining", "refused"} BY DEF ReadVerdict
<1>3. OnRead(d) = CASE ReadVerdict(d) \in {"none", "stopped"} -> [reset EXCEPT !.phase = "Latch"]
          [] ReadVerdict(d) = "joining" -> [reset EXCEPT !.phase = "Unseated"]
          [] ReadVerdict(d) = "refused" -> Violate(reset, "read")
  BY DEF OnRead
<1> HIDE DEF reset
<1>4. CASE ReadVerdict(d) \in {"none", "stopped"}
  <2>1. OnRead(d) = [reset EXCEPT !.phase = "Latch"] BY <1>3, <1>4
  <2> QED BY <1>1, <1>4, <2>1 DEF Discs, Phases
<1>5. CASE ReadVerdict(d) = "joining"
  <2>1. OnRead(d) = [reset EXCEPT !.phase = "Unseated"] BY <1>3, <1>5
  <2> QED BY <1>1, <1>5, <2>1 DEF Discs, Phases
<1>6. CASE ReadVerdict(d) = "refused"
  <2>1. OnRead(d) = Violate(reset, "read") BY <1>3, <1>6
  <2>2. "read" \in Surprises BY DEF Surprises
  <2> QED BY <1>1, <1>6, <2>1, <2>2, ViolateKeeps
<1> QED BY <1>2, <1>4, <1>5, <1>6

\* on_commit records the identity it accepts.
LEMMA CommitMoves ==
    ASSUME NEW d \in Discs, NEW i \in 0..MaxLife, NEW marker,
           d.phase = "Unseated" => d.bumps <= 1
    PROVE  LET e == OnCommit(d, i, marker) IN
           /\ e \in Discs
           /\ CommitAccepted(d, i, marker) =>
                 /\ e.phase = CommitPhase(d, i, marker) /\ e.incarnation = i
                 /\ e.bumps = (IF d.phase = "Unseated" THEN d.bumps + 1 ELSE d.bumps)
                 /\ e.surprise = d.surprise
           /\ ~CommitAccepted(d, i, marker) =>
                 e.phase = d.phase /\ e.incarnation = d.incarnation /\ e.bumps = d.bumps
<1> DEFINE next == CommitPhase(d, i, marker)
           bumps == IF d.phase = "Unseated" THEN d.bumps + 1 ELSE d.bumps
<1>1. next \in Phases \cup {"refused"} BY DEF CommitPhase, Phases
<1>2. bumps \in 0..2 BY DEF Discs
<1>3. CASE next # "refused"
  <2>1. OnCommit(d, i, marker) = [d EXCEPT !.phase = next, !.incarnation = i, !.bumps = bumps]
    BY <1>3 DEF OnCommit, CommitAccepted
  <2>2. d = [phase |-> d.phase, incarnation |-> d.incarnation, bumps |-> d.bumps,
             surprise |-> d.surprise]
    BY DEF Discs
  <2> HIDE DEF next, bumps
  <2>3. OnCommit(d, i, marker) = [phase |-> next, incarnation |-> i, bumps |-> bumps,
                                  surprise |-> d.surprise]
    BY <2>1, <2>2, Zenon
  <2> QED BY <1>1, <1>2, <1>3, <2>3 DEF Discs, CommitAccepted, next, bumps
<1>4. CASE next = "refused"
  <2>1. OnCommit(d, i, marker) = Violate(d, "commit") BY <1>4 DEF OnCommit, CommitAccepted
  <2>2. "commit" \in Surprises BY DEF Surprises
  <2> QED BY <1>4, <2>1, <2>2, ViolateKeeps DEF CommitAccepted
<1> QED BY <1>3, <1>4

LEMMA DrainMoves ==
    ASSUME NEW d \in Discs
    PROVE  LET e == OnDrain(d) IN
           /\ e \in Discs /\ e.incarnation = d.incarnation /\ e.bumps = d.bumps
           /\ DrainAccepted(d) => e.phase = "ExpectStopped" /\ e.surprise = d.surprise
           /\ ~DrainAccepted(d) => e.phase = d.phase
<1>1. CASE DrainAccepted(d)
  BY <1>1 DEF OnDrain, DrainAccepted, Discs, Phases
<1>2. CASE ~DrainAccepted(d)
  <2>1. OnDrain(d) = Violate(d, "drain") BY <1>2 DEF OnDrain
  <2>2. "drain" \in Surprises BY DEF Surprises
  <2> QED BY <1>2, <2>1, <2>2, ViolateKeeps
<1> QED BY <1>1, <1>2

\* What the types give of the discipline and the lives.
LEMMA Facts ==
    ASSUME BenchInv
    PROVE  /\ disc \in Discs /\ disc.incarnation \in 0..MaxLife /\ disc.incarnation \in Nat
           /\ disc.phase \in Phases /\ MaxLife \in Nat /\ life \in 0..(MaxLife + 1) /\ life \in Nat
           /\ \A b \in burnt : b \in 1..MaxLife /\ b \in Nat
           /\ LivesInv
<1>1. disc \in Discs BY Zenon DEF BenchInv, TypeOK, Discs
<1>2. life \in 0..(MaxLife + 1) /\ burnt \subseteq 1..MaxLife BY Zenon DEF BenchInv, TypeOK
<1> QED BY <1>1, <1>2, BenchAssumption DEF Discs, BenchInv

(* ------------------------------ the process ----------------------------- *)

LEMMA Halves == BenchInv => Words /\ Bools
  BY Zenon DEF BenchInv, TypeOK, Words, Bools, Discs

LEMMA Whole == Words' /\ Bools' => TypeOK'
  BY Zenon DEF TypeOK, Words, Bools, Discs

LEMMA ReadRefusedKeeps == BenchInv /\ ReadRefused => BenchInv'
<1> SUFFICES ASSUME BenchInv, ReadRefused PROVE BenchInv'
  OBVIOUS
<1>1. disc \in Discs BY Zenon DEF BenchInv, TypeOK, Discs
<1>2. /\ disc' \in Discs /\ disc'.incarnation = disc.incarnation /\ disc'.phase = disc.phase
      /\ disc'.bumps \in {disc.bumps, 0} /\ failure' \in BOOLEAN
  BY <1>1, ReadMoves, Zenon DEF ReadRefused, Call, BenchInv, TypeOK
<1>3. TypeOK'
  <2>1. Words' BY <1>2, Halves, Zenon DEF Words, ReadRefused, Dies, driver
  <2>2. Bools' BY <1>2, Halves, Zenon DEF Bools, ReadRefused, Dies
  <2> QED BY <2>1, <2>2, Whole, Zenon
<1>4. LivesInv' BY <1>2 DEF BenchInv, LivesInv, ReadRefused, Dies, driver, Live, Halting
<1> QED BY <1>3, <1>4 DEF BenchInv, ReadRefused, Dies

LEMMA ReadKeeps == BenchInv /\ Read => BenchInv'
<1> SUFFICES ASSUME BenchInv, Read PROVE BenchInv'
  OBVIOUS
<1>1. disc \in Discs BY Zenon DEF BenchInv, TypeOK, Discs
<1>2. /\ disc' \in Discs /\ disc'.incarnation = disc.incarnation /\ disc'.bumps = 0
      /\ disc'.surprise = disc.surprise
      /\ ReadVerdict(disc) \in {"none", "stopped"} => disc'.phase = "Latch"
      /\ ReadVerdict(disc) = "joining" => disc'.phase = "Unseated"
      /\ ReadVerdict(disc) \in {"none", "stopped", "joining"}
  <2>1. ReadVerdict(disc) \in {"none", "stopped", "joining"} BY DEF Read, ReadVerdict
  <2> QED BY <1>1, <2>1, ReadMoves DEF Read, Call
<1>3. failure' \in BOOLEAN BY DEF Read, Call
<1>4. /\ ReadVerdict(disc) = "none" => disc.phase = "FirstBoot"
      /\ ReadVerdict(disc) = "stopped" => disc.phase = "CleanBoot"
      /\ ReadVerdict(disc) = "joining" => disc.phase \in {"DirtyBoot", "StopFromUnseated"}
  BY DEF ReadVerdict
<1>5. /\ ReadVerdict(disc) = "none" => Identity = 1
      /\ ReadVerdict(disc) = "stopped" => Identity = disc.incarnation
      /\ ReadVerdict(disc) = "joining" => Identity = disc.incarnation + 1
  BY DEF Identity
<1>6. Identity \in 1..(MaxLife + 1)
  BY <1>1, <1>2, <1>4, <1>5, BenchAssumption DEF BenchInv, LivesInv, Discs
<1>7. TypeOK'
  <2>1. Bools' BY <1>3, Halves, Zenon DEF Bools, Read
  <2>2. life' \in 0..(MaxLife + 1) BY <1>6, BenchAssumption DEF Read
  <2>3. pc' \in {"commit", "down"} /\ seated' = FALSE /\ verdict' = ReadVerdict(disc)
    BY DEF Read
  <2>4. UNCHANGED <<flags, after, at, op, burnt, hasty>> BY DEF Read, driver
  <2>5. Words' BY <1>2, <2>2, <2>3, <2>4, Halves, Zenon DEF Words, Booting
  <2> QED BY <2>1, <2>5, Whole, Zenon
<1>8. LivesInv'
  <2>1. /\ \A b \in burnt : b \in Nat /\ b <= disc.incarnation
        /\ disc.incarnation \in Nat /\ disc'.incarnation = disc.incarnation
    BY <1>2, Facts DEF LivesInv
  <2>2. Identity \notin burnt /\ \A b \in burnt : b <= Identity
    BY <1>2, <1>4, <1>5, <2>1 DEF BenchInv, LivesInv
  <2>3. /\ pc' \in {"commit", "down"} /\ life' = Identity
        /\ pc' = "commit" => Identity <= MaxLife
        /\ disc'.phase \in {"Latch", "Unseated"} /\ disc'.bumps = 0 /\ burnt' = burnt
    BY <1>2 DEF Read
  <2> QED BY <1>6, <2>1, <2>2, <2>3, BenchAssumption DEF LivesInv, Live, Halting
<1>9. ASSUME ~hasty', ~died' PROVE CalmInv'
  <2>0. ~died /\ ~hasty /\ ~(Identity > MaxLife) BY <1>9, Zenon DEF Read
  <2>1. CalmInv /\ Identity <= MaxLife BY <2>0, <1>6, BenchAssumption DEF BenchInv
  <2>2. failure' = FALSE /\ disc'.surprise = "none"
    BY <2>1, <1>2, Zenon DEF CalmInv, Read, Call
  <2>3. Quiet'
    BY <2>1, <1>4, <1>2 DEF CalmInv, Read, Quiet, Back, driver, Deferred
  <2>4. pc' = "commit" /\ seated' = FALSE /\ verdict' = ReadVerdict(disc) /\ life' = Identity
    BY <2>1 DEF Read
  <2> QED BY <1>2, <1>5, <2>2, <2>3, <2>4 DEF CalmInv
<1> QED BY <1>7, <1>8, <1>9 DEF BenchInv

LEMMA BootCommitKeeps == BenchInv /\ BootCommit => BenchInv'
<1> SUFFICES ASSUME BenchInv, BootCommit PROVE BenchInv'
  OBVIOUS
<1> DEFINE ok == CommitAccepted(disc, life, "sentinel")
<1>1. disc \in Discs /\ life \in 0..MaxLife /\ (disc.phase = "Unseated" => disc.bumps <= 1)
  <2>1. pc = "commit" BY DEF BootCommit
  <2> QED BY <2>1, Facts DEF LivesInv
<1>2. /\ disc' \in Discs
      /\ ok => /\ disc'.phase = CommitPhase(disc, life, "sentinel") /\ disc'.incarnation = life
               /\ disc'.bumps = (IF disc.phase = "Unseated" THEN disc.bumps + 1 ELSE disc.bumps)
               /\ disc'.surprise = disc.surprise
      /\ ~ok => disc'.phase = disc.phase /\ disc'.incarnation = disc.incarnation
                /\ disc'.bumps = disc.bumps
  BY <1>1, CommitMoves DEF BootCommit, Call
<1>3. failure' \in BOOLEAN BY DEF BootCommit, Call
<1>4. ok => CommitPhase(disc, life, "sentinel") \in {"Running", "Unseated", "ExpectStopping", "DirtyBoot"}
  BY DEF CommitAccepted, CommitPhase
<1>5. TypeOK'
  <2>1. Words' BY <1>2, Halves, Zenon DEF Words, BootCommit, Dies, driver
  <2>2. Bools' BY <1>3, Halves, Zenon DEF Bools, BootCommit, Dies
  <2> QED BY <2>1, <2>2, Whole, Zenon
<1>6. LivesInv'
  <2>1. (disc.phase = "Unseated" /\ disc.bumps = 1 /\ ok) =>
            CommitPhase(disc, life, "sentinel") = "Running"
    BY DEF CommitAccepted, CommitPhase
  <2>2. ok /\ CommitPhase(disc, life, "sentinel") = "Unseated" => disc.phase = "Unseated"
    BY DEF CommitAccepted, CommitPhase
  <2>3. CASE ok
    BY <2>3, <1>1, <1>2, <1>4, <2>1, <2>2
       DEF BenchInv, LivesInv, BootCommit, Live, Halting, Discs
  <2>4. CASE ~ok
    BY <2>4, <1>2 DEF BenchInv, LivesInv, BootCommit, Dies, Live, Halting
  <2> QED BY <2>3, <2>4
<1>7. ASSUME ~hasty', ~died' PROVE CalmInv'
  <2>1. CalmInv /\ ok
    BY <1>7, Zenon DEF BootCommit, Dies, BenchInv, TypeOK
  <2>2. failure' = FALSE /\ disc'.surprise = "none"
    BY <2>1, <1>2, Zenon DEF CalmInv, BootCommit, Call
  <2>3. disc.phase \in {"Latch", "Unseated"}
    BY <2>1, <1>1 DEF CalmInv, BootCommit, Discs, Phases, Settled, Deferred, Back
  <2>4. Quiet' /\ pc' = "construct" /\ verdict' = verdict /\ seated' = seated
    BY <2>1, <2>3 DEF CalmInv, BootCommit, Quiet, driver
  <2>5. CASE disc.phase = "Latch"
    <3>1. disc'.phase = "Running" BY <2>5, <2>1, <1>2 DEF CommitPhase
    <3> QED BY <3>1, <2>5, <2>1, <2>2, <2>4 DEF CalmInv, Settled
  <2>6. CASE disc.phase = "Unseated"
    <3>1. disc.bumps = 0 /\ life = disc.incarnation + 1 /\ verdict = "joining" /\ ~seated
      BY <2>6, <2>1 DEF CalmInv, Deferred, BootCommit
    <3>2. disc'.phase = "Unseated" /\ disc'.bumps = 1
      BY <2>6, <2>1, <1>2, <3>1 DEF CommitPhase
    <3> QED BY <3>1, <3>2, <2>2, <2>4 DEF CalmInv, Deferred
  <2> QED BY <2>3, <2>5, <2>6
<1> QED BY <1>5, <1>6, <1>7 DEF BenchInv

LEMMA ConstructKeeps == BenchInv /\ Construct => BenchInv'
<1> SUFFICES ASSUME BenchInv, Construct PROVE BenchInv'
  OBVIOUS
<1>1. TypeOK'
  <2>1. Words' BY Halves, Zenon DEF Words, Construct, Dies, driver
  <2>2. Bools' BY Halves, Zenon DEF Bools, Construct, Dies
  <2> QED BY <2>1, <2>2, Whole, Zenon
<1>2. LivesInv' BY DEF BenchInv, LivesInv, Construct, Dies, Live, Halting
<1>3. ASSUME ~hasty', ~died' PROVE CalmInv'
  <2>1. /\ CalmInv /\ pc = "construct" /\ pc' = "up" /\ seated' = (verdict # "joining")
        /\ UNCHANGED <<disc, failure, verdict, flags, after, at, op>>
    BY <1>3, Zenon DEF Construct, Dies, BenchInv, TypeOK, driver
  <2>2. UNCHANGED <<Quiet, StopOnItsWay, CrashOnItsWay>>
    BY <2>1 DEF Quiet, StopOnItsWay, CrashOnItsWay
  <2>3. disc \in Discs BY Zenon DEF BenchInv, TypeOK, Discs
  <2>4. disc.phase \in {"Running", "Unseated", "ExpectStopping", "StopFromUnseated", "DirtyBoot"}
    BY <2>1, <2>3 DEF CalmInv, Discs, Phases, Back
  <2>5. Settled => Settled' BY <2>1, Zenon DEF Settled
  <2>6. Deferred => Deferred' BY <2>1, Zenon DEF Deferred
  <2> QED BY <2>1, <2>2, <2>4, <2>5, <2>6 DEF CalmInv, Back
<1> QED BY <1>1, <1>2, <1>3 DEF BenchInv

LEMMA SeatKeeps == BenchInv /\ Seat => BenchInv'
<1> SUFFICES ASSUME BenchInv, Seat PROVE BenchInv'
  OBVIOUS
<1> DEFINE ok == CommitAccepted(disc, life, "sentinel")
<1>1. /\ disc \in Discs /\ (disc.phase = "Unseated" => disc.bumps <= 1)
      /\ life = disc.incarnation /\ life \in 0..MaxLife /\ pc = "up" /\ ~seated
  <2>1. pc = "up" /\ ~seated BY DEF Seat
  <2> QED BY <2>1, Facts DEF LivesInv, Live
<1>2. /\ disc' \in Discs /\ disc'.incarnation = life
      /\ ok => /\ disc'.phase = CommitPhase(disc, life, "sentinel")
               /\ disc'.surprise = disc.surprise
      /\ ~ok => disc'.phase = disc.phase /\ disc'.bumps = disc.bumps
  BY <1>1, CommitMoves DEF Seat, Call
<1>3. seated' = ok /\ failure' \in BOOLEAN BY DEF Seat, Call
<1>4. UNCHANGED <<pc, verdict, life, flags, after, at, op, burnt, hasty, died>>
  BY DEF Seat, driver
<1>5. ok => CommitPhase(disc, life, "sentinel") \in {"Running", "ExpectStopping", "DirtyBoot"}
  BY <1>1 DEF CommitAccepted, CommitPhase, Discs
<1>6. TypeOK'
  <2>1. Words' BY <1>2, <1>4, Halves, Zenon DEF Words
  <2>2. Bools' BY <1>3, <1>4, Halves, Zenon DEF Bools, CommitAccepted
  <2> QED BY <2>1, <2>2, Whole, Zenon
<1>7. LivesInv' BY <1>1, <1>2, <1>4, <1>5, Facts DEF LivesInv, Live, Halting
<1>8. ASSUME ~hasty', ~died' PROVE CalmInv'
  <2>1. CalmInv BY <1>8, <1>4 DEF BenchInv
  <2>2. UNCHANGED <<Quiet, StopOnItsWay, CrashOnItsWay>>
    BY <1>4 DEF Quiet, StopOnItsWay, CrashOnItsWay
  <2>3. disc.phase \in {"Unseated", "StopFromUnseated", "DirtyBoot"}
    BY <1>1, <2>1 DEF CalmInv, Discs, Phases, Back, Settled
  <2>4. disc.phase = "Unseated" => disc.bumps = 1 /\ Quiet
    BY <1>1, <2>1 DEF CalmInv, Deferred
  <2>5. /\ disc.phase = "StopFromUnseated" => StopOnItsWay
        /\ disc.phase = "DirtyBoot" => CrashOnItsWay
    BY <1>1, <2>1 DEF CalmInv, Back
  <2>6. /\ disc.phase = "Unseated" => CommitPhase(disc, life, "sentinel") = "Running"
        /\ disc.phase = "StopFromUnseated" => CommitPhase(disc, life, "sentinel") = "ExpectStopping"
        /\ disc.phase = "DirtyBoot" => CommitPhase(disc, life, "sentinel") = "DirtyBoot"
    BY <1>1, <2>4 DEF CommitPhase, Discs
  <2>7. ok BY <2>3, <2>6 DEF CommitAccepted
  <2>8. disc'.surprise = "none" /\ failure' = FALSE
    BY <2>1, <2>7, <1>2, Zenon DEF CalmInv, Seat, Call
  <2>9. Settled' BY <2>7, <1>1, <1>3, <1>4 DEF Settled
  <2> QED BY <1>1, <1>2, <1>4, <2>2, <2>3, <2>4, <2>5, <2>6, <2>7, <2>8, <2>9 DEF CalmInv
<1> QED BY <1>6, <1>7, <1>8 DEF BenchInv

\* The serve loop obeys TERM before USR1.
LEMMA WantedOf ==
    /\ Wanted \in {"exit", "cycle", "serve"}
    /\ Wanted = "exit" <=> "TERM" \in flags
    /\ Wanted = "cycle" => "USR1" \in flags
<1>1. CASE "TERM" \in flags BY <1>1 DEF Wanted
<1>2. CASE "TERM" \notin flags /\ "USR1" \in flags BY <1>2 DEF Wanted
<1>3. CASE "TERM" \notin flags /\ "USR1" \notin flags BY <1>3 DEF Wanted
<1> QED BY <1>1, <1>2, <1>3

\* A burnt life is the recorded one.
LEMMA BurnKeeps ==
    ASSUME BenchInv, pc \in {"up"} \cup Halting
    PROVE  Burn = burnt \cup {life} /\ life = disc.incarnation /\ life \in 1..MaxLife
  BY Facts DEF Burn, LivesInv, Live

LEMMA StopUnseatedKeeps == BenchInv /\ StopUnseated => BenchInv'
<1> SUFFICES ASSUME BenchInv, StopUnseated PROVE BenchInv'
  OBVIOUS
<1>1. /\ pc = "up" /\ ~seated /\ Wanted \in {"exit", "cycle"}
      /\ pc' = (IF Wanted = "exit" THEN "down" ELSE "read") /\ burnt' = Burn
      /\ flags' = (IF Wanted = "exit" THEN flags ELSE flags \ {"USR1"})
      /\ UNCHANGED <<disc, failure, verdict, life, seated, after, at, op, hasty, died>>
  BY WantedOf DEF StopUnseated, TakeFlag, Returns, driver
<1>2. Burn = burnt \cup {life} /\ life = disc.incarnation /\ life \in 1..MaxLife
  BY <1>1, BurnKeeps
<1>3. TypeOK'
  <2>1. Words' BY <1>1, <1>2, Halves, Zenon DEF Words, Booting
  <2>2. Bools' BY <1>1, Halves, Zenon DEF Bools
  <2> QED BY <2>1, <2>2, Whole, Zenon
<1>4. disc.phase \notin {"FirstBoot", "CleanBoot"} /\ disc.incarnation \in Nat
  BY <1>1, Facts DEF LivesInv, Live
<1>5. LivesInv' BY <1>1, <1>2, <1>4, Facts DEF LivesInv, Live, Halting
<1>6. ASSUME ~hasty', ~died' PROVE CalmInv'
  <2>1. CalmInv BY <1>6, <1>1 DEF BenchInv
  <2>2. flags # {} BY <1>1, WantedOf
  <2>3. disc.phase \in {"StopFromUnseated", "DirtyBoot"}
    BY <1>1, <2>1, <2>2, Facts DEF CalmInv, Phases, Back, Settled, Quiet
  <2>4. disc.phase = "StopFromUnseated"
    BY <1>1, <2>1, <2>3, WantedOf DEF CalmInv, Back, CrashOnItsWay
  <2>5. StopOnItsWay BY <1>1, <2>1, <2>4 DEF CalmInv, Back
  <2>6. \/ at \in Leaving /\ flags = {"TERM"} /\ Wanted = "exit"
        \/ at \in Waits /\ flags = {"USR1"} /\ Wanted = "cycle"
    <3>1. (at \in Leaving /\ flags = {"TERM"}) \/ (at \in Waits /\ flags = {"USR1"})
      BY <2>2, <2>5, Zenon DEF StopOnItsWay
    <3> QED BY <3>1 DEF Wanted
  <2>7. Back' BY <1>1, <2>6 DEF Back
  <2> QED BY <1>1, <2>1, <2>4, <2>7 DEF CalmInv
<1> QED BY <1>3, <1>5, <1>6 DEF BenchInv

LEMMA StopFirstKeeps == BenchInv /\ StopFirst => BenchInv'
<1> SUFFICES ASSUME BenchInv, StopFirst PROVE BenchInv'
  OBVIOUS
<1> DEFINE ok == CommitAccepted(disc, life, "stopping")
<1>1. /\ pc = "up" /\ seated /\ Wanted \in {"exit", "cycle"} /\ after' = Wanted
      /\ flags' = (IF Wanted = "exit" THEN flags ELSE flags \ {"USR1"})
      /\ UNCHANGED <<verdict, life, seated, at, op, hasty, died>>
  BY WantedOf DEF StopFirst, TakeFlag, driver
<1>2. /\ Burn = burnt \cup {life} /\ life = disc.incarnation /\ life \in 1..MaxLife
      /\ life \in 0..MaxLife
  BY <1>1, BurnKeeps, Facts
<1>3. /\ ok => pc' = "drain" /\ burnt' = burnt
      /\ ~ok => pc' \in {"down", "read"} /\ burnt' = Burn
  BY DEF StopFirst, Returns
<1>4. disc.phase = "Unseated" => disc.bumps <= 1 BY Facts DEF LivesInv
<1>5. /\ disc' \in Discs /\ disc'.incarnation = life /\ disc'.phase \in {disc.phase, "ExpectDrain"}
      /\ ok => disc'.phase = "ExpectDrain" /\ disc'.surprise = disc.surprise
      /\ ~ok => disc'.phase = disc.phase /\ disc'.bumps = disc.bumps
  <2>1. ok => CommitPhase(disc, life, "stopping") = "ExpectDrain"
    BY DEF CommitAccepted, CommitPhase
  <2> QED BY <1>2, <1>4, <2>1, Facts, CommitMoves DEF StopFirst, Call
<1>6. failure' \in BOOLEAN BY DEF StopFirst, Call
<1>7. TypeOK'
  <2>1. Words' BY <1>1, <1>2, <1>3, <1>5, Halves, Zenon DEF Words, Booting, Halting
  <2>2. Bools' BY <1>1, <1>6, Halves, Zenon DEF Bools
  <2> QED BY <2>1, <2>2, Whole, Zenon
<1>8. LivesInv'
  <2>1. disc.phase \notin {"FirstBoot", "CleanBoot"} /\ life \notin burnt
    BY <1>1, Facts DEF LivesInv, Live
  <2> QED BY <1>1, <1>2, <1>3, <1>5, <2>1, Facts DEF LivesInv, Live, Halting
<1>9. ASSUME ~hasty', ~died' PROVE CalmInv'
  <2>1. CalmInv BY <1>9, <1>1 DEF BenchInv
  <2>2. flags # {} BY <1>1, WantedOf
  <2>3. disc.phase \in {"ExpectStopping", "DirtyBoot"}
    BY <1>1, <2>1, <2>2, Facts DEF CalmInv, Phases, Back, Deferred, Quiet
  <2>4. disc.phase = "ExpectStopping"
    BY <1>1, <2>1, <2>3, WantedOf DEF CalmInv, Back, CrashOnItsWay
  <2>5. ok BY <2>4 DEF CommitAccepted, CommitPhase
  <2>6. disc'.surprise = "none" /\ failure' = FALSE
    BY <2>1, <2>5, <1>5, Zenon DEF CalmInv, StopFirst, Call
  <2>7. StopOnItsWay BY <2>1, <2>4 DEF CalmInv
  <2>8. StopRuns'
    <3>1. \/ at \in Leaving /\ flags = {"TERM"} /\ Wanted = "exit"
          \/ at \in Waits /\ flags = {"USR1"} /\ Wanted = "cycle"
      <4>1. (at \in Leaving /\ flags = {"TERM"}) \/ (at \in Waits /\ flags = {"USR1"})
        BY <2>2, <2>7, Zenon DEF StopOnItsWay
      <4> QED BY <4>1 DEF Wanted
    <3> QED BY <1>1, <3>1 DEF StopRuns
  <2> QED BY <1>3, <1>5, <2>5, <2>6, <2>8 DEF CalmInv
<1> QED BY <1>7, <1>8, <1>9 DEF BenchInv

LEMMA StopDrainKeeps == BenchInv /\ StopDrain => BenchInv'
<1> SUFFICES ASSUME BenchInv, StopDrain PROVE BenchInv'
  OBVIOUS
<1> DEFINE ok == DrainAccepted(disc)
<1>1. pc = "drain" /\ UNCHANGED <<verdict, life, seated, flags, after, at, op, hasty>>
  BY DEF StopDrain, Dies, driver
<1>2. Burn = burnt \cup {life} /\ life = disc.incarnation /\ life \in 1..MaxLife
  BY <1>1, BurnKeeps DEF Halting
<1>3. /\ ok => pc' = "finish" /\ burnt' = burnt /\ died' = died
      /\ ~ok => pc' = "down" /\ burnt' = Burn /\ died' = TRUE
  BY DEF StopDrain, Dies
<1>4. /\ disc' \in Discs /\ disc'.incarnation = life /\ disc'.bumps = disc.bumps
      /\ ok => disc'.phase = "ExpectStopped" /\ disc'.surprise = disc.surprise
      /\ ~ok => disc'.phase = disc.phase
  BY <1>2, Facts, DrainMoves DEF StopDrain, Call
<1>5. failure' \in BOOLEAN BY DEF StopDrain, Call
<1>6. TypeOK'
  <2>1. Words' BY <1>1, <1>2, <1>3, <1>4, Halves, Zenon DEF Words, Halting
  <2>2. Bools' BY <1>1, <1>3, <1>5, Halves, Zenon DEF Bools
  <2> QED BY <2>1, <2>2, Whole, Zenon
<1>7. LivesInv'
  <2>1. disc.phase \notin {"FirstBoot", "CleanBoot"} /\ life \notin burnt
    BY <1>1, Facts DEF LivesInv, Live, Halting
  <2> QED BY <1>1, <1>2, <1>3, <1>4, <2>1, Facts DEF LivesInv, Live, Halting
<1>8. ASSUME ~hasty', ~died' PROVE CalmInv'
  <2>1. ok /\ CalmInv BY <1>1, <1>3, <1>8 DEF BenchInv
  <2>2. disc'.surprise = "none" /\ failure' = FALSE
    BY <2>1, <1>4, Zenon DEF CalmInv, StopDrain, Call
  <2>3. StopRuns' BY <2>1, <1>1 DEF CalmInv, DrainAccepted, StopRuns
  <2> QED BY <1>3, <1>4, <2>1, <2>2, <2>3 DEF CalmInv
<1> QED BY <1>6, <1>7, <1>8 DEF BenchInv

LEMMA StopFinishKeeps == BenchInv /\ StopFinish => BenchInv'
<1> SUFFICES ASSUME BenchInv, StopFinish PROVE BenchInv'
  OBVIOUS
<1> DEFINE ok == CommitAccepted(disc, life, "stopped")
<1>1. /\ pc = "finish" /\ pc' = (IF after = "exit" THEN "down" ELSE "read")
      /\ UNCHANGED <<verdict, life, seated, flags, after, at, op, hasty, died>>
      /\ burnt' = IF ok THEN burnt ELSE Burn
  BY DEF StopFinish, Returns, driver
<1>2. /\ Burn = burnt \cup {life} /\ life = disc.incarnation /\ life \in 1..MaxLife
      /\ life \in 0..MaxLife
  BY <1>1, BurnKeeps, Facts DEF Halting
<1>3. /\ disc' \in Discs /\ disc'.incarnation = life
      /\ ok => disc'.phase = "CleanBoot" /\ disc'.surprise = disc.surprise
      /\ ~ok => disc'.phase = disc.phase /\ disc'.bumps = disc.bumps
  <2>1. ok => CommitPhase(disc, life, "stopped") = "CleanBoot"
    BY DEF CommitAccepted, CommitPhase
  <2>2. disc.phase = "Unseated" => disc.bumps <= 1 BY Facts DEF LivesInv
  <2> QED BY <1>2, <2>1, <2>2, Facts, CommitMoves DEF StopFinish, Call
<1>4. failure' \in BOOLEAN BY DEF StopFinish, Call
<1>5. TypeOK'
  <2>1. Words' BY <1>1, <1>2, <1>3, Halves, Zenon DEF Words, Booting
  <2>2. Bools' BY <1>1, <1>4, Halves, Zenon DEF Bools
  <2> QED BY <2>1, <2>2, Whole, Zenon
<1>6. LivesInv'
  <2>1. disc.phase \notin {"FirstBoot", "CleanBoot"} /\ life \notin burnt
    BY <1>1, Facts DEF LivesInv, Live, Halting
  <2> QED BY <1>1, <1>2, <1>3, <2>1, Facts DEF LivesInv, Live, Halting
<1>7. ASSUME ~hasty', ~died' PROVE CalmInv'
  <2>1. CalmInv BY <1>1, <1>7 DEF BenchInv
  <2>2. disc.phase = "ExpectStopped"
    BY <1>1, <2>1, Facts DEF CalmInv, Phases, Back, Settled, Deferred
  <2>3. ok BY <2>2 DEF CommitAccepted, CommitPhase
  <2>4. disc'.surprise = "none" /\ failure' = FALSE
    BY <2>1, <2>3, <1>3, Zenon DEF CalmInv, StopFinish, Call
  <2>5. Back' BY <1>1, <2>1, <2>2 DEF CalmInv, StopRuns, Back
  <2> QED BY <1>3, <2>3, <2>4, <2>5 DEF CalmInv
<1> QED BY <1>5, <1>6, <1>7 DEF BenchInv

LEMMA DirtyCycleKeeps == BenchInv /\ DirtyCycle => BenchInv'
<1> SUFFICES ASSUME BenchInv, DirtyCycle PROVE BenchInv'
  OBVIOUS
<1>1. /\ pc = "up" /\ Wanted = "serve" /\ "USR2" \in flags /\ flags' = flags \ {"USR2"}
      /\ pc' = "read" /\ burnt' = Burn
      /\ UNCHANGED <<disc, failure, verdict, life, seated, after, at, op, hasty, died>>
  BY DEF DirtyCycle, driver
<1>2. Burn = burnt \cup {life} /\ life = disc.incarnation /\ life \in 1..MaxLife
  BY <1>1, BurnKeeps
<1>3. TypeOK'
  <2>1. Words' BY <1>1, <1>2, Halves, Zenon DEF Words, Booting
  <2>2. Bools' BY <1>1, Halves, Zenon DEF Bools
  <2> QED BY <2>1, <2>2, Whole, Zenon
<1>4. disc.phase \notin {"FirstBoot", "CleanBoot"} BY <1>1, Facts DEF LivesInv, Live
<1>5. LivesInv' BY <1>1, <1>2, <1>4, Facts DEF LivesInv, Live, Halting
<1>6. ASSUME ~hasty', ~died' PROVE CalmInv'
  <2>1. CalmInv BY <1>6, <1>1 DEF BenchInv
  <2>0. flags # {} /\ flags # {"TERM"} /\ flags # {"USR1"} BY <1>1
  <2>2. disc.phase = "DirtyBoot"
    BY <1>1, <2>0, <2>1, Facts, Zenon DEF CalmInv, Phases, Back, Quiet, StopOnItsWay
  <2>3. Back' BY <1>1, <2>1, <2>2 DEF CalmInv, Back, CrashOnItsWay
  <2> QED BY <1>1, <2>1, <2>2, <2>3 DEF CalmInv
<1> QED BY <1>3, <1>5, <1>6 DEF BenchInv

(* ------------------------------- the driver ----------------------------- *)

LEMMA SignalKeeps ==
    ASSUME NEW s \in {"TERM", "KILL", "USR1", "USR2"}
    PROVE  BenchInv /\ Signal(s) => BenchInv'
<1> SUFFICES ASSUME BenchInv, Signal(s) PROVE BenchInv'
  OBVIOUS
<1>1. /\ at = "ready" /\ op' = s /\ at' = "send" /\ hasty' = (hasty \/ Unready)
      /\ UNCHANGED <<failure, pc, verdict, life, seated, flags, after, burnt, died>>
      /\ s \in {"TERM", "USR1"} => disc' = SignalCleanStop(disc)
      /\ s \in {"KILL", "USR2"} => disc' = SignalCrash(disc)
  BY DEF Signal, node
<1>2. /\ disc' \in Discs /\ disc'.incarnation = disc.incarnation /\ disc'.bumps = disc.bumps
      /\ disc.phase \notin {"Running", "Unseated"} => disc'.phase = disc.phase
      /\ disc.phase \in {"Running", "Unseated"} =>
            /\ disc'.surprise = disc.surprise
            /\ disc'.phase = IF s \in {"KILL", "USR2"} THEN "DirtyBoot"
                             ELSE IF disc.phase = "Running" THEN "ExpectStopping"
                             ELSE "StopFromUnseated"
  BY <1>1, Facts, StopSignalMoves, CrashSignalMoves
<1>3. TypeOK'
  <2>1. Words' BY <1>1, <1>2, Halves, Zenon DEF Words
  <2>2. Bools' BY <1>1, Halves, Zenon DEF Bools, Unready, IsRunning
  <2> QED BY <2>1, <2>2, Whole, Zenon
<1>4. LivesInv' BY <1>1, <1>2, Facts DEF LivesInv
<1>5. ASSUME ~hasty', ~died' PROVE CalmInv'
  <2>1. CalmInv /\ pc \notin {"read", "commit"}
    BY <1>1, <1>5, Zenon DEF BenchInv, Unready, Booting
  <2>2. disc.phase \in {"Running", "Unseated"} /\ flags = {}
    BY <1>1, <2>1, Facts DEF CalmInv, Phases, Quiet, StopOnItsWay, CrashOnItsWay, StopRuns,
                             Back, Waits, Leaving
  <2>3. /\ s \in {"TERM", "USR1"} => StopOnItsWay'
        /\ s \in {"KILL", "USR2"} => CrashOnItsWay'
    BY <1>1, <2>2 DEF StopOnItsWay, CrashOnItsWay
  <2>4. /\ disc.phase = "Running" => Settled' /\ pc' \in {"construct", "up"}
        /\ disc.phase = "Unseated" => Deferred' /\ pc' \in {"construct", "up"}
    BY <1>1, <1>2, <2>1 DEF CalmInv, Settled, Deferred
  <2>5. disc'.surprise = "none" /\ failure' = FALSE
    BY <1>1, <1>2, <2>1, <2>2 DEF CalmInv
  <2> QED BY <1>2, <2>2, <2>3, <2>4, <2>5 DEF CalmInv
<1> QED BY <1>3, <1>4, <1>5 DEF BenchInv

\* What a delivered signal does to the process.
LEMMA DeliverMoves ==
    ASSUME BenchInv, NEW s \in {"TERM", "KILL", "USR1", "USR2"}, Deliver(s)
    PROVE  /\ UNCHANGED <<verdict, life, seated, after>> /\ burnt' \subseteq 1..MaxLife
           /\ pc' \in {pc, "down"}
           /\ flags' \in {flags, flags \cup {s}}
           /\ s = "KILL" => flags' = flags
           /\ pc = "down" => pc' = "down" /\ flags' = flags /\ burnt' = burnt
           /\ pc # "down" /\ s # "KILL" => pc' = pc /\ flags' = flags \cup {s} /\ burnt' = burnt
           /\ pc # "down" /\ s = "KILL" => pc' = "down"
           /\ burnt' = burnt \/ (pc' = "down" /\ pc \in Live /\ burnt' = burnt \cup {disc.incarnation})
<1>0. pc \in {"up"} \cup Halting => pc \in Live BY DEF Live
<1>1. CASE pc = "down"
  BY <1>1, Zenon DEF Deliver, node, BenchInv, TypeOK
<1>2. CASE pc # "down" /\ s = "KILL" /\ pc \in {"up"} \cup Halting
  BY <1>0, <1>2, BurnKeeps, Zenon DEF Deliver, BenchInv, TypeOK
<1>3. CASE pc # "down" /\ s = "KILL" /\ pc \notin {"up"} \cup Halting
  BY <1>3, Zenon DEF Deliver, Burn, BenchInv, TypeOK
<1>4. CASE pc # "down" /\ s # "KILL"
  BY <1>4, Zenon DEF Deliver, BenchInv, TypeOK
<1> QED BY <1>1, <1>2, <1>3, <1>4

LEMMA DeliverKeepsLives ==
    ASSUME BenchInv, NEW s \in {"TERM", "KILL", "USR1", "USR2"}, Deliver(s), UNCHANGED disc
    PROVE  LivesInv'
<1>1. /\ life' = life /\ pc' \in {pc, "down"}
      /\ burnt' = burnt \/ (pc' = "down" /\ pc \in Live /\ burnt' = burnt \cup {disc.incarnation})
  BY DeliverMoves
<1>2. CASE burnt' = burnt
  BY <1>1, <1>2, Facts DEF LivesInv, Live, Halting
<1>3. CASE pc' = "down" /\ pc \in Live /\ burnt' = burnt \cup {disc.incarnation}
  <2>1. disc.phase \notin {"FirstBoot", "CleanBoot"} BY <1>3, Facts DEF LivesInv
  <2> QED BY <1>3, <2>1, Facts DEF LivesInv, Live, Halting
<1> QED BY <1>1, <1>2, <1>3

LEMMA SendKeeps == BenchInv /\ SendsASignal /\ Send => BenchInv'
<1> SUFFICES ASSUME BenchInv, SendsASignal, Send PROVE BenchInv'
  OBVIOUS
<1>1. /\ at = "send" /\ Deliver(op) /\ at' = (IF op \in {"TERM", "KILL"} THEN "exit" ELSE "wait")
      /\ UNCHANGED <<disc, failure, op, hasty, died>>
  BY DEF Send
<1>2. CASE op \in {"TERM", "KILL", "USR1", "USR2"}
  <2>1. TypeOK'
    <3>1. Words' BY <1>1, <1>2, DeliverMoves, Halves, Zenon DEF Words
    <3>2. Bools' BY <1>1, <1>2, DeliverMoves, Halves, Zenon DEF Bools
    <3> QED BY <3>1, <3>2, Whole, Zenon
  <2>2. LivesInv' BY <1>1, <1>2, DeliverKeepsLives
  <2>3. ASSUME ~hasty', ~died' PROVE CalmInv'
    <3>1. CalmInv BY <1>1, <2>3 DEF BenchInv
    <3>2. disc.phase \in {"ExpectStopping", "StopFromUnseated", "DirtyBoot"}
      BY <1>1, <3>1, Facts DEF CalmInv, Phases, Quiet, StopRuns, Back, Waits, Leaving
    <3>3. pc \in {"construct", "up"} /\ flags = {}
      BY <1>1, <3>1, <3>2 DEF CalmInv, Settled, Deferred, Back, StopOnItsWay, CrashOnItsWay,
                              Waits, Leaving
    <3>4. CASE disc.phase \in {"ExpectStopping", "StopFromUnseated"}
      <4>1. op \in {"TERM", "USR1"}
        BY <1>1, <3>1, <3>4 DEF CalmInv, StopOnItsWay, Back, Waits, Leaving
      <4>2. StopOnItsWay'
        BY <1>1, <1>2, <3>3, <4>1, DeliverMoves DEF StopOnItsWay, Waits, Leaving
      <4>3. UNCHANGED <<pc, seated, verdict>>
        BY <1>1, <1>2, <3>3, <4>1, DeliverMoves
      <4>4. /\ disc.phase = "ExpectStopping" => Settled'
            /\ disc.phase = "StopFromUnseated" => Deferred'
        BY <1>1, <3>1, <3>3, <4>3 DEF CalmInv, Settled, Deferred, Back
      <4> QED BY <1>1, <3>1, <3>4, <4>2, <4>4 DEF CalmInv
    <3>5. CASE disc.phase = "DirtyBoot"
      <4>1. op \in {"KILL", "USR2"}
        BY <1>1, <3>1, <3>5 DEF CalmInv, CrashOnItsWay, Back, Waits, Leaving
      <4>2. op = "USR2" => CrashOnItsWay' /\ pc' = pc
        BY <1>1, <3>3, <4>1, DeliverMoves DEF CrashOnItsWay, Waits
      <4>3. op = "KILL" => Back'
        BY <1>1, <3>3, <4>1, DeliverMoves DEF Back, Leaving
      <4> QED BY <1>1, <3>1, <3>3, <3>5, <4>1, <4>2, <4>3 DEF CalmInv
    <3> QED BY <3>2, <3>4, <3>5
  <2> QED BY <2>1, <2>2, <2>3 DEF BenchInv
<1> QED BY <1>1, <1>2 DEF BenchInv, TypeOK, SendsASignal

LEMMA RespawnKeeps == BenchInv /\ Respawn => BenchInv'
<1> SUFFICES ASSUME BenchInv, Respawn PROVE BenchInv'
  OBVIOUS
<1>1. /\ at = "exit" /\ pc = "down" /\ pc' = "read" /\ flags' = {} /\ at' = "wait"
      /\ UNCHANGED <<disc, failure, verdict, life, seated, after, op, burnt, hasty, died>>
  BY DEF Respawn
<1>2. TypeOK'
  <2>1. Words' BY <1>1, Halves, Zenon DEF Words, Booting
  <2>2. Bools' BY <1>1, Halves, Zenon DEF Bools
  <2> QED BY <2>1, <2>2, Whole, Zenon
<1>3. LivesInv' BY <1>1, Facts DEF LivesInv, Live, Halting
<1>4. ASSUME ~hasty', ~died' PROVE CalmInv'
  <2>1. CalmInv BY <1>1, <1>4 DEF BenchInv
  <2>2. disc.phase \in {"StopFromUnseated", "CleanBoot", "DirtyBoot"}
    BY <1>1, <2>1, Facts DEF CalmInv, Phases, Settled, Deferred
  <2>3. Back' BY <1>1 DEF Back, Waits
  <2> QED BY <1>1, <2>1, <2>2, <2>3 DEF CalmInv
<1> QED BY <1>2, <1>3, <1>4 DEF BenchInv

\* A step of the driver between states in which nothing is signalled, or back.
LEMMA WaitKeeps == BenchInv /\ (WaitRunning \/ LadderFails) => BenchInv'
<1> SUFFICES ASSUME BenchInv, WaitRunning \/ LadderFails PROVE BenchInv'
  OBVIOUS
<1>1. /\ at = "wait" /\ at' \in {"ready", "torn"}
      /\ at' = "ready" => disc.phase \in {"Running", "Unseated"}
      /\ UNCHANGED <<disc, failure, pc, verdict, life, seated, flags, after, op, burnt, hasty, died>>
  BY DEF WaitRunning, LadderFails, node, IsRunning
<1>2. TypeOK'
  <2>1. Words' BY <1>1, Halves, Zenon DEF Words
  <2>2. Bools' BY <1>1, Halves, Zenon DEF Bools
  <2> QED BY <2>1, <2>2, Whole, Zenon
<1>3. LivesInv' BY <1>1, Facts DEF LivesInv
<1>4. ASSUME ~hasty', ~died' PROVE CalmInv'
  <2>1. CalmInv BY <1>1, <1>4 DEF BenchInv
  <2>2. UNCHANGED <<Settled, Deferred>> BY <1>1 DEF Settled, Deferred
  <2>3. Quiet => Quiet' BY <1>1 DEF Quiet, Waits
  <2>4. CASE at' = "torn"
    <3>1. /\ StopOnItsWay => StopOnItsWay'
          /\ CrashOnItsWay => CrashOnItsWay'
          /\ StopRuns => StopRuns'
          /\ Back => Back'
      BY <1>1, <2>4 DEF StopOnItsWay, CrashOnItsWay, StopRuns, Back, Waits, Leaving
    <3> QED BY <1>1, <2>1, <2>2, <2>3, <3>1 DEF CalmInv
  <2>5. CASE at' = "ready"
    BY <1>1, <2>1, <2>2, <2>3, <2>5 DEF CalmInv
  <2> QED BY <1>1, <2>4, <2>5
<1> QED BY <1>2, <1>3, <1>4 DEF BenchInv

LEMMA TeardownKeeps == BenchInv /\ Teardown => BenchInv'
<1> SUFFICES ASSUME BenchInv, Teardown PROVE BenchInv'
  OBVIOUS
<1>1. /\ at \in {"ready", "torn"} /\ at' = "last send"
      /\ disc' = (IF IsRunning(disc) THEN SignalCleanStop(disc) ELSE disc)
      /\ hasty' = (hasty \/ Unready \/ ~IsRunning(disc))
      /\ UNCHANGED <<failure, pc, verdict, life, seated, flags, after, op, burnt, died>>
  BY Zenon DEF Teardown, node
<1>2. /\ disc' \in Discs /\ disc'.incarnation = disc.incarnation /\ disc'.bumps = disc.bumps
      /\ IsRunning(disc) =>
            /\ disc'.surprise = disc.surprise
            /\ disc'.phase = IF disc.phase = "Running" THEN "ExpectStopping" ELSE "StopFromUnseated"
      /\ ~IsRunning(disc) => disc'.phase = disc.phase
  BY <1>1, Facts, StopSignalMoves, Zenon DEF IsRunning
<1>3. TypeOK'
  <2>1. Words' BY <1>1, <1>2, Halves, Zenon DEF Words
  <2>2. Bools' BY <1>1, Halves, Zenon DEF Bools, Unready, IsRunning
  <2> QED BY <2>1, <2>2, Whole, Zenon
<1>4. LivesInv'
  <2>1. disc'.phase \in {disc.phase, "ExpectStopping", "StopFromUnseated"} BY <1>2
  <2> QED BY <1>1, <1>2, <2>1, Facts, Zenon DEF LivesInv
<1>5. ASSUME ~hasty', ~died' PROVE CalmInv'
  <2>1. CalmInv /\ pc \notin {"read", "commit"} /\ IsRunning(disc)
    BY <1>1, <1>5, Zenon DEF BenchInv, Unready, Booting
  <2>2. disc.phase \in {"Running", "Unseated"} /\ flags = {}
    BY <2>1 DEF CalmInv, Quiet, IsRunning
  <2>3. StopOnItsWay' BY <1>1, <2>2, Zenon DEF StopOnItsWay
  <2>4. /\ disc.phase = "Running" => Settled'
        /\ disc.phase = "Unseated" => Deferred'
    BY <1>1, <1>2, <2>1, Zenon DEF CalmInv, Settled, Deferred
  <2>5. disc'.surprise = "none" /\ failure' = FALSE
    BY <1>1, <1>2, <2>1, Zenon DEF CalmInv
  <2> QED BY <1>2, <2>1, <2>2, <2>3, <2>4, <2>5 DEF CalmInv
<1> QED BY <1>3, <1>4, <1>5 DEF BenchInv

LEMMA LastSendKeeps == BenchInv /\ LastSend => BenchInv'
<1> SUFFICES ASSUME BenchInv, LastSend PROVE BenchInv'
  OBVIOUS
<1>1. /\ at = "last send" /\ Deliver("TERM") /\ at' = "last exit"
      /\ UNCHANGED <<disc, failure, op, hasty, died>>
  BY Zenon DEF LastSend
<1>2. TypeOK'
  <2>1. Words' BY <1>1, DeliverMoves, Halves, Zenon DEF Words
  <2>2. Bools' BY <1>1, DeliverMoves, Halves, Zenon DEF Bools
  <2> QED BY <2>1, <2>2, Whole, Zenon
<1>3. LivesInv' BY <1>1, DeliverKeepsLives, Zenon
<1>4. ASSUME ~hasty', ~died' PROVE CalmInv'
  <2>1. CalmInv BY <1>1, <1>4, Zenon DEF BenchInv
  <2>2. disc.phase \in {"ExpectStopping", "StopFromUnseated"}
    BY <1>1, <2>1, Facts, Zenon DEF CalmInv, Phases, Quiet, CrashOnItsWay, StopRuns, Back, Waits, Leaving
  <2>3. flags = {} /\ pc \in {"construct", "up"}
    BY <1>1, <2>1, <2>2, Zenon DEF CalmInv, Settled, Deferred, Back, StopOnItsWay, Waits, Leaving
  <2>4. UNCHANGED <<pc, seated, verdict>> /\ flags' = {"TERM"}
    BY <1>1, <2>3, DeliverMoves, Zenon
  <2>5. StopOnItsWay' BY <1>1, <2>4, Zenon DEF StopOnItsWay, Leaving
  <2>6. /\ disc.phase = "ExpectStopping" => Settled'
        /\ disc.phase = "StopFromUnseated" => Deferred'
    BY <1>1, <2>1, <2>3, <2>4, Zenon DEF CalmInv, Settled, Deferred, Back
  <2> QED BY <1>1, <2>1, <2>2, <2>5, <2>6, Zenon DEF CalmInv
<1> QED BY <1>2, <1>3, <1>4 DEF BenchInv

LEMMA LastExitKeeps == BenchInv /\ LastExit => BenchInv'
<1> SUFFICES ASSUME BenchInv, LastExit PROVE BenchInv'
  OBVIOUS
<1>1. /\ at = "last exit" /\ pc = "down" /\ at' = "done"
      /\ UNCHANGED <<disc, failure, pc, verdict, life, seated, flags, after, op, burnt, hasty, died>>
  BY Zenon DEF LastExit, node
<1>2. TypeOK'
  <2>1. Words' BY <1>1, Halves, Zenon DEF Words
  <2>2. Bools' BY <1>1, Halves, Zenon DEF Bools
  <2> QED BY <2>1, <2>2, Whole, Zenon
<1>3. LivesInv' BY <1>1, Facts, Zenon DEF LivesInv
<1>4. ASSUME ~hasty', ~died' PROVE CalmInv'
  <2>1. CalmInv BY <1>1, <1>4, Zenon DEF BenchInv
  <2>2. disc.phase \in {"StopFromUnseated", "CleanBoot", "DirtyBoot"}
    BY <1>1, <2>1, Facts, Zenon DEF CalmInv, Phases, Settled, Deferred
  <2>3. Back' BY <1>1, Zenon DEF Back
  <2> QED BY <1>1, <2>1, <2>2, <2>3, Zenon DEF CalmInv
<1> QED BY <1>2, <1>3, <1>4 DEF BenchInv

(* ------------------------------ the theorem ----------------------------- *)

LEMMA InitBench == Init => BenchInv
<1> SUFFICES ASSUME Init PROVE BenchInv
  OBVIOUS
<1>1. TypeOK
  <2>1. disc \in Discs
    BY BenchAssumption DEF Init, Discs, NewDiscipline, Phases, Surprises
  <2>2. 0 \in 0..MaxLife + 1 BY BenchAssumption
  <2> QED BY <2>1, <2>2, Zenon DEF Init, TypeOK, Discs, Booting
<1>2. LivesInv BY DEF Init, LivesInv, NewDiscipline, Live, Halting
<1>3. CalmInv BY DEF Init, CalmInv, NewDiscipline, Quiet
<1> QED BY <1>1, <1>2, <1>3 DEF BenchInv

\* When the driver has torn the node down the automaton is in a resting phase.
LEMMA BenchInvSound == BenchInv => StoreIsSound
<1> SUFFICES ASSUME BenchInv PROVE StoreIsSound
  OBVIOUS
<1>1. SurprisesAreReal BY DEF BenchInv, CalmInv, SurprisesAreReal
<1>2. NoBurntLifeRuns BY Facts DEF LivesInv, NoBurntLifeRuns, Live
<1>3. TeardownRests
  <2> SUFFICES ASSUME at = "done", ~hasty, ~died PROVE AtRest(disc)
    BY DEF TeardownRests
  <2>1. CalmInv BY DEF BenchInv
  <2>2. disc.phase \in {"StopFromUnseated", "CleanBoot", "DirtyBoot"}
    BY <2>1, Facts DEF CalmInv, Phases, Quiet, StopOnItsWay, StopRuns, Waits, Leaving
  <2> QED BY <2>1, <2>2 DEF AtRest, CalmInv
<1> QED BY <1>1, <1>2, <1>3 DEF StoreIsSound, BenchInv

LEMMA StutterKeeps == BenchInv /\ UNCHANGED vars => BenchInv'
<1> SUFFICES ASSUME BenchInv, UNCHANGED vars PROVE BenchInv'
  OBVIOUS
<1>1. UNCHANGED <<disc, failure, pc, verdict, life, seated, flags, after, at, op, burnt, hasty, died>>
  BY DEF vars, node, driver
<1>2. TypeOK'
  <2>1. Words' BY <1>1, Halves, Zenon DEF Words
  <2>2. Bools' BY <1>1, Halves, Zenon DEF Bools
  <2> QED BY <2>1, <2>2, Whole, Zenon
<1>3. LivesInv' BY <1>1, Facts DEF LivesInv
<1>4. UNCHANGED <<Quiet, Settled, Deferred, Back, StopRuns, StopOnItsWay, CrashOnItsWay>>
  BY <1>1 DEF Quiet, Settled, Deferred, Back, StopRuns, StopOnItsWay, CrashOnItsWay
<1>5. CalmInv => CalmInv' BY <1>1, <1>4 DEF CalmInv
<1> QED BY <1>1, <1>2, <1>3, <1>5 DEF BenchInv

\* Whatever the order of the node's store calls and the driver's signals, over
\* any number of lives: the discipline of bench_store.rs is surprised only by a
\* hasty driver or a node that died, no process runs under a burnt life, and an
\* orderly teardown leaves the automaton at rest.
THEOREM StoreSound == Spec => []StoreIsSound
<1>1. BenchInv /\ SendsASignal /\ [Next]_vars => BenchInv'
  <2> SUFFICES ASSUME BenchInv, SendsASignal, [Next]_vars PROVE BenchInv'
    OBVIOUS
  <2>1. CASE Next
    BY <2>1, ReadRefusedKeeps, ReadKeeps, BootCommitKeeps, ConstructKeeps, SeatKeeps,
       StopUnseatedKeeps, StopFirstKeeps, StopDrainKeeps, StopFinishKeeps, DirtyCycleKeeps,
       SignalKeeps, SendKeeps, RespawnKeeps, WaitKeeps, TeardownKeeps, LastSendKeeps, LastExitKeeps
       DEF Next, Process, Driver
  <2>2. CASE UNCHANGED vars BY <2>2, StutterKeeps
  <2> QED BY <2>1, <2>2
<1>2. Init => SendsASignal BY DEF Init, SendsASignal
<1>3. SendsASignal /\ [Next]_vars => SendsASignal'
  BY DEF SendsASignal, Next, vars, Process, Driver, ReadRefused, Read, BootCommit, Construct, Seat,
         StopUnseated, StopFirst, StopDrain, StopFinish, DirtyCycle, driver, Signal, Send, Respawn,
         WaitRunning, LadderFails, Teardown, LastSend, LastExit
<1> QED BY <1>1, <1>2, <1>3, InitBench, BenchInvSound, PTL DEF Spec
=============================================================================
