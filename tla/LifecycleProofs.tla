-------------------------- MODULE LifecycleProofs --------------------------
(***************************************************************************)
(* The boot gate's fence, proved for every life and table bound, and what  *)
(* the shutdown check's report is worth, proved for logs of every length.  *)
(***************************************************************************)
EXTENDS ShutdownCheck, SequenceTheorems, TLAPS

\* A leaf that names no prover is for the SMT solver.
USE SMTT(30)

USE DEF Gating, Serving, Stopping, NoEra, NoTable

\* What a marker round writes is a marker, is read back as written, and is
\* never mistaken for an absent one.
LEMMA MarkerWritten ==
    ASSUME NEW n \in Nat, n > 0, NEW w \in Words
    PROVE  /\ Marker(n, w) \in Markers
           /\ Marker(n, w).life = n
           /\ Marker(n, w).word = w
           /\ Marker(n, w) # Absent
<1>1. Marker(n, w).life = n /\ Marker(n, w).word = w /\ Absent.life = 0
  BY DEF Marker, Absent
<1>2. Marker(n, w) \in [life : Nat \ {0}, word : Words]
  BY DEF Marker
<1> QED
  BY <1>1, <1>2 DEF Markers

\* What the boot gate may find when it reads a marker.
LEMMA MarkerRead ==
    /\ Absent \in Markers /\ Absent.life = 0
    /\ \A m \in Markers : m # Absent => m.life \in Nat /\ m.life > 0 /\ m.word \in Words
<1>1. Absent \in Markers /\ Absent.life = 0
  BY DEF Markers, Absent, Marker
<1>2. ASSUME NEW m \in Markers, m # Absent
      PROVE  m.life \in Nat /\ m.life > 0 /\ m.word \in Words
  <2>1. m \in [life : Nat \ {0}, word : Words]
    BY <1>2 DEF Markers
  <2> QED
    BY <2>1
<1> QED
  BY <1>1, <1>2

\* The three words a marker round writes.
LEMMA WordsWritten == "unflushed" \in Words /\ "stopped" \in Words /\ "flushed" \in Words
  BY DEF Words

\* No step of a node's life, no crash and no re-seeding from the projection
\* breaks the fence around the burnt lives (boot_gate, settle_deferred_latch,
\* Node::stop).
LEMMA FenceStep == FenceInv /\ [Next]_vars => FenceInv'
<1> SUFFICES ASSUME FenceInv, [Next]_vars PROVE FenceInv'
  OBVIOUS
<1> DEFINE BurntFenced ==
      \A d \in burnt : /\ superblock # Absent => Fences(superblock, d)
                       /\ Fences(projection, d)
                       /\ pc # "down" => life > d
<1>a. TypeOK /\ MarkersFollowTheCode /\ BurntFenced
  BY DEF FenceInv
<1>b. SUFFICES TypeOK' /\ MarkersFollowTheCode' /\ BurntFenced'
  BY DEF FenceInv
<1>1. CASE Boot
  <2> DEFINE m == ReadCopies
  <2>1. /\ m \in Markers
        /\ life' = NextIdentity(m) /\ verdict' = Classify(m) /\ pc' = "gate superblock"
        /\ burnt' = burnt /\ burnt \subseteq Nat \ {0}
        /\ superblock' = superblock /\ projection' = projection
    BY <1>a, <1>1, Zenon DEF Boot, ReadCopies, TypeOK, durable, history
  <2>2. m # Absent => m.life \in Nat /\ m.life > 0 /\ m.word \in Words
    BY <2>1, MarkerRead, Zenon
  <2>3. /\ life' \in Nat /\ life' > 0
        /\ verdict' \in {"first", "clean", "crashed"}
    <3>1. NextIdentity(m) \in Nat /\ NextIdentity(m) > 0
      <4> HIDE DEF m
      <4>1. CASE m = Absent
        BY <4>1 DEF NextIdentity, Classify
      <4>2. CASE m # Absent /\ m.word = "flushed"
        BY <2>2, <4>2 DEF NextIdentity, Classify
      <4>3. CASE m # Absent /\ m.word # "flushed"
        BY <2>2, <4>3 DEF NextIdentity, Classify
      <4> QED
        BY <4>1, <4>2, <4>3
    <3> QED
      BY <2>1, <3>1, Zenon DEF Classify
  <2>4. TypeOK'
    BY <1>a, <1>1, <2>3, LifecycleAssumption, Zenon DEF TypeOK, Boot, durable, history
  <2>5. MarkersFollowTheCode'
    BY <1>1, Zenon DEF MarkersFollowTheCode, Boot
  <2>6. ASSUME NEW d \in burnt PROVE life' > d
    <3>1. d \in Nat /\ d > 0 /\ Fences(m, d)
      <4>1. d \in Nat /\ d > 0
        <5>1. burnt \subseteq Nat \ {0}
          BY <1>a, Zenon DEF TypeOK
        <5>2. d \in Nat \ {0}
          BY <2>6, <5>1
        <5> QED
          BY <5>2
      <4>2. CASE superblock = Absent
        BY <1>a, <2>6, <4>1, <4>2 DEF ReadCopies
      <4>3. CASE superblock # Absent
        BY <1>a, <2>6, <4>1, <4>3 DEF ReadCopies
      <4> QED
        BY <4>2, <4>3
    <3>2. m # Absent
      BY <3>1, MarkerRead DEF Fences
    <3>3. CASE m.word = "flushed"
      <4>1. life' = m.life
        BY <2>1, <3>2, <3>3, Zenon DEF NextIdentity, Classify
      <4> QED
        BY <3>1, <3>3, <4>1 DEF Fences
    <3>4. CASE m.word # "flushed"
      <4>1. life' = m.life + 1
        BY <2>1, <3>2, <3>4, Zenon DEF NextIdentity, Classify
      <4>2. m.life \in Nat /\ m.life >= d
        BY <2>2, <3>1, <3>2 DEF Fences
      <4> QED
        BY <3>1, <4>1, <4>2
    <3> QED
      BY <3>3, <3>4
  <2> QED
    BY <1>a, <2>1, <2>4, <2>5, <2>6, Zenon
<1>2. CASE GateSuperblock
  <2>1. TypeOK'
    BY <1>a, <1>2, LifecycleAssumption, MarkerWritten, MarkerRead, WordsWritten, Zenon DEF TypeOK, GateSuperblock, memory, history
  <2>2. MarkersFollowTheCode'
    BY <1>a, <1>2, MarkerWritten, MarkerRead, WordsWritten, Zenon DEF TypeOK, MarkersFollowTheCode, GateSuperblock, memory, history
  <2>3. BurntFenced'
    <3>1. life \in Nat /\ life > 0 /\ burnt \subseteq Nat /\ burnt' = burnt /\ life' = life
      BY <1>a, <1>2, Zenon DEF TypeOK, GateSuperblock, memory, history
    <3>2. \A d \in burnt : Fences(Marker(life, "unflushed"), d)
      BY <1>a, <1>2, <3>1, MarkerWritten, WordsWritten, ZenonT(30) DEF Fences, GateSuperblock
    <3> QED
      BY <1>a, <1>2, <3>1, <3>2, Zenon DEF GateSuperblock, memory, history
  <2> QED
    BY <2>1, <2>2, <2>3
<1>3. CASE GateProjection
  <2>1. TypeOK'
    BY <1>a, <1>3, LifecycleAssumption, MarkerWritten, MarkerRead, WordsWritten, Zenon DEF TypeOK, GateProjection, memory, history
  <2>2. MarkersFollowTheCode'
    BY <1>a, <1>3, MarkerWritten, MarkerRead, WordsWritten, Zenon DEF TypeOK, MarkersFollowTheCode, GateProjection, memory, history
  <2>3. BurntFenced'
    <3>1. life \in Nat /\ life > 0 /\ burnt \subseteq Nat /\ burnt' = burnt /\ life' = life
      BY <1>a, <1>3, Zenon DEF TypeOK, GateProjection, memory, history
    <3>2. \A d \in burnt : Fences(Marker(life, "unflushed"), d)
      BY <1>a, <1>3, <3>1, MarkerWritten, WordsWritten, ZenonT(30) DEF Fences, GateProjection
    <3> QED
      BY <1>a, <1>3, <3>1, <3>2, Zenon DEF GateProjection, memory, history
  <2> QED
    BY <2>1, <2>2, <2>3
<1>4. CASE Construct
  <2>1. TypeOK'
    BY <1>a, <1>4, LifecycleAssumption, MarkerWritten, MarkerRead, WordsWritten DEF TypeOK, Construct, durable, history
  <2>2. MarkersFollowTheCode'
    BY <1>a, <1>4, MarkerWritten, MarkerRead, WordsWritten DEF TypeOK, MarkersFollowTheCode, Construct, durable, history
  <2>3. BurntFenced'
    BY <1>a, <1>4, MarkerWritten, MarkerRead, WordsWritten DEF TypeOK, MarkersFollowTheCode, Fences, Construct, durable, history
  <2> QED
    BY <2>1, <2>2, <2>3
<1>5. CASE ConstructRefused
  <2>1. TypeOK'
    BY <1>a, <1>5, LifecycleAssumption, MarkerWritten, MarkerRead, WordsWritten DEF TypeOK, ConstructRefused, durable, memory, history
  <2>2. MarkersFollowTheCode'
    BY <1>a, <1>5, MarkerWritten, MarkerRead, WordsWritten DEF TypeOK, MarkersFollowTheCode, ConstructRefused, durable, memory, history
  <2>3. BurntFenced'
    BY <1>a, <1>5, MarkerWritten, MarkerRead, WordsWritten DEF TypeOK, MarkersFollowTheCode, Fences, ConstructRefused, durable, memory, history
  <2> QED
    BY <2>1, <2>2, <2>3
<1>6. CASE Emit
  <2>1. TypeOK'
    BY <1>a, <1>6, LifecycleAssumption, MarkerWritten, MarkerRead, WordsWritten DEF TypeOK, Emit, durable, history
  <2>2. MarkersFollowTheCode'
    BY <1>a, <1>6, MarkerWritten, MarkerRead, WordsWritten DEF TypeOK, MarkersFollowTheCode, Emit, durable, history
  <2>3. BurntFenced'
    BY <1>a, <1>6, MarkerWritten, MarkerRead, WordsWritten DEF TypeOK, MarkersFollowTheCode, Fences, Emit, durable, history
  <2> QED
    BY <2>1, <2>2, <2>3
<1>7. CASE Apply
  <2>1. TypeOK'
    BY <1>a, <1>7, LifecycleAssumption, MarkerWritten, MarkerRead, WordsWritten DEF TypeOK, Apply, durable
  <2>2. MarkersFollowTheCode'
    BY <1>a, <1>7, MarkerWritten, MarkerRead, WordsWritten DEF TypeOK, MarkersFollowTheCode, Apply, durable
  <2>3. BurntFenced'
    BY <1>a, <1>7, MarkerWritten, MarkerRead, WordsWritten DEF TypeOK, MarkersFollowTheCode, Fences, Apply, durable
  <2> QED
    BY <2>1, <2>2, <2>3
<1>8. CASE Reconfigure
  <2>1. TypeOK'
    BY <1>a, <1>8, LifecycleAssumption, MarkerWritten, MarkerRead, WordsWritten DEF TypeOK, Reconfigure, durable, history
  <2>2. MarkersFollowTheCode'
    BY <1>a, <1>8, MarkerWritten, MarkerRead, WordsWritten DEF TypeOK, MarkersFollowTheCode, Reconfigure, durable, history
  <2>3. BurntFenced'
    BY <1>a, <1>8, MarkerWritten, MarkerRead, WordsWritten DEF TypeOK, MarkersFollowTheCode, Fences, Reconfigure, durable, history
  <2> QED
    BY <2>1, <2>2, <2>3
<1>9. CASE DeferredLatchSuperblock
  <2>1. TypeOK'
    BY <1>a, <1>9, LifecycleAssumption, MarkerWritten, MarkerRead, WordsWritten, Zenon DEF TypeOK, DeferredLatchSuperblock, memory, history
  <2>2. MarkersFollowTheCode'
    BY <1>a, <1>9, MarkerWritten, MarkerRead, WordsWritten, Zenon DEF TypeOK, MarkersFollowTheCode, DeferredLatchSuperblock, memory, history
  <2>3. BurntFenced'
    BY <1>a, <1>9, MarkerWritten, MarkerRead, WordsWritten, Zenon DEF TypeOK, MarkersFollowTheCode, Fences, DeferredLatchSuperblock, memory, history
  <2> QED
    BY <2>1, <2>2, <2>3
<1>10. CASE DeferredLatchProjection
  <2>1. TypeOK'
    BY <1>a, <1>10, LifecycleAssumption, MarkerWritten, MarkerRead, WordsWritten, Zenon DEF TypeOK, DeferredLatchProjection, history
  <2>2. MarkersFollowTheCode'
    BY <1>a, <1>10, MarkerWritten, MarkerRead, WordsWritten, Zenon DEF TypeOK, MarkersFollowTheCode, DeferredLatchProjection, history
  <2>3. BurntFenced'
    BY <1>a, <1>10, MarkerWritten, MarkerRead, WordsWritten, Zenon DEF TypeOK, MarkersFollowTheCode, Fences, DeferredLatchProjection, history
  <2> QED
    BY <2>1, <2>2, <2>3
<1>11. CASE DeferredLatchFails
  <2>1. TypeOK'
    BY <1>a, <1>11, LifecycleAssumption, MarkerWritten, MarkerRead, WordsWritten, Zenon DEF TypeOK, DeferredLatchFails, durable, memory, history
  <2>2. MarkersFollowTheCode'
    BY <1>a, <1>11, MarkerWritten, MarkerRead, WordsWritten, Zenon DEF TypeOK, MarkersFollowTheCode, DeferredLatchFails, durable, memory, history
  <2>3. BurntFenced'
    BY <1>a, <1>11, MarkerWritten, MarkerRead, WordsWritten, Zenon DEF TypeOK, MarkersFollowTheCode, Fences, DeferredLatchFails, durable, memory, history
  <2> QED
    BY <2>1, <2>2, <2>3
<1>12. CASE StopUnseated
  <2>1. TypeOK'
    BY <1>a, <1>12, LifecycleAssumption, MarkerWritten, MarkerRead, WordsWritten DEF TypeOK, StopUnseated, Burn, durable, memory
  <2>2. MarkersFollowTheCode'
    BY <1>a, <1>12, MarkerWritten, MarkerRead, WordsWritten DEF TypeOK, MarkersFollowTheCode, StopUnseated, Burn, durable, memory
  <2>3. BurntFenced'
    BY <1>a, <1>12, MarkerWritten, MarkerRead, WordsWritten DEF TypeOK, MarkersFollowTheCode, Fences, StopUnseated, Burn, durable, memory
  <2> QED
    BY <2>1, <2>2, <2>3
<1>13. CASE StopFirstSuperblock
  <2>1. TypeOK'
    BY <1>a, <1>13, LifecycleAssumption, MarkerWritten, MarkerRead, WordsWritten, Zenon DEF TypeOK, StopFirstSuperblock, memory, history
  <2>2. MarkersFollowTheCode'
    BY <1>a, <1>13, MarkerWritten, MarkerRead, WordsWritten, Zenon DEF TypeOK, MarkersFollowTheCode, StopFirstSuperblock, memory, history
  <2>3. BurntFenced'
    <3>1. life \in Nat /\ life > 0 /\ burnt \subseteq Nat /\ burnt' = burnt /\ life' = life
      BY <1>a, <1>13, Zenon DEF TypeOK, StopFirstSuperblock, memory, history
    <3>2. \A d \in burnt : Fences(Marker(life, "stopped"), d)
      BY <1>a, <1>13, <3>1, MarkerWritten, WordsWritten, ZenonT(30) DEF Fences, StopFirstSuperblock
    <3> QED
      BY <1>a, <1>13, <3>1, <3>2, Zenon DEF StopFirstSuperblock, memory, history
  <2> QED
    BY <2>1, <2>2, <2>3
<1>14. CASE StopFirstProjection
  <2>1. TypeOK'
    BY <1>a, <1>14, LifecycleAssumption, MarkerWritten, MarkerRead, WordsWritten, Zenon DEF TypeOK, StopFirstProjection, memory, history
  <2>2. MarkersFollowTheCode'
    BY <1>a, <1>14, MarkerWritten, MarkerRead, WordsWritten, Zenon DEF TypeOK, MarkersFollowTheCode, StopFirstProjection, memory, history
  <2>3. BurntFenced'
    <3>1. life \in Nat /\ life > 0 /\ burnt \subseteq Nat /\ burnt' = burnt /\ life' = life
      BY <1>a, <1>14, Zenon DEF TypeOK, StopFirstProjection, memory, history
    <3>2. \A d \in burnt : Fences(Marker(life, "stopped"), d)
      BY <1>a, <1>14, <3>1, MarkerWritten, WordsWritten, ZenonT(30) DEF Fences, StopFirstProjection
    <3> QED
      BY <1>a, <1>14, <3>1, <3>2, Zenon DEF StopFirstProjection, memory, history
  <2> QED
    BY <2>1, <2>2, <2>3
<1>15. CASE StopViewRecord
  <2>1. TypeOK'
    BY <1>a, <1>15, LifecycleAssumption, MarkerWritten, MarkerRead, WordsWritten, Zenon DEF TypeOK, StopViewRecord, memory, history
  <2>2. MarkersFollowTheCode'
    BY <1>a, <1>15, MarkerWritten, MarkerRead, WordsWritten, Zenon DEF TypeOK, MarkersFollowTheCode, StopViewRecord, memory, history
  <2>3. BurntFenced'
    BY <1>a, <1>15, MarkerWritten, MarkerRead, WordsWritten, Zenon DEF TypeOK, MarkersFollowTheCode, Fences, StopViewRecord, memory, history
  <2> QED
    BY <2>1, <2>2, <2>3
<1>16. CASE StopFlush
  <2>1. TypeOK'
    BY <1>a, <1>16, LifecycleAssumption, MarkerWritten, MarkerRead, WordsWritten, Zenon DEF TypeOK, StopFlush, Loaded, history
  <2>2. MarkersFollowTheCode'
    BY <1>a, <1>16, MarkerWritten, MarkerRead, WordsWritten, Zenon DEF TypeOK, MarkersFollowTheCode, StopFlush, Loaded, history
  <2>3. BurntFenced'
    BY <1>a, <1>16, MarkerWritten, MarkerRead, WordsWritten, Zenon DEF TypeOK, MarkersFollowTheCode, Fences, StopFlush, Loaded, history
  <2> QED
    BY <2>1, <2>2, <2>3
<1>17. CASE StopFinalSuperblock
  <2>1. TypeOK'
    BY <1>a, <1>17, LifecycleAssumption, MarkerWritten, MarkerRead, WordsWritten, Zenon DEF TypeOK, StopFinalSuperblock, memory
  <2>2. MarkersFollowTheCode'
    BY <1>a, <1>17, MarkerWritten, MarkerRead, WordsWritten, Zenon DEF TypeOK, MarkersFollowTheCode, StopFinalSuperblock, memory
  <2>3. BurntFenced'
    <3>1. life \in Nat /\ life > 0 /\ burnt \subseteq Nat /\ burnt' = burnt /\ life' = life
      BY <1>a, <1>17, Zenon DEF TypeOK, StopFinalSuperblock, memory
    <3>2. \A d \in burnt : Fences(Marker(life, "flushed"), d)
      <4>1. \A d \in burnt : life > d
        BY <1>a, <1>17, Zenon DEF StopFinalSuperblock
      <4>2. Marker(life, "flushed").life = life
        BY <3>1, MarkerWritten, WordsWritten
      <4> QED
        BY <4>1, <4>2 DEF Fences
    <3> QED
      BY <1>a, <1>17, <3>1, <3>2, Zenon DEF StopFinalSuperblock, memory
  <2> QED
    BY <2>1, <2>2, <2>3
<1>18. CASE StopFinalProjection
  <2>1. TypeOK'
    BY <1>a, <1>18, LifecycleAssumption, MarkerWritten, MarkerRead, WordsWritten, Zenon DEF TypeOK, StopFinalProjection, memory, history
  <2>2. MarkersFollowTheCode'
    BY <1>a, <1>18, MarkerWritten, MarkerRead, WordsWritten, Zenon DEF TypeOK, MarkersFollowTheCode, StopFinalProjection, memory, history
  <2>3. BurntFenced'
    <3>1. life \in Nat /\ life > 0 /\ burnt \subseteq Nat /\ burnt' = burnt /\ life' = life
      BY <1>a, <1>18, Zenon DEF TypeOK, StopFinalProjection, memory, history
    <3>2. \A d \in burnt : Fences(Marker(life, "flushed"), d)
      <4>1. \A d \in burnt : life > d
        BY <1>a, <1>18, Zenon DEF StopFinalProjection
      <4>2. Marker(life, "flushed").life = life
        BY <3>1, MarkerWritten, WordsWritten
      <4> QED
        BY <4>1, <4>2 DEF Fences
    <3> QED
      BY <1>a, <1>18, <3>1, <3>2, Zenon DEF StopFinalProjection
  <2> QED
    BY <2>1, <2>2, <2>3
<1>19. CASE Crash
  <2>1. /\ life \in Nat /\ life > 0 /\ burnt \subseteq Nat \ {0}
        /\ pc # "down" /\ pc' = "down" /\ burnt' \subseteq burnt \cup {life}
        /\ superblock' = superblock /\ projection' = projection
    BY <1>a, <1>19, Zenon DEF TypeOK, Crash, Burn, durable
  <2>2. TypeOK'
    <3>1. burnt' \subseteq Nat \ {0}
      BY <2>1
    <3> QED
      BY <1>a, <1>19, <3>1, Zenon DEF TypeOK, Crash, durable, memory
  <2>3. MarkersFollowTheCode'
    BY <1>19, Zenon DEF MarkersFollowTheCode, Crash
  <2>4. ASSUME life \in burnt' \ burnt
        PROVE  Fences(superblock, life) /\ Fences(projection, life)
    <3>1. spoke /\ pc # "stop final projection"
      BY <1>19, <2>4, Zenon DEF Crash, Burn
    <3>2. pc \in Serving \cup Stopping
      BY <1>a, <2>1, <3>1, Zenon DEF TypeOK, MarkersFollowTheCode
    <3>3. /\ superblock \in {Marker(life, "unflushed"), Marker(life, "stopped")}
          /\ projection \in {Marker(life, "unflushed"), Marker(life, "stopped")}
      BY <1>a, <3>1, <3>2, Zenon DEF MarkersFollowTheCode
    <3> QED
      BY <2>1, <3>3, MarkerWritten, WordsWritten DEF Fences
  <2>5. BurntFenced'
    BY <1>a, <2>1, <2>4
  <2> QED
    BY <2>2, <2>3, <2>5
<1>20. CASE DeleteSuperblock
  <2>1. TypeOK'
    BY <1>a, <1>20, LifecycleAssumption, MarkerWritten, MarkerRead, WordsWritten DEF TypeOK, DeleteSuperblock, memory, history
  <2>2. MarkersFollowTheCode'
    BY <1>a, <1>20, MarkerWritten, MarkerRead, WordsWritten DEF TypeOK, MarkersFollowTheCode, DeleteSuperblock, memory, history
  <2>3. BurntFenced'
    BY <1>a, <1>20, MarkerWritten, MarkerRead, WordsWritten DEF TypeOK, MarkersFollowTheCode, Fences, DeleteSuperblock, memory, history
  <2> QED
    BY <2>1, <2>2, <2>3
<1>21. CASE UNCHANGED vars
  <2>1. TypeOK'
    BY <1>a, <1>21, LifecycleAssumption, MarkerWritten, MarkerRead, WordsWritten, Zenon DEF TypeOK, vars, durable, memory, history
  <2>2. MarkersFollowTheCode'
    BY <1>a, <1>21, MarkerWritten, MarkerRead, WordsWritten, Zenon DEF TypeOK, MarkersFollowTheCode, vars, durable, memory, history
  <2>3. BurntFenced'
    BY <1>a, <1>21, MarkerWritten, MarkerRead, WordsWritten, Zenon DEF TypeOK, MarkersFollowTheCode, Fences, vars, durable, memory, history
  <2> QED
    BY <2>1, <2>2, <2>3
<1> QED
  BY <1>1, <1>2, <1>3, <1>4, <1>5, <1>6, <1>7, <1>8, <1>9, <1>10, <1>11, <1>12, <1>13, <1>14, <1>15, <1>16, <1>17, <1>18, <1>19, <1>20, <1>21 DEF Next

\* The fence holds before the first boot: nothing is burnt, nothing is written.
LEMMA FenceInit == Init => FenceInv
<1> SUFFICES ASSUME Init PROVE FenceInv
  OBVIOUS
<1>1. TypeOK
  BY LifecycleAssumption, MarkerRead, Zenon DEF Init, TypeOK
<1>2. MarkersFollowTheCode /\ burnt = {}
  BY DEF Init, MarkersFollowTheCode
<1> QED
  BY <1>1, <1>2 DEF FenceInv

\* The fence is an invariant of the boot gate, the latches and the stop.
THEOREM FenceHolds == Spec => []FenceInv
  BY FenceInit, FenceStep, PTL DEF Spec

\* Type correctness of a node's durable markers and memory.
THEOREM LifecycleTypeCorrect == Spec => []TypeOK
<1>1. FenceInv => TypeOK
  BY DEF FenceInv
<1> QED
  BY <1>1, FenceHolds, PTL

\* No process runs under a life that spoke and did not stop cleanly: the
\* emission gate's promise (boot_gate, emission_gate).
THEOREM BurntLivesStayDown == Spec => []NoBurntLifeRuns
<1>1. FenceInv => NoBurntLifeRuns
  <2> SUFFICES ASSUME FenceInv, pc # "down", life \in burnt PROVE FALSE
    BY DEF NoBurntLifeRuns
  <2>1. life \in Nat /\ life > life
    BY Zenon DEF FenceInv, TypeOK
  <2> QED
    BY <2>1
<1> QED
  BY <1>1, FenceHolds, PTL

\* No step makes a clean verdict vouch for another table than the one the
\* last clean stop flushed (load_state_on_demand, Node::stop).
LEMMA TableStep == FenceInv /\ TableInv /\ [Next]_vars => TableInv'
<1> SUFFICES ASSUME FenceInv, TableInv, [Next]_vars PROVE TableInv'
  OBVIOUS
<1>a. MarkersFollowTheCode /\ (pc # "down" => life \in Nat /\ life > 0)
  BY Zenon DEF FenceInv, TypeOK
<1>b. pc # "down" => \A w \in Words : Marker(life, w).word = w
  BY <1>a, MarkerWritten
<1>c. Absent.word # "flushed"
  BY DEF Absent, Marker
<1>1. CASE Boot
  <2>1. verdict' = "clean" => ReadCopies.word = "flushed"
    BY <1>1, Zenon DEF Boot, Classify
  <2> QED
    BY <1>1, <2>1, Zenon DEF TableInv, CleanBootLoadsLastTable, Boot, ReadCopies, durable, history
<1>2. CASE GateSuperblock \/ GateProjection
  BY <1>a, <1>b, <1>c, <1>2, WordsWritten, Zenon
  DEF TableInv, CleanBootLoadsLastTable, MarkersFollowTheCode, GateSuperblock, GateProjection, memory, history
<1>3. CASE Construct \/ ConstructRefused
  BY <1>a, <1>b, <1>c, <1>3, WordsWritten, Zenon
  DEF TableInv, CleanBootLoadsLastTable, MarkersFollowTheCode, Construct, ConstructRefused, durable, memory, history
<1>4. CASE Emit \/ Apply \/ Reconfigure
  BY <1>a, <1>b, <1>c, <1>4, WordsWritten, Zenon
  DEF TableInv, CleanBootLoadsLastTable, MarkersFollowTheCode, Emit, Apply, Reconfigure, durable, history
<1>5. CASE DeferredLatchSuperblock \/ DeferredLatchProjection \/ DeferredLatchFails
  BY <1>a, <1>b, <1>c, <1>5, WordsWritten, Zenon
  DEF TableInv, CleanBootLoadsLastTable, MarkersFollowTheCode, DeferredLatchSuperblock, DeferredLatchProjection, DeferredLatchFails, durable, memory, history
<1>6. CASE StopFirstSuperblock \/ StopFirstProjection \/ StopViewRecord
  BY <1>a, <1>b, <1>c, <1>6, WordsWritten, Zenon
  DEF TableInv, CleanBootLoadsLastTable, MarkersFollowTheCode, StopFirstSuperblock, StopFirstProjection, StopViewRecord, memory, history
<1>7. CASE StopFlush
  BY <1>a, <1>b, <1>c, <1>7, WordsWritten, Zenon
  DEF TableInv, CleanBootLoadsLastTable, MarkersFollowTheCode, StopFlush, Loaded, history
<1>8. CASE StopFinalSuperblock
  BY <1>a, <1>b, <1>c, <1>8, WordsWritten, Zenon
  DEF TableInv, CleanBootLoadsLastTable, MarkersFollowTheCode, StopFinalSuperblock, memory
<1>9. CASE StopFinalProjection
  BY <1>a, <1>b, <1>c, <1>9, WordsWritten, Zenon
  DEF TableInv, CleanBootLoadsLastTable, MarkersFollowTheCode, StopFinalProjection, memory, history
<1>10. CASE StopUnseated \/ Crash
  BY <1>a, <1>b, <1>c, <1>10, WordsWritten, Zenon
  DEF TableInv, CleanBootLoadsLastTable, MarkersFollowTheCode, StopUnseated, Crash, durable, memory
<1>11. CASE DeleteSuperblock
  BY <1>a, <1>b, <1>c, <1>11, WordsWritten
  DEF TableInv, CleanBootLoadsLastTable, MarkersFollowTheCode, DeleteSuperblock, memory, history
<1>12. CASE UNCHANGED vars
  BY <1>a, <1>b, <1>c, <1>12, WordsWritten, Zenon
  DEF TableInv, CleanBootLoadsLastTable, MarkersFollowTheCode, vars, durable, memory, history
<1> QED
  BY <1>1, <1>2, <1>3, <1>4, <1>5, <1>6, <1>7, <1>8, <1>9, <1>10, <1>11, <1>12 DEF Next

\* A flushed marker vouches for the artefact beside it, at every step.
THEOREM TableHolds == Spec => []TableInv
<1>1. Init => TableInv
  BY DEF Init, TableInv, CleanBootLoadsLastTable, Absent, Marker
<1> QED
  BY <1>1, TableStep, FenceHolds, PTL DEF Spec

\* A clean boot loads the table the last clean stop ended with, for every
\* interleaving of crashes with the stop's durable writes.
THEOREM CleanBootTable == Spec => []CleanBootLoadsLastTable
<1>1. TableInv => CleanBootLoadsLastTable
  BY Zenon DEF TableInv
<1> QED
  BY <1>1, TableHolds, PTL

(* -------------------------- the shutdown check -------------------------- *)

\* A logged step is a step of the node, or leaves it alone: the log and the
\* check's history restrain nothing the node does.
LEMMA LoggedIsStep == (CheckInit => Init) /\ ([CheckNext]_<<vars, trail>> => [Next]_vars)
<1>1. CheckInit => Init
  BY DEF CheckInit
<1>2. ASSUME CheckNext PROVE Next \/ UNCHANGED vars
  <2>1. CASE LoggedBoot
    BY <2>1 DEF LoggedBoot, Next
  <2>2. CASE LoggedConstruct \/ LoggedConstructRefused
    BY <2>2 DEF LoggedConstruct, LoggedConstructRefused, Next
  <2>3. CASE CloseWire
    BY <2>3 DEF CloseWire
  <2>4. CASE LoggedStopUnseated \/ LoggedStopFinal \/ DiesAfterFinalWrite
    BY <2>4 DEF LoggedStopUnseated, LoggedStopFinal, DiesAfterFinalWrite, Next
  <2>5. CASE LoggedCrash \/ LoggedDelete
    BY <2>5 DEF LoggedCrash, LoggedDelete, Next
  <2>6. CASE Unlogged
    BY <2>6 DEF Unlogged, Next
  <2> QED
    BY <1>2, <2>1, <2>2, <2>3, <2>4, <2>5, <2>6 DEF CheckNext
<1> QED
  BY <1>1, <1>2

\* The kinds of line, and the order of the stop path among them.
LEMMA RankValues ==
    /\ Rank("begin") = 0 /\ Rank("drain") = 1 /\ Rank("flushed") = 2
    /\ StopKinds \subseteq Kinds /\ "boot" \in Kinds /\ "work" \in Kinds
    /\ \A k \in StopKinds : k \in {"begin", "drain", "flushed"}
  BY DEF Rank, Kinds, StopKinds

\* What is appended to a log comes after it and leaves it as it was.
LEMMA LogAppended ==
    ASSUME NEW s \in Seq(Kinds), NEW t \in Seq(Kinds)
    PROVE  /\ s \o t \in Seq(Kinds)
           /\ Len(s) \in Nat /\ Len(t) \in Nat /\ Len(s \o t) = Len(s) + Len(t)
           /\ \A i \in 1..Len(s) : (s \o t)[i] = s[i]
           /\ \A i \in 1..Len(t) : (s \o t)[Len(s) + i] = t[i]
<1>1. Len(s) \in Nat /\ Len(t) \in Nat
  BY LenProperties
<1>2. /\ s \o t \in Seq(Kinds) /\ Len(s \o t) = Len(s) + Len(t)
      /\ \A i \in 1..Len(s) + Len(t) :
           (s \o t)[i] = IF i <= Len(s) THEN s[i] ELSE t[i - Len(s)]
  BY ConcatProperties
<1>3. ASSUME NEW i \in 1..Len(t) PROVE (s \o t)[Len(s) + i] = t[i]
  <2>1. Len(s) + i \in 1..Len(s) + Len(t) /\ ~(Len(s) + i <= Len(s)) /\ (Len(s) + i) - Len(s) = i
    BY <1>1
  <2> QED
    BY <1>2, <2>1
<1> QED
  BY <1>1, <1>2, <1>3

\* A log that has lost its last lines is a beginning of what it was.
LEMMA LogCut ==
    ASSUME NEW s \in Seq(Kinds), NEW n \in 0..Len(s)
    PROVE  /\ SubSeq(s, 1, n) \in Seq(Kinds)
           /\ Len(SubSeq(s, 1, n)) = n
           /\ \A i \in 1..n : SubSeq(s, 1, n)[i] = s[i]
<1>1. Len(s) \in Nat /\ n \in Nat /\ n <= Len(s)
  BY LenProperties
<1>2. \A i \in 1..n : s[i] \in Kinds
  BY <1>1, ElementOfSeq
<1>3. /\ SubSeq(s, 1, n) = [i \in 1..n |-> s[i]]
  BY <1>1
<1> QED
  BY <1>1, <1>2, <1>3

\* A record of a stop, in terms of the log's length.
LEMMA StopRecordsOf ==
    ASSUME NEW s \in Seq(Kinds)
    PROVE  /\ Len(s) \in Nat
           /\ \A i : i \in StopRecords(s) <=> i \in 1..Len(s) /\ s[i] \in StopKinds
           /\ \A i, k : i \in Positions(s, k) <=> i \in 1..Len(s) /\ s[i] = k
<1>1. Len(s) \in Nat /\ DOMAIN s = 1..Len(s)
  BY LenProperties
<1> QED
  BY <1>1 DEF StopRecords, Positions

\* Lines lost from the end leave the stop path in order.
LEMMA OrderCut ==
    ASSUME NEW s \in Seq(Kinds), NEW n \in 0..Len(s), StopsInOrder(s)
    PROVE  StopsInOrder(SubSeq(s, 1, n))
<1> DEFINE p == SubSeq(s, 1, n)
<1>1. p \in Seq(Kinds) /\ Len(p) = n /\ \A i \in 1..n : p[i] = s[i]
  BY LogCut
<1>2. Len(s) \in Nat /\ n \in Nat /\ n <= Len(s)
  BY LenProperties
<1> SUFFICES ASSUME NEW i \in StopRecords(p), NEW j \in StopRecords(p),
                    i < j, Rank(p[i]) > Rank(p[j])
             PROVE  \E k \in i + 1..j : p[k] = "begin"
  BY Zenon DEF StopsInOrder
<1> HIDE DEF p
<1>3. /\ i \in 1..n /\ j \in 1..n /\ p[i] = s[i] /\ p[j] = s[j]
      /\ i \in StopRecords(s) /\ j \in StopRecords(s)
  BY <1>1, <1>2, StopRecordsOf
<1>4. PICK k \in i + 1..j : s[k] = "begin"
  BY <1>3 DEF StopsInOrder
<1>5. k \in 1..n
  BY <1>2, <1>3
<1> QED
  BY <1>1, <1>4, <1>5

\* Lines appended keep it in order when every drain follows its begin.
LEMMA OrderAppended ==
    ASSUME NEW s \in Seq(Kinds), NEW t \in Seq(Kinds), StopsInOrder(s),
           \A q \in 1..Len(t) : t[q] = "drain" => q > 1 /\ t[q - 1] = "begin"
    PROVE  StopsInOrder(s \o t)
<1> DEFINE p == s \o t
<1>1. /\ p \in Seq(Kinds) /\ Len(s) \in Nat /\ Len(t) \in Nat /\ Len(p) = Len(s) + Len(t)
      /\ \A i \in 1..Len(s) : p[i] = s[i]
      /\ \A i \in 1..Len(t) : p[Len(s) + i] = t[i]
  BY LogAppended
<1> SUFFICES ASSUME NEW i \in StopRecords(p), NEW j \in StopRecords(p),
                    i < j, Rank(p[i]) > Rank(p[j])
             PROVE  \E k \in i + 1..j : p[k] = "begin"
  BY Zenon DEF StopsInOrder
<1> HIDE DEF p
<1>2. /\ i \in 1..Len(p) /\ p[i] \in {"begin", "drain", "flushed"}
      /\ j \in 1..Len(p) /\ p[j] \in {"begin", "drain", "flushed"}
  BY <1>1, StopRecordsOf, RankValues
<1>3. CASE j <= Len(s)
  <2>1. /\ p[i] = s[i] /\ p[j] = s[j]
        /\ i \in StopRecords(s) /\ j \in StopRecords(s)
    BY <1>1, <1>2, <1>3, StopRecordsOf
  <2>2. PICK k \in i + 1..j : s[k] = "begin"
    BY <2>1 DEF StopsInOrder
  <2>3. k \in 1..Len(s)
    BY <1>1, <1>2, <1>3
  <2> QED
    BY <1>1, <2>2, <2>3
<1>4. CASE p[j] = "begin"
  <2>1. j \in i + 1..j
    BY <1>1, <1>2
  <2> QED
    BY <1>4, <2>1
<1>5. CASE p[j] = "drain" /\ j > Len(s)
  <2>1. p[i] = "flushed"
    BY <1>2, <1>5, RankValues
  <2>2. j - Len(s) \in 1..Len(t) /\ Len(s) + (j - Len(s)) = j
    BY <1>1, <1>2, <1>5
  <2>3. t[j - Len(s)] = "drain"
    BY <1>1, <1>5, <2>2
  <2>4. j - Len(s) > 1 /\ t[(j - Len(s)) - 1] = "begin"
    BY <2>2, <2>3
  <2>5. (j - Len(s)) - 1 \in 1..Len(t) /\ Len(s) + ((j - Len(s)) - 1) = j - 1
    BY <1>1, <1>2, <2>2, <2>4
  <2>6. p[j - 1] = "begin"
    BY <1>1, <2>4, <2>5
  <2>7. j - 1 # i
    BY <2>1, <2>6
  <2>8. j - 1 \in i + 1..j
    BY <1>1, <1>2, <2>7
  <2> QED
    BY <2>6, <2>8
<1>6. CASE p[j] = "flushed"
  BY <1>2, <1>6, RankValues
<1>7. j <= Len(s) \/ j > Len(s)
  BY <1>1, <1>2
<1> QED
  BY <1>2, <1>3, <1>4, <1>5, <1>6, <1>7

\* A claim of a flush outlives no boot record: a later flush must follow it.
LEMMA ClaimFollowsBoots ==
    ASSUME NEW s \in Seq(Kinds), DemandsFlush(s), NEW b \in 1..Len(s), s[b] = "boot"
    PROVE  \E g \in 1..Len(s) : s[g] = "flushed" /\ g > b
<1>1. PICK f \in Positions(s, "flushed") : \A i \in StopRecords(s) : i <= f
  BY DEF DemandsFlush
<1>2. f \in 1..Len(s) /\ s[f] = "flushed" /\ Len(s) \in Nat
  BY StopRecordsOf
<1>3. \A g \in Positions(s, "flushed") : g <= f
  <2> SUFFICES ASSUME NEW g \in Positions(s, "flushed") PROVE g <= f
    OBVIOUS
  <2>1. g \in StopRecords(s)
    BY StopRecordsOf DEF StopKinds
  <2> QED
    BY <1>1, <2>1
<1>4. ~(b > f)
  <2>1. b \in Positions(s, "boot")
    BY StopRecordsOf
  <2> QED
    BY <1>3, <2>1 DEF DemandsFlush, HasLaterLife
<1>5. b # f
  BY <1>2
<1> QED
  BY <1>2, <1>4, <1>5

\* The boot records of a process: "work" and "boot" lines only.
LEMMA BootLinesAre ==
    /\ BootLines \in Seq(Kinds) /\ Len(BootLines) \in Nat
    /\ \A i \in 1..Len(BootLines) : BootLines[i] \in {"boot", "work"}
    /\ Len(BootLines) > 0 /\ BootLines[Len(BootLines)] = "boot"
<1>1. "boot" \in Kinds /\ "work" \in Kinds
  BY RankValues
<1>2. CASE life > 1
  <2>1. BootLines = <<"work", "boot">>
    BY <1>2 DEF BootLines
  <2> QED
    BY <1>1, <2>1
<1>3. CASE ~(life > 1)
  <2>1. BootLines = <<"boot">>
    BY <1>3 DEF BootLines
  <2> QED
    BY <1>1, <2>1
<1> QED
  BY <1>2, <1>3

\* A process that does not return from serve: whatever it loses of its own
\* lines, no earlier flush record is lost or added, and a claim of a flush
\* survives only a process whose boot record is lost (init_tracing).
LEMMA EndedLog ==
    ASSUME TrailInv, pc # "down", from' = from,
           NEW lines \in Seq(Kinds), \A i \in 1..Len(lines) : lines[i] \in {"boot", "work"},
           Ends(lines)
    PROVE  /\ log' \in Seq(Kinds) /\ from' \in Nat /\ from' <= Len(log')
           /\ StopsInOrder(log')
           /\ Positions(log', "flushed") = Positions(log, "flushed")
           /\ DemandsFlush(log') => "silent" \in hurt'
           /\ hurt \subseteq hurt' /\ Wound(pc, log') \subseteq hurt'
<1> DEFINE whole == log \o lines
<1>1. /\ log \in Seq(Kinds) /\ from \in Nat /\ from <= Len(log) /\ StopsInOrder(log)
      /\ \A i \in from + 1..Len(log) : log[i] # "flushed"
  BY Zenon DEF TrailInv, OwnLines
<1>2. /\ whole \in Seq(Kinds) /\ Len(log) \in Nat /\ Len(lines) \in Nat
      /\ Len(whole) = Len(log) + Len(lines)
      /\ \A i \in 1..Len(log) : whole[i] = log[i]
      /\ \A i \in 1..Len(lines) : whole[Len(log) + i] = lines[i]
  BY <1>1, LogAppended
<1>3. StopsInOrder(whole)
  <2>1. \A q \in 1..Len(lines) : lines[q] # "drain"
    OBVIOUS
  <2> QED
    BY <1>1, <2>1, OrderAppended
<1>4. PICK n \in from..Len(whole) :
        log' = SubSeq(whole, 1, n) /\ hurt' = hurt \cup Wound(pc, log')
  BY DEF Ends
<1> HIDE DEF whole
<1>5. n \in 0..Len(whole)
  BY <1>1, <1>2
<1>6. /\ log' \in Seq(Kinds) /\ Len(log') = n /\ StopsInOrder(log')
      /\ \A i \in 1..n : log'[i] = whole[i]
  BY <1>2, <1>3, <1>4, <1>5, LogCut, OrderCut
<1>7. \A i \in 1..Len(whole) : whole[i] = "flushed" => i <= from
  <2> SUFFICES ASSUME NEW i \in 1..Len(whole), whole[i] = "flushed", ~(i <= from) PROVE FALSE
    OBVIOUS
  <2>1. CASE i <= Len(log)
    <3>1. i \in from + 1..Len(log) /\ i \in 1..Len(log)
      BY <1>1, <1>2, <2>1
    <3> QED
      BY <1>1, <1>2, <3>1
  <2>2. CASE ~(i <= Len(log))
    <3>1. i - Len(log) \in 1..Len(lines) /\ Len(log) + (i - Len(log)) = i
      BY <1>2, <2>2
    <3> QED
      BY <1>2, <3>1, Zenon
  <2> QED
    BY <2>1, <2>2
<1>8. Positions(log', "flushed") = Positions(log, "flushed")
  <2>1. ASSUME NEW i \in Positions(log', "flushed") PROVE i \in Positions(log, "flushed")
    <3>1. i \in 1..n /\ log'[i] = "flushed"
      BY <1>6, <2>1, StopRecordsOf
    <3>2. i \in 1..Len(whole) /\ whole[i] = "flushed"
      BY <1>2, <1>5, <1>6, <3>1
    <3>3. i \in 1..Len(log) /\ log[i] = "flushed"
      BY <1>1, <1>2, <1>7, <3>2
    <3> QED
      BY <1>1, <3>3, StopRecordsOf
  <2>2. ASSUME NEW i \in Positions(log, "flushed") PROVE i \in Positions(log', "flushed")
    <3>1. i \in 1..Len(log) /\ log[i] = "flushed"
      BY <1>1, <2>2, StopRecordsOf
    <3>2. i \in 1..Len(whole) /\ whole[i] = "flushed"
      BY <1>2, <3>1
    <3>3. i \in 1..n /\ log'[i] = "flushed"
      BY <1>1, <1>4, <1>6, <1>7, <3>2
    <3> QED
      BY <1>6, <3>3, StopRecordsOf
  <2> QED
    BY <2>1, <2>2, Zenon
<1>9. ASSUME DemandsFlush(log') PROVE "silent" \in hurt'
  <2>1. CASE \A i \in from + 1..Len(log') : log'[i] # "boot"
    BY <1>4, <2>1, Zenon DEF Wound
  <2>2. CASE \E i \in from + 1..Len(log') : log'[i] = "boot"
    <3>1. PICK b \in from + 1..Len(log') : log'[b] = "boot"
      BY <2>2
    <3>2. b \in 1..Len(log')
      BY <1>1, <1>6
    <3>3. PICK g \in 1..Len(log') : log'[g] = "flushed" /\ g > b
      BY <1>6, <1>9, <3>1, <3>2, ClaimFollowsBoots
    <3>4. g \in 1..Len(whole) /\ whole[g] = "flushed" /\ g > from
      BY <1>1, <1>5, <1>6, <3>1, <3>3
    <3> QED
      BY <1>1, <1>7, <3>4
  <2> QED
    BY <2>1, <2>2
<1>10. from' \in Nat /\ from' <= Len(log')
  BY <1>1, <1>2, <1>4, <1>6
<1> QED
  BY <1>4, <1>6, <1>8, <1>9, <1>10

\* How the copies stand when a process ends, wherever it ends.
LEMMA EndedMarkers ==
    ASSUME FenceInv, TrailInv, pc # "down", pc' = "down",
           superblock' = superblock,
           projection' = projection \/ (pc = "stop final projection" /\ projection' = Marker(life, "flushed")),
           Positions(log', "flushed") = Positions(log, "flushed"),
           hurt \subseteq hurt', Wound(pc, log') \subseteq hurt'
    PROVE  MarkersTellTheEnd'
<1>1. MarkersFollowTheCode /\ MarkersTellTheEnd /\ life \in Nat /\ life > 0
      /\ pc \in Gating \cup Serving \cup Stopping
  BY Zenon DEF FenceInv, TypeOK, TrailInv
<1>2. \A w \in Words : Marker(life, w).life = life /\ Marker(life, w).word = w /\ Marker(life, w) # Absent
  BY <1>1, MarkerWritten, Zenon
<1>3. CASE pc = "gate superblock"
  BY <1>1, <1>3, Zenon DEF MarkersTellTheEnd
<1>4. CASE pc = "gate projection"
  <2>1. "in gate" \in hurt' /\ superblock = Marker(life, "unflushed")
    BY <1>1, <1>4, Zenon DEF Wound, MarkersFollowTheCode
  <2>2. superblock' # Absent /\ superblock'.word = "unflushed"
    BY <1>2, <2>1, WordsWritten, Zenon
  <2> QED
    BY <2>1, <2>2, Zenon DEF MarkersTellTheEnd
<1>5. CASE pc \in Serving
  <2>1. superblock' = Marker(life, "unflushed") /\ projection' = Marker(life, "unflushed")
    BY <1>1, <1>5, Zenon DEF MarkersFollowTheCode
  <2>2. /\ superblock' # Absent /\ superblock'.word = "unflushed"
        /\ projection'.word = "unflushed" /\ superblock'.life = projection'.life
    BY <1>2, <2>1, WordsWritten, Zenon
  <2> QED
    BY <2>2, Zenon DEF MarkersTellTheEnd
<1>6. CASE pc \in Stopping
  <2>1. "in stop" \in hurt'
    BY <1>6, Zenon DEF Wound
  <2>2. \E w, x \in Words : superblock' = Marker(life, w) /\ w # "unflushed" /\ projection' = Marker(life, x)
    BY <1>1, <1>6, WordsWritten, Zenon DEF MarkersFollowTheCode
  <2>3. /\ superblock' # Absent /\ superblock'.word # "unflushed"
        /\ superblock'.life = projection'.life
    BY <1>2, <2>2, Zenon
  <2> QED
    BY <2>1, <2>3, Zenon DEF MarkersTellTheEnd
<1> QED
  BY <1>1, <1>3, <1>4, <1>5, <1>6, Zenon

\* The three ways a process ends without returning from serve.
LEMMA EndsStep ==
    ASSUME FenceInv, TrailInv, LoggedConstructRefused \/ DiesAfterFinalWrite \/ LoggedCrash
    PROVE  TrailInv'
<1>1. << >> \in Seq(Kinds) /\ Len(<< >>) = 0
  OBVIOUS
<1>2. /\ pc # "down" /\ pc' = "down" /\ from' = from /\ superblock' = superblock
      /\ projection' = projection \/ (pc = "stop final projection" /\ projection' = Marker(life, "flushed"))
  BY Zenon DEF LoggedConstructRefused, DiesAfterFinalWrite, LoggedCrash,
         ConstructRefused, StopFinalProjection, Crash, durable
<1>3. \E lines \in Seq(Kinds) : /\ \A i \in 1..Len(lines) : lines[i] \in {"boot", "work"}
                                /\ Ends(lines)
  <2>1. CASE Ends(<< >>)
    <3>1. \A i \in 1..Len(<< >>) : << >>[i] \in {"boot", "work"}
      BY <1>1
    <3> QED
      BY <1>1, <2>1, <3>1, Zenon
  <2>2. CASE Ends(BootLines)
    BY <2>2, BootLinesAre
  <2> QED
    BY <2>1, <2>2 DEF LoggedConstructRefused, DiesAfterFinalWrite, LoggedCrash
<1>4. /\ log' \in Seq(Kinds) /\ from' \in Nat /\ from' <= Len(log')
      /\ StopsInOrder(log')
      /\ Positions(log', "flushed") = Positions(log, "flushed")
      /\ DemandsFlush(log') => "silent" \in hurt'
      /\ hurt \subseteq hurt' /\ Wound(pc, log') \subseteq hurt'
  <2>1. PICK lines \in Seq(Kinds) : /\ \A i \in 1..Len(lines) : lines[i] \in {"boot", "work"}
                                    /\ Ends(lines)
    BY <1>3
  <2> QED
    BY <1>2, <2>1, EndedLog, Zenon
<1>5. MarkersTellTheEnd'
  BY <1>2, <1>4, EndedMarkers, Zenon
<1>6. OwnLines'
  BY <1>2, Zenon DEF OwnLines
<1> QED
  BY <1>4, <1>5, <1>6 DEF TrailInv

\* The steps of a running process that log nothing.
LEMMA UnloggedStep == ASSUME FenceInv, TrailInv, Unlogged PROVE TrailInv'
<1>1. log' = log /\ from' = from /\ hurt' = hurt
  BY DEF Unlogged, trail
<1>2. pc # "down" /\ pc' \notin {"down", "gate superblock"}
  BY Zenon DEF Unlogged, GateSuperblock, GateProjection, Emit, Apply, Reconfigure,
         DeferredLatchSuperblock, DeferredLatchProjection, DeferredLatchFails,
         StopFirstSuperblock, StopFirstProjection, StopViewRecord, StopFlush, StopFinalSuperblock
<1>3. pc' \in {"up", "deferred projection"} => pc \in {"up", "deferred projection"}
  BY Zenon DEF Unlogged, GateSuperblock, GateProjection, Emit, Apply, Reconfigure,
         DeferredLatchSuperblock, DeferredLatchProjection, DeferredLatchFails,
         StopFirstSuperblock, StopFirstProjection, StopViewRecord, StopFlush, StopFinalSuperblock
<1>4. OwnLines'
  BY <1>1, <1>2, <1>3, Zenon DEF TrailInv, OwnLines
<1>5. MarkersTellTheEnd'
  BY <1>2, Zenon DEF MarkersTellTheEnd
<1> QED
  BY <1>1, <1>2, <1>4, <1>5, Zenon DEF TrailInv

\* Lines a running process adds, none of them a flush record.
LEMMA WrittenLog ==
    ASSUME TrailInv, pc # "down", from' = from, NEW lines \in Seq(Kinds), Log(lines),
           \A q \in 1..Len(lines) : lines[q] = "drain" => q > 1 /\ lines[q - 1] = "begin"
    PROVE  /\ log' \in Seq(Kinds) /\ from' \in Nat /\ from' <= Len(log') /\ StopsInOrder(log')
           /\ Len(log) \in Nat /\ Len(lines) \in Nat /\ Len(log') = Len(log) + Len(lines)
           /\ \A i \in 1..Len(log) : log'[i] = log[i]
           /\ \A i \in 1..Len(lines) : log'[Len(log) + i] = lines[i]
           /\ (\A i \in 1..Len(lines) : lines[i] # "flushed") =>
                \A i \in from + 1..Len(log') : log'[i] # "flushed"
<1>1. /\ log \in Seq(Kinds) /\ from \in Nat /\ from <= Len(log) /\ StopsInOrder(log)
      /\ \A i \in from + 1..Len(log) : log[i] # "flushed"
      /\ log' = log \o lines
  BY Zenon DEF TrailInv, OwnLines, Log
<1>2. /\ log' \in Seq(Kinds) /\ Len(log) \in Nat /\ Len(lines) \in Nat
      /\ Len(log') = Len(log) + Len(lines)
      /\ \A i \in 1..Len(log) : log'[i] = log[i]
      /\ \A i \in 1..Len(lines) : log'[Len(log) + i] = lines[i]
  BY <1>1, LogAppended
<1>3. StopsInOrder(log')
  BY <1>1, OrderAppended
<1>4. ASSUME \A i \in 1..Len(lines) : lines[i] # "flushed",
             NEW i \in from + 1..Len(log')
      PROVE  log'[i] # "flushed"
  <2>1. CASE i <= Len(log)
    <3>1. i \in from + 1..Len(log) /\ i \in 1..Len(log)
      BY <1>1, <1>2, <2>1
    <3> QED
      BY <1>1, <1>2, <3>1
  <2>2. CASE ~(i <= Len(log))
    <3>1. i - Len(log) \in 1..Len(lines) /\ Len(log) + (i - Len(log)) = i
      BY <1>1, <1>2, <2>2
    <3> QED
      BY <1>2, <1>4, <3>1, Zenon
  <2> QED
    BY <2>1, <2>2
<1> QED
  BY <1>1, <1>2, <1>3, <1>4

\* No step of the node, its log writer or the operator breaks the agreement of
\* the two trails (node_from_sink, Node::stop, init_tracing).
LEMMA TrailStep == FenceInv /\ TrailInv /\ [CheckNext]_<<vars, trail>> => TrailInv'
<1> SUFFICES ASSUME FenceInv, TrailInv, [CheckNext]_<<vars, trail>> PROVE TrailInv'
  OBVIOUS
<1>a. /\ log \in Seq(Kinds) /\ from \in Nat /\ from <= Len(log) /\ Len(log) \in Nat
      /\ StopsInOrder(log) /\ OwnLines /\ MarkersTellTheEnd
      /\ pc = "down" /\ DemandsFlush(log) => Sealed \/ "silent" \in hurt
  BY LenProperties DEF TrailInv
<1>b. /\ life \in Nat /\ (pc # "down" => life > 0) /\ MarkersFollowTheCode
  BY Zenon DEF FenceInv, TypeOK
<1>1. CASE LoggedBoot
  <2>1. /\ log' = log /\ from' = Len(log) /\ hurt' = hurt
        /\ superblock' = superblock /\ projection' = projection
        /\ pc = "down" /\ pc' = "gate superblock"
    BY <1>1, Zenon DEF LoggedBoot, Boot, durable
  <2>2. from' \in Nat /\ from' = Len(log')
    BY <1>a, <2>1, Zenon
  <2>3. from' <= Len(log')
    BY ONLY <2>2
  <2>4. OwnLines'
    <3>1. \A i \in from' + 1..Len(log') : FALSE
      BY ONLY <2>2
    <3> QED
      BY <2>1, <3>1, Zenon DEF OwnLines
  <2>5. MarkersTellTheEnd'
    BY <1>a, <2>1, Zenon DEF MarkersTellTheEnd
  <2> QED
    BY <1>a, <2>1, <2>2, <2>3, <2>4, <2>5, Zenon DEF TrailInv
<1>2. CASE LoggedConstruct
  <2>1. /\ pc # "down" /\ pc' = "up" /\ from' = from /\ Log(BootLines)
    BY <1>2 DEF LoggedConstruct, Construct
  <2>2. /\ \A q \in 1..Len(BootLines) : BootLines[q] # "drain" /\ BootLines[q] # "flushed"
        /\ BootLines \in Seq(Kinds) /\ Len(BootLines) \in Nat /\ Len(BootLines) > 0
        /\ BootLines[Len(BootLines)] = "boot"
    BY BootLinesAre
  <2>3. /\ log' \in Seq(Kinds) /\ from' \in Nat /\ from' <= Len(log') /\ StopsInOrder(log')
        /\ Len(log') = Len(log) + Len(BootLines)
        /\ \A i \in 1..Len(BootLines) : log'[Len(log) + i] = BootLines[i]
        /\ \A i \in from + 1..Len(log') : log'[i] # "flushed"
    BY <2>1, <2>2, WrittenLog
  <2>4. Len(log') \in from + 1..Len(log') /\ log'[Len(log')] = "boot"
    <3>1. Len(BootLines) \in 1..Len(BootLines)
      BY <2>2
    <3> QED
      BY <1>a, <2>1, <2>2, <2>3, <3>1
  <2>5. OwnLines'
    BY <2>1, <2>3, <2>4 DEF OwnLines
  <2>6. MarkersTellTheEnd'
    BY <2>1, Zenon DEF MarkersTellTheEnd
  <2> QED
    BY <2>1, <2>3, <2>5, <2>6 DEF TrailInv
<1>3. CASE LoggedConstructRefused \/ DiesAfterFinalWrite \/ LoggedCrash
  BY <1>3, EndsStep
<1>4. CASE CloseWire
  <2>1. /\ pc = "up" /\ pc' = "up" /\ from' = from /\ Log(<<"begin", "drain">>)
    BY <1>4 DEF CloseWire, vars
  <2> DEFINE lines == <<"begin", "drain">>
  <2>2. /\ lines \in Seq(Kinds)
        /\ \A q \in 1..Len(lines) : lines[q] = "drain" => q > 1 /\ lines[q - 1] = "begin"
        /\ \A q \in 1..Len(lines) : lines[q] # "flushed"
    BY DEF Kinds, StopKinds
  <2>3. Log(lines)
    BY <2>1
  <2> HIDE DEF lines
  <2>4. /\ log' \in Seq(Kinds) /\ from' \in Nat /\ from' <= Len(log') /\ StopsInOrder(log')
        /\ Len(lines) \in Nat /\ Len(log') = Len(log) + Len(lines)
        /\ \A i \in 1..Len(log) : log'[i] = log[i]
        /\ \A i \in from + 1..Len(log') : log'[i] # "flushed"
    BY <2>1, <2>2, <2>3, WrittenLog
  <2>5. PICK b \in from + 1..Len(log) : log[b] = "boot"
    BY <1>a, <2>1 DEF OwnLines
  <2>6. b \in from' + 1..Len(log') /\ log'[b] = "boot"
    BY <1>a, <2>1, <2>4, <2>5
  <2>7. OwnLines'
    BY <2>1, <2>4, <2>6 DEF OwnLines
  <2>8. MarkersTellTheEnd'
    BY <2>1, Zenon DEF MarkersTellTheEnd
  <2> QED
    BY <2>1, <2>4, <2>7, <2>8 DEF TrailInv
<1>5. CASE LoggedStopUnseated
  <2>1. /\ pc = "up" /\ pc' = "down" /\ from' = from /\ Log(<<"work">>)
        /\ superblock' = superblock /\ projection' = projection
    BY <1>5 DEF LoggedStopUnseated, StopUnseated, durable
  <2> DEFINE lines == <<"work">>
  <2>2. /\ lines \in Seq(Kinds)
        /\ \A q \in 1..Len(lines) : lines[q] # "drain" /\ lines[q] # "flushed"
    BY DEF Kinds
  <2>3. Log(lines)
    BY <2>1
  <2> HIDE DEF lines
  <2>4. /\ log' \in Seq(Kinds) /\ from' \in Nat /\ from' <= Len(log') /\ StopsInOrder(log')
        /\ Len(lines) \in Nat /\ Len(log') = Len(log) + Len(lines)
        /\ \A i \in 1..Len(log) : log'[i] = log[i]
        /\ \A i \in from + 1..Len(log') : log'[i] # "flushed"
    BY <2>1, <2>2, <2>3, WrittenLog, Zenon
  <2>5. PICK b \in from + 1..Len(log) : log[b] = "boot"
    BY <1>a, <2>1 DEF OwnLines
  <2>6. b \in 1..Len(log') /\ log'[b] = "boot" /\ b > from
    BY <1>a, <2>1, <2>4, <2>5
  <2>7. ~DemandsFlush(log')
    <3> SUFFICES ASSUME DemandsFlush(log') PROVE FALSE
      OBVIOUS
    <3>1. PICK g \in 1..Len(log') : log'[g] = "flushed" /\ g > b
      BY <2>4, <2>6, ClaimFollowsBoots
    <3>2. g \in from + 1..Len(log')
      BY <1>a, <2>4, <2>6, <3>1
    <3> QED
      BY <2>4, <3>1, <3>2
  <2>8. OwnLines'
    BY <2>1 DEF OwnLines
  <2>9. MarkersTellTheEnd'
    <3>1. superblock' = Marker(life, "unflushed") /\ projection' = Marker(life, "unflushed")
      BY <1>b, <2>1 DEF MarkersFollowTheCode
    <3>2. superblock' # Absent /\ superblock'.word = "unflushed"
      BY <1>b, <2>1, <3>1, MarkerWritten, WordsWritten
    <3> QED
      BY <3>1, <3>2, Zenon DEF MarkersTellTheEnd
  <2> QED
    BY <2>4, <2>7, <2>8, <2>9 DEF TrailInv
<1>6. CASE LoggedStopFinal
  <2>1. /\ pc = "stop final projection" /\ pc' = "down" /\ from' = from /\ Log(<<"flushed">>)
        /\ superblock' = superblock /\ projection' = Marker(life, "flushed")
    BY <1>6, Zenon DEF LoggedStopFinal, StopFinalProjection
  <2> DEFINE lines == <<"flushed">>
  <2>2. /\ lines \in Seq(Kinds) /\ Len(lines) = 1 /\ lines[1] = "flushed"
        /\ \A q \in 1..Len(lines) : lines[q] # "drain"
    BY DEF Kinds, StopKinds
  <2>3. Log(lines)
    BY <2>1, Zenon
  <2> HIDE DEF lines
  <2>4. /\ log' \in Seq(Kinds) /\ from' \in Nat /\ from' <= Len(log') /\ StopsInOrder(log')
        /\ Len(log') = Len(log) + 1
        /\ log'[Len(log) + 1] = "flushed"
    <3>1. pc # "down" /\ 1 \in 1..Len(lines)
      <4>1. pc # "down" /\ Len(lines) = 1
        BY <2>1, <2>2, Zenon
      <4> QED
        BY ONLY <4>1
    <3>2. /\ log' \in Seq(Kinds) /\ from' \in Nat /\ from' <= Len(log') /\ StopsInOrder(log')
          /\ Len(log') = Len(log) + Len(lines)
          /\ \A i \in 1..Len(lines) : log'[Len(log) + i] = lines[i]
      BY <2>1, <2>2, <2>3, <3>1, WrittenLog, Zenon
    <3> QED
      BY <2>2, <3>1, <3>2
  <2>5. superblock' = Marker(life, "flushed")
    BY <1>b, <2>1, Zenon DEF MarkersFollowTheCode
  <2>6. superblock' # Absent /\ superblock'.word = "flushed"
    <3>1. life \in Nat /\ life > 0
      BY <1>b, <2>1, Zenon
    <3> QED
      BY ONLY <2>5, <3>1, MarkerWritten, WordsWritten
  <2>7. log' # << >> /\ log'[Len(log')] = "flushed" /\ Len(log') \in 1..Len(log')
    BY <1>a, <2>4
  <2>8. Sealed'
    BY <2>6, <2>7 DEF Sealed
  <2>9. Positions(log', "flushed") # {}
    BY <2>4, <2>7, StopRecordsOf, Zenon
  <2>10. OwnLines'
    BY <2>1, Zenon DEF OwnLines
  <2>11. MarkersTellTheEnd'
    BY <2>1, <2>5, <2>6, <2>9, Zenon DEF MarkersTellTheEnd
  <2> QED
    BY <2>4, <2>8, <2>10, <2>11 DEF TrailInv
<1>7. CASE LoggedDelete
  <2>1. /\ log' = log /\ from' = from /\ pc = "down" /\ pc' = "down"
        /\ superblock' = Absent /\ hurt' = hurt \cup {"deleted"}
    BY <1>7 DEF LoggedDelete, DeleteSuperblock
  <2>2. Absent.word = "absent"
    BY DEF Absent, Marker
  <2>3. MarkersTellTheEnd'
    BY <2>1, <2>2 DEF MarkersTellTheEnd
  <2>4. OwnLines'
    BY <2>1 DEF OwnLines
  <2>5. Sealed => Sealed'
    BY <2>1 DEF Sealed
  <2> QED
    BY <1>a, <2>1, <2>3, <2>4, <2>5 DEF TrailInv
<1>8. CASE Unlogged
  BY <1>8, UnloggedStep
<1>9. CASE UNCHANGED <<vars, trail>>
  <2>1. /\ log' = log /\ from' = from /\ hurt' = hurt /\ pc' = pc
        /\ superblock' = superblock /\ projection' = projection
    BY <1>9 DEF vars, trail, durable
  <2> QED
    BY <1>a, <2>1, Zenon DEF TrailInv, OwnLines, MarkersTellTheEnd, Sealed
<1> QED
  BY <1>1, <1>2, <1>3, <1>4, <1>5, <1>6, <1>7, <1>8, <1>9 DEF CheckNext

\* Before the first process there is no log and no marker.
LEMMA TrailInit == CheckInit => TrailInv
<1> SUFFICES ASSUME CheckInit PROVE TrailInv
  OBVIOUS
<1>1. /\ log = << >> /\ from = 0 /\ pc = "down" /\ superblock = Absent /\ Absent.word = "absent"
  BY DEF CheckInit, Init, Absent, Marker
<1>2. log \in Seq(Kinds) /\ Len(log) = 0 /\ DOMAIN log = {}
  BY <1>1
<1>3. StopsInOrder(log) /\ ~DemandsFlush(log) /\ Positions(log, "flushed") = {}
  BY <1>2 DEF StopsInOrder, StopRecords, Positions, DemandsFlush
<1>4. OwnLines /\ MarkersTellTheEnd
  BY <1>1, <1>3 DEF OwnLines, MarkersTellTheEnd
<1>5. from \in Nat /\ from <= Len(log)
  BY <1>1, <1>2
<1> QED
  BY <1>2, <1>3, <1>4, <1>5 DEF TrailInv

\* The lives that the check reads are lives of the node: what is proved of the
\* node's lives holds of the ones whose trails are checked.
THEOREM CheckedLivesAreLives == CheckSpec => Spec
  BY LoggedIsStep, PTL DEF CheckSpec, Spec

\* The two trails agree as the invariant says, for logs of every length.
THEOREM TrailsAgree == CheckSpec => [](FenceInv /\ TrailInv)
  BY CheckedLivesAreLives, FenceHolds, TrailInit, TrailStep, PTL DEF CheckSpec

\* A log whose stop records are in order gives the check nothing to say of
\* their order (ordering_findings).
LEMMA NeverOutOfOrder ==
    ASSUME TrailInv
    PROVE  "stop-path-out-of-order" \notin Findings(log)
<1> SUFFICES ASSUME NEW i \in StopRecords(log), NEW j \in StopRecords(log),
                    \A b \in Positions(log, "begin") : b <= i,
                    i < j, Rank(log[i]) > Rank(log[j])
             PROVE  FALSE
  BY DEF Findings, CopyFindings, ReverseFindings, ClaimFindings, OrderFindings
<1>1. log \in Seq(Kinds) /\ StopsInOrder(log)
  BY DEF TrailInv
<1>2. i \in 1..Len(log) /\ j \in 1..Len(log) /\ Len(log) \in Nat
  BY <1>1, StopRecordsOf
<1>3. PICK k \in i + 1..j : log[k] = "begin"
  BY <1>1 DEF StopsInOrder
<1>4. k \in 1..Len(log)
  BY <1>2
<1>5. k \in Positions(log, "begin")
  BY <1>1, <1>3, <1>4, StopRecordsOf
<1> QED
  BY <1>2, <1>3, <1>5

\* Every finding of the check names something that happened to the node
\* (check_node, ordering_findings), however many lives it has had.
THEOREM FindingsTrue == CheckSpec => []FindingsNameWhatHappened
<1>1. ASSUME FenceInv, TrailInv, pc = "down" PROVE FindingsNameWhatHappened
  <2>1. MarkersTellTheEnd /\ (DemandsFlush(log) => Sealed \/ "silent" \in hurt)
        /\ log \in Seq(Kinds)
    BY <1>1 DEF TrailInv
  <2>2. "projection-ahead-of-quorum" \in Findings(log) => "in gate" \in hurt
    BY <1>1, <2>1, Zenon DEF MarkersTellTheEnd, Findings, CopyFindings, ReverseFindings, ClaimFindings, OrderFindings
  <2>3. "identity-mismatch" \in Findings(log) => "in gate" \in hurt
    BY <1>1, <2>1, Zenon DEF MarkersTellTheEnd, Findings, CopyFindings, ReverseFindings, ClaimFindings, OrderFindings
  <2>4. "marker-without-stop-record" \in Findings(log) => "in stop" \in hurt
    BY <1>1, <2>1, Zenon DEF MarkersTellTheEnd, Findings, CopyFindings, ReverseFindings, ClaimFindings, OrderFindings
  <2>5. "log-claims-flush-no-superblock" \in Findings(log) => "deleted" \in hurt
    <3> SUFFICES ASSUME DemandsFlush(log), superblock = Absent PROVE "deleted" \in hurt
      BY DEF Findings, CopyFindings, ReverseFindings, ClaimFindings, OrderFindings
    <3>1. Positions(log, "flushed") # {}
      BY DEF DemandsFlush
    <3> QED
      BY <1>1, <2>1, <3>1, Zenon DEF MarkersTellTheEnd
  <2>6. "log-claims-flush-marker-not-flushed" \in Findings(log) => "silent" \in hurt
    <3> SUFFICES ASSUME DemandsFlush(log), superblock # Absent, superblock.word = "unflushed"
                 PROVE  "silent" \in hurt
      BY DEF Findings, CopyFindings, ReverseFindings, ClaimFindings, OrderFindings
    <3> QED
      BY <2>1 DEF Sealed
  <2>7. "work-after-persist" \in Findings(log) => "silent" \in hurt
    <3> SUFFICES ASSUME DemandsFlush(log), NEW i \in Positions(log, "work"),
                        \A f \in Positions(log, "flushed") : f < i, Sealed
                 PROVE  FALSE
      BY <2>1 DEF Findings, CopyFindings, ReverseFindings, ClaimFindings, OrderFindings
    <3>1. i \in 1..Len(log) /\ Len(log) \in Nat
      BY <2>1, StopRecordsOf
    <3>2. Len(log) \in 1..Len(log) /\ log[Len(log)] = "flushed"
      BY <3>1 DEF Sealed
    <3>3. Len(log) \in Positions(log, "flushed")
      BY <2>1, <3>2, StopRecordsOf
    <3> QED
      BY <3>1, <3>3
  <2>8. "stop-path-out-of-order" \notin Findings(log)
    BY <1>1, NeverOutOfOrder
  <2> QED
    BY <2>2, <2>3, <2>4, <2>5, <2>6, <2>7, <2>8, Zenon DEF FindingsNameWhatHappened
<1>2. FenceInv /\ TrailInv => FindingsNameWhatHappened
  BY <1>1, Zenon DEF FindingsNameWhatHappened
<1> QED
  BY <1>2, TrailsAgree, PTL

\* A consistent report over a log that ends with a flush means a clean next
\* boot with the table of the last finished stop, but for the one case the
\* check cannot tell (check_node, lifecycle::boot).
THEOREM ConsistentIsClean == CheckSpec => []ConsistentFlushBootsClean
<1>1. ASSUME FenceInv, TrailInv, TableInv, pc = "down", DemandsFlush(log), Findings(log) = {}
      PROVE  \/ Classify(ReadCopies) = "clean" /\ artefact = lastTable
             \/ superblock.word = "stopped" /\ {"in stop", "silent"} \subseteq hurt
  <2>1. superblock # Absent /\ superblock.word # "unflushed"
    BY <1>1 DEF Findings, ClaimFindings
  <2>2. superblock.word \in {"stopped", "flushed"}
    BY <1>1, <2>1, MarkerRead DEF FenceInv, TypeOK, Words
  <2>3. CASE superblock.word = "flushed"
    BY <1>1, <2>1, <2>3 DEF ReadCopies, Classify, TableInv
  <2>4. CASE superblock.word = "stopped"
    <3>1. "in stop" \in hurt
      BY <1>1, <2>4, Zenon DEF TrailInv, MarkersTellTheEnd
    <3>2. "silent" \in hurt
      BY <1>1, <2>1, <2>4 DEF TrailInv, Sealed
    <3> QED
      BY <2>4, <3>1, <3>2, Zenon
  <2> QED
    BY <2>2, <2>3, <2>4, Zenon
<1>2. FenceInv /\ TrailInv /\ TableInv => ConsistentFlushBootsClean
  BY <1>1, Zenon DEF ConsistentFlushBootsClean
<1> QED
  BY <1>2, TrailsAgree, TableHolds, CheckedLivesAreLives, PTL
=============================================================================
