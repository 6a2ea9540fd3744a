--------------------------- MODULE MCLockCluster ---------------------------
(* Instances of LockCluster for TLC.                                       *)
EXTENDS LockCluster

CONSTANTS r1, r2, h1, h2, m1, m2

SetBy(h) == [op |-> "set", lock |-> 1, holder |-> h, window |-> 2, name |-> NoName]
NoSkew == [r \in Replicas |-> 0]

\* The first primary's wallclock is ahead of the backup's.
FirstAhead == [r \in Replicas |-> IF r = FirstLeader THEN 1 ELSE 0]

\* Two clients compete for one lock; one client takes its lock twice.
MCTwoSets == [m \in {m1, m2} |-> IF m = m1 THEN SetBy(h1) ELSE SetBy(h2)]
MCRetake == [m \in {m1, m2} |-> SetBy(h1)]
=============================================================================
