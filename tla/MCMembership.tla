---------------------------- MODULE MCMembership ----------------------------
(* Instances of Membership for TLC.                                        *)
EXTENDS Membership

MCNodes == 1..4
MCGenesis == 1..3
MCMessages == {"m1", "m2"}
verb(action, id) == [action |-> action, id |-> id]
\* A voter's departure, two demotions of which the second crosses the floor,
\* and a new member's way to its vote.
MCOrders == {[m1 |-> verb("decrement", 3), m2 |-> verb("leave", 3)],
             [m1 |-> verb("decrement", 3), m2 |-> verb("decrement", 2)],
             [m1 |-> verb("join", 4), m2 |-> verb("increment", 4)]}
=============================================================================
