----------------------------- MODULE MCDetector -----------------------------
(* Instances of Detector for TLC.                                            *)
EXTENDS Detector, TLC

MCNode == 1..3

Scene(v, u, views, slots, lost, answers) ==
    [voters |-> v, up |-> u, views |-> views, slots |-> slots, losses |-> lost,
     reanswers |-> answers]

\* A pair with a client, through a view change and over a lossy network; three
\* voters whose first primary is dead, over a lossy network; one process left of
\* three; an observer beside one voter.
MCScenes == {Scene(1..2, 1..2, 1, 1, 0, FALSE),
             Scene(1..2, 1..2, 0, 2, 2, FALSE),
             Scene(1..3, 2..3, 1, 0, 2, TRUE),
             Scene(1..3, {2}, 2, 0, 0, FALSE),
             Scene({1}, 1..2, 1, 1, 1, FALSE)}
=============================================================================
