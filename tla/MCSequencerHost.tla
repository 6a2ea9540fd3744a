-------------------------- MODULE MCSequencerHost --------------------------
(* Instances of SequencerHost for TLC.                                       *)
EXTENDS SequencerHost, TLC

CONSTANTS n1, n2, c1

Mix(d, e, t, ticks, elections, datagrams) ==
    [drivers |-> d, embedded |-> e, tcp |-> t,
     time |-> ticks, views |-> elections, net |-> datagrams]

\* The two lease clients on two hosts through an election; a TCP client beside
\* a driver with datagrams that overtake each other; a TCP client through an
\* election.
MCMixes == {Mix({n1}, {n2}, {}, 3, 1, 1),
            Mix({n1}, {}, {c1}, 2, 0, 2),
            Mix({}, {}, {c1}, 1, 1, 2)}
=============================================================================
