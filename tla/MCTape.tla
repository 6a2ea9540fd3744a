------------------------------- MODULE MCTape -------------------------------
(***************************************************************************)
(* Tape with one lock and two holders: files of two records, so that the    *)
(* series rolls and is pruned, and a second process.                        *)
(***************************************************************************)
EXTENDS Tape

CONSTANTS alice, bob, lock

Set(h) == [op |-> "set", lock |-> lock, holder |-> h, window |-> 2, name |-> NoName]

MCOps == {Set(alice), Set(bob),
          [op |-> "release", lock |-> lock, holder |-> alice, lease_id |-> 1],
          [op |-> "break", lock |-> lock]}
=============================================================================
