------------------------------ MODULE MCPeers ------------------------------
(***************************************************************************)
(* Peers with a founding cluster of three and a fourth process that may     *)
(* join. Each scene bounds the verbs and the restarts of one behaviour.      *)
(***************************************************************************)
EXTENDS Peers, TLC

Verb(a, p, l) == [action |-> a, id |-> <<p, l>>]
None == [p \in Proc |-> 0]

MCScenes ==
    { \* a member joins and is given a vote while a follower restarts
      [verbs |-> {Verb("join", 4, 1), Verb("increment", 4, 1)}, procs |-> {1, 2, 4},
       dirty |-> None, clean |-> 2 :> 1 @@ None, folds |-> {}, writers |-> {2}],
      \* a crashed follower is reseated while another is put out
      [verbs |-> {Verb("decrement", 3, 1), Verb("leave", 3, 1)}, procs |-> {1, 2, 3},
       dirty |-> 2 :> 1 @@ None, clean |-> None, folds |-> {}, writers |-> {2}],
      \* the crashed follower's next life is joined by the operator
      [verbs |-> {Verb("join", 2, 2)}, procs |-> {1, 2, 3},
       dirty |-> 2 :> 1 @@ None, clean |-> 3 :> 1 @@ None, folds |-> {3}, writers |-> {3}] }
=============================================================================
