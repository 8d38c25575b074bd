---------------------------- MODULE MCZiaServer ----------------------------
(***************************************************************************)
(* Instances of ZiaServer for TLC.                                         *)
(***************************************************************************)
EXTENDS ZiaServer

\* The server stops only when everybody it knows of is served: it waits in
\* accept for the next client.
Idle ==
  /\ \/ down # "no"
     \/ /\ pc[Main] = "accept"
        /\ \A c \in Conns : conn[c] = "closed" \/ (conn[c] = "away" /\ backlog = <<>>)
  /\ UNCHANGED vars

MCNext     == Next \/ Idle
MCSpec     == Init /\ [][MCNext]_vars
MCFairSpec == MCSpec /\ Fairness
=============================================================================
