-------------------------- MODULE MCPipelineLoader -------------------------
(***************************************************************************)
(* Instances of PipelineLoader for TLC.                                    *)
(***************************************************************************)
EXTENDS PipelineLoader, TLC

CONSTANTS l1, l2, l3

\* A chain of requirements.
MCChain == (l1 :> {l2}) @@ (l2 :> {l3}) @@ (l3 :> {})

\* The program around has nothing left to do.
Stopped == (crashed \/ pc = "exited" \/ (pc = "idle" /\ loads = MaxLoads)) /\ UNCHANGED vars
MCSpec  == Init /\ [][Next \/ Stopped]_vars
=============================================================================
