----------------------------- MODULE MCPipeline -----------------------------
(***************************************************************************)
(* Instances of Pipeline for TLC.                                          *)
(***************************************************************************)
EXTENDS Pipeline

\* Modules that only flag errors, or move forward as zia's SSL module does
\* (BeforeParse -> Interpret, AfterInterpret -> Completed).
MCJump == {<<BeforeParse, Interpret>>, <<AfterInterpret, Completed>>}
            \union {<<s, Error>> : s \in State}

MCStartStates == {BeforeParse, Interpret}  \* the two of ProtocolHandler.cpp
MCPriorities  == {1000, 1001, 5000}        \* Independent, one above it, ASAP

\* Nothing left to do is the end of the program, not a deadlock.
Terminating == Finished /\ UNCHANGED vars
MCNext      == Next \/ Terminating
MCSpec      == Init /\ [][MCNext]_vars
MCFairSpec  == MCSpec /\ WF_vars(FinishLoading) /\ \A c \in Contexts : WF_vars(Step(c))
=============================================================================
