------------------------- MODULE PipelineContract --------------------------
(***************************************************************************)
(* What the openZia documentation promises of a run (MODULE.md): states    *)
(* are processed in the order of the enumeration, a state may be skipped   *)
(* but none is processed again, an error ends ordinary processing for      *)
(* good, and every run that begins ends, completed or in error.            *)
(***************************************************************************)
EXTENDS Context

CONSTANTS Contexts, StartStates

VARIABLES
  phase,   \* "idle", "trigger" while callbacks run, "done"
  stage    \* the state being processed, then the outcome

cvars == <<phase, stage>>

Init ==
  /\ phase = [c \in Contexts |-> "idle"]
  /\ stage \in [Contexts -> StartStates]

Begin(c) ==
  /\ phase[c] = "idle"
  /\ phase' = [phase EXCEPT ![c] = "trigger"]
  /\ UNCHANGED stage

Proceed(c) ==
  /\ phase[c] = "trigger"
  /\ stage[c] # Error
  /\ \E s \in State :
       /\ s = Error \/ s > stage[c]
       /\ stage' = [stage EXCEPT ![c] = s]
  /\ UNCHANGED phase

\* A callback may declare the context completed, so that the outcome need not
\* be the state processed last.
End(c) ==
  /\ phase[c] = "trigger"
  /\ \E s \in {Error, Completed} :
       /\ (s = Error) <=> (stage[c] = Error)
       /\ stage' = [stage EXCEPT ![c] = s]
  /\ phase' = [phase EXCEPT ![c] = "done"]

Next == \E c \in Contexts : Begin(c) \/ Proceed(c) \/ End(c)

Spec == Init /\ [][Next]_cvars
=============================================================================
