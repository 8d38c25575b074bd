------------------------------ MODULE Pipeline ------------------------------
(***************************************************************************)
(* oZ::Pipeline: modules register callbacks per context state, then any    *)
(* number of threads each run a context of their own through the pipeline. *)
(*                                                                         *)
(* What a module's callback does to the context is open: it may leave the  *)
(* state alone, or set any state Jump allows for the list it is in, and it *)
(* returns either boolean.                                                 *)
(***************************************************************************)
EXTENDS Context, CallbackTable, Integers

CONSTANTS
  Contexts,      \* the contexts being processed, one per thread
  StartStates,   \* states a caller puts a new context in before runPipeline
  Priorities,    \* priorities the modules register with
  RegStates,     \* states the modules register callbacks for
  Jump,          \* <<s, t>>: a callback in the list of s may set state t
  MaxCallbacks   \* bound on the number of registrations

ASSUME PipelineAssumption ==
  /\ StartStates \subseteq State \ {Error}
  /\ Priorities \subseteq Priority
  /\ RegStates \subseteq State
  /\ Jump \subseteq State \X State
  /\ MaxCallbacks \in Nat

\* What the modules in this repository respect: a callback moves its context
\* forward or to Error, and an Error callback leaves the error set.
ASSUME ForwardJumps ==
  \A s, t \in State : <<s, t>> \in Jump =>
    /\ t = Error \/ t >= s
    /\ s = Error => t = Error

VARIABLES
  loaded,     \* loadModules has returned
  count,      \* history: the number of registrations made
  pipeline,   \* _pipeline: the callback list of each state
  pc,         \* where each context's runPipeline stands
  state,      \* the state code of each context
  bound,      \* the state whose list is being triggered
  pos,        \* the index of the next callback in that list
  seen        \* history: the states whose list has been triggered

loading == <<loaded, count, pipeline>>
running == <<pc, state, bound, pos, seen>>
vars    == <<loading, running>>

PCs == {"idle", "trigger", "error", "done"}

TypeOK ==
  /\ loaded \in BOOLEAN
  /\ count \in Nat
  /\ pipeline \in [State -> Seq(Entry)]
  /\ pc \in [Contexts -> PCs]
  /\ state \in [Contexts -> State]
  /\ bound \in [Contexts -> State]
  /\ pos \in [Contexts -> Nat \ {0}]
  /\ seen \in [Contexts -> SUBSET State]

Init ==
  /\ loaded = FALSE
  /\ count = 0
  /\ pipeline = [s \in State |-> <<>>]
  /\ pc = [c \in Contexts |-> "idle"]
  /\ state \in [Contexts -> StartStates]
  /\ bound = state
  /\ pos = [c \in Contexts |-> 1]
  /\ seen = [c \in Contexts |-> {}]

-----------------------------------------------------------------------------
\* Loading: createPipeline lets every module register its callbacks.

RegisterCallback(s, p) ==
  /\ ~loaded
  /\ count < MaxCallbacks
  /\ count' = count + 1
  /\ pipeline' = [pipeline EXCEPT ![s] = Insert(@, [prio |-> p, id |-> count + 1])]
  /\ UNCHANGED <<loaded, running>>

FinishLoading ==
  /\ ~loaded
  /\ loaded' = TRUE
  /\ UNCHANGED <<count, pipeline, running>>

-----------------------------------------------------------------------------
\* Running: runPipeline, with triggerContextStateCallbacks inside.

\* A triggering of the list of state s begins, in the loop or after it.
Trigger(c, s, where) ==
  /\ pc' = [pc EXCEPT ![c] = where]
  /\ bound' = [bound EXCEPT ![c] = s]
  /\ pos' = [pos EXCEPT ![c] = 1]
  /\ seen' = [seen EXCEPT ![c] = @ \union {s}]

Exhausted(c) == pos[c] > Len(pipeline[bound[c]])

runPipeline(c) ==
  /\ loaded
  /\ pc[c] = "idle"
  /\ Trigger(c, state[c], "trigger")
  /\ UNCHANGED <<loading, state>>

\* One callback: it gets the context, and false from it breaks the for loop,
\* whose range was chosen by the state the context had when it was entered.
Invoke(c) ==
  /\ pc[c] \in {"trigger", "error"}
  /\ ~Exhausted(c)
  /\ \E t \in {state[c]} \union {u \in State : <<bound[c], u>> \in Jump} :
       state' = [state EXCEPT ![c] = t]
  /\ \E continue \in BOOLEAN :
       pos' = [pos EXCEPT ![c] = IF continue THEN @ + 1
                                 ELSE Len(pipeline[bound[c]]) + 1]
  /\ UNCHANGED <<loading, pc, bound, seen>>

\* while (context.nextState())
Advance(c) ==
  /\ pc[c] = "trigger"
  /\ Exhausted(c)
  /\ CanAdvance(state[c])
  /\ state' = [state EXCEPT ![c] = Advanced(@)]
  /\ Trigger(c, Advanced(state[c]), "trigger")
  /\ UNCHANGED loading

Stop(c) ==
  /\ pc' = [pc EXCEPT ![c] = "done"]
  /\ UNCHANGED <<loading, state, bound, pos, seen>>

\* if (context.hasError()) after the loop.  The mutant has no such test.
LeaveLoopNoError(c) ==
  /\ pc[c] = "trigger"
  /\ Exhausted(c)
  /\ ~CanAdvance(state[c])
  /\ Stop(c)
LeaveLoop(c) ==
  /\ pc[c] = "trigger"
  /\ Exhausted(c)
  /\ ~CanAdvance(state[c])
  /\ IF hasError(state[c])
       THEN Trigger(c, state[c], "error") /\ UNCHANGED <<loading, state>>
       ELSE Stop(c)

Return(c) ==
  /\ pc[c] = "error"
  /\ Exhausted(c)
  /\ Stop(c)

Step(c) == runPipeline(c) \/ Invoke(c) \/ Advance(c) \/ LeaveLoop(c) \/ Return(c)

Finished == loaded /\ \A c \in Contexts : pc[c] = "done"

Next ==
  \/ \E s \in RegStates, p \in Priorities : RegisterCallback(s, p)
  \/ FinishLoading
  \/ \E c \in Contexts : Step(c)

Spec == Init /\ [][Next]_vars

\* Loading ends, and a thread inside runPipeline keeps running: it never
\* waits for another one.
FairSpec == Spec /\ WF_vars(FinishLoading) /\ \A c \in Contexts : WF_vars(Step(c))

-----------------------------------------------------------------------------
\* Properties

\* Whatever order the modules register in, every list runs from the highest
\* priority to the lowest, and a callback registered later runs before the
\* earlier ones of its priority (registerCallback stops at the first entry
\* that is not of a higher priority).
ListsOrdered == \A s \in State : Ordered(pipeline[s])

\* A run ends completed or in error; when it ends in error the Error list has
\* been triggered, and when it ends completed no Error callback has run on it
\* (runPipeline tests hasError once, after the loop).
OutcomeSound ==
  \A c \in Contexts : pc[c] = "done" =>
    /\ isCompleted(state[c]) \/ hasError(state[c])
    /\ hasError(state[c]) <=> Error \in seen[c]

\* Once the callbacks of a state leave the context in error, the next list
\* triggered is the Error list: no ordinary callback sees a failed context
\* (nextState refuses to leave Error).
ErrorStopsProcessing ==
  [][\A c \in Contexts :
       hasError(state[c]) /\ bound'[c] # bound[c] => bound'[c] = Error]_vars

\* Every run ends, whatever the callbacks of forward-moving modules do.
EveryRunEnds == \A c \in Contexts : pc[c] = "trigger" ~> pc[c] = "done"

\* The documented sequence of states: each run is a run of PipelineContract.
Contract == INSTANCE PipelineContract WITH
  phase <- [c \in Contexts |-> IF pc[c] = "error" THEN "trigger" ELSE pc[c]],
  stage <- [c \in Contexts |-> IF pc[c] = "done" THEN state[c] ELSE bound[c]]

ImplementsContract == Contract!Spec
=============================================================================
