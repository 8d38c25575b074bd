------------------------------ MODULE Context ------------------------------
(***************************************************************************)
(* The state code of an oZ::Context (openZia/Context.hpp, Context.cpp):    *)
(* the enumeration oZ::State and what Context::nextState does with it.     *)
(* setState and setErrorState are plain assignments and appear as primed   *)
(* variables where the callers are modelled.                               *)
(***************************************************************************)
EXTENDS Naturals

Error           == 0
BeforeParse     == 1
Parse           == 2
AfterParse      == 3
BeforeInterpret == 4
Interpret       == 5
AfterInterpret  == 6
Completed       == 7
StateCount      == 8

\* The states a context can hold and a callback can be registered for.  The
\* enumerator StateCount only sizes the callback array: no caller passes it.
State == Error .. Completed

\* The cases of the switch in nextState that return false.  The mutant
\* forgets the Error case.
FinalStatesNoError == {Completed, StateCount}
FinalStates        == {Error, Completed, StateCount}

\* nextState returns CanAdvance(s) and leaves the context in Advanced(s).
CanAdvance(s) == s \notin FinalStates
Advanced(s)   == IF CanAdvance(s) THEN s + 1 ELSE s

hasError(s)    == s = Error
isCompleted(s) == s = Completed
=============================================================================
