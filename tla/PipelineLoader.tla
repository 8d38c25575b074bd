-------------------------- MODULE PipelineLoader ---------------------------
(***************************************************************************)
(* Pipeline::loadModules and what becomes of the modules it loads: the     *)
(* libraries DynamicLoader has open, the instances made from them, the     *)
(* callbacks that point into those, and the owners that keep an instance   *)
(* alive: the pipeline, the global list of Log, other modules, the program *)
(* around it.  The files may change between two loads, and fail to load.   *)
(*                                                                         *)
(* An instance lives in the image of its library that was open when it was *)
(* made, and both are named by the library and the number of the load.     *)
(***************************************************************************)
EXTENDS Naturals, Sequences

CONSTANTS
  Libs,           \* the libraries ever in the directory, each with one module
  Removable,      \* those the directory may lack at a load
  Unloadable,     \* those dlopen may refuse
  Blank,          \* those that may lack the entry point CreateModule
  Loggers,        \* those whose module is an ILogger
  Misconfigured,  \* those whose onLoadConfigurationFile may throw
  Requires,       \* what getDependencies returns for each library's module
  Kept,           \* those the program around asks findModule for
  MaxLoads        \* bound on the calls of loadModules

ASSUME LoaderAssumption ==
  /\ Removable \subseteq Libs /\ Unloadable \subseteq Libs /\ Blank \subseteq Libs
  /\ Loggers \subseteq Libs /\ Misconfigured \subseteq Libs /\ Kept \subseteq Libs
  /\ DOMAIN Requires = Libs
  /\ MaxLoads \in Nat

VARIABLES
  pc,        \* where loadModules stands: "idle" outside it, "gone" once the
             \* pipeline is destroyed, "exited" after the end of main
  loads,     \* how many times loadModules has been called
  todo,      \* the files the directory iterator has still to visit
  next,      \* the index of the module createPipeline deals with
  result,    \* how the last call ended: "none" yet, "ready", "failed"
  modules,   \* _modules
  table,     \* the instances with a callback in _pipeline, by bare pointer
  handlers,  \* the keys of _handlers: the images dlopen'd and not dlclose'd
  loggers,   \* the list of Log::GetLoggerList
  held,      \* the instances the program around has a ModulePtr to
  deps,      \* the pairs <<i, j>> such that instance i has a ModulePtr to j
  alive,     \* the instances not destroyed
  crashed    \* code of a closed library has been called

progress == <<pc, loads, todo, next, result>>
owners   == <<modules, loggers, held, deps>>
vars     == <<progress, owners, table, handlers, alive, crashed>>

Instance == Libs \X Nat
PCs      == {"idle", "release", "scan", "create", "gone", "exited"}

TypeOK ==
  /\ pc \in PCs
  /\ loads \in Nat
  /\ todo \subseteq Libs
  /\ next \in Nat \ {0}
  /\ result \in {"none", "ready", "failed"}
  /\ modules \in Seq(Instance)
  /\ table \subseteq Instance
  /\ handlers \subseteq Instance
  /\ loggers \subseteq Instance
  /\ held \subseteq Instance
  /\ deps \subseteq Instance \X Instance
  /\ alive \subseteq Instance
  /\ crashed \in BOOLEAN

Init ==
  /\ pc = "idle"
  /\ loads = 0
  /\ todo = {}
  /\ next = 1
  /\ result = "none"
  /\ modules = <<>>
  /\ table = {}
  /\ handlers = {}
  /\ loggers = {}
  /\ held = {}
  /\ deps = {}
  /\ alive = {}
  /\ crashed = FALSE

Listed     == {modules[k] : k \in 1 .. Len(modules)}
Names(set) == {i[1] : i \in set}

\* The shared pointers left are those of the roots and of the instances that
\* stay: reference counting destroys the others, and never a cycle.
Survivors(roots) ==
  UNION {S \in SUBSET alive :
           \A i \in S : i \in roots \/ \E j \in S : <<j, i>> \in deps}

\* The owners other than the roots let go.  Destroying an instance calls the
\* destructor in its library.
Destroy(roots) ==
  /\ alive' = Survivors(roots)
  /\ deps' = {d \in deps : d[1] \in Survivors(roots)}
  /\ crashed' = (crashed \/ ~(alive \ Survivors(roots) \subseteq handlers))

-----------------------------------------------------------------------------
\* loadModules

\* The first two statements of loadModules.  The mutants forget one of them.
StaleTable    == table
ClearedTable  == {}
StaleModules  == modules
ClearedModules == <<>>

Clear ==
  /\ table' = ClearedTable
  /\ modules' = ClearedModules
  /\ Destroy(loggers \union held \union {ClearedModules[k] : k \in DOMAIN ClearedModules})

StartLoad ==
  /\ pc = "idle"
  /\ loads < MaxLoads
  /\ loads' = loads + 1
  /\ pc' = "release"
  /\ Clear
  /\ UNCHANGED <<todo, next, result, handlers, loggers, held>>

\* An exception leaves loadModules where it stands.
Fail ==
  /\ pc' = "idle"
  /\ result' = "failed"

\* DynamicLoader::release
CloseLibraries == handlers' = {}

\* _dynamicLoader.release(); onLoadModules throws if the directory is gone.
Release ==
  /\ pc = "release"
  /\ CloseLibraries
  /\ \/ /\ \E absent \in SUBSET Removable : todo' = Libs \ absent
        /\ pc' = "scan"
        /\ UNCHANGED result
     \/ Removable = Libs /\ Fail /\ UNCHANGED todo
  /\ UNCHANGED <<loads, next, owners, table, alive, crashed>>

\* addModule, for the instance the entry point has just made.
AddModule(i) ==
  /\ alive' = alive \union {i}
  /\ modules' = Append(modules, i)
  /\ loggers' = loggers \union ({i} \cap (Loggers \X Nat))

\* One file of the directory, in the order the iterator finds them: load,
\* getFunction, the entry point, addModule.
Visit(l) ==
  /\ pc = "scan"
  /\ l \in todo
  /\ todo' = todo \ {l}
  /\ handlers' = handlers \union {<<l, loads>>}
  /\ AddModule(<<l, loads>>)
  /\ UNCHANGED <<pc, loads, next, result, table, held, deps, crashed>>

\* load throws, or getFunction does once the library is open.
VisitFails(l) ==
  /\ pc = "scan"
  /\ l \in todo
  /\ todo' = todo \ {l}
  /\ \/ l \in Unloadable /\ UNCHANGED handlers
     \/ l \in Blank /\ handlers' = handlers \union {<<l, loads>>}
  /\ Fail
  /\ UNCHANGED <<loads, next, owners, table, alive, crashed>>

\* checkModulesDependencies.
Satisfied == \A i \in Listed : Requires[i[1]] \subseteq Names(Listed)

\* createPipeline begins with the first module.
FirstRound == 1

Check ==
  /\ pc = "scan"
  /\ todo = {}
  /\ IF Satisfied THEN pc' = "create" /\ UNCHANGED result ELSE Fail
  /\ next' = FirstRound
  /\ UNCHANGED <<loads, todo, owners, table, handlers, alive, crashed>>

\* What the modules' onRetreiveDependencies find: every module is listed by
\* then.  The mutant finds those createPipeline has come to only.
FoundSoFar(i) == {modules[k] : k \in {k \in 1 .. next : modules[k][1] \in Requires[i[1]]}}
Found(i)      == {j \in Listed : j[1] \in Requires[i[1]]}

\* One round of createPipeline: onRegisterCallbacks, onRetreiveDependencies,
\* which finds and stores the modules it requires, onLoadConfigurationFile.
Create ==
  /\ pc = "create"
  /\ next <= Len(modules)
  /\ LET i == modules[next] IN
       /\ table' = table \union {i}
       /\ deps' = deps \union {<<i, j>> : j \in Found(i)}
       /\ \/ next' = next + 1 /\ UNCHANGED <<pc, result>>
          \/ i[1] \in Misconfigured /\ Fail /\ UNCHANGED next
  /\ UNCHANGED <<loads, todo, modules, loggers, held, handlers, alive, crashed>>

Ready ==
  /\ pc = "create"
  /\ next > Len(modules)
  /\ pc' = "idle"
  /\ result' = "ready"
  /\ UNCHANGED <<loads, todo, next, owners, table, handlers, alive, crashed>>

loadModules ==
  \/ StartLoad \/ Release \/ Check \/ Create \/ Ready
  \/ \E l \in Libs : Visit(l) \/ VisitFails(l)

-----------------------------------------------------------------------------
\* The program around the pipeline

\* findModule returns a shared pointer, which the program keeps for a while.
FindModule(i) ==
  /\ pc = "idle"
  /\ i \in Listed \ held
  /\ i[1] \in Kept
  /\ held' = held \union {i}
  /\ UNCHANGED <<progress, modules, loggers, deps, table, handlers, alive, crashed>>

DropModule(i) ==
  /\ pc \in {"idle", "gone"}
  /\ i \in held
  /\ held' = held \ {i}
  /\ Destroy(Listed \union loggers \union (held \ {i}))
  /\ UNCHANGED <<progress, modules, loggers, table, handlers>>

\* runPipeline calls into every instance that registered; a Log object calls
\* the loggers when it is flushed.
RunPipeline ==
  /\ pc = "idle"
  /\ table # {}
  /\ crashed' = ~(table \subseteq alive \cap handlers)
  /\ UNCHANGED <<progress, owners, table, handlers, alive>>

Flush ==
  /\ pc \in {"idle", "gone"}
  /\ loggers # {}
  /\ crashed' = ~(loggers \subseteq alive \cap handlers)
  /\ UNCHANGED <<progress, owners, table, handlers, alive>>

\* ~Pipeline destroys its members in the reverse of their order, and so the
\* modules before the loader, whose destructor releases the libraries.
DestroyPipeline ==
  /\ pc = "idle"
  /\ pc' = "gone"
  /\ table' = {}
  /\ modules' = <<>>
  /\ Destroy(loggers \union held)
  /\ CloseLibraries
  /\ UNCHANGED <<loads, todo, next, result, loggers, held>>

\* After main, the static list of loggers is destroyed.
Exit ==
  /\ pc = "gone"
  /\ held = {}
  /\ pc' = "exited"
  /\ loggers' = {}
  /\ Destroy({})
  /\ UNCHANGED <<loads, todo, next, result, modules, held, table, handlers>>

Next ==
  /\ ~crashed
  /\ \/ loadModules
     \/ \E i \in Listed : FindModule(i)
     \/ \E i \in held : DropModule(i)
     \/ RunPipeline \/ Flush \/ DestroyPipeline \/ Exit

Spec == Init /\ [][Next]_vars

-----------------------------------------------------------------------------
\* Properties

\* registerCallback keeps a bare pointer to the module: whatever fails in the
\* middle of whichever load, no callback in the table points to a destroyed
\* module or into a closed library, so that runPipeline can be called.
CallbacksValid == table \subseteq alive \cap handlers

\* A load that succeeds leaves every module registered and in possession of
\* the modules it requires, those of this load, though createPipeline deals
\* with the modules one after the other in the order of the directory.
ReadyComplete ==
  pc = "idle" /\ result = "ready" =>
    \A i \in Listed :
      /\ i \in table /\ i[2] = loads
      /\ \A r \in Requires[i[1]] : <<i, <<r, loads>>>> \in deps

\* What is never registered: a callback of a set of modules that does not have
\* all its dependencies (checkModulesDependencies before createPipeline).
NothingRunsIncomplete ==
  table # {} => \A i \in Listed : Requires[i[1]] \subseteq Names(Listed)

\* An instance outlives its library only if somebody outside the pipeline, the
\* logger list or another such instance has a pointer to it.
OrphansOwned ==
  \A i \in alive \ handlers :
    i \in held \union loggers \/ \E j \in alive \ handlers : <<j, i>> \in deps

\* What DynamicLoader.hpp demands of the callers of release: every instance is
\* destroyed before its library is closed.  The code does not keep this for
\* loggers, nor for modules that require each other.
InstancesInOpenLibraries == alive \subseteq handlers /\ ~crashed
=============================================================================
