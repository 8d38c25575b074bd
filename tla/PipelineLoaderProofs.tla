------------------------ MODULE PipelineLoaderProofs ------------------------
(***************************************************************************)
(* Proofs about PipelineLoader, for any libraries, any requirements, and   *)
(* whatever fails in whichever load: the callbacks of the pipeline always  *)
(* point into live modules of open libraries, a load that succeeds is      *)
(* complete, and who owns an instance that has outlived its library.       *)
(***************************************************************************)
EXTENDS PipelineLoader, SequenceTheorems, TLAPS

\* The table is filled from the list of modules, and both are emptied before
\* the libraries are closed.
Rooted ==
  /\ table \subseteq Listed
  /\ Listed \subseteq alive \cap handlers
  /\ pc \in {"release", "gone", "exited"} => modules = <<>>
  /\ pc \in {"release", "scan"} => table = {}

\* What is listed or open, outside the step that closes, is of this load.
ThisLoad ==
  /\ Listed \subseteq Libs \X {loads}
  /\ pc # "release" => handlers \subseteq Libs \X {loads}

\* Callbacks are registered only once the dependencies have been checked.
Checked == pc = "create" \/ table # {} => Satisfied

\* Every instance has an owner, and the owner of an instance whose library is
\* closed cannot be one whose library is open.
Owned ==
  \A i \in alive : i \in Listed \union held \union loggers \/ \E j \in alive : <<j, i>> \in deps

DepsClosed ==
  \A d \in deps :
    /\ d[1][2] <= loads
    /\ pc \in {"release", "scan"} => d[1][2] < loads
    /\ d[1] \in handlers => d[2] \in handlers

\* What one round of createPipeline does for a module.
Complete(i) == i \in table /\ \A r \in Requires[i[1]] : <<i, <<r, loads>>>> \in deps

Rounds ==
  /\ pc = "create" => next <= Len(modules) + 1 /\ \A k \in 1 .. next - 1 : Complete(modules[k])
  /\ pc = "idle" /\ result = "ready" => \A k \in 1 .. Len(modules) : Complete(modules[k])

IInv == TypeOK /\ Rooted /\ ThisLoad /\ Checked /\ Owned /\ DepsClosed /\ Rounds

-----------------------------------------------------------------------------
\* Reference counting keeps only living instances.
LEMMA SurvivorsLive ==
  ASSUME NEW R
  PROVE  Survivors(R) \subseteq alive
  BY DEF Survivors

\* An instance with an outside owner stays.
LEMMA RootsSurvive ==
  ASSUME NEW R
  PROVE  R \cap alive \subseteq Survivors(R)
<1>1. ASSUME NEW i \in R \cap alive PROVE i \in Survivors(R)
  <2> DEFINE S == {i}
  <2>1. S \in SUBSET alive
    OBVIOUS
  <2>2. \A k \in S : k \in R \/ \E j \in S : <<j, k>> \in deps
    OBVIOUS
  <2> QED BY <2>1, <2>2 DEF Survivors
<1> QED BY <1>1

\* An instance that stays has an outside owner, or one that stays too.
LEMMA SurvivorsOwned ==
  ASSUME NEW R, NEW i \in Survivors(R)
  PROVE  i \in R \/ \E j \in Survivors(R) : <<j, i>> \in deps
  BY DEF Survivors

\* The list of modules after addModule, after a clear, and left alone.
LEMMA ListedAppend ==
  ASSUME modules \in Seq(Instance), NEW x \in Instance, modules' = Append(modules, x)
  PROVE  Listed' = Listed \union {x}
<1>1. Len(modules') = Len(modules) + 1 /\ modules'[Len(modules) + 1] = x
  BY AppendProperties
<1>2. \A k \in 1 .. Len(modules) : modules'[k] = modules[k]
  BY AppendProperties
<1>3. Len(modules) \in Nat
  BY LenProperties
<1> QED BY <1>1, <1>2, <1>3 DEF Listed

LEMMA ListedEmpty ==
  ASSUME modules' = <<>>
  PROVE  Listed' = {}
  BY EmptySeq DEF Listed

LEMMA ListedSame ==
  ASSUME UNCHANGED modules
  PROVE  Listed' = Listed
  BY DEF Listed

-----------------------------------------------------------------------------
LEMMA TypeInit == Init => TypeOK
<1> SUFFICES ASSUME Init PROVE TypeOK
  OBVIOUS
<1>1. modules \in Seq(Instance)
  BY EmptySeq DEF Init
<1>2. loads \in Nat /\ next \in Nat \ {0} /\ pc \in PCs
  BY DEF Init, PCs
<1> QED BY <1>1, <1>2 DEF Init, TypeOK

\* Only counting instances has to be looked at for the types of a Destroy.
LEMMA DestroyTypes ==
  ASSUME TypeOK, NEW R, Destroy(R)
  PROVE  /\ alive' \subseteq Instance
         /\ deps' \subseteq Instance \X Instance
         /\ crashed' \in BOOLEAN
  BY SurvivorsLive DEF TypeOK, Destroy

LEMMA TypeNext ==
  ASSUME TypeOK, [Next]_vars
  PROVE  TypeOK'
<1> USE DEF TypeOK, PCs, progress, owners
<1>1. CASE StartLoad
  BY <1>1, DestroyTypes, EmptySeq DEF StartLoad, Clear, ClearedTable, ClearedModules
<1>2. CASE Release
  BY <1>2 DEF Release, CloseLibraries, Fail
<1>3. ASSUME NEW l \in Libs, Visit(l) PROVE TypeOK'
  <2>1. <<l, loads>> \in Instance
    BY DEF Instance
  <2>2. modules' \in Seq(Instance)
    BY <1>3, <2>1, AppendProperties DEF Visit, AddModule
  <2>3. loggers' \subseteq Instance
    BY <1>3, <2>1 DEF Visit, AddModule
  <2> QED BY <1>3, <2>1, <2>2, <2>3 DEF Visit, AddModule
<1>4. ASSUME NEW l \in Libs, VisitFails(l) PROVE TypeOK'
  <2>1. <<l, loads>> \in Instance
    BY DEF Instance
  <2> QED BY <1>4, <2>1 DEF VisitFails, Fail
<1>5. CASE Check
  BY <1>5 DEF Check, Fail, FirstRound
<1>6. CASE Create
  <2>1. modules[next] \in Instance
    BY <1>6, ElementOfSeq, LenProperties DEF Create
  <2>2. Listed \subseteq Instance
    BY ElementOfSeq DEF Listed
  <2>3. deps' \subseteq Instance \X Instance
    BY <1>6, <2>1, <2>2 DEF Create, Found
  <2>4. table' \subseteq Instance
    BY <1>6, <2>1 DEF Create
  <2> QED BY <1>6, <2>3, <2>4 DEF Create, Fail
<1>7. CASE Ready
  BY <1>7 DEF Ready
<1>8. ASSUME NEW i \in Listed, FindModule(i) PROVE TypeOK'
  <2>1. i \in Instance
    BY ElementOfSeq DEF Listed
  <2> QED BY <1>8, <2>1 DEF FindModule
<1>9. ASSUME NEW i \in held, DropModule(i) PROVE TypeOK'
  BY <1>9, DestroyTypes DEF DropModule
<1>10. CASE RunPipeline
  BY <1>10 DEF RunPipeline
<1>11. CASE Flush
  BY <1>11 DEF Flush
<1>12. CASE DestroyPipeline
  BY <1>12, DestroyTypes, EmptySeq DEF DestroyPipeline, CloseLibraries
<1>13. CASE Exit
  BY <1>13, DestroyTypes DEF Exit
<1>14. CASE UNCHANGED vars
  BY <1>14 DEF vars
<1> QED BY <1>1, <1>2, <1>3, <1>4, <1>5, <1>6, <1>7, <1>8, <1>9, <1>10, <1>11, <1>12, <1>13, <1>14
      DEF Next, loadModules

-----------------------------------------------------------------------------
\* Destroy spares what the roots hold, and leaves the others with an owner.
LEMMA DestroyOwned ==
  ASSUME NEW R, Destroy(R)
  PROVE  /\ alive' \subseteq alive /\ deps' \subseteq deps
         /\ R \cap alive \subseteq alive'
         /\ \A i \in alive' : i \in R \/ \E j \in alive' : <<j, i>> \in deps'
         /\ \A d \in deps : d[1] \in R \cap alive => d \in deps'
<1>1. alive' \subseteq alive /\ deps' \subseteq deps /\ R \cap alive \subseteq alive'
  BY SurvivorsLive, RootsSurvive DEF Destroy
<1>2. ASSUME NEW i \in alive', i \notin R PROVE \E j \in alive' : <<j, i>> \in deps'
  <2>1. PICK j \in Survivors(R) : <<j, i>> \in deps
    BY <1>2, SurvivorsOwned DEF Destroy
  <2> QED BY <2>1 DEF Destroy
<1>3. ASSUME NEW d \in deps, d[1] \in R \cap alive PROVE d \in deps'
  BY <1>3, RootsSurvive DEF Destroy
<1> QED BY <1>1, <1>2, <1>3

LEMMA IInvInit == Init => IInv
<1> SUFFICES ASSUME Init PROVE IInv
  OBVIOUS
<1>1. Listed = {}
  BY EmptySeq DEF Init, Listed
<1>2. Len(modules) = 0
  BY EmptySeq DEF Init
<1>3. TypeOK
  BY TypeInit
<1> QED BY <1>1, <1>2, <1>3
      DEF Init, IInv, Rooted, ThisLoad, Checked, Owned, DepsClosed, Rounds

-----------------------------------------------------------------------------
\* The steps of loadModules, one lemma each.
LEMMA StartLoadKeeps ==
  ASSUME IInv, StartLoad
  PROVE  Rooted' /\ ThisLoad' /\ Checked' /\ Owned' /\ DepsClosed' /\ Rounds'
<1> DEFINE R == loggers \union held \union {ClearedModules[k] : k \in DOMAIN ClearedModules}
<1>1. Destroy(R) /\ R = loggers \union held
  BY DEF StartLoad, Clear, ClearedModules
<1>2. modules' = <<>> /\ Listed' = {} /\ table' = {} /\ pc' = "release"
  BY ListedEmpty DEF StartLoad, Clear, ClearedModules, ClearedTable
<1>3. loads \in Nat /\ loads' = loads + 1 /\ handlers' = handlers
  BY DEF StartLoad, IInv, TypeOK
<1>4. loggers' = loggers /\ held' = held
  BY DEF StartLoad
<1>5. Rooted' /\ ThisLoad' /\ Checked' /\ Rounds'
  BY <1>2 DEF Rooted, ThisLoad, Checked, Rounds
<1> HIDE DEF R
<1>6. Owned'
  BY <1>1, <1>4, DestroyOwned DEF Owned
<1>7. DepsClosed'
  <2> SUFFICES ASSUME NEW d \in deps'
               PROVE  /\ d[1][2] < loads' /\ d[1][2] <= loads'
                      /\ d[1] \in handlers' => d[2] \in handlers'
    BY DEF DepsClosed
  <2>1. d \in deps
    BY <1>1, DestroyOwned
  <2>2. d[1][2] \in Nat
    BY <2>1 DEF IInv, TypeOK, Instance
  <2> QED BY <1>3, <2>1, <2>2 DEF IInv, DepsClosed
<1> QED BY <1>5, <1>6, <1>7

LEMMA ReleaseKeeps ==
  ASSUME IInv, Release
  PROVE  Rooted' /\ ThisLoad' /\ Checked' /\ Owned' /\ DepsClosed' /\ Rounds'
<1>1. modules = <<>> /\ modules' = <<>> /\ Listed = {} /\ Listed' = {}
  <2>1. modules = <<>> /\ modules' = <<>>
    BY DEF Release, CloseLibraries, owners, IInv, Rooted
  <2> QED BY <2>1, ListedEmpty, EmptySeq DEF Listed
<1>2. handlers' = {} /\ table = {} /\ UNCHANGED <<loads, table, alive, loggers, held, deps>>
  BY DEF Release, CloseLibraries, owners, IInv, Rooted
<1>3. \/ pc' = "scan"
      \/ pc' = "idle" /\ result' = "failed"
  BY DEF Release, CloseLibraries, Fail
<1>4. pc = "release"
  BY DEF Release
<1>5. Rooted' /\ ThisLoad' /\ Checked' /\ Rounds'
  BY <1>1, <1>2, <1>3 DEF Rooted, ThisLoad, Checked, Rounds
<1>6. Owned'
  BY <1>1, <1>2 DEF IInv, Owned
<1>7. DepsClosed'
  BY <1>2, <1>4 DEF IInv, DepsClosed
<1> QED BY <1>5, <1>6, <1>7

LEMMA VisitKeeps ==
  ASSUME IInv, NEW l \in Libs, Visit(l)
  PROVE  Rooted' /\ ThisLoad' /\ Checked' /\ Owned' /\ DepsClosed' /\ Rounds'
<1>1. <<l, loads>> \in Instance
  BY DEF IInv, TypeOK, Instance
<1>2. Listed' = Listed \union {<<l, loads>>}
  BY <1>1, ListedAppend DEF Visit, AddModule, IInv, TypeOK
<1>3. /\ pc = "scan" /\ pc' = "scan" /\ table = {} /\ table' = {}
      /\ handlers' = handlers \union {<<l, loads>>}
      /\ alive' = alive \union {<<l, loads>>}
      /\ loggers \subseteq loggers'
      /\ UNCHANGED <<loads, held, deps>>
  BY DEF Visit, AddModule, IInv, Rooted
<1>4. Rooted' /\ ThisLoad' /\ Checked' /\ Rounds'
  BY <1>2, <1>3 DEF IInv, Rooted, ThisLoad, Checked, Rounds
<1>5. Owned'
  BY <1>2, <1>3 DEF IInv, Owned
<1>6. DepsClosed'
  <2> SUFFICES ASSUME NEW d \in deps
               PROVE  /\ d[1][2] < loads /\ d[1][2] <= loads
                      /\ d[1] \in handlers' => d[2] \in handlers'
    BY <1>3 DEF DepsClosed
  <2>1. d[1][2] < loads /\ d[1][2] <= loads /\ d[1][2] \in Nat /\ loads \in Nat
    BY <1>3 DEF IInv, DepsClosed, TypeOK, Instance
  <2>2. d[1] # <<l, loads>>
    BY <2>1
  <2>3. d[1] \in handlers => d[2] \in handlers
    BY DEF IInv, DepsClosed
  <2> QED BY <1>3, <2>1, <2>2, <2>3
<1> QED BY <1>4, <1>5, <1>6

LEMMA VisitFailsKeeps ==
  ASSUME IInv, NEW l \in Libs, VisitFails(l)
  PROVE  Rooted' /\ ThisLoad' /\ Checked' /\ Owned' /\ DepsClosed' /\ Rounds'
<1>1. /\ pc = "scan" /\ pc' = "idle" /\ result' = "failed" /\ table = {} /\ table' = {}
      /\ handlers \subseteq handlers' /\ handlers' \subseteq handlers \union {<<l, loads>>}
      /\ UNCHANGED <<loads, modules, loggers, held, deps, alive>>
  BY DEF VisitFails, Fail, owners, IInv, Rooted
<1>2. Listed' = Listed
  BY <1>1, ListedSame
<1>3. Rooted' /\ ThisLoad' /\ Checked' /\ Rounds'
  BY <1>1, <1>2 DEF IInv, Rooted, ThisLoad, Checked, Rounds
<1>4. Owned'
  BY <1>1, <1>2 DEF IInv, Owned
<1>5. DepsClosed'
  <2> SUFFICES ASSUME NEW d \in deps
               PROVE  d[1][2] <= loads /\ (d[1] \in handlers' => d[2] \in handlers')
    BY <1>1 DEF DepsClosed
  <2>1. d[1][2] < loads /\ d[1][2] <= loads /\ d[1][2] \in Nat /\ loads \in Nat
    BY <1>1 DEF IInv, DepsClosed, TypeOK, Instance
  <2>2. d[1] # <<l, loads>>
    BY <2>1
  <2>3. d[1] \in handlers => d[2] \in handlers
    BY DEF IInv, DepsClosed
  <2> QED BY <1>1, <2>1, <2>2, <2>3
<1> QED BY <1>3, <1>4, <1>5

LEMMA CheckKeeps ==
  ASSUME IInv, Check
  PROVE  Rooted' /\ ThisLoad' /\ Checked' /\ Owned' /\ DepsClosed' /\ Rounds'
<1>1. /\ pc = "scan" /\ table = {} /\ next' = 1
      /\ \/ pc' = "create" /\ Satisfied
         \/ pc' = "idle" /\ result' = "failed"
      /\ UNCHANGED <<loads, modules, table, handlers, loggers, held, deps, alive>>
  BY DEF Check, Fail, FirstRound, owners, IInv, Rooted
<1>2. Listed' = Listed /\ Satisfied' = Satisfied
  BY <1>1, ListedSame DEF Satisfied
<1>3. Len(modules) \in Nat
  BY LenProperties DEF IInv, TypeOK
<1>4. Rooted' /\ ThisLoad' /\ Checked'
  BY <1>1, <1>2 DEF IInv, Rooted, ThisLoad, Checked
<1>5. Owned'
  BY <1>1, <1>2 DEF IInv, Owned
<1>6. DepsClosed'
  BY <1>1 DEF IInv, DepsClosed
<1>7. Rounds'
  BY <1>1, <1>3 DEF Rounds
<1> QED BY <1>4, <1>5, <1>6, <1>7

\* A round of createPipeline completes its module: the modules it requires
\* have been found to be listed, and those of the list are of this load.
LEMMA CreateKeeps ==
  ASSUME IInv, Create
  PROVE  Rooted' /\ ThisLoad' /\ Checked' /\ Owned' /\ DepsClosed' /\ Rounds'
<1>1. /\ pc = "create" /\ next <= Len(modules) /\ next \in Nat \ {0} /\ Len(modules) \in Nat
      /\ loads \in Nat
  BY LenProperties DEF Create, IInv, TypeOK
<1>11. PICK i \in Listed : i = modules[next]
  BY <1>1 DEF Listed
<1>2. /\ table' = table \union {i}
      /\ deps' = deps \union {<<i, j>> : j \in Found(i)}
      /\ \/ next' = next + 1 /\ UNCHANGED <<pc, result>>
         \/ pc' = "idle" /\ result' = "failed" /\ UNCHANGED next
      /\ UNCHANGED <<loads, modules, loggers, held, handlers, alive>>
  BY <1>11 DEF Create, Fail
<1>3. Listed' = Listed /\ Satisfied' = Satisfied
  BY <1>1, <1>2, ListedSame DEF Listed, Satisfied
<1>4. Found(i) \subseteq Listed
  BY DEF Found
<1>5. Satisfied
  BY <1>1 DEF IInv, Checked
<1>6. Complete(i)'
  <2>1. ASSUME NEW r \in Requires[i[1]] PROVE <<r, loads>> \in Found(i)
    <3>1. PICK j \in Listed : j[1] = r
      BY <1>3, <1>5 DEF Satisfied, Names
    <3>2. j = <<r, loads>>
      BY <3>1 DEF IInv, ThisLoad
    <3> QED BY <3>1, <3>2 DEF Found
  <2> QED BY <1>2, <2>1 DEF Complete
<1>7. Rooted' /\ ThisLoad' /\ Checked'
  BY <1>1, <1>2, <1>3, <1>5 DEF IInv, Rooted, ThisLoad, Checked
<1>8. Owned'
  BY <1>2, <1>3 DEF IInv, Owned
<1>9. DepsClosed'
  <2> SUFFICES ASSUME NEW d \in deps'
               PROVE  d[1][2] <= loads /\ (d[1] \in handlers => d[2] \in handlers)
    BY <1>1, <1>2 DEF DepsClosed
  <2>1. CASE d \in deps
    BY <2>1 DEF IInv, DepsClosed
  <2>2. ASSUME NEW j \in Found(i), d = <<i, j>>
        PROVE  d[1][2] <= loads /\ (d[1] \in handlers => d[2] \in handlers)
    <3>1. i[2] = loads /\ j \in handlers
      BY <1>3, <1>4 DEF IInv, Rooted, ThisLoad
    <3> QED BY <1>1, <2>2, <3>1
  <2> QED BY <1>2, <2>1, <2>2
<1>10. Rounds'
  <2>1. ASSUME NEW k \in 1 .. next - 1 PROVE Complete(modules[k])'
    <3>1. Complete(modules[k])
      BY <1>1 DEF IInv, Rounds
    <3> QED BY <1>2, <3>1 DEF Complete
  <2>2. CASE next' = next + 1 /\ UNCHANGED <<pc, result>>
    <3>1. \A k \in 1 .. next' - 1 : k \in 1 .. next - 1 \/ k = next
      BY <1>1, <2>2
    <3>2. \A k \in 1 .. next' - 1 : Complete(modules[k])'
      BY <1>11, <1>2, <1>6, <2>1, <3>1
    <3>3. next' <= Len(modules') + 1
      BY <1>1, <1>2, <2>2
    <3> QED BY <1>1, <2>2, <3>2, <3>3 DEF Rounds, Complete
  <2>3. CASE pc' = "idle" /\ result' = "failed"
    BY <2>3 DEF Rounds
  <2> QED BY <1>2, <2>2, <2>3
<1> QED BY <1>7, <1>8, <1>9, <1>10

LEMMA ReadyKeeps ==
  ASSUME IInv, Ready
  PROVE  Rooted' /\ ThisLoad' /\ Checked' /\ Owned' /\ DepsClosed' /\ Rounds'
<1>1. /\ pc = "create" /\ pc' = "idle" /\ next > Len(modules)
      /\ UNCHANGED <<loads, modules, table, handlers, loggers, held, deps, alive>>
  BY DEF Ready, owners
<1>2. Listed' = Listed /\ Satisfied' = Satisfied
  BY <1>1, ListedSame DEF Satisfied
<1>3. Len(modules) \in Nat /\ next \in Nat
  BY LenProperties DEF IInv, TypeOK
<1>4. Rooted' /\ ThisLoad' /\ Checked'
  BY <1>1, <1>2 DEF IInv, Rooted, ThisLoad, Checked
<1>5. Owned'
  BY <1>1, <1>2 DEF IInv, Owned
<1>6. DepsClosed'
  BY <1>1 DEF IInv, DepsClosed
<1>7. \A k \in 1 .. Len(modules) : Complete(modules[k])
  <2>1. \A k \in 1 .. Len(modules) : k \in 1 .. next - 1
    BY <1>1, <1>3
  <2> QED BY <1>1, <2>1 DEF IInv, Rounds
<1>8. Rounds'
  BY <1>1, <1>7 DEF Rounds, Complete
<1> QED BY <1>4, <1>5, <1>6, <1>8

-----------------------------------------------------------------------------
\* The steps of the program around.
LEMMA FindModuleKeeps ==
  ASSUME IInv, NEW i \in Listed, FindModule(i)
  PROVE  Rooted' /\ ThisLoad' /\ Checked' /\ Owned' /\ DepsClosed' /\ Rounds'
<1>1. /\ held' = held \union {i}
      /\ UNCHANGED <<pc, loads, next, result, modules, table, handlers, loggers, deps, alive>>
  BY DEF FindModule, progress
<1>2. Listed' = Listed /\ Satisfied' = Satisfied
  BY <1>1, ListedSame DEF Satisfied
<1>3. Rooted' /\ ThisLoad' /\ Checked' /\ Owned'
  BY <1>1, <1>2 DEF IInv, Rooted, ThisLoad, Checked, Owned
<1>4. DepsClosed' /\ Rounds'
  BY <1>1 DEF IInv, DepsClosed, Rounds, Complete
<1> QED BY <1>3, <1>4

\* A module that is complete holds its dependencies as long as it is listed.
LEMMA DropModuleKeeps ==
  ASSUME IInv, NEW i \in held, DropModule(i)
  PROVE  Rooted' /\ ThisLoad' /\ Checked' /\ Owned' /\ DepsClosed' /\ Rounds'
<1> DEFINE R == Listed \union loggers \union (held \ {i})
<1>1. /\ pc \in {"idle", "gone"} /\ held' = held \ {i} /\ Destroy(R)
      /\ UNCHANGED <<pc, loads, next, result, modules, table, handlers, loggers>>
  BY DEF DropModule, progress
<1>2. Listed' = Listed /\ Satisfied' = Satisfied
  BY <1>1, ListedSame DEF Satisfied
<1>3. Listed \subseteq R \cap alive
  BY DEF IInv, Rooted
<1>4. R = Listed' \union loggers' \union held'
  BY <1>1, <1>2
<1> HIDE DEF R
<1>5. Rooted' /\ ThisLoad' /\ Checked'
  <2>1. Listed \subseteq alive'
    BY <1>1, <1>3, DestroyOwned
  <2> QED BY <1>1, <1>2, <2>1 DEF IInv, Rooted, ThisLoad, Checked
<1>6. Owned'
  BY <1>1, <1>4, DestroyOwned DEF Owned
<1>7. DepsClosed'
  <2>1. deps' \subseteq deps
    BY <1>1, DestroyOwned
  <2> QED BY <1>1, <2>1 DEF IInv, DepsClosed
<1>8. Rounds'
  <2>1. ASSUME NEW k \in 1 .. Len(modules), Complete(modules[k]) PROVE Complete(modules[k])'
    <3>1. modules[k] \in R \cap alive
      BY <1>3 DEF Listed
    <3> QED BY <1>1, <2>1, <3>1, DestroyOwned DEF Complete
  <2> QED BY <1>1, <2>1 DEF IInv, Rounds
<1> QED BY <1>5, <1>6, <1>7, <1>8

LEMMA DestroyPipelineKeeps ==
  ASSUME IInv, DestroyPipeline
  PROVE  Rooted' /\ ThisLoad' /\ Checked' /\ Owned' /\ DepsClosed' /\ Rounds'
<1>1. /\ pc' = "gone" /\ table' = {} /\ modules' = <<>> /\ handlers' = {}
      /\ Destroy(loggers \union held)
      /\ UNCHANGED <<loads, loggers, held>>
  BY DEF DestroyPipeline, CloseLibraries
<1>2. Listed' = {}
  BY <1>1, ListedEmpty
<1>3. Rooted' /\ ThisLoad' /\ Checked' /\ Rounds'
  BY <1>1, <1>2 DEF Rooted, ThisLoad, Checked, Rounds
<1>4. Owned'
  BY <1>1, <1>2, DestroyOwned DEF Owned
<1>5. DepsClosed'
  <2>1. deps' \subseteq deps
    BY <1>1, DestroyOwned
  <2> QED BY <1>1, <2>1 DEF IInv, DepsClosed
<1> QED BY <1>3, <1>4, <1>5

LEMMA ExitKeeps ==
  ASSUME IInv, Exit
  PROVE  Rooted' /\ ThisLoad' /\ Checked' /\ Owned' /\ DepsClosed' /\ Rounds'
<1>1. /\ pc = "gone" /\ pc' = "exited" /\ held = {} /\ held' = {} /\ loggers' = {}
      /\ Destroy({})
      /\ UNCHANGED <<loads, modules, table, handlers>>
  BY DEF Exit
<1>2. modules' = <<>> /\ Listed = {} /\ Listed' = {} /\ table = {} /\ Satisfied' = Satisfied
  <2>1. modules = <<>>
    BY <1>1 DEF IInv, Rooted
  <2>2. Listed = {}
    BY <2>1, EmptySeq DEF Listed
  <2> QED BY <1>1, <2>1, <2>2, ListedSame DEF IInv, Rooted, Satisfied
<1>3. Rooted' /\ ThisLoad' /\ Checked' /\ Rounds'
  BY <1>1, <1>2 DEF IInv, Rooted, ThisLoad, Checked, Rounds
<1>4. Owned'
  BY <1>1, <1>2, DestroyOwned DEF Owned
<1>5. DepsClosed'
  <2>1. deps' \subseteq deps
    BY <1>1, DestroyOwned
  <2> QED BY <1>1, <2>1 DEF IInv, DepsClosed
<1> QED BY <1>3, <1>4, <1>5

\* Running the pipeline and logging call into modules and change no owner.
LEMMA CallsKeep ==
  ASSUME IInv, UNCHANGED <<progress, owners, table, handlers, alive>>
  PROVE  Rooted' /\ ThisLoad' /\ Checked' /\ Owned' /\ DepsClosed' /\ Rounds'
<1>1. UNCHANGED <<pc, loads, next, result, modules, loggers, held, deps, table, handlers, alive>>
  BY DEF progress, owners
<1>2. Listed' = Listed /\ Satisfied' = Satisfied
  BY <1>1, ListedSame DEF Satisfied
<1>3. Rooted' /\ ThisLoad' /\ Checked' /\ Owned'
  BY <1>1, <1>2 DEF IInv, Rooted, ThisLoad, Checked, Owned
<1>4. DepsClosed' /\ Rounds'
  BY <1>1 DEF IInv, DepsClosed, Rounds, Complete
<1> QED BY <1>3, <1>4

LEMMA IInvNext ==
  ASSUME IInv, [Next]_vars
  PROVE  IInv'
<1>1. TypeOK'
  BY TypeNext DEF IInv
<1>2. Rooted' /\ ThisLoad' /\ Checked' /\ Owned' /\ DepsClosed' /\ Rounds'
  <2>1. CASE loadModules
    BY <2>1, StartLoadKeeps, ReleaseKeeps, VisitKeeps, VisitFailsKeeps, CheckKeeps,
       CreateKeeps, ReadyKeeps DEF loadModules
  <2>2. CASE (\E i \in Listed : FindModule(i)) \/ \E i \in held : DropModule(i)
    BY <2>2, FindModuleKeeps, DropModuleKeeps
  <2>3. CASE RunPipeline \/ Flush \/ UNCHANGED vars
    <3>1. UNCHANGED <<progress, owners, table, handlers, alive>>
      BY <2>3 DEF RunPipeline, Flush, vars
    <3> QED BY <3>1, CallsKeep
  <2>4. CASE DestroyPipeline \/ Exit
    BY <2>4, DestroyPipelineKeeps, ExitKeeps
  <2> QED BY <2>1, <2>2, <2>3, <2>4 DEF Next
<1> QED BY <1>1, <1>2 DEF IInv

-----------------------------------------------------------------------------
\* The inductive invariant holds throughout.
THEOREM IInvAlways == Spec => []IInv
<1>1. IInv /\ [Next]_vars => IInv'
  BY IInvNext
<1> QED BY <1>1, IInvInit, PTL DEF Spec

\* Every variable keeps its type.
THEOREM TypeCorrect == Spec => []TypeOK
<1>1. IInv => TypeOK
  BY DEF IInv
<1> QED BY <1>1, IInvAlways, PTL

\* However loadModules ends, and however often it is called, the callbacks in
\* the pipeline are those of living modules of open libraries.
THEOREM CallbacksAlwaysValid == Spec => []CallbacksValid
<1>1. IInv => CallbacksValid
  BY DEF IInv, Rooted, CallbacksValid
<1> QED BY <1>1, IInvAlways, PTL

\* A load that ends well has registered every module and given each of them
\* the modules it requires, whatever the order of the directory.
THEOREM ReadyMeansComplete == Spec => []ReadyComplete
<1>1. IInv => ReadyComplete
  <2> SUFFICES ASSUME IInv, pc = "idle", result = "ready", NEW i \in Listed
               PROVE  Complete(i) /\ i[2] = loads
    BY DEF ReadyComplete, Complete
  <2>1. PICK k \in 1 .. Len(modules) : i = modules[k]
    BY DEF Listed
  <2> QED BY <2>1 DEF IInv, Rounds, ThisLoad
<1> QED BY <1>1, IInvAlways, PTL

\* No callback is registered while some module lacks a dependency.
THEOREM NeverRunsIncomplete == Spec => []NothingRunsIncomplete
<1>1. IInv => NothingRunsIncomplete
  BY DEF IInv, Checked, Satisfied, NothingRunsIncomplete
<1> QED BY <1>1, IInvAlways, PTL

\* An instance whose library is closed is kept by somebody the pipeline does
\* not control, or by another such instance.
THEOREM OrphansAlwaysOwned == Spec => []OrphansOwned
<1>1. IInv => OrphansOwned
  <2> SUFFICES ASSUME IInv, NEW i \in alive \ handlers, i \notin held \union loggers
               PROVE  \E j \in alive \ handlers : <<j, i>> \in deps
    BY DEF OrphansOwned
  <2>1. PICK j \in alive : <<j, i>> \in deps
    BY DEF IInv, Rooted, Owned
  <2>2. j \notin handlers
    BY <2>1 DEF IInv, DepsClosed
  <2> QED BY <2>1, <2>2
<1> QED BY <1>1, IInvAlways, PTL
=============================================================================
