--------------------------- MODULE PipelineProofs ---------------------------
(***************************************************************************)
(* Theorems about Pipeline, for every set of contexts and priorities, any  *)
(* number of registrations and every choice of what the callbacks do.      *)
(***************************************************************************)
EXTENDS Pipeline, FiniteSetTheorems, SequenceTheorems, TLAPS

(***************************************************************************)
(* The insertion of registerCallback.                                      *)
(***************************************************************************)

LEMMA EntryFields == \A x \in Entry : x.prio \in Nat /\ x.id \in Nat
<1>1. \A x \in Entry : x.prio \in Nat
  <2>1. \A x \in Entry : x.prio \in Priority
    BY DEF Entry
  <2>2. Priority \subseteq Nat
    BY DEF Priority
  <2> QED
    BY <2>1, <2>2
<1>2. \A x \in Entry : x.id \in Nat
  BY DEF Entry
<1> QED
  BY <1>1, <1>2

\* The loop of registerCallback walks over an initial stretch of the list:
\* the entries it passes are those up to some index, and only those.
LEMMA PassedIsPrefix ==
  ASSUME NEW list \in Seq(Entry), NEW p \in Priority
  PROVE  /\ Cardinality(Passed(list, p)) \in 0 .. Len(list)
         /\ Passed(list, p) = 1 .. Cardinality(Passed(list, p))
<1> DEFINE P == Passed(list, p)
           k == Cardinality(P)
           n == Len(list)
<1>1. n \in Nat /\ P \in SUBSET (1 .. n)
  BY LenProperties DEF Passed
<1> HIDE DEF P, n
<1>2. IsFiniteSet(1 .. n) /\ Cardinality(1 .. n) = n
  BY <1>1, FS_Interval
<1>3. IsFiniteSet(P) /\ k \in Nat /\ k <= n
  BY <1>1, <1>2, FS_Subset, FS_CardinalityType
<1>4. \A i \in P : 1 .. i \subseteq P
  BY <1>1 DEF P, n, Passed
<1>5. \A i \in P : i <= k
  <2> SUFFICES ASSUME NEW i \in P PROVE i <= k
    OBVIOUS
  <2>1. i \in Nat /\ i >= 1 /\ (1 .. i) \in SUBSET P
    BY <1>1, <1>4
  <2>2. Cardinality(1 .. i) <= k
    BY <2>1, <1>3, FS_Subset
  <2> QED
    BY <2>1, <2>2, FS_Interval
<1>6. P \in SUBSET (1 .. k)
  BY <1>1, <1>3, <1>5
<1>7. IsFiniteSet(1 .. k) /\ Cardinality(1 .. k) = k
  BY <1>3, FS_Interval
<1>8. P = 1 .. k
  BY <1>6, <1>7, FS_Subset
<1> QED
  BY <1>1, <1>3, <1>8 DEF P, k, n

\* What Insert returns: the list it was given, with the entry at an index k+1
\* such that the k entries before it have a higher priority and the entry
\* after it has not.
LEMMA InsertProperties ==
  ASSUME NEW list \in Seq(Entry), NEW e \in Entry
  PROVE  LET k == Cardinality(Passed(list, e.prio)) IN
         /\ Insert(list, e) \in Seq(Entry)
         /\ Len(Insert(list, e)) = Len(list) + 1
         /\ \A i \in 1 .. k : Insert(list, e)[i] = list[i] /\ list[i].prio > e.prio
         /\ Insert(list, e)[k + 1] = e
         /\ \A i \in (k + 2) .. (Len(list) + 1) : Insert(list, e)[i] = list[i - 1]
         /\ k < Len(list) => list[k + 1].prio <= e.prio
         /\ k \in 0 .. Len(list)
<1> DEFINE k == Cardinality(Passed(list, e.prio))
           n == Len(list)
           a == SubSeq(list, 1, k)
           b == SubSeq(list, k + 1, n)
<1>1. e.prio \in Priority
  BY DEF Entry
<1>2. k \in 0 .. n /\ Passed(list, e.prio) = 1 .. k /\ n \in Nat
  BY <1>1, PassedIsPrefix, LenProperties
<1> HIDE DEF k
<1>3. \A i \in 1 .. n : list[i] \in Entry
  BY ElementOfSeq
<1>4. /\ a \in Seq(Entry) /\ Len(a) = k
      /\ \A i \in 1 .. k : a[i] = list[i]
  BY <1>2, <1>3, SubSeqProperties
<1>5. /\ b \in Seq(Entry) /\ Len(b) = n - k
      /\ \A i \in 1 .. n - k : b[i] = list[k + i]
  <2>1. \A i \in (k + 1) .. n : list[i] \in Entry
    BY <1>2, <1>3
  <2>2. /\ b \in Seq(Entry)
        /\ Len(b) = IF k + 1 <= n THEN n - (k + 1) + 1 ELSE 0
        /\ \A i \in 1 .. n - (k + 1) + 1 : b[i] = list[(k + 1) + i - 1]
    BY <1>2, <2>1, SubSeqProperties
  <2> QED
    BY <1>2, <2>2
<1>6. <<e>> \in Seq(Entry) /\ Len(<<e>>) = 1 /\ <<e>>[1] = e
  OBVIOUS
<1>7. Insert(list, e) = a \o <<e>> \o b
  BY DEF Insert, k
<1> HIDE DEF a, b
<1>8. /\ a \o <<e>> \in Seq(Entry) /\ Len(a \o <<e>>) = k + 1
      /\ \A i \in 1 .. k + 1 : (a \o <<e>>)[i] = IF i <= k THEN a[i] ELSE <<e>>[i - k]
  BY <1>4, <1>6, ConcatProperties
<1> DEFINE c == a \o <<e>>
<1>9. n = Len(list)
  OBVIOUS
<1> HIDE DEF c, n
<1>10. /\ Insert(list, e) \in Seq(Entry) /\ Len(Insert(list, e)) = n + 1
       /\ \A i \in 1 .. n + 1 : Insert(list, e)[i] =
             IF i <= k + 1 THEN c[i] ELSE b[i - (k + 1)]
  <2>1. c \in Seq(Entry) /\ Len(c) = k + 1 /\ Insert(list, e) = c \o b
    BY <1>7, <1>8 DEF c
  <2>2. Len(c) + Len(b) = n + 1
    BY <1>2, <1>5, <2>1
  <2>3. /\ c \o b \in Seq(Entry)
        /\ Len(c \o b) = Len(c) + Len(b)
        /\ \A i \in 1 .. Len(c) + Len(b) :
             (c \o b)[i] = IF i <= Len(c) THEN c[i] ELSE b[i - Len(c)]
    BY <1>5, <2>1, ConcatProperties
  <2> QED
    BY <2>1, <2>2, <2>3
<1>11. \A i \in 1 .. k : list[i].prio > e.prio
  <2>1. \A i \in 1 .. k : i \in Passed(list, e.prio)
    BY <1>2
  <2>2. \A i \in Passed(list, e.prio) : i \in 1 .. i /\ list[i].prio > e.prio
    BY <1>2, <1>9 DEF Passed
  <2> QED
    BY <2>1, <2>2
<1>12. \A i \in 1 .. k : Insert(list, e)[i] = list[i]
  BY <1>2, <1>4, <1>8, <1>10 DEF c
<1>13. Insert(list, e)[k + 1] = e
  <2>1. k + 1 \in 1 .. n + 1 /\ k + 1 \in 1 .. k + 1 /\ ~(k + 1 <= k) /\ (k + 1) - k = 1
    BY <1>2
  <2>2. c[k + 1] = <<e>>[1]
    BY <1>8, <2>1 DEF c
  <2> QED
    BY <1>2, <1>6, <1>10, <2>1, <2>2
<1>14. \A i \in (k + 2) .. (n + 1) : Insert(list, e)[i] = list[i - 1]
  <2> SUFFICES ASSUME NEW i \in (k + 2) .. (n + 1)
               PROVE  Insert(list, e)[i] = list[i - 1]
    OBVIOUS
  <2>1. i \in 1 .. n + 1 /\ ~(i <= k + 1) /\ i - (k + 1) \in 1 .. n - k
    BY <1>2
  <2>2. k + (i - (k + 1)) = i - 1
    BY <1>2
  <2> QED
    BY <1>5, <1>10, <2>1, <2>2
<1>15. k < n => list[k + 1].prio <= e.prio
  <2> SUFFICES ASSUME k < n, ~(list[k + 1].prio <= e.prio) PROVE FALSE
    OBVIOUS
  <2>1. k + 1 \in 1 .. n /\ k + 1 \notin Passed(list, e.prio)
    BY <1>2
  <2>2. list[k + 1] \in Entry
    BY <1>3, <2>1, <1>9
  <2>3. list[k + 1].prio \in Nat /\ e.prio \in Nat
    BY <2>2, EntryFields
  <2>4. \A j \in 1 .. k + 1 : list[j].prio > e.prio
    BY <1>2, <1>11, <2>3
  <2> QED
    BY <1>9, <2>1, <2>4 DEF Passed
<1> QED
  BY <1>2, <1>9, <1>10, <1>11, <1>12, <1>13, <1>14, <1>15 DEF k

\* An entry registered after all those of an ordered list leaves it ordered.
LEMMA InsertKeepsOrder ==
  ASSUME NEW list \in Seq(Entry), NEW e \in Entry, Ordered(list),
         \A i \in 1 .. Len(list) : list[i].id < e.id
  PROVE  Ordered(Insert(list, e))
<1> DEFINE k == Cardinality(Passed(list, e.prio))
           n == Len(list)
           new == Insert(list, e)
<1>1. n \in Nat /\ k \in 0 .. n /\ Len(new) = n + 1
  BY InsertProperties, LenProperties
<1>2. /\ \A i \in 1 .. k : new[i] = list[i] /\ list[i].prio > e.prio
      /\ new[k + 1] = e
      /\ \A i \in (k + 2) .. (n + 1) : new[i] = list[i - 1]
      /\ k < n => list[k + 1].prio <= e.prio
  BY InsertProperties
<1>3. \A i, j \in 1 .. n : i < j => Before(list[i], list[j])
  BY DEF Ordered
<1>4. \A x \in Entry : x.prio \in Nat /\ x.id \in Nat
  BY EntryFields
<1>5. \A i \in 1 .. n : list[i] \in Entry /\ list[i].id < e.id
  BY ElementOfSeq
<1> HIDE DEF k, n, new
<1>6. \A i \in (k + 1) .. n : Before(e, list[i])
  <2> SUFFICES ASSUME NEW i \in (k + 1) .. n PROVE Before(e, list[i])
    OBVIOUS
  <2>1. k + 1 \in 1 .. n /\ i \in 1 .. n /\ k < n
    BY <1>1
  <2>2. list[i].prio <= list[k + 1].prio
    <3>1. CASE i = k + 1
      BY <2>1, <3>1, <1>4, <1>5
    <3>2. CASE k + 1 < i
      BY <2>1, <3>2, <1>3, <1>4, <1>5 DEF Before
    <3> QED
      BY <2>1, <3>1, <3>2
  <2> QED
    BY <2>1, <2>2, <1>2, <1>4, <1>5 DEF Before
<1>7. \A i, j \in 1 .. n + 1 : i < j => Before(new[i], new[j])
  <2> SUFFICES ASSUME NEW i \in 1 .. n + 1, NEW j \in 1 .. n + 1, i < j
               PROVE  Before(new[i], new[j])
    OBVIOUS
  <2>1. CASE j <= k
    BY <1>1, <1>2, <1>3, <2>1
  <2>2. CASE j = k + 1
    <3>1. i \in 1 .. k /\ new[i] = list[i] /\ list[i].prio > e.prio /\ new[j] = e
      BY <1>1, <1>2, <2>2
    <3> QED
      BY <3>1 DEF Before
  <2>3. CASE j > k + 1
    <3>1. new[j] = list[j - 1] /\ j - 1 \in (k + 1) .. n
      BY <1>1, <1>2, <2>3
    <3>2. CASE i <= k
      BY <1>1, <1>2, <1>3, <3>1, <3>2
    <3>3. CASE i = k + 1
      BY <1>2, <1>6, <3>1, <3>3
    <3>4. CASE i > k + 1
      <4>1. new[i] = list[i - 1] /\ i - 1 \in 1 .. n /\ i - 1 < j - 1
        BY <1>1, <1>2, <3>4
      <4> QED
        BY <1>1, <1>3, <3>1, <4>1
    <3> QED
      BY <1>1, <3>2, <3>3, <3>4
  <2> QED
    BY <1>1, <2>1, <2>2, <2>3
<1> QED
  BY <1>1, <1>7 DEF Ordered, new

(***************************************************************************)
(* Type correctness and the order of the lists.                            *)
(***************************************************************************)

\* The inductive invariant: ids are ranks of registrations, so that the next
\* entry is younger than every entry of every list.
RanksBelowCount ==
  \A s \in State : \A i \in 1 .. Len(pipeline[s]) : pipeline[s][i].id <= count

ListInv == TypeOK /\ RanksBelowCount /\ ListsOrdered

LEMMA StateFacts ==
  /\ State = 0 .. 7
  /\ \A s \in State : CanAdvance(s) => Advanced(s) \in State /\ Advanced(s) = s + 1 /\ s # Error
  /\ \A s \in State : ~CanAdvance(s) <=> s = Error \/ s = Completed
  /\ Error \in State /\ Completed \in State
BY DEF State, CanAdvance, Advanced, FinalStates, Error, BeforeParse, Completed,
       StateCount

LEMMA ListInit == Init => ListInv
<1> SUFFICES ASSUME Init PROVE ListInv
  OBVIOUS
<1>1. \A s \in State : pipeline[s] = <<>> /\ <<>> \in Seq(Entry) /\ Len(<<>>) = 0
  BY EmptySeq DEF Init
<1>2. TypeOK
  <2>1. pipeline \in [State -> Seq(Entry)]
    BY <1>1 DEF Init
  <2>2. state \in [Contexts -> State]
    BY PipelineAssumption DEF Init
  <2>3. bound \in [Contexts -> State]
    BY <2>2 DEF Init
  <2>4. seen \in [Contexts -> SUBSET State] /\ pos \in [Contexts -> Nat \ {0}]
    BY DEF Init
  <2>5. /\ loaded \in BOOLEAN /\ count \in Nat
        /\ pc \in [Contexts -> PCs]
    BY DEF Init, PCs
  <2> QED
    BY <2>1, <2>2, <2>3, <2>4, <2>5 DEF TypeOK
<1>3. RanksBelowCount /\ ListsOrdered
  BY <1>1 DEF RanksBelowCount, ListsOrdered, Ordered
<1> QED
  BY <1>2, <1>3 DEF ListInv

\* Loading is the only part of Pipeline that touches the lists.
LEMMA RegisterKeepsLists ==
  ASSUME ListInv, NEW s \in RegStates, NEW p \in Priorities, RegisterCallback(s, p)
  PROVE  ListInv'
<1> DEFINE e == [prio |-> p, id |-> count + 1]
           list == pipeline[s]
<1>1. s \in State /\ p \in Priority /\ count \in Nat /\ list \in Seq(Entry)
  BY PipelineAssumption DEF ListInv, TypeOK
<1>2. e \in Entry
  BY <1>1 DEF Entry
<1>3. /\ pipeline' = [pipeline EXCEPT ![s] = Insert(list, e)]
      /\ count' = count + 1
      /\ UNCHANGED <<loaded, pc, state, bound, pos, seen>>
  BY DEF RegisterCallback, running
<1>4. \A i \in 1 .. Len(list) : list[i].id <= count
  BY <1>1 DEF ListInv, RanksBelowCount
<1>5. e.id = count + 1 /\ \A i \in 1 .. Len(list) : list[i].id \in Nat
  <2>1. \A i \in 1 .. Len(list) : list[i] \in Entry
    BY <1>1, ElementOfSeq
  <2> QED
    BY <2>1, EntryFields
<1>6. Insert(list, e) \in Seq(Entry) /\ Ordered(Insert(list, e))
  <2>1. \A i \in 1 .. Len(list) : list[i].id < e.id
    BY <1>1, <1>4, <1>5
  <2>2. Ordered(list)
    BY <1>1 DEF ListInv, ListsOrdered
  <2> HIDE DEF e, list
  <2> QED
    BY <1>1, <1>2, <2>1, <2>2, InsertKeepsOrder, InsertProperties
<1>7. \A i \in 1 .. Len(Insert(list, e)) : Insert(list, e)[i].id <= count + 1
  <2> DEFINE k == Cardinality(Passed(list, e.prio))
  <2> HIDE DEF e, list
  <2>1. /\ Len(Insert(list, e)) = Len(list) + 1 /\ k \in 0 .. Len(list)
        /\ \A i \in 1 .. k : Insert(list, e)[i] = list[i]
        /\ Insert(list, e)[k + 1] = e
        /\ \A i \in (k + 2) .. (Len(list) + 1) : Insert(list, e)[i] = list[i - 1]
        /\ Len(list) \in Nat
    BY <1>1, <1>2, InsertProperties, LenProperties
  <2> HIDE DEF k
  <2> SUFFICES ASSUME NEW i \in 1 .. Len(list) + 1
               PROVE  Insert(list, e)[i].id <= count + 1
    BY <2>1
  <2>2. CASE i <= k
    BY <1>1, <1>4, <1>5, <2>1, <2>2
  <2>3. CASE i = k + 1
    BY <1>1, <1>5, <2>1, <2>3
  <2>4. CASE i > k + 1
    <3>1. i - 1 \in 1 .. Len(list) /\ Insert(list, e)[i] = list[i - 1]
      BY <2>1, <2>4
    <3> QED
      BY <1>1, <1>4, <1>5, <3>1
  <2> QED
    BY <2>1, <2>2, <2>3, <2>4
<1>8. \A t \in State : pipeline'[t] = IF t = s THEN Insert(list, e) ELSE pipeline[t]
  BY <1>1, <1>3 DEF ListInv, TypeOK
<1> HIDE DEF e, list
<1>9. TypeOK'
  <2>1. pipeline' \in [State -> Seq(Entry)]
    BY <1>1, <1>3, <1>6 DEF ListInv, TypeOK
  <2> QED
    BY <1>1, <1>3, <2>1 DEF ListInv, TypeOK
<1>10. RanksBelowCount'
  <2> SUFFICES ASSUME NEW t \in State, NEW i \in 1 .. Len(pipeline'[t])
               PROVE  pipeline'[t][i].id <= count'
    BY DEF RanksBelowCount
  <2>1. CASE t = s
    BY <1>3, <1>7, <1>8, <2>1
  <2>2. CASE t # s
    <3>1. pipeline[t] \in Seq(Entry) /\ i \in 1 .. Len(pipeline[t])
      BY <1>8, <2>2 DEF ListInv, TypeOK
    <3>2. pipeline[t][i].id \in Nat /\ pipeline[t][i].id <= count
      BY <3>1, ElementOfSeq, EntryFields DEF ListInv, RanksBelowCount
    <3> QED
      BY <1>1, <1>3, <1>8, <2>2, <3>2
  <2> QED
    BY <2>1, <2>2
<1>11. ListsOrdered'
  BY <1>6, <1>8 DEF ListInv, ListsOrdered
<1> QED
  BY <1>9, <1>10, <1>11 DEF ListInv

\* A context's own actions leave the lists alone and keep its state typed.
LEMMA RunStepKeepsLists ==
  ASSUME ListInv, NEW c \in Contexts, Step(c)
  PROVE  ListInv'
<1>1. UNCHANGED <<loaded, count, pipeline>>
  BY DEF Step, runPipeline, Invoke, Advance, LeaveLoop, Return, Stop, loading
<1>2. /\ state[c] \in State /\ bound[c] \in State /\ pos[c] \in Nat \ {0}
      /\ pipeline[bound[c]] \in Seq(Entry)
  BY DEF ListInv, TypeOK
<1>3. TypeOK'
  <2> DEFINE RunTypes == /\ pc \in [Contexts -> PCs] /\ state \in [Contexts -> State]
                         /\ bound \in [Contexts -> State]
                         /\ pos \in [Contexts -> Nat \ {0}]
                         /\ seen \in [Contexts -> SUBSET State]
  <2> SUFFICES RunTypes'
    BY <1>1 DEF ListInv, TypeOK
  <2>1. RunTypes
    BY DEF ListInv, TypeOK
  <2>2. CASE runPipeline(c)
    BY <1>2, <2>1, <2>2 DEF runPipeline, Trigger, PCs
  <2>3. CASE Invoke(c)
    <3>1. PICK t \in {state[c]} \union {u \in State : <<bound[c], u>> \in Jump} :
            state' = [state EXCEPT ![c] = t]
      BY <2>3 DEF Invoke
    <3>2. PICK continue \in BOOLEAN :
            pos' = [pos EXCEPT ![c] = IF continue THEN @ + 1
                                      ELSE Len(pipeline[bound[c]]) + 1]
      BY <2>3 DEF Invoke
    <3>3. Len(pipeline[bound[c]]) \in Nat
      BY <1>2, LenProperties
    <3>4. state' \in [Contexts -> State]
      BY <1>2, <2>1, <3>1
    <3>5. pos' \in [Contexts -> Nat \ {0}]
      BY <1>2, <2>1, <3>2, <3>3
    <3> QED
      BY <2>1, <2>3, <3>4, <3>5 DEF Invoke
  <2>4. CASE Advance(c)
    <3>1. Advanced(state[c]) \in State
      BY <1>2, <2>4, StateFacts DEF Advance
    <3> QED
      BY <1>2, <2>1, <2>4, <3>1 DEF Advance, Trigger, PCs
  <2>5. CASE LeaveLoop(c)
    <3>1. CASE hasError(state[c])
      <4>1. Trigger(c, state[c], "error") /\ UNCHANGED state
        BY <2>5, <3>1 DEF LeaveLoop
      <4> QED
        BY <1>2, <2>1, <4>1 DEF Trigger, PCs
    <3>2. CASE ~hasError(state[c])
      <4>1. Stop(c)
        BY <2>5, <3>2 DEF LeaveLoop
      <4> QED
        BY <2>1, <4>1 DEF Stop, PCs
    <3> QED
      BY <3>1, <3>2
  <2>6. CASE Return(c)
    BY <2>1, <2>6 DEF Return, Stop, PCs
  <2> QED
    BY <2>2, <2>3, <2>4, <2>5, <2>6 DEF Step
<1>4. RanksBelowCount' /\ ListsOrdered'
  BY <1>1 DEF ListInv, RanksBelowCount, ListsOrdered
<1> QED
  BY <1>3, <1>4 DEF ListInv

LEMMA ListStep == ListInv /\ [Next]_vars => ListInv'
<1> SUFFICES ASSUME ListInv, [Next]_vars PROVE ListInv'
  OBVIOUS
<1>1. CASE \E s \in RegStates, p \in Priorities : RegisterCallback(s, p)
  BY <1>1, RegisterKeepsLists
<1>2. CASE FinishLoading
  BY <1>2 DEF FinishLoading, running, ListInv, TypeOK, RanksBelowCount, ListsOrdered
<1>3. CASE \E c \in Contexts : Step(c)
  BY <1>3, RunStepKeepsLists
<1>4. CASE UNCHANGED vars
  BY <1>4 DEF vars, loading, running, ListInv, TypeOK, RanksBelowCount, ListsOrdered
<1> QED
  BY <1>1, <1>2, <1>3, <1>4 DEF Next

\* Every reachable state is well typed.
THEOREM TypeCorrect == Spec => []TypeOK
<1>1. ListInv => TypeOK
  BY DEF ListInv
<1> QED
  BY <1>1, ListInit, ListStep, PTL DEF Spec

\* Any number of registrations, of any priorities, for any states, in any
\* order, leave every list ordered by priority and then by recency.
THEOREM ListsAlwaysOrdered == Spec => []ListsOrdered
<1>1. ListInv => ListsOrdered
  BY DEF ListInv
<1> QED
  BY <1>1, ListInit, ListStep, PTL DEF Spec

(***************************************************************************)
(* The outcome of a run, and the contract of the documentation.            *)
(***************************************************************************)

\* Where a run stands says which lists it can have triggered: inside the loop
\* the Error list has not been, and the context is either in error or not
\* behind the state being processed.
RunInvOf(c) ==
  /\ pc[c] = "idle" => seen[c] = {} /\ bound[c] = state[c] /\ state[c] # Error
  /\ pc[c] = "trigger" =>
       /\ bound[c] # Error /\ Error \notin seen[c]
       /\ state[c] = Error \/ state[c] >= bound[c]
  /\ pc[c] = "error" => bound[c] = Error /\ state[c] = Error /\ Error \in seen[c]
  /\ pc[c] = "done" => \/ state[c] = Error /\ Error \in seen[c]
                       \/ state[c] = Completed /\ Error \notin seen[c]

RunInv == \A c \in Contexts : RunInvOf(c)

LEMMA RunInit == Init => RunInv
<1> SUFFICES ASSUME Init, NEW c \in Contexts PROVE RunInvOf(c)
  BY DEF RunInv
<1>1. state[c] \in StartStates
  BY DEF Init
<1>2. pc[c] = "idle" /\ seen[c] = {} /\ bound[c] = state[c] /\ state[c] # Error
  BY <1>1, PipelineAssumption DEF Init
<1> QED
  BY <1>2 DEF RunInvOf

\* What the invariant says of the context that takes a step.
LEMMA OwnStep ==
  ASSUME TypeOK, NEW c \in Contexts, RunInvOf(c), Step(c)
  PROVE  RunInvOf(c)'
<1>1. state[c] \in State /\ bound[c] \in State /\ seen[c] \in SUBSET State
  BY DEF TypeOK
<1>2. Error = 0 /\ Completed = 7 /\ State = 0 .. 7
  BY DEF Error, Completed, State
<1>3. CASE runPipeline(c)
  <2>1. /\ pc'[c] = "trigger" /\ bound'[c] = state[c] /\ state'[c] = state[c]
        /\ seen'[c] = seen[c] \union {state[c]} /\ pc[c] = "idle"
    BY <1>3 DEF runPipeline, Trigger, TypeOK
  <2> QED
    BY <1>1, <1>2, <2>1 DEF RunInvOf
<1>4. CASE Invoke(c)
  <2>1. PICK t \in {state[c]} \union {u \in State : <<bound[c], u>> \in Jump} :
          state' = [state EXCEPT ![c] = t]
    BY <1>4 DEF Invoke
  <2>2. /\ state'[c] = t /\ pc'[c] = pc[c] /\ bound'[c] = bound[c]
        /\ seen'[c] = seen[c] /\ pc[c] \in {"trigger", "error"}
    BY <1>4, <2>1 DEF Invoke, TypeOK
  <2>3. t = state[c] \/ (t \in State /\ (t = Error \/ t >= bound[c])
                                     /\ (bound[c] = Error => t = Error))
    BY <1>1, <2>1, ForwardJumps
  <2> QED
    BY <1>1, <1>2, <2>2, <2>3 DEF RunInvOf
<1>5. CASE Advance(c)
  <2>1. /\ pc[c] = "trigger" /\ pc'[c] = "trigger"
        /\ state[c] # Error /\ state'[c] = state[c] + 1
        /\ bound'[c] = state[c] + 1 /\ seen'[c] = seen[c] \union {state[c] + 1}
    BY <1>1, <1>5, StateFacts DEF Advance, Trigger, TypeOK
  <2> QED
    BY <1>1, <1>2, <2>1 DEF RunInvOf
<1>6. CASE LeaveLoop(c)
  <2>1. /\ pc[c] = "trigger" /\ state'[c] = state[c]
        /\ state[c] = Error \/ state[c] = Completed
    BY <1>1, <1>6, StateFacts DEF LeaveLoop, Stop
  <2>2. CASE state[c] = Error
    <3>1. pc'[c] = "error" /\ bound'[c] = Error /\ Error \in seen'[c]
      BY <1>6, <2>2 DEF LeaveLoop, Trigger, hasError, TypeOK
    <3> QED
      BY <2>1, <2>2, <3>1 DEF RunInvOf
  <2>3. CASE state[c] = Completed
    <3>1. pc'[c] = "done" /\ seen'[c] = seen[c]
      BY <1>2, <1>6, <2>3 DEF LeaveLoop, Stop, hasError, TypeOK
    <3> QED
      BY <2>1, <2>3, <3>1 DEF RunInvOf
  <2> QED
    BY <2>1, <2>2, <2>3
<1>7. CASE Return(c)
  <2>1. pc[c] = "error" /\ pc'[c] = "done" /\ state'[c] = state[c] /\ seen'[c] = seen[c]
    BY <1>7 DEF Return, Stop, TypeOK
  <2> QED
    BY <2>1 DEF RunInvOf
<1> QED
  BY <1>3, <1>4, <1>5, <1>6, <1>7 DEF Step

\* A step of one context leaves every other context where it was.
LEMMA OthersUntouched ==
  ASSUME TypeOK, NEW c \in Contexts, Step(c), NEW d \in Contexts, d # c
  PROVE  /\ pc'[d] = pc[d] /\ state'[d] = state[d] /\ bound'[d] = bound[d]
         /\ seen'[d] = seen[d]
BY DEF TypeOK, Step, runPipeline, Invoke, Advance, LeaveLoop, Return, Trigger, Stop

LEMMA RunStep == TypeOK /\ RunInv /\ [Next]_vars => RunInv'
<1> SUFFICES ASSUME TypeOK, RunInv, [Next]_vars, NEW d \in Contexts
             PROVE  RunInvOf(d)'
  BY DEF RunInv
<1>1. RunInvOf(d)
  BY DEF RunInv
<1>2. CASE \E s \in RegStates, p \in Priorities : RegisterCallback(s, p)
  BY <1>1, <1>2 DEF RegisterCallback, running, RunInvOf
<1>3. CASE FinishLoading
  BY <1>1, <1>3 DEF FinishLoading, running, RunInvOf
<1>4. ASSUME NEW c \in Contexts, Step(c) PROVE RunInvOf(d)'
  <2>1. CASE c = d
    BY <1>1, <1>4, <2>1, OwnStep
  <2>2. CASE c # d
    <3>1. /\ pc'[d] = pc[d] /\ state'[d] = state[d] /\ bound'[d] = bound[d]
          /\ seen'[d] = seen[d]
      BY <1>4, <2>2, OthersUntouched
    <3> QED
      BY <1>1, <3>1 DEF RunInvOf
  <2> QED
    BY <2>1, <2>2
<1>5. CASE UNCHANGED vars
  BY <1>1, <1>5 DEF vars, running, RunInvOf
<1> QED
  BY <1>2, <1>3, <1>4, <1>5 DEF Next

\* Every run that ends has ended completed or in error, with the Error list
\* triggered exactly in the latter case.
THEOREM OutcomeAlwaysSound == Spec => []OutcomeSound
<1>1. TypeOK /\ RunInv => OutcomeSound
  <2> SUFFICES ASSUME RunInv, NEW c \in Contexts, pc[c] = "done"
               PROVE  /\ isCompleted(state[c]) \/ hasError(state[c])
                      /\ hasError(state[c]) <=> Error \in seen[c]
    BY DEF OutcomeSound
  <2>1. RunInvOf(c) /\ Error # Completed
    BY DEF RunInv, Error, Completed
  <2> QED
    BY <2>1 DEF RunInvOf, isCompleted, hasError
<1> QED
  BY <1>1, RunInit, RunStep, TypeCorrect, PTL DEF Spec

\* The refinement mapping of Pipeline, as it is used below.
phaseOf == [c \in Contexts |-> IF pc[c] = "error" THEN "trigger" ELSE pc[c]]
stageOf == [c \in Contexts |-> IF pc[c] = "done" THEN state[c] ELSE bound[c]]

LEMMA ContractInit == Init => Contract!Init
<1> SUFFICES ASSUME Init PROVE Contract!Init
  OBVIOUS
<1>1. \A c \in Contexts : pc[c] = "idle" /\ bound[c] \in StartStates
  BY DEF Init
<1>2. phaseOf = [c \in Contexts |-> "idle"] /\ stageOf \in [Contexts -> StartStates]
  BY <1>1 DEF phaseOf, stageOf
<1> QED
  BY <1>2 DEF Contract!Init, phaseOf, stageOf

\* Every step of a thread is a step of the contract or invisible to it.
LEMMA ContractStep ==
  ASSUME TypeOK, NEW c \in Contexts, RunInvOf(c), Step(c)
  PROVE  [Contract!Next]_(Contract!cvars)
<1>1. state[c] \in State /\ bound[c] \in State
  BY DEF TypeOK
<1>2. Error = 0 /\ Completed = 7 /\ State = 0 .. 7
  BY DEF Error, Completed, State
<1>3. \A d \in Contexts : d # c =>
        pc'[d] = pc[d] /\ state'[d] = state[d] /\ bound'[d] = bound[d]
  BY OthersUntouched
<1>4. \A v, w : /\ v = (IF pc'[c] = "error" THEN "trigger" ELSE pc'[c])
                /\ w = (IF pc'[c] = "done" THEN state'[c] ELSE bound'[c])
                => /\ phaseOf' = [phaseOf EXCEPT ![c] = v]
                   /\ stageOf' = [stageOf EXCEPT ![c] = w]
  BY <1>3 DEF phaseOf, stageOf
<1>5. /\ phaseOf[c] = (IF pc[c] = "error" THEN "trigger" ELSE pc[c])
      /\ stageOf[c] = (IF pc[c] = "done" THEN state[c] ELSE bound[c])
  BY DEF phaseOf, stageOf
<1>6. /\ phaseOf = [phaseOf EXCEPT ![c] = phaseOf[c]]
      /\ stageOf = [stageOf EXCEPT ![c] = stageOf[c]]
  BY DEF phaseOf, stageOf
<1>7. ASSUME phaseOf[c] = "trigger", stageOf[c] # Error, phaseOf' = phaseOf,
             \E s \in State : /\ s = Error \/ s > stageOf[c]
                              /\ stageOf' = [stageOf EXCEPT ![c] = s]
      PROVE  Contract!Proceed(c)
  BY <1>7 DEF Contract!Proceed, Contract!State, Contract!Error, Contract!Completed,
              State, Error, Completed, phaseOf, stageOf
<1>8. ASSUME phaseOf[c] = "trigger", phaseOf' = [phaseOf EXCEPT ![c] = "done"],
             \E s \in {Error, Completed} : /\ (s = Error) <=> (stageOf[c] = Error)
                                           /\ stageOf' = [stageOf EXCEPT ![c] = s]
      PROVE  Contract!End(c)
  BY <1>8 DEF Contract!End, Contract!Error, Contract!Completed, Error, Completed,
              phaseOf, stageOf
<1> USE DEF Contract!Next, Contract!cvars
<1>9. CASE runPipeline(c)
  <2>1. /\ pc[c] = "idle" /\ pc'[c] = "trigger" /\ bound'[c] = state[c]
    BY <1>9 DEF runPipeline, Trigger, TypeOK
  <2>2. bound[c] = state[c]
    BY <2>1 DEF RunInvOf
  <2>3. /\ phaseOf[c] = "idle" /\ phaseOf' = [phaseOf EXCEPT ![c] = "trigger"]
        /\ stageOf' = stageOf
    BY <1>4, <1>5, <1>6, <2>1, <2>2
  <2>4. Contract!Begin(c)
    BY <2>3 DEF Contract!Begin, phaseOf, stageOf
  <2> QED
    BY <2>4
<1>10. CASE Invoke(c)
  <2>1. pc' = pc /\ bound' = bound /\ pc[c] \in {"trigger", "error"}
    BY <1>10 DEF Invoke
  <2>2. phaseOf' = phaseOf /\ stageOf' = stageOf
    BY <1>4, <1>5, <1>6, <2>1
  <2> QED
    BY <2>2 DEF phaseOf, stageOf
<1>11. CASE Advance(c)
  <2>1. /\ pc[c] = "trigger" /\ pc'[c] = "trigger" /\ state[c] # Error
        /\ bound'[c] = state[c] + 1 /\ bound'[c] \in State
    BY <1>1, <1>11, StateFacts DEF Advance, Trigger, TypeOK
  <2>2. bound[c] # Error /\ state[c] + 1 > bound[c]
    BY <1>1, <1>2, <2>1 DEF RunInvOf
  <2>3. /\ phaseOf[c] = "trigger" /\ phaseOf' = phaseOf
        /\ stageOf[c] = bound[c] /\ stageOf' = [stageOf EXCEPT ![c] = bound'[c]]
    BY <1>4, <1>5, <1>6, <2>1
  <2>4. Contract!Proceed(c)
    BY <1>7, <2>1, <2>2, <2>3
  <2> QED
    BY <2>4
<1>12. CASE LeaveLoop(c) /\ hasError(state[c])
  <2>1. pc[c] = "trigger" /\ pc'[c] = "error" /\ bound'[c] = Error
    BY <1>12 DEF LeaveLoop, Trigger, hasError, TypeOK
  <2>2. bound[c] # Error
    BY <2>1 DEF RunInvOf
  <2>3. /\ phaseOf[c] = "trigger" /\ phaseOf' = phaseOf
        /\ stageOf[c] = bound[c] /\ stageOf' = [stageOf EXCEPT ![c] = Error]
    BY <1>4, <1>5, <1>6, <2>1
  <2>4. Contract!Proceed(c)
    BY <1>2, <1>7, <2>2, <2>3
  <2> QED
    BY <2>4
<1>13. CASE (LeaveLoop(c) /\ ~hasError(state[c])) \/ Return(c)
  <2>1. /\ pc[c] \in {"trigger", "error"} /\ pc'[c] = "done" /\ state'[c] = state[c]
    BY <1>13 DEF LeaveLoop, Return, Stop, TypeOK
  <2>2. state[c] \in {Error, Completed} /\ (state[c] = Error <=> bound[c] = Error)
    <3>1. CASE LeaveLoop(c) /\ ~hasError(state[c])
      BY <1>1, <1>2, <3>1, StateFacts DEF LeaveLoop, hasError, RunInvOf
    <3>2. CASE Return(c)
      BY <3>2 DEF Return, RunInvOf
    <3> QED
      BY <1>13, <3>1, <3>2
  <2>3. /\ phaseOf[c] = "trigger" /\ phaseOf' = [phaseOf EXCEPT ![c] = "done"]
        /\ stageOf[c] = bound[c] /\ stageOf' = [stageOf EXCEPT ![c] = state[c]]
    BY <1>4, <1>5, <2>1
  <2>4. Contract!End(c)
    BY <1>8, <2>2, <2>3
  <2> QED
    BY <2>4
<1> QED
  BY <1>9, <1>10, <1>11, <1>12, <1>13 DEF Step

\* Every behaviour of the pipeline is one the documentation describes: states
\* in order, none twice, an error final, an end completed or in error.
THEOREM PipelineImplementsContract == Spec => ImplementsContract
<1>1. TypeOK /\ RunInv /\ [Next]_vars => [Contract!Next]_(Contract!cvars)
  <2> SUFFICES ASSUME TypeOK, RunInv, [Next]_vars
               PROVE  [Contract!Next]_(Contract!cvars)
    OBVIOUS
  <2>1. CASE \E c \in Contexts : Step(c)
    BY <2>1, ContractStep DEF RunInv
  <2>2. CASE UNCHANGED running
    BY <2>2 DEF running, Contract!cvars
  <2> QED
    BY <2>1, <2>2 DEF Next, RegisterCallback, FinishLoading, vars
<1> QED
  BY <1>1, ContractInit, RunInit, RunStep, TypeCorrect, PTL
     DEF Spec, ImplementsContract, Contract!Spec

\* Once the callbacks of a state have left a context in error, the next list
\* triggered on it is the Error list.
THEOREM ErrorAlwaysStops == Spec => ErrorStopsProcessing
<1>1. TypeOK /\ [Next]_vars =>
        [\A c \in Contexts :
           hasError(state[c]) /\ bound'[c] # bound[c] => bound'[c] = Error]_vars
  <2> SUFFICES ASSUME TypeOK, [Next]_vars, NEW c \in Contexts,
                      hasError(state[c]), bound'[c] # bound[c]
               PROVE  bound'[c] = Error
    OBVIOUS
  <2>1. bound' # bound
    OBVIOUS
  <2>2. PICK d \in Contexts : Step(d)
    BY <2>1 DEF Next, RegisterCallback, FinishLoading, vars, running
  <2>3. d = c
    BY <2>2, OthersUntouched
  <2>4. state[c] \in State /\ state[c] = Error /\ ~CanAdvance(state[c])
    BY StateFacts DEF TypeOK, hasError
  <2>5. CASE runPipeline(c)
    BY <2>4, <2>5 DEF runPipeline, Trigger, TypeOK
  <2>6. CASE LeaveLoop(c)
    BY <2>1, <2>4, <2>6 DEF LeaveLoop, Trigger, Stop, TypeOK
  <2> QED
    BY <2>1, <2>2, <2>3, <2>4, <2>5, <2>6 DEF Step, Invoke, Advance, Return, Stop
<1> QED
  BY <1>1, TypeCorrect, PTL DEF Spec, ErrorStopsProcessing
=============================================================================
