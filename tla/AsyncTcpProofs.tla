-------------------------- MODULE AsyncTcpProofs ---------------------------
(***************************************************************************)
(* Theorems about AsyncTcp.                                                *)
(***************************************************************************)
EXTENDS AsyncTcp, SequenceTheorems, FiniteSetTheorems, WellFoundedInduction, TLAPS

\* What the argument needs to know of the client's memory.  One thread at a time
\* is inside sendMessage, or they have met; and what a thread is about to write
\* or has just written is still in the queue.
Memory ==
  /\ pc \in [Threads -> UserPCs \union IoPCs]
  /\ text \in [Threads -> Seq(Chars)]
  /\ clash \in BOOLEAN
  /\ next \in Nat \ {0}
  /\ ~clash => /\ queue \in Seq(Seq(Chars))
               /\ accepted \in Seq(Seq(Chars))
               /\ written \in Seq(Seq(Chars))

OneSender ==
  ~clash => \A t \in Threads : pc[t] \in Sending => pc[Other(t)] \notin Sending

HeadKept == ~clash => \A t \in Threads : pc[t] \in {"write", "pop"} => queue # <<>>

QueueInv == Memory /\ OneSender /\ HeadKept /\ WrittenInOrder

\* The steps that leave the queue, its histories and the threads inside
\* sendMessage alone.
Quiet ==
  /\ UNCHANGED <<next, queue, text, accepted, written, clash>>
  /\ pc' \in [Threads -> UserPCs \union IoPCs]
  /\ \A t \in Threads : (pc[t] \in Sending \/ pc'[t] \in Sending) => pc'[t] = pc[t]

\* Facts about sequences: what is taken off the front of a queue and put
\* behind what was written, and what is put behind a queue.
LEMMA HeadMoves ==
  ASSUME NEW S, NEW q \in Seq(S), NEW r \in Seq(S), q # <<>>
  PROVE  /\ Append(r, Head(q)) \in Seq(S)
         /\ Tail(q) \in Seq(S)
         /\ r \o q = Append(r, Head(q)) \o Tail(q)
OBVIOUS

LEMMA AppendBehind ==
  ASSUME NEW S, NEW q \in Seq(S), NEW r \in Seq(S), NEW e \in S
  PROVE  Append(r \o q, e) = r \o Append(q, e)
OBVIOUS

Associates(S) == \A x, y, z \in Seq(S) : (x \o y) \o z = x \o (y \o z)

LEMMA Associative == ASSUME NEW S PROVE Associates(S)
BY ConcatAssociative DEF Associates

LEMMA ThreadsDiffer ==
  /\ User # Io
  /\ \A t \in Threads : Other(t) \in Threads /\ Other(t) # t /\ Other(Other(t)) = t
  /\ \A t, u \in Threads : u = t \/ u = Other(t)
BY ClientAssumption DEF ClientAssumption, Threads, Other

LEMMA QuietKeeps ==
  ASSUME QueueInv, Quiet
  PROVE  QueueInv'
<1>1. Memory'
  BY DEF QueueInv, Memory, Quiet
<1>2. OneSender'
  BY ThreadsDiffer DEF QueueInv, OneSender, Quiet
<1>3. HeadKept'
  BY DEF QueueInv, HeadKept, Quiet, Sending
<1>4. (\E t \in Threads : pc[t] = "pop") <=> (\E t \in Threads : pc'[t] = "pop")
  BY DEF Quiet, Sending
<1>5. WrittenInOrder'
  BY <1>4 DEF QueueInv, WrittenInOrder, Waiting, Quiet
<1> QED
  BY <1>1, <1>2, <1>3, <1>5 DEF QueueInv

-----------------------------------------------------------------------------
\* sendMessage

LEMMA EnterKeeps ==
  ASSUME QueueInv, NEW t \in Threads, NEW what \in Seq(Chars),
         pc[t] \notin Sending, Enter(t, what), UNCHANGED <<queue, accepted, written>>,
         next' \in Nat \ {0}
  PROVE  QueueInv'
<1>1. Back(t) \in (UserPCs \union IoPCs) \ Sending /\ "empty" \in UserPCs
  BY DEF Back, UserPCs, IoPCs, Sending
<1>2. CASE ~connected
  <2>1. pc' = [pc EXCEPT ![t] = Back(t)] /\ clash' = clash
        /\ text' = [text EXCEPT ![t] = what]
    BY <1>2 DEF Enter, Goto
  <2>2. Memory'
    BY <2>1, <1>1 DEF QueueInv, Memory
  <2>3. \A u \in Threads : pc'[u] \in Sending \/ pc[u] \in Sending => pc'[u] = pc[u]
    BY <2>1, <1>1 DEF QueueInv, Memory
  <2>4. OneSender' /\ HeadKept'
    BY <2>1, <2>3, ThreadsDiffer DEF QueueInv, OneSender, HeadKept, Sending
  <2>5. (\E u \in Threads : pc[u] = "pop") <=> (\E u \in Threads : pc'[u] = "pop")
    BY <2>3 DEF Sending
  <2> QED
    BY <2>1, <2>2, <2>4, <2>5 DEF QueueInv, WrittenInOrder, Waiting
<1>3. CASE connected
  <2>1. pc' = [pc EXCEPT ![t] = "empty"] /\ clash' = (clash \/ pc[Other(t)] \in Sending)
        /\ text' = [text EXCEPT ![t] = what]
    BY <1>3 DEF Enter, Goto
  <2>2. Memory'
    BY <2>1, <1>1 DEF QueueInv, Memory
  <2>3. \A u \in Threads : u # t => pc'[u] = pc[u]
    BY <2>1 DEF QueueInv, Memory
  <2>4. pc'[t] = "empty"
    BY <2>1 DEF QueueInv, Memory
  <2>5. OneSender'
    BY <2>1, <2>3, <2>4, ThreadsDiffer DEF QueueInv, OneSender
  <2>6. HeadKept'
    BY <2>1, <2>3, <2>4 DEF QueueInv, HeadKept
  <2>7. (\E u \in Threads : pc[u] = "pop") <=> (\E u \in Threads : pc'[u] = "pop")
    BY <2>3, <2>4 DEF Sending
  <2> QED
    BY <2>1, <2>2, <2>5, <2>6, <2>7 DEF QueueInv, WrittenInOrder, Waiting
<1> QED
  BY <1>2, <1>3

LEMMA SendStepKeeps ==
  ASSUME QueueInv, NEW t \in Threads, SendStep(t)
  PROVE  QueueInv'
<1> USE DEF QueueInv
<1>1. ASSUME clash
      PROVE  OneSender' /\ HeadKept' /\ WrittenInOrder'
  BY <1>1 DEF SendStep, TestEmpty, Push, WriteSome, WriteThrows, Pop, Gone, past, client,
     OneSender, HeadKept, WrittenInOrder
<1>2. pc[t] \in Sending
  BY DEF SendStep, TestEmpty, Push, WriteSome, WriteThrows, Pop, Sending
<1>3. Back(t) \in (UserPCs \union IoPCs) \ Sending
  BY DEF Back, UserPCs, IoPCs, Sending
<1>4. CASE TestEmpty(t)
  <2>1. pc' = [pc EXCEPT ![t] = "push"] /\ UNCHANGED <<next, queue, text, accepted, written, clash>>
    BY <1>4 DEF TestEmpty, Goto, past
  <2>2. Memory'
    BY <2>1 DEF Memory, UserPCs, Sending
  <2>3. ASSUME ~clash PROVE OneSender' /\ HeadKept' /\ WrittenInOrder'
    <3>1. (\E u \in Threads : pc[u] = "pop") <=> (\E u \in Threads : pc'[u] = "pop")
      BY <2>1, <1>4 DEF Memory, TestEmpty
    <3> QED
      BY <2>1, <2>3, <1>2, <3>1, ThreadsDiffer DEF Memory, OneSender, HeadKept, WrittenInOrder,
         Waiting, Sending
  <2> QED
    BY <1>1, <2>2, <2>3
<1>5. CASE Push(t)
  <2>1. /\ queue' = Append(queue, text[t]) /\ accepted' = Append(accepted, text[t])
        /\ pc' = [pc EXCEPT ![t] = IF busy[t] THEN Back(t) ELSE "write"]
        /\ pc[t] = "push"
        /\ UNCHANGED <<next, text, written, clash>>
    BY <1>5 DEF Push, Goto
  <2>2. Memory'
    BY <2>1, <1>3 DEF Memory, UserPCs, Sending
  <2>3. ASSUME ~clash PROVE OneSender' /\ HeadKept' /\ WrittenInOrder'
    <3>1. pc[Other(t)] \notin Sending /\ pc'[Other(t)] = pc[Other(t)]
      BY <1>2, <2>1, <2>3, ThreadsDiffer DEF OneSender, Memory
    <3>2. \A u \in Threads : pc[u] # "pop" /\ pc'[u] # "pop"
      BY <3>1, <2>1, <1>3, ThreadsDiffer DEF Memory, Sending
    <3>3. Waiting = queue /\ Waiting' = Append(queue, text[t])
      BY <3>2, <2>1 DEF Waiting
    <3>4. accepted = written \o queue
      BY <3>3, <2>3 DEF WrittenInOrder
    <3>5. WrittenInOrder'
      <4> DEFINE T == Seq(Chars)
      <4>1. queue \in Seq(T) /\ written \in Seq(T) /\ text[t] \in T
        BY <2>3 DEF Memory
      <4>2. Append(written \o queue, text[t]) = written \o Append(queue, text[t])
        <5> HIDE DEF T
        <5>1. \A q, r \in Seq(T) : \A e \in T : Append(r \o q, e) = r \o Append(q, e)
          BY AppendBehind
        <5> QED
          BY <4>1, <5>1
      <4> QED
        BY <3>3, <3>4, <4>2, <2>1 DEF WrittenInOrder
    <3>6. queue' # <<>>
      BY <2>1 DEF Memory
    <3> QED
      BY <3>1, <3>5, <3>6, <2>1, ThreadsDiffer DEF OneSender, HeadKept
  <2> QED
    BY <1>1, <2>2, <2>3
<1>6. CASE WriteSome(t)
  <2>1. /\ written' = Append(written, Head(queue))
        /\ pc' = [pc EXCEPT ![t] = "pop"] /\ pc[t] = "write"
        /\ UNCHANGED <<next, queue, text, accepted, clash>>
    BY <1>6 DEF WriteSome, Goto, memory
  <2>a. ASSUME clash PROVE Memory'
    BY <2>a, <2>1, <1>3 DEF Memory, UserPCs, Sending
  <2>2. ASSUME ~clash PROVE Memory' /\ OneSender' /\ HeadKept' /\ WrittenInOrder'
    <3>1. pc[Other(t)] \notin Sending /\ pc'[Other(t)] = pc[Other(t)] /\ pc'[t] = "pop"
      BY <1>2, <2>1, <2>2, ThreadsDiffer DEF OneSender, Memory
    <3>2. \A u \in Threads : pc[u] # "pop"
      BY <3>1, <2>1, ThreadsDiffer DEF Sending
    <3>3. Waiting = queue /\ Waiting' = Tail(queue)
      BY <3>1, <3>2, <2>1 DEF Waiting
    <3>4. queue # <<>>
      BY <2>1, <2>2 DEF HeadKept
    <3>5. accepted = written \o queue
      BY <3>3, <2>2 DEF WrittenInOrder
    <3>6. WrittenInOrder' /\ written' \in Seq(Seq(Chars))
      <4> DEFINE T == Seq(Chars)
      <4>1. queue \in Seq(T) /\ written \in Seq(T)
        BY <2>2 DEF Memory
      <4>2. /\ Append(written, Head(queue)) \in Seq(T)
            /\ written \o queue = Append(written, Head(queue)) \o Tail(queue)
        <5> HIDE DEF T
        <5> QED
          BY <4>1, <3>4, HeadMoves
      <4> QED
        BY <3>3, <3>5, <4>2, <2>1 DEF WrittenInOrder
    <3>7. Memory'
      BY <3>6, <2>1 DEF Memory, UserPCs, Sending
    <3> QED
      BY <3>1, <3>4, <3>6, <3>7, <2>1, ThreadsDiffer DEF OneSender, HeadKept
  <2> QED
    BY <1>1, <2>a, <2>2
<1>7. CASE WriteThrows(t)
  <2>1. UNCHANGED <<next, queue, text, accepted, written, clash>>
    BY <1>7 DEF WriteThrows, Gone, client, memory, past
  <2>2. pc' = pc \/ (t = User /\ pc' = [pc EXCEPT ![t] = "idle"])
    BY <1>7 DEF WriteThrows, Gone, client, Goto
  <2>3. pc[t] = "write"
    BY <1>7 DEF WriteThrows
  <2>4. Memory'
    BY <2>1, <2>2 DEF Memory, UserPCs
  <2>5. ASSUME ~clash PROVE OneSender' /\ HeadKept' /\ WrittenInOrder'
    <3>1. (\E u \in Threads : pc[u] = "pop") <=> (\E u \in Threads : pc'[u] = "pop")
      BY <2>2, <2>3 DEF Memory
    <3>2. WrittenInOrder'
      BY <2>1, <2>5, <3>1 DEF WrittenInOrder, Waiting
    <3>3. \A u \in Threads : pc'[u] \in Sending => pc'[u] = pc[u]
      BY <2>2 DEF Memory, Sending
    <3>4. OneSender' /\ HeadKept'
      BY <3>3, <2>1, <2>5, ThreadsDiffer DEF OneSender, HeadKept, Sending
    <3> QED
      BY <3>2, <3>4
  <2> QED
    BY <1>1, <2>4, <2>5
<1>8. CASE Pop(t)
  <2>1. /\ queue' = Tail(queue) /\ pc' = [pc EXCEPT ![t] = Back(t)] /\ pc[t] = "pop"
        /\ UNCHANGED <<next, text, accepted, written, clash>>
    BY <1>8 DEF Pop, Popped, Goto, past
  <2>a. ASSUME clash PROVE Memory'
    BY <2>a, <2>1, <1>3 DEF Memory, UserPCs, Sending
  <2>2. ASSUME ~clash PROVE Memory' /\ OneSender' /\ HeadKept' /\ WrittenInOrder'
    <3>1. pc[Other(t)] \notin Sending /\ pc'[Other(t)] = pc[Other(t)] /\ pc'[t] = Back(t)
      BY <1>2, <2>1, <2>2, ThreadsDiffer DEF OneSender, Memory
    <3>2. \A u \in Threads : pc'[u] \notin Sending
      BY <3>1, <1>3, ThreadsDiffer
    <3>3. Waiting = Tail(queue) /\ Waiting' = queue'
      BY <3>2, <2>1 DEF Waiting, Sending
    <3>4. queue # <<>>
      BY <2>1, <2>2 DEF HeadKept
    <3>5. queue' \in Seq(Seq(Chars))
      <4> DEFINE T == Seq(Chars)
      <4>1. queue \in Seq(T)
        BY <2>2 DEF Memory
      <4>2. Tail(queue) \in Seq(T)
        <5> HIDE DEF T
        <5> QED
          BY <4>1, <3>4, HeadMoves
      <4> QED
        BY <4>2, <2>1
    <3>6. Memory'
      BY <3>5, <2>1, <1>3 DEF Memory
    <3> QED
      BY <3>2, <3>3, <3>6, <2>1, <2>2 DEF OneSender, HeadKept, WrittenInOrder, Sending
  <2> QED
    BY <1>1, <2>a, <2>2
<1> QED
  BY <1>4, <1>5, <1>6, <1>7, <1>8 DEF SendStep

-----------------------------------------------------------------------------
\* The rest of the client, and the server

\* Before the user has connected there is no other thread.
NotYet == pc[User] = "new" => pc[Io] = "none"

LEMMA NotYetKept ==
  ASSUME Memory, NotYet, ClientNext
  PROVE  NotYet'
<1>1. User # Io /\ User \in Threads /\ Io \in Threads /\ Threads = {User, Io}
  BY ClientAssumption DEF ClientAssumption, Threads
<1>2. \A t \in Threads : SendStep(t) => NotYet'
  BY <1>1 DEF Memory, NotYet, SendStep, TestEmpty, Push, WriteSome, WriteThrows, Pop, Back,
     Goto, Gone, client
<1>3. Connect \/ Post \/ SetConnected \/ Join \/ Destroy \/ Corrupt \/ Killed => NotYet'
  BY <1>1 DEF Memory, NotYet, Connect, Post, SetConnected, Join, Destroy, Corrupt, Killed,
     Goto, Gone, client
<1>4. Run \/ HandleRead \/ Rearm \/ EndOfFile \/ ReadFails => NotYet'
  BY <1>1 DEF Memory, NotYet, Run, HandleRead, Rearm, EndOfFile, ReadFails, Goto, Gone, client
<1>5. Handle \/ Send => NotYet'
  BY <1>1 DEF Memory, NotYet, Handle, Send, Enter, Back, Goto
<1> QED
  BY <1>1, <1>2, <1>3, <1>4, <1>5 DEF ClientNext, UserStep, IoStep

LEMMA ClientKeeps ==
  ASSUME QueueInv, NotYet, ClientNext
  PROVE  QueueInv'
<1> USE DEF QueueInv
<1>1. User # Io /\ User \in Threads /\ Io \in Threads /\ Threads = {User, Io}
  BY ClientAssumption DEF ClientAssumption, Threads
<1>2. Connect => Quiet
  BY <1>1 DEF NotYet, Connect, memory, past, Quiet, Memory, UserPCs, IoPCs, Sending
<1>3. Post \/ SetConnected \/ Join \/ Destroy => Quiet
  BY <1>1 DEF Post, SetConnected, Join, Destroy, Goto, memory, past, Quiet, Memory, UserPCs,
     IoPCs, Sending
<1>4. Corrupt \/ Killed => Quiet
  BY <1>1 DEF Corrupt, Killed, Gone, client, memory, past, Quiet, Memory
<1>5. Run \/ HandleRead \/ Rearm \/ EndOfFile \/ ReadFails => Quiet
  BY <1>1 DEF Run, HandleRead, Rearm, EndOfFile, ReadFails, Goto, Gone, client, memory, past,
     Quiet, Memory, UserPCs, IoPCs, Sending
<1>6. ASSUME Handle PROVE QueueInv'
  <2>1. CASE Head(tokens) \in DOMAIN ClientReplies
    <3>1. ClientReplies[Head(tokens)] \in Seq(Chars)
      BY <2>1, ClientAssumption DEF ClientAssumption, Text
    <3>2. Enter(Io, ClientReplies[Head(tokens)]) /\ pc[Io] \notin Sending
      BY <1>6, <2>1 DEF Handle, Sending
    <3> QED
      BY <1>1, <1>6, <3>1, <3>2, EnterKeeps DEF Handle, Memory
  <2>2. CASE Head(tokens) \notin DOMAIN ClientReplies
    BY <1>6, <2>2, QuietKeeps DEF Handle, Quiet, Memory
  <2> QED
    BY <2>1, <2>2
<1>7. ASSUME Send PROVE QueueInv'
  <2>1. Script[next] \in Text
    BY <1>7, ClientAssumption DEF ClientAssumption, Send, Memory
  <2>2. Enter(User, Script[next]) /\ pc[User] \notin Sending /\ next' \in Nat \ {0}
    BY <1>7 DEF Send, Sending, Memory
  <2> QED
    BY <1>1, <1>7, <2>1, <2>2, EnterKeeps DEF Send, Text
<1> QED
  BY <1>1, <1>2, <1>3, <1>4, <1>5, <1>6, <1>7, QuietKeeps, SendStepKeeps
     DEF ClientNext, UserStep, IoStep

LEMMA QueueStep ==
  ASSUME QueueInv, NotYet, [Next]_vars
  PROVE  QueueInv' /\ NotYet'
<1>1. CASE UNCHANGED client
  BY <1>1, QuietKeeps DEF client, memory, past, Quiet, QueueInv, Memory, NotYet
<1>2. CASE ClientNext
  BY <1>2, ClientKeeps, NotYetKept DEF QueueInv
<1> QED
  BY <1>1, <1>2 DEF Next, vars

LEMMA QueueStart ==
  ASSUME Init
  PROVE  QueueInv /\ NotYet
<1>1. \A t \in Threads : pc[t] \in {"new", "none"} /\ queue = <<>> /\ written = <<>> /\ accepted = <<>>
  BY DEF Init, ClientInit
<1>2. Memory
  <2>1. <<>> \in Seq(Seq(Chars)) /\ <<>> \in Seq(Chars)
    OBVIOUS
  <2>2. pc \in [Threads -> UserPCs \union IoPCs] /\ text \in [Threads -> Seq(Chars)]
    BY <2>1 DEF Init, ClientInit, UserPCs, IoPCs
  <2>3. next = 1 /\ clash = FALSE /\ queue = <<>> /\ accepted = <<>> /\ written = <<>>
    BY DEF Init, ClientInit
  <2> QED
    <3>1. queue \in Seq(Seq(Chars)) /\ accepted \in Seq(Seq(Chars)) /\ written \in Seq(Seq(Chars))
      BY <2>1, <2>3
    <3>2. next \in Nat \ {0}
      BY <2>3
    <3>3. clash \in BOOLEAN
      BY <2>3, Zenon
    <3> QED
      BY <2>2, <3>1, <3>2, <3>3 DEF Memory
<1>3. OneSender /\ HeadKept
  BY <1>1 DEF OneSender, HeadKept, Sending
<1>4. Waiting = <<>>
  BY <1>1 DEF Waiting, Init, ClientInit
<1>5. WrittenInOrder
  BY <1>4 DEF WrittenInOrder, Init, ClientInit
<1>6. NotYet
  BY ThreadsDiffer DEF Init, ClientInit, NotYet, Threads
<1> QED
  BY <1>2, <1>3, <1>5, <1>6 DEF QueueInv

\* Whatever the users' script, the handlers and the sizes of buffers and streams:
\* the queue of ClientTcpAsyncWrapper, without a lock, writes every message once
\* and in order unless both threads are inside sendMessage at once.
THEOREM WrittenAlwaysInOrder == Spec => []WrittenInOrder
<1>1. QueueInv => WrittenInOrder
  BY DEF QueueInv
<1> QED
  BY <1>1, QueueStart, QueueStep, PTL DEF Spec

-----------------------------------------------------------------------------
\* Texts as lines.  FlattenSeq is a recursive function on the numbers up to the
\* length of its argument.

\* A set of the numbers up to M that has zero and every successor has them all:
\* what is missing would have a least number.
LEMMA FromZero ==
  ASSUME NEW M \in Nat, NEW S, 0 \in S, \A n \in 1 .. M : n - 1 \in S => n \in S
  PROVE  \A n \in 0 .. M : n \in S
<1> DEFINE Missing == {n \in 0 .. M : n \notin S}
<1>1. SUFFICES ASSUME Missing # {} PROVE FALSE
  OBVIOUS
<1>2. Missing \in SUBSET Nat
  OBVIOUS
<1>3. PICK m \in Missing : \A n \in Missing : ~(<<n, m>> \in OpToRel(<, Nat))
  BY <1>1, <1>2, NatLessThanWellFounded, WFMin
<1>4. m \in 0 .. M /\ m \notin S
  OBVIOUS
<1>5. m \in 1 .. M /\ m - 1 \in 0 .. M /\ m - 1 < m
  BY <1>4
<1>6. m - 1 \notin Missing
  <2>1. <<m - 1, m>> \in OpToRel(<, Nat)
    BY <1>5 DEF OpToRel
  <2> QED
    BY <1>3, <2>1
<1> QED
  BY <1>4, <1>5, <1>6

\* f joins the first n members of W.
Joins(f, W, n) == f = [i \in 1 .. n |-> IF i = 1 THEN W[i] ELSE f[i - 1] \o W[i]]

LEMMA JoinExists ==
  ASSUME NEW W, NEW M \in Nat
  PROVE  \E f : Joins(f, W, M)
<1> DEFINE S == {n \in Nat : \E f : Joins(f, W, n)}
<1>1. 0 \in S
  <2> DEFINE f == [i \in 1 .. 0 |-> W[i]]
  <2>1. f = [i \in 1 .. 0 |-> IF i = 1 THEN W[i] ELSE f[i - 1] \o W[i]]
    OBVIOUS
  <2> QED
    BY <2>1 DEF Joins
<1>2. ASSUME NEW m \in 1 .. M, m - 1 \in S PROVE m \in S
  <2>1. PICK f : Joins(f, W, m - 1)
    BY <1>2
  <2> DEFINE g == [i \in 1 .. m |-> IF i = m THEN (IF m = 1 THEN W[m] ELSE f[m - 1] \o W[m])
                                             ELSE f[i]]
             h == [i \in 1 .. m |-> IF i = 1 THEN W[i] ELSE g[i - 1] \o W[i]]
  <2>2. \A i \in 1 .. m : g[i] = h[i]
    <3> TAKE i \in 1 .. m
    <3>1. CASE i = m
      <4>1. g[i] = IF i = 1 THEN W[i] ELSE f[i - 1] \o W[i]
        BY <3>1
      <4>2. i # 1 => i - 1 \in 1 .. m /\ i - 1 # m
        BY <3>1
      <4>3. i # 1 => g[i - 1] = f[i - 1]
        BY <4>2
      <4>4. h[i] = IF i = 1 THEN W[i] ELSE g[i - 1] \o W[i]
        OBVIOUS
      <4> QED
        BY <4>1, <4>3, <4>4, Zenon
    <3>2. CASE i # m
      <4>1. i \in 1 .. m - 1 /\ (i # 1 => i - 1 \in 1 .. m /\ i - 1 # m)
        BY <3>2
      <4>2. g[i] = f[i] /\ (i # 1 => g[i - 1] = f[i - 1])
        BY <4>1, <3>2
      <4>3. f[i] = IF i = 1 THEN W[i] ELSE f[i - 1] \o W[i]
        BY <2>1, <4>1 DEF Joins
      <4>4. h[i] = IF i = 1 THEN W[i] ELSE g[i - 1] \o W[i]
        OBVIOUS
      <4> QED
        BY <4>2, <4>3, <4>4, Zenon
    <3> QED
      BY <3>1, <3>2
  <2>3. g = h
    <3>1. g = [i \in 1 .. m |-> g[i]] /\ h = [i \in 1 .. m |-> h[i]]
      OBVIOUS
    <3> HIDE DEF g, h
    <3> QED
      BY <2>2, <3>1, Zenon
  <2>4. Joins(g, W, m)
    BY <2>3 DEF Joins
  <2> QED
    BY <2>4
<1>3. M \in S
  <2> HIDE DEF S
  <2>1. \A n \in 0 .. M : n \in S
    BY <1>1, <1>2, FromZero
  <2> QED
    BY <2>1
<1> QED
  BY <1>3

\* Joining takes each member of a sequence in its turn, whatever comes behind.
AgreeUpTo(n, V, W) == \A i \in 1 .. n : V[i] = W[i]

LEMMA JoinsAgree ==
  ASSUME NEW V, NEW W, NEW n \in Nat, NEW m \in Nat, n <= m, AgreeUpTo(n, V, W),
         NEW f, NEW g, Joins(f, V, n), Joins(g, W, m)
  PROVE  AgreeUpTo(n, f, g)
<1> USE DEF AgreeUpTo
<1> DEFINE S == {i \in 0 .. n : i > 0 => f[i] = g[i]}
<1>1. 0 \in S
  OBVIOUS
<1>2. ASSUME NEW i \in 1 .. n, i - 1 \in S PROVE i \in S
  <2>1. i \in 1 .. m
    OBVIOUS
  <2>2. f[i] = IF i = 1 THEN V[i] ELSE f[i - 1] \o V[i]
    BY DEF Joins
  <2>3. g[i] = IF i = 1 THEN W[i] ELSE g[i - 1] \o W[i]
    BY <2>1 DEF Joins
  <2>4. i # 1 => f[i - 1] = g[i - 1]
    BY <1>2
  <2>5. f[i] = g[i]
    BY <2>2, <2>3, <2>4, Zenon
  <2> QED
    BY <2>5
<1>3. \A i \in 0 .. n : i \in S
  <2> HIDE DEF S
  <2> QED
    BY <1>1, <1>2, FromZero
<1> QED
  BY <1>3

LEMMA FlattenJoins ==
  ASSUME NEW W, Len(W) \in Nat \ {0}
  PROVE  \E f : Joins(f, W, Len(W)) /\ FlattenSeq(W) = f[Len(W)]
<1>1. PICK f : Joins(f, W, Len(W))
  BY JoinExists
<1> DEFINE g == CHOOSE h : Joins(h, W, Len(W))
<1>2. Joins(g, W, Len(W))
  BY <1>1
<1>3. FlattenSeq(W) = g[Len(W)]
  BY DEF FlattenSeq, Joins
<1> QED
  BY <1>2, <1>3

\* What a stream to the server carries, and what a text is sent as.
Characters == Chars \union {Newline}
LineOf(texts) == [i \in DOMAIN texts |-> Line(texts[i])]

LEMMA LineIsText ==
  ASSUME NEW x \in Seq(Chars)
  PROVE  /\ Line(x) \in Seq(Characters)
         /\ Len(Line(x)) = Len(x) + 1
         /\ Line(x)[Len(x) + 1] = Newline
         /\ \A i \in 1 .. Len(x) : Line(x)[i] = x[i] /\ x[i] # Newline
<1>1. x \in Seq(Characters)
  BY SeqMonotonic DEF Characters
<1>2. Newline \in Characters /\ Newline \notin Chars
  BY StreamAssumption DEF StreamAssumption, Characters
<1>3. \A i \in 1 .. Len(x) : x[i] \in Chars
  BY ElementOfSeq
<1> QED
  BY <1>1, <1>2, <1>3, AppendProperties DEF Line

LEMMA LineOfSequence ==
  ASSUME NEW s \in Seq(Seq(Chars))
  PROVE  /\ Len(LineOf(s)) = Len(s) /\ Len(s) \in Nat
         /\ \A i \in 1 .. Len(s) : LineOf(s)[i] = Line(s[i]) /\ s[i] \in Seq(Chars)
BY LenProperties, ElementOfSeq DEF LineOf

LEMMA LinesEmpty == Lines(<<>>) = <<>>
<1>1. LineOf(<<>>) = <<>> /\ Len(<<>>) = 0
  BY DEF LineOf
<1> QED
  BY <1>1 DEF Lines, LineOf, FlattenSeq

LEMMA LinesType ==
  ASSUME NEW s \in Seq(Seq(Chars))
  PROVE  Lines(s) \in Seq(Characters)
<1>1. CASE s = <<>>
  BY <1>1, LinesEmpty, EmptySeq
<1>2. CASE s # <<>>
  <2>1. Len(LineOf(s)) = Len(s) /\ Len(s) \in Nat \ {0}
    BY <1>2, LineOfSequence, EmptySeq
  <2>2. PICK f : Joins(f, LineOf(s), Len(s)) /\ Lines(s) = f[Len(s)]
    BY <2>1, FlattenJoins DEF Lines, LineOf
  <2> DEFINE S == {i \in 0 .. Len(s) : i > 0 => f[i] \in Seq(Characters)}
  <2>3. 0 \in S
    OBVIOUS
  <2>4. ASSUME NEW i \in 1 .. Len(s), i - 1 \in S PROVE i \in S
    <3>1. LineOf(s)[i] \in Seq(Characters)
      BY LineOfSequence, LineIsText
    <3>2. f[i] = IF i = 1 THEN LineOf(s)[i] ELSE f[i - 1] \o LineOf(s)[i]
      BY <2>2 DEF Joins
    <3>3. i # 1 => f[i - 1] \in Seq(Characters)
      BY <2>4
    <3>4. f[i] \in Seq(Characters)
      BY <3>1, <3>2, <3>3, ConcatProperties
    <3> QED
      BY <3>4
  <2>5. \A i \in 0 .. Len(s) : i \in S
    <3> HIDE DEF S
    <3> QED
      BY <2>1, <2>3, <2>4, FromZero
  <2> QED
    BY <2>1, <2>2, <2>5
<1> QED
  BY <1>1, <1>2

\* A text more is a line more.
LEMMA LinesAppend ==
  ASSUME NEW s \in Seq(Seq(Chars)), NEW x \in Seq(Chars)
  PROVE  Lines(Append(s, x)) = Lines(s) \o Line(x)
<1> DEFINE n == Len(s)
           t == Append(s, x)
<1>1. /\ t \in Seq(Seq(Chars)) /\ n \in Nat /\ Len(t) = n + 1
      /\ t[n + 1] = x /\ \A i \in 1 .. n : t[i] = s[i]
  BY AppendProperties, LenProperties
<1>2. /\ Len(LineOf(t)) = n + 1 /\ Len(LineOf(s)) = n
      /\ LineOf(t)[n + 1] = Line(x)
      /\ \A i \in 1 .. n : LineOf(s)[i] = LineOf(t)[i]
  <2>1. \A q \in Seq(Seq(Chars)) :
          /\ Len(LineOf(q)) = Len(q)
          /\ \A i \in 1 .. Len(q) : LineOf(q)[i] = Line(q[i])
    BY LineOfSequence
  <2>2. Len(LineOf(t)) = n + 1 /\ \A i \in 1 .. n + 1 : LineOf(t)[i] = Line(t[i])
    BY <1>1, <2>1
  <2>3. Len(LineOf(s)) = n /\ \A i \in 1 .. n : LineOf(s)[i] = Line(s[i])
    BY <2>1
  <2>4. n + 1 \in 1 .. n + 1 /\ \A i \in 1 .. n : i \in 1 .. n + 1
    BY <1>1
  <2> HIDE DEF t, n
  <2> QED
    BY <1>1, <2>2, <2>3, <2>4
<1>3. Lines(t) = FlattenSeq(LineOf(t)) /\ Lines(s) = FlattenSeq(LineOf(s))
  BY DEF Lines, LineOf
<1> HIDE DEF t
<1>4. PICK g : Joins(g, LineOf(t), n + 1) /\ Lines(t) = g[n + 1]
  <2>1. n + 1 \in Nat \ {0}
    BY <1>1
  <2>2. \E g : Joins(g, LineOf(t), Len(LineOf(t))) /\ FlattenSeq(LineOf(t)) = g[Len(LineOf(t))]
    BY <1>2, <2>1, FlattenJoins
  <2> QED
    BY <1>2, <1>3, <2>2
<1>5. CASE n = 0
  <2>1. s = <<>>
    BY <1>5, EmptySeq
  <2>2. Lines(t) = Line(x)
    BY <1>2, <1>4, <1>5 DEF Joins
  <2>3. Line(x) \in Seq(Characters)
    BY LineIsText
  <2> QED
    BY <2>1, <2>2, <2>3, LinesEmpty, ConcatEmptySeq DEF t
<1>6. CASE n # 0
  <2>1. PICK f : Joins(f, LineOf(s), n) /\ Lines(s) = f[n]
    BY <1>1, <1>2, <1>3, <1>6, FlattenJoins
  <2>2. f[n] = g[n]
    <3>1. n \in Nat /\ n + 1 \in Nat /\ n <= n + 1 /\ n \in 1 .. n
      BY <1>1, <1>6
    <3> DEFINE V == LineOf(s)
               W == LineOf(t)
               m == n + 1
    <3>2. Joins(f, V, n) /\ Joins(g, W, m) /\ AgreeUpTo(n, V, W)
      BY <1>2, <1>4, <2>1 DEF AgreeUpTo
    <3>3. n \in Nat /\ m \in Nat /\ n <= m
      BY <3>1
    <3> HIDE DEF n, m, V, W
    <3>4. AgreeUpTo(n, f, g)
      BY <3>2, <3>3, JoinsAgree
    <3> QED
      BY <3>1, <3>4 DEF AgreeUpTo
  <2>3. g[n + 1] = g[n] \o LineOf(t)[n + 1]
    <3>1. n + 1 \in 1 .. n + 1 /\ n + 1 # 1 /\ (n + 1) - 1 = n
      BY <1>1, <1>6
    <3> QED
      BY <1>4, <3>1 DEF Joins
  <2> QED
    BY <1>2, <1>4, <2>1, <2>2, <2>3 DEF t
<1> QED
  BY <1>5, <1>6

\* Texts after texts are lines after lines.
LEMMA LinesConcat ==
  ASSUME NEW s \in Seq(Seq(Chars)), NEW t \in Seq(Seq(Chars))
  PROVE  Lines(s \o t) = Lines(s) \o Lines(t)
<1> DEFINE T == Seq(Chars)
           S == {k \in 0 .. Len(t) : Lines(s \o First(k, t)) = Lines(s) \o Lines(First(k, t))}
<1>1. Len(t) \in Nat
  BY LenProperties
<1>2. 0 \in S
  <2>1. First(0, t) = <<>>
    BY SubSeqEmpty DEF First
  <2>2. s \o <<>> = s /\ Lines(s) \o <<>> = Lines(s)
    BY ConcatEmptySeq, LinesType
  <2>3. Lines(s \o First(0, t)) = Lines(s) \o Lines(First(0, t))
    BY <2>1, <2>2, LinesEmpty
  <2> QED
    BY <1>1, <2>3
<1>3. ASSUME NEW k \in 1 .. Len(t), k - 1 \in S PROVE k \in S
  <2> DEFINE u == First(k - 1, t)
  <2>1. u \in Seq(T) /\ t[k] \in T /\ First(k, t) = Append(u, t[k])
    <3>1. k \in Int /\ k - 1 \in Int /\ \A i \in 1 .. k : t[i] \in T
      BY <1>1, ElementOfSeq
    <3>2. u \in Seq(T) /\ t[k] \in T
      BY <3>1, SubSeqProperties DEF First
    <3>3. First(k, t) = u \o <<t[k]>>
      BY <1>1, SubSeqRecursiveSecond DEF First
    <3> HIDE DEF T, u
    <3> QED
      BY <3>2, <3>3, AppendIsConcat
  <2>2. s \o Append(u, t[k]) = Append(s \o u, t[k]) /\ s \o u \in Seq(T)
    <3>1. s \in Seq(T)
      OBVIOUS
    <3> HIDE DEF T, u
    <3> QED
      BY <2>1, <3>1, AppendBehind, ConcatProperties
  <2>3. Lines(s \o u) = Lines(s) \o Lines(u)
    BY <1>3
  <2> HIDE DEF u
  <2>4. Lines(Append(s \o u, t[k])) = Lines(s \o u) \o Line(t[k])
    BY <2>1, <2>2, LinesAppend
  <2>5. Lines(Append(u, t[k])) = Lines(u) \o Line(t[k])
    BY <2>1, LinesAppend
  <2>6. (Lines(s) \o Lines(u)) \o Line(t[k]) = Lines(s) \o (Lines(u) \o Line(t[k]))
    <3>1. Lines(s) \in Seq(Characters) /\ Lines(u) \in Seq(Characters)
      BY <2>1, LinesType
    <3>2. Line(t[k]) \in Seq(Characters)
      BY <2>1, LineIsText
    <3>3. Associates(Characters)
      BY Associative, Zenon
    <3> QED
      BY <3>1, <3>2, <3>3 DEF Associates
  <2>7. Lines(s \o First(k, t)) = Lines(s) \o Lines(First(k, t))
    BY <2>1, <2>2, <2>3, <2>4, <2>5, <2>6, Zenon
  <2> QED
    BY <2>7
<1>4. Len(t) \in S
  <2> HIDE DEF S
  <2>1. \A k \in 0 .. Len(t) : k \in S
    BY <1>1, <1>2, <1>3, FromZero
  <2> QED
    BY <1>1, <2>1
<1>5. First(Len(t), t) = t
  BY SubSeqFull DEF First
<1> QED
  BY <1>4, <1>5

-----------------------------------------------------------------------------
\* What a read takes off a sequence, and what it leaves.

LEMMA FirstRest ==
  ASSUME NEW S, NEW s \in Seq(S), NEW n \in 0 .. Len(s)
  PROVE  /\ First(n, s) \in Seq(S) /\ Rest(n, s) \in Seq(S)
         /\ Len(First(n, s)) = n /\ Len(Rest(n, s)) = Len(s) - n
         /\ \A i \in 1 .. n : First(n, s)[i] = s[i]
         /\ \A i \in 1 .. Len(s) - n : Rest(n, s)[i] = s[n + i]
         /\ First(n, s) \o Rest(n, s) = s
<1>1. Len(s) \in Nat /\ \A i \in 1 .. Len(s) : s[i] \in S
  BY LenProperties, ElementOfSeq
<1>2. /\ First(n, s) \in Seq(S) /\ Len(First(n, s)) = n
      /\ \A i \in 1 .. n : First(n, s)[i] = s[i]
  <2>1. \A i \in 1 .. n : s[i] \in S
    BY <1>1
  <2>2. /\ SubSeq(s, 1, n) \in Seq(S)
        /\ Len(SubSeq(s, 1, n)) = IF 1 <= n THEN n - 1 + 1 ELSE 0
        /\ \A i \in 1 .. n - 1 + 1 : SubSeq(s, 1, n)[i] = s[1 + i - 1]
    BY <1>1, <2>1, SubSeqProperties
  <2> QED
    BY <1>1, <2>2 DEF First
<1>3. /\ Rest(n, s) \in Seq(S) /\ Len(Rest(n, s)) = Len(s) - n
      /\ \A i \in 1 .. Len(s) - n : Rest(n, s)[i] = s[n + i]
  <2> DEFINE m == n + 1
             l == Len(s)
  <2>1. m \in Int /\ l \in Int /\ \A i \in m .. l : s[i] \in S
    BY <1>1
  <2>2. /\ SubSeq(s, m, l) \in Seq(S)
        /\ Len(SubSeq(s, m, l)) = IF m <= l THEN l - m + 1 ELSE 0
        /\ \A i \in 1 .. l - m + 1 : SubSeq(s, m, l)[i] = s[m + i - 1]
    <3> HIDE DEF m, l
    <3> QED
      BY <2>1, SubSeqProperties
  <2>3. Rest(n, s) = SubSeq(s, m, l)
    BY DEF Rest
  <2>4. l - m + 1 = Len(s) - n /\ (l < m => Len(s) - n = 0)
    BY <1>1
  <2>5. \A i \in 1 .. Len(s) - n : s[m + i - 1] = s[n + i]
    BY <1>1
  <2> HIDE DEF m
  <2> QED
    BY <2>1, <2>2, <2>3, <2>4, <2>5
<1>4. First(n, s) \o Rest(n, s) = s
  <2>1. 1 \in 1 .. Len(s) + 1 /\ n \in 1 - 1 .. Len(s) /\ Len(s) \in n .. Len(s)
    BY <1>1
  <2>2. SubSeq(s, 1, n) \o SubSeq(s, n + 1, Len(s)) = SubSeq(s, 1, Len(s))
    <3> DEFINE m == 1
               l == Len(s)
    <3>1. m \in 1 .. Len(s) + 1 /\ n \in m - 1 .. Len(s) /\ l \in n .. Len(s)
      BY <2>1
    <3> HIDE DEF m, l
    <3>2. SubSeq(s, m, n) \o SubSeq(s, n + 1, l) = SubSeq(s, m, l)
      BY <3>1, ConcatAdjacentSubSeq
    <3> QED
      BY <3>2 DEF m, l
  <2> QED
    BY <2>2, SubSeqFull DEF First, Rest
<1> QED
  BY <1>2, <1>3, <1>4

\* A sequence is cut in one way where the length of the first part is known.
LEMMA SameCut ==
  ASSUME NEW S, NEW s \in Seq(S), NEW t \in Seq(S), NEW u \in Seq(S), NEW v \in Seq(S),
         s \o t = u \o v, Len(s) = Len(u)
  PROVE  s = u /\ t = v
<1>1. Len(s) \in Nat /\ Len(t) \in Nat
  BY LenProperties
<1>2. \A i \in 1 .. Len(s) : (s \o t)[i] = s[i] /\ (u \o v)[i] = u[i]
  BY <1>1, ConcatProperties
<1>3. s = u
  BY <1>2, SeqEqual
<1> QED
  BY <1>3, ConcatSimplifications

\* Of one line, Stripped takes off the newline.
LEMMA StrippedLine ==
  ASSUME NEW o \in Seq(Characters), OneLine(o)
  PROVE  Stripped(o) = First(Len(o) - 1, o)
<1> DEFINE Fit(n) == /\ n > 0 => o[n] # Newline
                     /\ \A i \in n + 1 .. Len(o) : o[i] = Newline
<1>1. /\ Len(o) \in Nat \ {0} /\ o[Len(o)] = Newline
      /\ \A i \in 1 .. Len(o) - 1 : o[i] # Newline
  BY EmptySeq DEF OneLine
<1>2. Len(o) - 1 \in 0 .. Len(o) /\ Fit(Len(o) - 1)
  BY <1>1
<1>3. \A n \in 0 .. Len(o) : Fit(n) => n = Len(o) - 1
  <2> SUFFICES ASSUME NEW n \in 0 .. Len(o), Fit(n) PROVE n = Len(o) - 1
    OBVIOUS
  <2>1. n # Len(o)
    BY <1>1
  <2>2. CASE n < Len(o) - 1
    <3>1. n + 1 \in n + 1 .. Len(o) /\ n + 1 \in 1 .. Len(o) - 1
      BY <1>1, <2>2
    <3> QED
      BY <1>1, <3>1
  <2> QED
    BY <1>1, <2>1, <2>2
<1>4. (CHOOSE n \in 0 .. Len(o) : Fit(n)) = Len(o) - 1
  <2> HIDE DEF Fit
  <2> QED
    BY <1>2, <1>3
<1> QED
  BY <1>4 DEF Stripped

\* What begins with one line begins with the first of the texts.
LEMMA OneLineIsFirst ==
  ASSUME NEW o \in Seq(Characters), NEW r \in Seq(Characters), NEW q \in Seq(Seq(Chars)),
         OneLine(o), o \o r = Lines(q)
  PROVE  /\ q # <<>>
         /\ Stripped(o) = Head(q)
         /\ r = Lines(Tail(q))
<1>1. /\ Len(o) \in Nat \ {0} /\ Len(r) \in Nat /\ o[Len(o)] = Newline
      /\ \A i \in 1 .. Len(o) - 1 : o[i] # Newline
  BY EmptySeq, LenProperties DEF OneLine
<1>2. q # <<>>
  <2>1. Len(o \o r) = Len(o) + Len(r)
    BY ConcatProperties
  <2> QED
    BY <1>1, <2>1, LinesEmpty, EmptySeq
<1> DEFINE h == Head(q)
           t == Tail(q)
<1>3. h \in Seq(Chars) /\ t \in Seq(Seq(Chars)) /\ q = <<h>> \o t
  <2> DEFINE T == Seq(Chars)
  <2>1. q \in Seq(T)
    OBVIOUS
  <2> HIDE DEF T
  <2>2. h \in T /\ t \in Seq(T)
    BY <1>2, <2>1, HeadTailProperties
  <2>3. q = Append(<<>>, h) \o t
    <3>1. <<>> \in Seq(T)
      BY EmptySeq
    <3>2. <<>> \o q = Append(<<>>, h) \o t
      BY <1>2, <2>1, <3>1, HeadMoves
    <3> QED
      BY <2>1, <3>2, ConcatEmptySeq
  <2>4. Append(<<>>, h) = <<h>>
    OBVIOUS
  <2> QED
    BY <2>2, <2>3, <2>4 DEF T
<1> HIDE DEF h, t
<1>4. Lines(q) = Line(h) \o Lines(t)
  <2>1. <<h>> = Append(<<>>, h) /\ <<>> \in Seq(Seq(Chars)) /\ <<h>> \in Seq(Seq(Chars))
    BY <1>3
  <2>2. Lines(<<h>>) = Lines(<<>>) \o Line(h)
    BY <1>3, <2>1, LinesAppend
  <2>3. Line(h) \in Seq(Characters)
    BY <1>3, LineIsText
  <2>4. Lines(<<h>>) = Line(h)
    BY <2>2, <2>3, LinesEmpty, ConcatEmptySeq
  <2> QED
    BY <1>3, <2>1, <2>4, LinesConcat
<1>5. /\ Line(h) \in Seq(Characters) /\ Lines(t) \in Seq(Characters) /\ Len(h) \in Nat
      /\ Len(Line(h)) = Len(h) + 1 /\ Line(h)[Len(h) + 1] = Newline
      /\ \A i \in 1 .. Len(h) : Line(h)[i] = h[i] /\ h[i] # Newline
  BY <1>3, LineIsText, LinesType, LenProperties
<1>6. \A i \in 1 .. Len(o) + Len(r) :
         (o \o r)[i] = IF i <= Len(o) THEN o[i] ELSE r[i - Len(o)]
  BY ConcatProperties
<1>7. \A i \in 1 .. Len(h) + 1 : (o \o r)[i] = Line(h)[i]
  <2>1. \A i \in 1 .. Len(Line(h)) + Len(Lines(t)) :
          (Line(h) \o Lines(t))[i] = IF i <= Len(Line(h)) THEN Line(h)[i]
                                     ELSE Lines(t)[i - Len(Line(h))]
    BY <1>5, ConcatProperties
  <2>2. Len(Lines(t)) \in Nat
    BY <1>5, LenProperties
  <2>3. o \o r = Line(h) \o Lines(t)
    BY <1>4
  <2> QED
    BY <1>5, <2>1, <2>2, <2>3
<1>8. Len(o) = Len(h) + 1
  <2>1. CASE Len(o) <= Len(h)
    <3>1. Len(o) \in 1 .. Len(h) /\ Len(o) \in 1 .. Len(h) + 1 /\ Len(o) \in 1 .. Len(o) + Len(r)
      BY <1>1, <1>5, <2>1
    <3>2. (o \o r)[Len(o)] = o[Len(o)]
      BY <1>6, <3>1
    <3>3. (o \o r)[Len(o)] = Line(h)[Len(o)] /\ Line(h)[Len(o)] # Newline
      BY <1>5, <1>7, <3>1
    <3> QED
      BY <1>1, <3>2, <3>3
  <2>2. CASE Len(o) > Len(h) + 1
    <3>1. /\ Len(h) + 1 \in 1 .. Len(o) - 1 /\ Len(h) + 1 \in 1 .. Len(h) + 1
          /\ Len(h) + 1 \in 1 .. Len(o) + Len(r) /\ Len(h) + 1 <= Len(o)
      BY <1>1, <1>5, <2>2
    <3>2. (o \o r)[Len(h) + 1] = o[Len(h) + 1]
      BY <1>6, <3>1
    <3>3. (o \o r)[Len(h) + 1] = Newline
      BY <1>5, <1>7, <3>1
    <3> QED
      BY <1>1, <3>1, <3>2, <3>3
  <2> QED
    BY <1>1, <1>5, <2>1, <2>2
<1>9. o = Line(h) /\ r = Lines(t)
  BY <1>4, <1>5, <1>8, SameCut
<1>10. Stripped(o) = h
  <2>1. Stripped(o) = First(Len(h), o)
    <3>1. Stripped(o) = First(Len(o) - 1, o)
      BY StrippedLine
    <3>2. Len(o) - 1 = Len(h)
      BY <1>5, <1>8
    <3> QED
      BY <3>1, <3>2
  <2>2. Len(h) \in 0 .. Len(o)
    BY <1>5, <1>8
  <2>3. /\ First(Len(h), o) \in Seq(Characters)
        /\ Len(First(Len(h), o)) = Len(h)
        /\ \A i \in 1 .. Len(h) : First(Len(h), o)[i] = o[i]
    BY <2>2, FirstRest
  <2>4. h \in Seq(Characters)
    BY <1>3, SeqMonotonic DEF Characters
  <2>5. \A i \in 1 .. Len(h) : First(Len(h), o)[i] = h[i]
    BY <1>5, <1>9, <2>3
  <2> QED
    BY <2>1, <2>3, <2>4, <2>5, SeqEqual
<1> QED
  BY <1>2, <1>9, <1>10 DEF h, t

-----------------------------------------------------------------------------
\* From the client to the server

\* What the client has written is what has been heard and the texts whose lines
\* are under way, some of the first of them in the buffer of the server.
Undelivered ==
  Faithful /\ peer # "gone" =>
    /\ heard \in Seq(Seq(Chars))
    /\ up \in Seq(Characters) /\ buf \in Seq(Characters)
    /\ got \in 0 .. Len(buf)
    /\ \E rest \in Seq(Seq(Chars)) :
         written = heard \o rest /\ First(got, buf) \o up = Lines(rest)

\* A read puts what it takes of the stream behind what is in the buffer.
LEMMA ReadOverlays ==
  ASSUME up \in Seq(Characters), buf \in Seq(Characters), got \in 0 .. Len(buf),
         NEW n \in Amounts(up, BufSize - got)
  PROVE  /\ Rest(n, up) \in Seq(Characters)
         /\ Overlaid(n) \in Seq(Characters)
         /\ got + n \in 0 .. Len(Overlaid(n))
         /\ First(got + n, Overlaid(n)) \o Rest(n, up) = First(got, buf) \o up
<1>1. Len(up) \in Nat /\ Len(buf) \in Nat /\ got \in Nat /\ BufSize \in Nat
  BY LenProperties, ServerAssumption DEF ServerAssumption
<1>2. n \in 0 .. Len(up)
  BY <1>1 DEF Amounts, AtMost
<1> DEFINE p == First(got, buf)
           c == First(n, up)
           r == Rest(n, up)
           e == Rest(got + n, buf)
           w == p \o c
<1>3. p \in Seq(Characters) /\ Len(p) = got
  BY FirstRest
<1>4. c \in Seq(Characters) /\ r \in Seq(Characters) /\ Len(c) = n /\ c \o r = up
  BY <1>2, FirstRest
<1>5. e \in Seq(Characters)
  <2>1. CASE got + n <= Len(buf)
    <3>1. got + n \in 0 .. Len(buf)
      BY <1>1, <1>2, <2>1
    <3> QED
      BY <3>1, FirstRest
  <2>2. CASE got + n > Len(buf)
    <3>1. Len(buf) < (got + n) + 1 /\ (got + n) + 1 \in Int
      BY <1>1, <1>2, <2>2
    <3>2. e = <<>>
      BY <1>1, <3>1, SubSeqEmpty DEF Rest
    <3> QED
      BY <3>2, EmptySeq
  <2> QED
    BY <1>1, <1>2, <2>1, <2>2
<1> HIDE DEF p, c, r, e
<1>6. w \in Seq(Characters) /\ Len(w) = got + n
  BY <1>3, <1>4, ConcatProperties
<1> HIDE DEF w
<1>7. Overlaid(n) = w \o e
  BY DEF Overlaid, p, c, e, w
<1>8. Overlaid(n) \in Seq(Characters) /\ Len(Overlaid(n)) = (got + n) + Len(e) /\ Len(e) \in Nat
  <2>1. w \o e \in Seq(Characters) /\ Len(w \o e) = Len(w) + Len(e)
    BY <1>5, <1>6, ConcatProperties
  <2>2. Len(e) \in Nat
    BY <1>5, LenProperties
  <2> QED
    BY <1>6, <1>7, <2>1, <2>2
<1>9. First(got + n, Overlaid(n)) = w
  <2>1. got + n \in 0 .. Len(Overlaid(n))
    BY <1>1, <1>2, <1>8
  <2>2. /\ First(got + n, Overlaid(n)) \in Seq(Characters)
        /\ Len(First(got + n, Overlaid(n))) = got + n
        /\ Rest(got + n, Overlaid(n)) \in Seq(Characters)
        /\ First(got + n, Overlaid(n)) \o Rest(got + n, Overlaid(n)) = Overlaid(n)
    BY <1>8, <2>1, FirstRest
  <2>3. \A x, y, u, v \in Seq(Characters) : x \o y = u \o v /\ Len(x) = Len(u) => x = u
    BY SameCut
  <2> QED
    BY <1>5, <1>6, <1>7, <2>2, <2>3
<1>10. w \o r = p \o up
  <2>1. (p \o c) \o r = p \o (c \o r)
    <3>1. Associates(Characters)
      BY Associative, Zenon
    <3> QED
      BY <1>3, <1>4, <3>1 DEF Associates
  <2> QED
    BY <1>4, <2>1 DEF w
<1>11. got + n \in 0 .. Len(Overlaid(n))
  BY <1>1, <1>2, <1>8
<1> QED
  BY <1>4, <1>8, <1>9, <1>10, <1>11 DEF p, r

LEMMA StillUndelivered ==
  ASSUME Undelivered, UNCHANGED <<up, buf, got, heard, written>>,
         Faithful' => Faithful, peer' # "gone" => peer # "gone"
  PROVE  Undelivered'
BY DEF Undelivered

\* write_some: the line goes behind those that are under way.
LEMMA WriteDelivers ==
  ASSUME QueueInv, Undelivered, NEW t \in Threads, WriteSome(t), peer # "gone",
         UNCHANGED server
  PROVE  Undelivered'
<1>1. SUFFICES ASSUME Faithful', peer' # "gone"
               PROVE  /\ heard' \in Seq(Seq(Chars))
                      /\ up' \in Seq(Characters) /\ buf' \in Seq(Characters)
                      /\ got' \in 0 .. Len(buf')
                      /\ \E rest \in Seq(Seq(Chars)) :
                           /\ written' = heard' \o rest
                           /\ First(got', buf') \o up' = Lines(rest)
  BY DEF Undelivered
<1> DEFINE text0 == Head(queue)
           line  == Line(text0)
<1>2. Faithful /\ ~clash /\ ~torn' /\ UNCHANGED <<heard, buf, got>>
  BY <1>1 DEF WriteSome, Faithful, server
<1>3. /\ heard \in Seq(Seq(Chars)) /\ up \in Seq(Characters) /\ buf \in Seq(Characters)
      /\ got \in 0 .. Len(buf)
  BY <1>2 DEF Undelivered
<1>4. PICK rest \in Seq(Seq(Chars)) : written = heard \o rest /\ First(got, buf) \o up = Lines(rest)
  BY <1>2 DEF Undelivered
<1>5. text0 \in Seq(Chars)
  <2> DEFINE T == Seq(Chars)
  <2>1. queue \in Seq(T) /\ queue # <<>>
    BY <1>2 DEF QueueInv, Memory, HeadKept, WriteSome
  <2> HIDE DEF T
  <2>2. Head(queue) \in T
    BY <2>1, HeadTailProperties
  <2> QED
    BY <2>2 DEF T
<1> HIDE DEF text0
<1>6. line \in Seq(Characters) /\ Len(line) \in Nat
  BY <1>5, LineIsText, LenProperties
<1>7. up' = up \o line
  <2>1. up' = up \o First(Fits(up, line), line) /\ ~(Fits(up, line) < Len(line))
    BY <1>2 DEF WriteSome, text0
  <2>2. Len(up) \in Nat /\ Room \in Nat
    BY <1>3, LenProperties, StreamAssumption DEF StreamAssumption
  <2>3. Fits(up, line) = Len(line)
    <3> DEFINE l == Len(line)
               r == Room - Len(up)
    <3>1. l \in Int /\ r \in Int /\ Fits(up, line) = IF l < r THEN l ELSE r
      BY <1>6, <2>2 DEF Fits, AtMost
    <3>2. ~(Fits(up, line) < l)
      BY <2>1
    <3> HIDE DEF l, r
    <3>3. Fits(up, line) = l
      BY <3>1, <3>2
    <3> QED
      BY <3>3 DEF l
  <2>4. First(Len(line), line) = line
    BY <1>6, SubSeqFull DEF First
  <2> QED
    BY <2>1, <2>3, <2>4
<1>8. written' = Append(written, text0)
  BY DEF WriteSome, text0
<1> HIDE DEF line
<1>9. Append(rest, text0) \in Seq(Seq(Chars)) /\ written' = heard \o Append(rest, text0)
  <2> DEFINE T == Seq(Chars)
  <2>1. rest \in Seq(T) /\ heard \in Seq(T) /\ text0 \in T
    BY <1>3, <1>5
  <2> HIDE DEF T
  <2>2. Append(rest, text0) \in Seq(T) /\ Append(heard \o rest, text0) = heard \o Append(rest, text0)
    BY <2>1, AppendBehind, AppendProperties
  <2> QED
    BY <1>4, <1>8, <2>2 DEF T
<1>10. First(got, buf) \o up' = Lines(Append(rest, text0))
  <2>1. Lines(Append(rest, text0)) = Lines(rest) \o line
    BY <1>5, LinesAppend DEF line
  <2>2. First(got, buf) \in Seq(Characters)
    BY <1>3, FirstRest
  <2>3. Associates(Characters)
    BY Associative, Zenon
  <2> QED
    <3>1. (First(got, buf) \o up) \o line = First(got, buf) \o (up \o line)
      BY <1>3, <1>6, <2>2, <2>3 DEF Associates
    <3>2. First(got, buf) \o up' = Lines(rest) \o line
      BY <1>4, <1>7, <3>1
    <3> QED
      BY <2>1, <3>2
<1>11. up' \in Seq(Characters)
  BY <1>3, <1>6, <1>7, ConcatProperties
<1> QED
  BY <1>2, <1>3, <1>9, <1>10, <1>11

\* Read: unless it is ragged what is handled is the first line under way, and
\* its text the first of those that have not been heard.
LEMMA ReadDelivers ==
  ASSUME QueueInv, Undelivered, Read, UNCHANGED client
  PROVE  Undelivered'
<1>1. SUFFICES ASSUME Faithful', peer' # "gone"
               PROVE  /\ heard' \in Seq(Seq(Chars))
                      /\ up' \in Seq(Characters) /\ buf' \in Seq(Characters)
                      /\ got' \in 0 .. Len(buf')
                      /\ \E rest \in Seq(Seq(Chars)) :
                           /\ written' = heard' \o rest
                           /\ First(got', buf') \o up' = Lines(rest)
  BY DEF Undelivered
<1>2. PICK n \in Amounts(up, BufSize - got) :
         /\ up' = Rest(n, up) /\ buf' = Overlaid(n)
         /\ \/ HandleBuffer(n)
            \/ got' = got + n /\ UNCHANGED <<heard, ragged>>
  BY DEF Read
<1>3. Faithful /\ peer # "gone" /\ UNCHANGED written /\ ~ragged'
  <2>1. UNCHANGED <<clash, torn, written>> /\ ~clash' /\ ~torn' /\ ~ragged'
    BY <1>1 DEF Faithful, client, past
  <2>2. peer' = peer
    BY DEF Read
  <2>3. ~ragged
    BY <1>2, <2>1 DEF HandleBuffer
  <2> QED
    BY <1>1, <2>1, <2>2, <2>3 DEF Faithful
<1>4. /\ heard \in Seq(Seq(Chars)) /\ up \in Seq(Characters) /\ buf \in Seq(Characters)
      /\ got \in 0 .. Len(buf)
  BY <1>3 DEF Undelivered
<1>5. PICK rest \in Seq(Seq(Chars)) : written = heard \o rest /\ First(got, buf) \o up = Lines(rest)
  BY <1>3 DEF Undelivered
<1>6. /\ Rest(n, up) \in Seq(Characters)
      /\ Overlaid(n) \in Seq(Characters)
      /\ got + n \in 0 .. Len(Overlaid(n))
      /\ First(got + n, Overlaid(n)) \o Rest(n, up) = Lines(rest)
  BY <1>4, <1>5, ReadOverlays
<1>7. CASE got' = got + n /\ UNCHANGED <<heard, ragged>>
  BY <1>2, <1>3, <1>4, <1>5, <1>6, <1>7
<1>8. CASE HandleBuffer(n)
  <2> DEFINE o == Overlaid(n)
  <2>1. /\ heard' = Append(heard, Stripped(o)) /\ got' = 0
        /\ OneLine(o) /\ Len(o) = got + n
    BY <1>3, <1>8 DEF HandleBuffer, Respond
  <2>2. o \in Seq(Characters)
    BY <1>6
  <2> HIDE DEF o
  <2>3. o \o up' = Lines(rest) /\ up' \in Seq(Characters)
    <3>1. First(Len(o), o) = o
      BY <2>2, SubSeqFull DEF First
    <3> QED
      BY <1>2, <1>6, <2>1, <3>1 DEF o
  <2>4. rest # <<>> /\ Stripped(o) = Head(rest) /\ up' = Lines(Tail(rest))
    BY <2>1, <2>2, <2>3, OneLineIsFirst
  <2>5. /\ Append(heard, Head(rest)) \in Seq(Seq(Chars)) /\ Tail(rest) \in Seq(Seq(Chars))
        /\ heard \o rest = Append(heard, Head(rest)) \o Tail(rest)
    <3> DEFINE T == Seq(Chars)
    <3>1. rest \in Seq(T) /\ heard \in Seq(T)
      BY <1>4
    <3> HIDE DEF T
    <3>2. /\ Append(heard, Head(rest)) \in Seq(T) /\ Tail(rest) \in Seq(T)
          /\ heard \o rest = Append(heard, Head(rest)) \o Tail(rest)
      BY <2>4, <3>1, HeadMoves
    <3> QED
      BY <3>2 DEF T
  <2>6. First(0, o) = <<>> /\ <<>> \o up' = up'
    BY <2>3, SubSeqEmpty, ConcatEmptySeq DEF First
  <2>7. 0 \in 0 .. Len(o)
    BY <2>2, LenProperties
  <2>8. buf' = o
    BY <1>2 DEF o
  <2>9. written' = heard' \o Tail(rest) /\ First(got', buf') \o up' = Lines(Tail(rest))
    BY <1>3, <1>5, <2>1, <2>4, <2>5, <2>6, <2>8
  <2> QED
    BY <2>1, <2>2, <2>3, <2>4, <2>5, <2>7, <2>8, <2>9
<1> QED
  BY <1>2, <1>7, <1>8

\* Every other step leaves what is under way alone; once a process is gone, or
\* one of the three has happened, that stays so.
LEMMA UndeliveredKept ==
  ASSUME QueueInv, Undelivered, [Next]_vars
  PROVE  Undelivered'
<1>1. CASE ClientNext /\ UNCHANGED server
  <2>1. peer # "gone" /\ Threads = {User, Io}
    BY <1>1 DEF ClientNext, Threads
  <2>2. \A t \in Threads : WriteSome(t) => Undelivered'
    BY <1>1, <2>1, WriteDelivers
  <2>3. ASSUME UNCHANGED <<up, written>>, Faithful' => Faithful PROVE Undelivered'
    BY <1>1, <2>1, <2>3, StillUndelivered DEF server
  <2>4. ASSUME UNCHANGED <<torn, ragged>>, clash' => clash, clash => clash'
        PROVE  Faithful' => Faithful
    BY <2>4 DEF Faithful
  <2>5. ragged' = ragged
    BY <1>1 DEF server
  <2>6. \A t \in Threads : TestEmpty(t) \/ Push(t) \/ WriteThrows(t) \/ Pop(t) =>
          UNCHANGED <<up, written, torn, clash>>
    BY DEF TestEmpty, Push, WriteThrows, Pop, Gone, Disconnect, stream, client, past
  <2>7. Connect \/ Post \/ SetConnected \/ Join \/ Destroy \/ Corrupt \/ Killed =>
          UNCHANGED <<up, written, torn, clash>>
    BY DEF Connect, Post, SetConnected, Join, Destroy, Corrupt, Killed, Gone, Disconnect,
       stream, client, past
  <2>8. Run \/ HandleRead \/ Rearm \/ EndOfFile \/ ReadFails =>
          UNCHANGED <<up, written, torn, clash>>
    BY DEF Run, HandleRead, Rearm, EndOfFile, ReadFails, Gone, Disconnect, stream, client, past
  <2>9. Handle \/ Send => UNCHANGED <<up, written, torn>> /\ (clash => clash')
    BY DEF Handle, Send, Enter, stream
  <2>10. UNCHANGED <<up, written, torn, clash>> => Undelivered'
    BY <2>3, <2>5 DEF Faithful
  <2>11. UNCHANGED <<up, written, torn>> /\ (clash => clash') => Undelivered'
    BY <2>3, <2>5 DEF Faithful
  <2>12. \/ \E t \in Threads : \/ TestEmpty(t) \/ Push(t) \/ WriteThrows(t) \/ Pop(t)
                              \/ WriteSome(t)
         \/ Connect \/ Post \/ SetConnected \/ Join \/ Destroy \/ Corrupt \/ Killed
         \/ Run \/ HandleRead \/ Rearm \/ EndOfFile \/ ReadFails
         \/ Handle \/ Send
    BY <1>1, <2>1 DEF ClientNext, UserStep, IoStep, SendStep
  <2> QED
    BY <2>2, <2>6, <2>7, <2>8, <2>9, <2>10, <2>11, <2>12
<1>2. CASE ServerNext /\ UNCHANGED client
  <2>1. UNCHANGED <<written, clash, torn>>
    BY <1>2 DEF client, past
  <2>2. Read => Undelivered'
    BY <1>2, ReadDelivers
  <2>3. Accept \/ WriteOn \/ WriteFails \/ ReadEnds \/ ResetArrives \/ Shutdown =>
          UNCHANGED <<up, peer, buf, got, heard, ragged>>
    BY DEF Accept, WriteOn, WriteFails, ReadEnds, ResetArrives, Shutdown, stream, server
  <2>4. UNCHANGED <<up, peer, buf, got, heard, ragged>> => Undelivered'
    BY <2>1, StillUndelivered DEF Faithful
  <2>5. ReadEof => Undelivered'
    BY DEF ReadEof, Undelivered
  <2> QED
    BY <1>2, <2>2, <2>3, <2>4, <2>5 DEF ServerNext, ServerStep
<1>3. CASE UNCHANGED vars
  BY <1>3, StillUndelivered DEF vars, stream, client, server, past, Faithful
<1> QED
  BY <1>1, <1>2, <1>3 DEF Next

LEMMA UndeliveredStart ==
  ASSUME Init
  PROVE  Undelivered
<1>1. heard = <<>> /\ up = <<>> /\ buf = <<>> /\ got = 0 /\ written = <<>>
  BY DEF Init, StreamInit, ClientInit, ServerInit
<1>2. <<>> \in Seq(Seq(Chars)) /\ <<>> \in Seq(Characters) /\ Len(<<>>) = 0
  BY EmptySeq
<1>3. First(0, <<>>) = <<>>
  BY SubSeqEmpty DEF First
<1>4. <<>> \o <<>> = <<>>
  BY <1>2, ConcatEmptySeq
<1>5. written = heard \o <<>> /\ First(got, buf) \o up = Lines(<<>>)
  BY <1>1, <1>3, <1>4, LinesEmpty
<1>6. heard \in Seq(Seq(Chars)) /\ up \in Seq(Characters) /\ buf \in Seq(Characters)
  BY <1>1, <1>2
<1>7. got \in 0 .. Len(buf)
  BY <1>1, <1>2
<1> QED
  BY <1>2, <1>5, <1>6, <1>7 DEF Undelivered

LEMMA WaitingType ==
  ASSUME QueueInv, ~clash
  PROVE  Waiting \in Seq(Seq(Chars))
<1> DEFINE T == Seq(Chars)
<1>1. queue \in Seq(T) /\ ((\E t \in Threads : pc[t] = "pop") => queue # <<>>)
  BY DEF QueueInv, Memory, HeadKept
<1> HIDE DEF T
<1>2. (\E t \in Threads : pc[t] = "pop") => Tail(queue) \in Seq(T)
  BY <1>1, HeadTailProperties
<1>3. Waiting \in Seq(T)
  BY <1>1, <1>2 DEF Waiting
<1> QED
  BY <1>3 DEF T

\* What is heard, what is under way and what waits are together what was said.
LEMMA UndeliveredIsSaid ==
  ASSUME QueueInv, Undelivered
  PROVE  HeardAsSaid
<1>1. SUFFICES ASSUME Faithful, peer # "gone"
               PROVE  Lines(accepted) = Lines(heard) \o First(got, buf) \o up \o Lines(Waiting)
  BY DEF HeardAsSaid
<1> DEFINE T == Seq(Chars)
<1>2. /\ heard \in Seq(T) /\ up \in Seq(Characters) /\ buf \in Seq(Characters)
      /\ got \in 0 .. Len(buf)
  BY <1>1 DEF Undelivered
<1>3. PICK rest \in Seq(T) : written = heard \o rest /\ First(got, buf) \o up = Lines(rest)
  BY <1>1 DEF Undelivered
<1>4. accepted = written \o Waiting /\ written \in Seq(T)
  BY <1>1 DEF QueueInv, WrittenInOrder, Memory, Faithful
<1>5. Waiting \in Seq(T)
  BY <1>1, WaitingType DEF Faithful
<1>6. Lines(accepted) = (Lines(heard) \o (First(got, buf) \o up)) \o Lines(Waiting)
  <2>1. \A x, y \in Seq(T) : Lines(x \o y) = Lines(x) \o Lines(y)
    BY LinesConcat
  <2>2. Lines(accepted) = Lines(written) \o Lines(Waiting)
    BY <1>4, <1>5, <2>1
  <2>3. Lines(written) = Lines(heard) \o Lines(rest)
    BY <1>2, <1>3, <2>1
  <2> QED
    BY <1>3, <2>2, <2>3
<1>7. First(got, buf) \in Seq(Characters) /\ Lines(heard) \in Seq(Characters)
  BY <1>2, FirstRest, LinesType
<1>8. Lines(heard) \o (First(got, buf) \o up) = (Lines(heard) \o First(got, buf)) \o up
  <2>1. Associates(Characters)
    BY Associative, Zenon
  <2> QED
    BY <1>2, <1>7, <2>1 DEF Associates
<1> QED
  BY <1>6, <1>8

\* Whatever the texts, the handlers and the sizes of buffers and streams: until
\* the threads meet, a write_some is partial or a read is not one line that
\* fills its buffer, what handleRead has handed to the server's handler, what is
\* under way and what waits in the queue are, line by line, what sendMessage was
\* given.
THEOREM AlwaysHeardAsSaid == Spec => []HeardAsSaid
<1> DEFINE Inv == QueueInv /\ NotYet /\ Undelivered
<1>1. Init => Inv
  BY QueueStart, UndeliveredStart
<1>2. Inv /\ [Next]_vars => Inv'
  BY QueueStep, UndeliveredKept
<1>3. Inv => HeardAsSaid
  BY UndeliveredIsSaid
<1> HIDE DEF Inv
<1> QED
  BY <1>1, <1>2, <1>3, PTL DEF Spec

-----------------------------------------------------------------------------
\* The direction to the server implements LineChannel

UplinkBroken == ~Faithful \/ Apart

\* What has broken is not mended.
LEMMA StaysBroken ==
  ASSUME [Next]_vars
  PROVE  /\ UplinkBroken => UplinkBroken'
         /\ peer = "gone" => peer' = "gone"
         /\ host = "gone" => host' = "gone"
<1>1. CASE ClientNext /\ UNCHANGED server
  <2>1. peer # "gone" /\ UNCHANGED ragged /\ Threads = {User, Io}
    BY <1>1 DEF ClientNext, server, Threads
  <2>2. \A t \in Threads : SendStep(t) => UNCHANGED <<clash, host>> /\ (torn => torn')
    <3>1. \A t \in Threads : TestEmpty(t) \/ Push(t) \/ WriteThrows(t) \/ Pop(t) =>
            UNCHANGED <<torn, clash, host>>
      BY DEF TestEmpty, Push, WriteThrows, Pop, Gone, Disconnect, stream, client, past
    <3>2. ASSUME NEW t \in Threads, WriteSome(t)
          PROVE  UNCHANGED <<clash, host>> /\ (torn => torn')
      <4>1. UNCHANGED <<clash, host>>
        BY <3>2 DEF WriteSome
      <4>2. torn' = (torn \/ Fits(up, Line(Head(queue))) < Len(Line(Head(queue))))
        BY <3>2 DEF WriteSome
      <4>3. torn => torn'
        BY <4>2, Zenon
      <4> QED
        BY <4>1, <4>3
    <3> QED
      BY <3>1, <3>2 DEF SendStep
  <2>3. Connect \/ Post \/ SetConnected \/ Join \/ Destroy \/ Corrupt \/ Killed =>
          UNCHANGED <<torn, clash, host>>
    BY DEF Connect, Post, SetConnected, Join, Destroy, Corrupt, Killed, Gone, Disconnect,
       stream, client, past
  <2>4. Run \/ HandleRead \/ Rearm \/ EndOfFile \/ ReadFails => UNCHANGED <<torn, clash, host>>
    BY DEF Run, HandleRead, Rearm, EndOfFile, ReadFails, Gone, Disconnect, stream, client, past
  <2>5. Handle \/ Send => UNCHANGED <<torn, host>> /\ (clash => clash')
    BY DEF Handle, Send, Enter, stream
  <2>6. (clash => clash') /\ (torn => torn') /\ host' = host
    BY <1>1, <2>1, <2>2, <2>3, <2>4, <2>5 DEF ClientNext, UserStep, IoStep
  <2> QED
    BY <2>1, <2>6 DEF UplinkBroken, Faithful, Apart
<1>2. CASE ServerNext /\ UNCHANGED client
  <2>1. UNCHANGED <<clash, torn, peer>> /\ (ragged => ragged')
    <3>1. UNCHANGED <<clash, torn>>
      BY <1>2 DEF client, past
    <3>2. (\/ Accept \/ WriteOn \/ WriteFails \/ ReadEof \/ ReadEnds \/ ResetArrives
           \/ Shutdown) =>
            UNCHANGED <<peer, ragged>>
      BY DEF Accept, WriteOn, WriteFails, ReadEof, ReadEnds, ResetArrives, Shutdown, stream,
         server
    <3>3. ASSUME Read PROVE UNCHANGED peer /\ (ragged => ragged')
      <4>1. peer' = peer
        BY <3>3 DEF Read
      <4>2. PICK n : HandleBuffer(n) \/ UNCHANGED ragged
        BY <3>3 DEF Read
      <4>3. HandleBuffer(n) => (ragged => ragged')
        <5>1. HandleBuffer(n) =>
                ragged' = (ragged \/ ~OneLine(Overlaid(n)) \/ Len(Overlaid(n)) # got + n)
          BY DEF HandleBuffer
        <5> QED
          BY <5>1, Zenon
      <4>4. ragged' = ragged => (ragged => ragged')
        OBVIOUS
      <4> QED
        BY <4>1, <4>2, <4>3, <4>4
    <3> QED
      BY <1>2, <3>1, <3>2, <3>3 DEF ServerNext, ServerStep
  <2>2. host = "there"
    BY <1>2 DEF ServerNext
  <2> QED
    BY <2>1, <2>2 DEF UplinkBroken, Faithful, Apart
<1>3. CASE UNCHANGED vars
  BY <1>3 DEF vars, stream, client, server, past, UplinkBroken, Faithful, Apart
<1> QED
  BY <1>1, <1>2, <1>3 DEF Next

\* Only Push says something to the server, and only Read hears something.
LEMMA WhoSays ==
  ASSUME [Next]_vars
  PROVE  \/ UNCHANGED <<accepted, heard>>
         \/ UNCHANGED server /\ \E t \in Threads : Push(t)
         \/ UNCHANGED client /\ Read
<1>1. CASE ClientNext /\ UNCHANGED server
  <2>1. heard' = heard /\ Threads = {User, Io}
    BY <1>1 DEF server, Threads
  <2>2. \A t \in Threads : TestEmpty(t) \/ WriteSome(t) \/ WriteThrows(t) \/ Pop(t) =>
          UNCHANGED accepted
    BY DEF TestEmpty, WriteSome, WriteThrows, Pop, Gone, client, past
  <2>3. Connect \/ Post \/ SetConnected \/ Join \/ Destroy \/ Corrupt \/ Killed =>
          UNCHANGED accepted
    BY DEF Connect, Post, SetConnected, Join, Destroy, Corrupt, Killed, Gone, client, past
  <2>4. Run \/ HandleRead \/ Rearm \/ EndOfFile \/ ReadFails => UNCHANGED accepted
    BY DEF Run, HandleRead, Rearm, EndOfFile, ReadFails, Gone, client, past
  <2>5. Handle \/ Send => UNCHANGED accepted
    BY DEF Handle, Send
  <2> QED
    BY <1>1, <2>1, <2>2, <2>3, <2>4, <2>5 DEF ClientNext, UserStep, IoStep, SendStep
<1>2. CASE ServerNext /\ UNCHANGED client
  BY <1>2 DEF client, past, ServerNext, ServerStep, Accept, WriteOn, WriteFails, ReadEof,
     ReadEnds, ResetArrives, Shutdown, server
<1>3. CASE UNCHANGED vars
  BY <1>3 DEF vars, client, server, past
<1> QED
  BY <1>1, <1>2, <1>3 DEF Next

LEMMA AppendedTo ==
  ASSUME NEW T, NEW s \in Seq(T), NEW x \in T
  PROVE  /\ Len(Append(s, x)) = Len(s) + 1
         /\ SubSeq(Append(s, x), 1, Len(s)) = s
<1> DEFINE t == Append(s, x)
<1>1. /\ t \in Seq(T) /\ Len(t) = Len(s) + 1 /\ Len(s) \in Nat
      /\ \A i \in 1 .. Len(s) : t[i] = s[i]
  BY AppendProperties, LenProperties
<1> HIDE DEF t
<1>2. Len(s) \in 0 .. Len(t)
  BY <1>1
<1>3. /\ First(Len(s), t) \in Seq(T)
      /\ Len(First(Len(s), t)) = Len(s)
      /\ \A i \in 1 .. Len(s) : First(Len(s), t)[i] = t[i]
  BY <1>1, <1>2, FirstRest
<1>4. First(Len(s), t) = s
  BY <1>1, <1>3, SeqEqual
<1> QED
  BY <1>1, <1>4 DEF First, t

LEMMA PushSays ==
  ASSUME QueueInv, Faithful, NEW t \in Threads, Push(t)
  PROVE  /\ Len(accepted') = Len(accepted) + 1
         /\ SubSeq(accepted', 1, Len(accepted)) = accepted
<1> DEFINE T == Seq(Chars)
<1>1. accepted \in Seq(T) /\ text[t] \in T /\ accepted' = Append(accepted, text[t])
  BY DEF QueueInv, Memory, Faithful, Push
<1> HIDE DEF T
<1> QED
  BY <1>1, AppendedTo

LEMMA ReadHears ==
  ASSUME QueueInv, Undelivered, Undelivered', Read, UNCHANGED client,
         Faithful, Faithful', peer # "gone"
  PROVE  \/ UNCHANGED heard
         \/ /\ Len(heard) < Len(accepted)
            /\ heard' = Append(heard, accepted[Len(heard) + 1])
<1> DEFINE T == Seq(Chars)
<1>1. peer' # "gone" /\ UNCHANGED <<accepted, written>>
  BY DEF Read, client, past
<1>2. SUFFICES ASSUME NEW n, HandleBuffer(n)
               PROVE  /\ Len(heard) < Len(accepted)
                      /\ heard' = Append(heard, accepted[Len(heard) + 1])
  BY DEF Read
<1> DEFINE m == Stripped(Overlaid(n))
<1>3. heard' = Append(heard, m)
  BY <1>2 DEF HandleBuffer
<1> HIDE DEF m
<1>4. heard \in Seq(T) /\ heard' \in Seq(T)
  BY <1>1 DEF Undelivered
<1>5. PICK rest \in Seq(T) : written' = heard' \o rest
  BY <1>1 DEF Undelivered
<1>6. accepted = written \o Waiting /\ written \in Seq(T)
  BY DEF QueueInv, WrittenInOrder, Memory, Faithful
<1>7. Waiting \in Seq(T)
  BY WaitingType DEF Faithful
<1> HIDE DEF T
<1>8. Len(heard') = Len(heard) + 1 /\ heard'[Len(heard) + 1] = m /\ Len(heard) \in Nat
  <2>1. Len(heard') = Len(heard) + 1 /\ Len(heard) \in Nat
    BY <1>3, <1>4, LenProperties
  <2>2. heard'[Len(heard) + 1] = m
    BY <1>3, <1>4
  <2> QED
    BY <2>1, <2>2
<1>9. accepted = heard' \o (rest \o Waiting)
  <2>1. Associates(T)
    BY Associative, Zenon
  <2> QED
    <3>1. accepted = (heard' \o rest) \o Waiting
      BY <1>1, <1>5, <1>6
    <3>2. (heard' \o rest) \o Waiting = heard' \o (rest \o Waiting)
      BY <1>4, <1>5, <1>7, <2>1 DEF Associates
    <3> QED
      BY <3>1, <3>2
<1>10. rest \o Waiting \in Seq(T)
  BY <1>5, <1>7, ConcatProperties
<1> DEFINE w == rest \o Waiting
<1> HIDE DEF w
<1>11. /\ Len(accepted) = Len(heard') + Len(w) /\ Len(w) \in Nat
       /\ \A i \in 1 .. Len(heard') + Len(w) : i <= Len(heard') => accepted[i] = heard'[i]
  BY <1>4, <1>9, <1>10, ConcatProperties, LenProperties DEF w
<1>12. /\ Len(heard) + 1 \in 1 .. Len(heard') + Len(w)
       /\ Len(heard) + 1 <= Len(heard')
       /\ Len(heard) < Len(accepted)
  BY <1>8, <1>11
<1> QED
  BY <1>3, <1>8, <1>11, <1>12

LEMMA UplinkStep ==
  ASSUME QueueInv, Undelivered, Undelivered', [Next]_vars
  PROVE  [Uplink!Next]_Uplink!vars
<1>1. CASE UplinkBroken
  <2>1. UplinkBroken'
    BY <1>1, StaysBroken
  <2> QED
    BY <1>1, <2>1 DEF Uplink!Next, Uplink!Broken, UplinkBroken
<1>2. CASE ~UplinkBroken /\ UplinkBroken'
  BY <1>2 DEF Uplink!Next, Uplink!Break, UplinkBroken
<1>3. CASE ~UplinkBroken /\ ~UplinkBroken'
  <2>1. Faithful /\ Faithful' /\ peer # "gone"
    BY <1>3 DEF UplinkBroken, Apart
  <2>2. UplinkBroken' = UplinkBroken
    BY <1>3 DEF UplinkBroken
  <2>3. CASE UNCHANGED <<accepted, heard>>
    BY <2>2, <2>3 DEF Uplink!vars, UplinkBroken
  <2>4. ASSUME UNCHANGED server, NEW t \in Threads, Push(t) PROVE Uplink!Say
    BY <2>1, <2>2, <2>4, PushSays DEF Uplink!Say, UplinkBroken, server
  <2>5. ASSUME UNCHANGED client, Read PROVE UNCHANGED heard \/ Uplink!Hear
    BY <2>1, <2>2, <2>5, ReadHears DEF Uplink!Hear, UplinkBroken, client, past
  <2>6. UNCHANGED client => UNCHANGED accepted
    BY DEF client, past
  <2>7. Uplink!Say \/ Uplink!Hear => Uplink!Next
    BY <1>3 DEF Uplink!Next, UplinkBroken
  <2> QED
    BY <2>3, <2>4, <2>5, <2>6, <2>7, WhoSays
<1> QED
  BY <1>1, <1>2, <1>3

\* The direction from sendMessage to the handler of the server is a channel of
\* messages: each is heard once and in the order they were said, until the
\* threads meet, a write is partial, a read is ragged or a process ends.
THEOREM UplinkIsAChannel == Spec => Uplink!Spec
<1> DEFINE Inv == QueueInv /\ NotYet /\ Undelivered
<1>1. Init => Inv /\ Uplink!Init
  BY QueueStart, UndeliveredStart DEF Init, ClientInit, ServerInit, Uplink!Init
<1>2. Inv /\ [Next]_vars => Inv'
  BY QueueStep, UndeliveredKept
<1>3. Inv /\ Inv' /\ [Next]_vars => [Uplink!Next]_Uplink!vars
  BY UplinkStep
<1> HIDE DEF Inv
<1> QED
  BY <1>1, <1>2, <1>3, PTL DEF Spec, Uplink!Spec

-----------------------------------------------------------------------------
\* The tokens of lines are the texts they are of.

Rank(s, i) == Cardinality({j \in Starts(s) : j <= i})

\* x, and a newline behind it, are in s from i on.
HoldsAt(s, i, x) ==
  /\ i + Len(x) <= Len(s)
  /\ s[i + Len(x)] = Newline
  /\ \A l \in 1 .. Len(x) : s[i + l - 1] = x[l]

\* s has a start for each of the texts, in their order.
Reads(s, q) ==
  /\ IsFiniteSet(Starts(s)) /\ Cardinality(Starts(s)) = Len(q)
  /\ \A n \in 1 .. Len(q) :
       /\ \E i \in Starts(s) : Rank(s, i) = n
       /\ \A i \in Starts(s) : Rank(s, i) = n => HoldsAt(s, i, q[n])
  /\ s # <<>> => s[Len(s)] = Newline

LEMMA TokenHeld ==
  ASSUME NEW s \in Seq(Characters), NEW i \in 1 .. Len(s), NEW x \in Seq(Chars),
         HoldsAt(s, i, x)
  PROVE  Token(s, i) = x
<1> DEFINE ends == {j \in i .. Len(s) : s[j] = Newline}
           e == i + Len(x)
<1>1. Len(x) \in Nat /\ Len(s) \in Nat /\ i \in Nat
  BY LenProperties
<1>2. e \in ends
  BY <1>1 DEF HoldsAt
<1>3. ASSUME NEW j \in ends PROVE e <= j
  <2>1. SUFFICES ASSUME j < e PROVE FALSE
    BY <1>1
  <2>2. j - i + 1 \in 1 .. Len(x) /\ i + (j - i + 1) - 1 = j
    BY <1>1, <2>1
  <2>3. s[j] = x[j - i + 1]
    BY <2>2 DEF HoldsAt
  <2>4. x[j - i + 1] # Newline
    BY <2>2, LineIsText
  <2> QED
    BY <2>3, <2>4
<1>4. (CHOOSE j \in ends : \A k \in ends : j <= k) = e
  <2>1. \A j \in ends : j \in Int
    BY <1>1
  <2> HIDE DEF ends
  <2> QED
    BY <1>1, <1>2, <1>3, <2>1
<1>5. Token(s, i) = SubSeq(s, i, e - 1)
  <2>1. ends # {}
    BY <1>2
  <2>2. Token(s, i) = SubSeq(s, i, IF ends = {} THEN Len(s)
                                   ELSE (CHOOSE j \in ends : \A k \in ends : j <= k) - 1)
    BY DEF Token
  <2> HIDE DEF ends, e
  <2> QED
    BY <1>4, <2>1, <2>2
<1>6. /\ SubSeq(s, i, e - 1) \in Seq(Characters)
      /\ Len(SubSeq(s, i, e - 1)) = Len(x)
      /\ \A l \in 1 .. Len(x) : SubSeq(s, i, e - 1)[l] = x[l]
  <2> DEFINE f == e - 1
  <2>1. f \in Int /\ i \in Int /\ \A j \in i .. f : s[j] \in Characters
    BY <1>1, <1>2, ElementOfSeq
  <2>2. f - i + 1 = Len(x) /\ (f < i => Len(x) = 0)
    BY <1>1
  <2> HIDE DEF f
  <2>3. /\ SubSeq(s, i, f) \in Seq(Characters)
        /\ Len(SubSeq(s, i, f)) = IF i <= f THEN f - i + 1 ELSE 0
        /\ \A l \in 1 .. f - i + 1 : SubSeq(s, i, f)[l] = s[i + l - 1]
    BY <2>1, SubSeqProperties
  <2>4. \A l \in 1 .. Len(x) : SubSeq(s, i, f)[l] = x[l]
    BY <2>2, <2>3 DEF HoldsAt
  <2> QED
    BY <2>1, <2>2, <2>3, <2>4 DEF f
<1>7. x \in Seq(Characters)
  BY SeqMonotonic DEF Characters
<1> QED
  BY <1>5, <1>6, <1>7, SeqEqual

LEMMA ReadsTokens ==
  ASSUME NEW s \in Seq(Characters), NEW q \in Seq(Text), Reads(s, q)
  PROVE  Tokens(s) = q
<1> DEFINE Start(n) == CHOOSE i \in Starts(s) : Rank(s, i) = n
<1>1. Len(q) \in Nat /\ q \in [1 .. Len(q) -> Text] /\ Cardinality(Starts(s)) = Len(q)
  BY LenProperties DEF Reads
<1>2. Tokens(s) = [n \in 1 .. Len(q) |-> Token(s, Start(n))]
  BY <1>1 DEF Tokens, Rank
<1>3. ASSUME NEW n \in 1 .. Len(q) PROVE Token(s, Start(n)) = q[n]
  <2>1. Start(n) \in Starts(s) /\ Rank(s, Start(n)) = n
    BY <1>3 DEF Reads
  <2> HIDE DEF Start
  <2>2. HoldsAt(s, Start(n), q[n])
    BY <1>3, <2>1 DEF Reads
  <2>3. q[n] \in Seq(Chars) /\ Start(n) \in 1 .. Len(s)
    BY <1>1, <1>3, <2>1, LenProperties DEF Text, Starts
  <2> QED
    BY <2>2, <2>3, TokenHeld
<1> HIDE DEF Start
<1>4. q = [n \in 1 .. Len(q) |-> q[n]]
  BY <1>1
<1> QED
  BY <1>2, <1>3, <1>4, Zenon

\* A line more is a start more, behind all the others.
LEMMA StartsGrow ==
  ASSUME NEW s \in Seq(Characters), NEW x \in Text, s # <<>> => s[Len(s)] = Newline
  PROVE  /\ Starts(s \o Line(x)) = Starts(s) \union {Len(s) + 1}
         /\ Starts(s) \subseteq 1 .. Len(s)
         /\ HoldsAt(s \o Line(x), Len(s) + 1, x)
         /\ \A i \in Starts(s), y \in Seq(Chars) :
              HoldsAt(s, i, y) => HoldsAt(s \o Line(x), i, y)
         /\ s \o Line(x) \in Seq(Characters) /\ s \o Line(x) # <<>>
         /\ (s \o Line(x))[Len(s \o Line(x))] = Newline
<1> DEFINE L == Len(s)
           m == Len(x)
           t == s \o Line(x)
<1>1. x \in Seq(Chars) /\ m \in Nat \ {0} /\ L \in Nat
  BY EmptySeq, LenProperties DEF Text
<1>2. /\ Line(x) \in Seq(Characters) /\ Len(Line(x)) = m + 1
      /\ Line(x)[m + 1] = Newline
      /\ \A i \in 1 .. m : Line(x)[i] = x[i] /\ x[i] # Newline
  BY <1>1, LineIsText
<1>3. /\ t \in Seq(Characters) /\ Len(t) = L + (m + 1)
      /\ \A i \in 1 .. L + (m + 1) : t[i] = IF i <= L THEN s[i] ELSE Line(x)[i - L]
  <2> DEFINE l == Line(x)
  <2>1. l \in Seq(Characters) /\ Len(l) = m + 1
    BY <1>2
  <2> HIDE DEF l, m
  <2>2. /\ s \o l \in Seq(Characters) /\ Len(s \o l) = Len(s) + Len(l)
        /\ \A i \in 1 .. Len(s) + Len(l) : (s \o l)[i] = IF i <= Len(s) THEN s[i] ELSE l[i - Len(s)]
    BY <2>1, ConcatProperties
  <2> QED
    BY <2>1, <2>2 DEF l
<1> HIDE DEF t, m
<1>4. \A i \in 1 .. L : t[i] = s[i]
  BY <1>1, <1>3
<1>5. \A i \in 1 .. m : t[L + i] = x[i] /\ x[i] # Newline
  <2> SUFFICES ASSUME NEW i \in 1 .. m PROVE t[L + i] = x[i] /\ x[i] # Newline
    OBVIOUS
  <2>1. L + i \in 1 .. L + (m + 1) /\ ~(L + i <= L) /\ (L + i) - L = i
    BY <1>1
  <2>2. t[L + i] = Line(x)[i]
    BY <1>3, <2>1
  <2> QED
    BY <1>2, <2>2
<1>6. t[L + (m + 1)] = Newline
  <2>1. L + (m + 1) \in 1 .. L + (m + 1) /\ ~(L + (m + 1) <= L) /\ (L + (m + 1)) - L = m + 1
    BY <1>1
  <2> QED
    BY <1>2, <1>3, <2>1
<1>7. DOMAIN s = 1 .. L /\ DOMAIN t = 1 .. L + (m + 1)
  BY <1>3, LenProperties
<1>8. \A i \in 1 .. L : i \in Starts(t) <=> i \in Starts(s)
  <2> SUFFICES ASSUME NEW i \in 1 .. L PROVE i \in Starts(t) <=> i \in Starts(s)
    OBVIOUS
  <2>1. i \in 1 .. L + (m + 1) /\ (i > 1 => i - 1 \in 1 .. L)
    BY <1>1
  <2>2. t[i] = s[i] /\ (i > 1 => t[i - 1] = s[i - 1])
    BY <1>4, <2>1
  <2> QED
    BY <1>7, <2>1, <2>2 DEF Starts
<1>9. L + 1 \in Starts(t)
  <2>1. L + 1 \in DOMAIN t /\ 1 \in 1 .. m
    BY <1>1, <1>7
  <2>2. t[L + 1] # Newline
    BY <1>5, <2>1
  <2>3. L + 1 > 1 => t[(L + 1) - 1] = Newline
    <3>1. L + 1 > 1 => (L + 1) - 1 = L /\ L \in 1 .. L /\ s # <<>>
      BY <1>1, EmptySeq
    <3> QED
      BY <1>4, <3>1
  <2> QED
    BY <2>1, <2>2, <2>3 DEF Starts
<1>10. ASSUME NEW i \in Starts(t), i > L + 1 PROVE FALSE
  <2>1. i \in 1 .. L + (m + 1) /\ t[i] # Newline /\ t[i - 1] = Newline
    BY <1>1, <1>7, <1>10 DEF Starts
  <2>2. i - 1 - L \in 1 .. m /\ L + (i - 1 - L) = i - 1
    BY <1>1, <1>6, <1>10, <2>1
  <2>3. t[L + (i - 1 - L)] # Newline
    BY <1>5, <2>2
  <2> QED
    BY <2>1, <2>2, <2>3
<1>11. Starts(s) \subseteq 1 .. L /\ Starts(t) \subseteq 1 .. L + (m + 1)
  BY <1>7 DEF Starts
<1>12. Starts(t) = Starts(s) \union {L + 1}
  <2>1. ASSUME NEW i \in Starts(t) PROVE i \in Starts(s) \union {L + 1}
    <3>1. i \in 1 .. L \/ i = L + 1 \/ i > L + 1
      BY <1>1, <1>11
    <3> QED
      BY <1>8, <1>10, <3>1
  <2>2. ASSUME NEW i \in Starts(s) PROVE i \in Starts(t)
    BY <1>8, <1>11
  <2> QED
    BY <1>9, <2>1, <2>2
<1>13. HoldsAt(t, L + 1, x)
  <2>1. (L + 1) + m <= Len(t) /\ (L + 1) + m = L + (m + 1)
    BY <1>1, <1>3
  <2>2. \A l \in 1 .. m : t[(L + 1) + l - 1] = x[l]
    <3> SUFFICES ASSUME NEW l \in 1 .. m PROVE t[(L + 1) + l - 1] = x[l]
      OBVIOUS
    <3>1. (L + 1) + l - 1 = L + l
      BY <1>1
    <3> QED
      BY <1>5, <3>1
  <2> QED
    BY <1>6, <2>1, <2>2 DEF HoldsAt, m
<1>14. ASSUME NEW i \in Starts(s), NEW y \in Seq(Chars), HoldsAt(s, i, y) PROVE HoldsAt(t, i, y)
  <2>1. i \in 1 .. L /\ Len(y) \in Nat /\ i + Len(y) <= L
    BY <1>11, <1>14, LenProperties DEF HoldsAt
  <2>2. i + Len(y) \in 1 .. L /\ i + Len(y) <= Len(t)
    BY <1>1, <1>3, <2>1
  <2>3. \A l \in 1 .. Len(y) : i + l - 1 \in 1 .. L
    BY <1>1, <2>1
  <2> QED
    BY <1>4, <1>14, <2>2, <2>3 DEF HoldsAt
<1>15. t # <<>>
  BY <1>1, <1>3, EmptySeq
<1> QED
  BY <1>3, <1>6, <1>11, <1>12, <1>13, <1>14, <1>15 DEF t

LEMMA ReadsGrow ==
  ASSUME NEW s \in Seq(Characters), NEW q \in Seq(Text), NEW x \in Text, Reads(s, q)
  PROVE  Reads(s \o Line(x), Append(q, x)) /\ s \o Line(x) \in Seq(Characters)
<1> DEFINE L == Len(s)
           t == s \o Line(x)
           r == Append(q, x)
           k == Len(q)
<1>1. /\ Starts(t) = Starts(s) \union {L + 1}
      /\ Starts(s) \subseteq 1 .. L
      /\ HoldsAt(t, L + 1, x)
      /\ \A i \in Starts(s), y \in Seq(Chars) : HoldsAt(s, i, y) => HoldsAt(t, i, y)
      /\ t \in Seq(Characters) /\ t # <<>> /\ t[Len(t)] = Newline
  BY StartsGrow DEF Reads
<1>2. /\ k \in Nat /\ Len(r) = k + 1 /\ r[k + 1] = x /\ L \in Nat
      /\ \A n \in 1 .. k : r[n] = q[n] /\ q[n] \in Seq(Chars)
  <2>1. k \in Nat /\ L \in Nat /\ \A n \in 1 .. k : q[n] \in Text
    BY LenProperties, ElementOfSeq
  <2>2. Len(r) = k + 1 /\ r[k + 1] = x /\ \A n \in 1 .. k : r[n] = q[n]
    BY AppendProperties
  <2> QED
    BY <2>1, <2>2 DEF Text
<1>3. /\ IsFiniteSet(Starts(s)) /\ Cardinality(Starts(s)) = k
      /\ \A n \in 1 .. k :
           /\ \E i \in Starts(s) : Rank(s, i) = n
           /\ \A i \in Starts(s) : Rank(s, i) = n => HoldsAt(s, i, q[n])
  BY DEF Reads
<1> HIDE DEF t, r, k
<1>4. L + 1 \notin Starts(s)
  BY <1>1, <1>2
<1>5. IsFiniteSet(Starts(t)) /\ Cardinality(Starts(t)) = k + 1
  BY <1>1, <1>3, <1>4, FS_AddElement
<1>6. ASSUME NEW i \in Starts(s) PROVE Rank(t, i) = Rank(s, i) /\ Rank(s, i) \in 0 .. k
  <2>1. {j \in Starts(t) : j <= i} = {j \in Starts(s) : j <= i}
    <3>1. ~(L + 1 <= i)
      BY <1>1, <1>2
    <3> QED
      BY <1>1, <3>1
  <2>2. Cardinality({j \in Starts(s) : j <= i}) \in 0 .. k
    <3> DEFINE B == {j \in Starts(s) : j <= i}
    <3>1. B \subseteq Starts(s)
      OBVIOUS
    <3> HIDE DEF B
    <3>2. IsFiniteSet(B) /\ Cardinality(B) <= Cardinality(Starts(s))
      BY <1>3, <3>1, FS_Subset
    <3>3. Cardinality(B) \in Nat
      BY <3>2, FS_CardinalityType
    <3>4. Cardinality(B) \in 0 .. k
      BY <1>2, <1>3, <3>2, <3>3
    <3> QED
      BY <3>4 DEF B
  <2> QED
    BY <2>1, <2>2 DEF Rank
<1>7. Rank(t, L + 1) = k + 1
  <2>1. {j \in Starts(t) : j <= L + 1} = Starts(t)
    BY <1>1, <1>2
  <2> QED
    BY <1>5, <2>1 DEF Rank
<1>8. ASSUME NEW n \in 1 .. k
      PROVE  /\ \E i \in Starts(t) : Rank(t, i) = n
             /\ \A i \in Starts(t) : Rank(t, i) = n => HoldsAt(t, i, r[n])
  <2>1. PICK i \in Starts(s) : Rank(s, i) = n
    BY <1>3
  <2>2. i \in Starts(t) /\ Rank(t, i) = n
    BY <1>1, <1>6, <2>1
  <2>3. ASSUME NEW j \in Starts(t), Rank(t, j) = n PROVE HoldsAt(t, j, r[n])
    <3>1. j # L + 1
      BY <1>2, <1>7, <2>3
    <3>2. j \in Starts(s)
      BY <1>1, <3>1
    <3>3. HoldsAt(s, j, q[n])
      BY <1>3, <1>6, <2>3, <3>2
    <3> QED
      BY <1>1, <1>2, <3>2, <3>3
  <2> QED
    BY <2>2, <2>3
<1>9. /\ \E i \in Starts(t) : Rank(t, i) = k + 1
      /\ \A i \in Starts(t) : Rank(t, i) = k + 1 => HoldsAt(t, i, r[k + 1])
  <2>1. L + 1 \in Starts(t)
    BY <1>1
  <2>2. ASSUME NEW j \in Starts(t), Rank(t, j) = k + 1 PROVE j = L + 1
    <3>1. j \in Starts(s) => Rank(t, j) \in 0 .. k
      BY <1>6
    <3>2. j \notin Starts(s)
      BY <1>2, <2>2, <3>1
    <3> QED
      BY <1>1, <3>2
  <2> QED
    BY <1>1, <1>2, <1>7, <2>1, <2>2
<1>10. ASSUME NEW n \in 1 .. Len(r)
       PROVE  /\ \E i \in Starts(t) : Rank(t, i) = n
              /\ \A i \in Starts(t) : Rank(t, i) = n => HoldsAt(t, i, r[n])
  <2>1. n \in 1 .. k \/ n = k + 1
    BY <1>2
  <2> QED
    BY <1>8, <1>9, <2>1
<1>11. Reads(t, r)
  BY <1>1, <1>2, <1>5, <1>10 DEF Reads
<1> QED
  BY <1>1, <1>11 DEF t, r

\* The first of a sequence's members, and one more.
LEMMA FirstGrows ==
  ASSUME NEW T, NEW q \in Seq(T), NEW k \in 1 .. Len(q)
  PROVE  /\ First(k - 1, q) \in Seq(T) /\ q[k] \in T
         /\ First(k, q) = Append(First(k - 1, q), q[k])
<1>1. Len(q) \in Nat /\ q[k] \in T
  BY LenProperties, ElementOfSeq
<1>2. First(k - 1, q) \in Seq(T)
  <2>1. k - 1 \in 0 .. Len(q)
    BY <1>1
  <2> QED
    BY <2>1, FirstRest
<1>3. First(k, q) = First(k - 1, q) \o <<q[k]>>
  BY <1>1, SubSeqRecursiveSecond DEF First
<1> QED
  BY <1>1, <1>2, <1>3, AppendIsConcat

LEMMA TextsAreSequences == Seq(Text) \subseteq Seq(Seq(Chars))
<1>1. Text \subseteq Seq(Chars)
  BY DEF Text
<1> DEFINE T == Seq(Chars)
<1>2. Text \subseteq T
  BY <1>1
<1> HIDE DEF T
<1>3. \A q \in Seq(Text) : q \in Seq(T)
  BY <1>2, SeqMonotonic
<1> QED
  BY <1>3 DEF T

LEMMA TokensOfLines ==
  ASSUME NEW q \in Seq(Text)
  PROVE  Tokens(Lines(q)) = q
<1> DEFINE G(k) == Lines(First(k, q)) \in Seq(Characters) /\ Reads(Lines(First(k, q)), First(k, q))
           S == {k \in 0 .. Len(q) : G(k)}
<1>1. Len(q) \in Nat
  BY LenProperties
<1>2. G(0)
  <2>1. First(0, q) = <<>> /\ Lines(<<>>) = <<>> /\ <<>> \in Seq(Characters) /\ Len(<<>>) = 0
    BY SubSeqEmpty, LinesEmpty, EmptySeq DEF First
  <2>2. Starts(<<>>) = {}
    BY DEF Starts
  <2>3. IsFiniteSet({}) /\ Cardinality({}) = 0
    BY FS_EmptySet
  <2>4. Reads(<<>>, <<>>)
    <3>1. IsFiniteSet(Starts(<<>>)) /\ Cardinality(Starts(<<>>)) = Len(<<>>)
      BY <2>1, <2>2, <2>3
    <3>2. \A n \in 1 .. Len(<<>>) : FALSE
      BY <2>1
    <3> QED
      BY <3>1, <3>2, Zenon DEF Reads
  <2> QED
    BY <2>1, <2>4
<1>3. ASSUME NEW k \in 1 .. Len(q), G(k - 1) PROVE G(k)
  <2> DEFINE u == First(k - 1, q)
             x == q[k]
  <2>1. u \in Seq(Text) /\ x \in Text /\ First(k, q) = Append(u, x)
    BY FirstGrows
  <2>2. u \in Seq(Seq(Chars)) /\ x \in Seq(Chars)
    BY <2>1, TextsAreSequences DEF Text
  <2>3. Lines(u) \in Seq(Characters) /\ Reads(Lines(u), u)
    BY <1>3
  <2> HIDE DEF u, x
  <2>4. Lines(Append(u, x)) = Lines(u) \o Line(x)
    BY <2>2, LinesAppend
  <2>5. Reads(Lines(u) \o Line(x), Append(u, x)) /\ Lines(u) \o Line(x) \in Seq(Characters)
    BY <2>1, <2>3, ReadsGrow
  <2> QED
    BY <2>1, <2>4, <2>5
<1>4. G(Len(q))
  <2>1. 0 \in S
    BY <1>1, <1>2
  <2>2. ASSUME NEW k \in 1 .. Len(q), k - 1 \in S PROVE k \in S
    <3>1. G(k - 1)
      BY <2>2
    <3>2. G(k)
      BY <1>3, <3>1
    <3> QED
      BY <1>1, <3>2
  <2>3. \A k \in 0 .. Len(q) : k \in S
    <3> HIDE DEF S
    <3> QED
      BY <1>1, <2>1, <2>2, FromZero
  <2>4. Len(q) \in 0 .. Len(q)
    BY <1>1
  <2> QED
    BY <2>3, <2>4
<1>5. First(Len(q), q) = q
  BY SubSeqFull DEF First
<1>6. Lines(q) \in Seq(Characters) /\ Reads(Lines(q), q)
  BY <1>4, <1>5
<1> QED
  BY <1>6, ReadsTokens

\* What ends in a newline of the lines is some of the lines.
LEMMA CutAfterLine ==
  ASSUME NEW q \in Seq(Text), NEW n \in 1 .. Len(Lines(q)), Lines(q)[n] = Newline
  PROVE  \E k \in 0 .. Len(q) : /\ First(n, Lines(q)) = Lines(First(k, q))
                                /\ Rest(n, Lines(q)) = Lines(Rest(k, q))
<1> DEFINE F(k) == Lines(First(k, q))
           G(k) == \A l \in 1 .. Len(F(k)) :
                     F(k)[l] = Newline => \E j \in 0 .. k : l = Len(F(j))
           S == {k \in 0 .. Len(q) : G(k)}
<1>1. Len(q) \in Nat /\ q \in Seq(Seq(Chars))
  BY LenProperties, TextsAreSequences
<1>2. \A k \in 0 .. Len(q) : First(k, q) \in Seq(Seq(Chars)) /\ F(k) \in Seq(Characters)
  <2> SUFFICES ASSUME NEW k \in 0 .. Len(q)
               PROVE  First(k, q) \in Seq(Seq(Chars)) /\ F(k) \in Seq(Characters)
    OBVIOUS
  <2>1. First(k, q) \in Seq(Text)
    BY FirstRest
  <2> QED
    BY <2>1, TextsAreSequences, LinesType
<1>3. G(0)
  <2>1. F(0) = <<>> /\ Len(<<>>) = 0
    <3>1. First(0, q) = <<>>
      BY SubSeqEmpty DEF First
    <3> QED
      BY <3>1, LinesEmpty
  <2> QED
    BY <2>1
<1>4. ASSUME NEW k \in 1 .. Len(q), G(k - 1) PROVE G(k)
  <2> DEFINE u == First(k - 1, q)
             x == q[k]
             s == Lines(u)
             m == Len(x)
             o == Line(x)
  <2>1. u \in Seq(Text) /\ x \in Text /\ First(k, q) = Append(u, x)
    BY FirstGrows
  <2>2. u \in Seq(Seq(Chars)) /\ x \in Seq(Chars)
    BY <2>1, TextsAreSequences DEF Text
  <2> HIDE DEF u, x
  <2>3. F(k) = s \o o
    BY <2>1, <2>2, LinesAppend
  <2>4. /\ s \in Seq(Characters) /\ o \in Seq(Characters) /\ Len(s) \in Nat /\ m \in Nat
        /\ Len(o) = m + 1 /\ \A i \in 1 .. m : o[i] # Newline
    BY <2>2, LineIsText, LinesType, LenProperties
  <2> HIDE DEF s, o, m
  <2>5. /\ Len(s \o o) = Len(s) + Len(o)
        /\ \A i \in 1 .. Len(s) + Len(o) :
             (s \o o)[i] = IF i <= Len(s) THEN s[i] ELSE o[i - Len(s)]
    BY <2>4, ConcatProperties
  <2>6. F(k - 1) = s
    BY DEF s, u
  <2>7. SUFFICES ASSUME NEW l \in 1 .. Len(F(k)), F(k)[l] = Newline
                 PROVE  \E j \in 0 .. k : l = Len(F(j))
    OBVIOUS
  <2> HIDE DEF F
  <2>8. CASE l <= Len(s)
    <3>1. l \in 1 .. Len(s) /\ l \in 1 .. Len(s) + Len(o)
      BY <2>4, <2>8
    <3>2. s[l] = Newline
      BY <2>3, <2>5, <2>7, <2>8, <3>1
    <3>3. \E j \in 0 .. k - 1 : l = Len(F(j))
      BY <1>4, <2>6, <3>1, <3>2
    <3> QED
      BY <3>3
  <2>9. CASE ~(l <= Len(s))
    <3>1. l \in 1 .. Len(s) + Len(o) /\ l - Len(s) \in 1 .. m + 1
      BY <2>3, <2>4, <2>5, <2>9
    <3>2. o[l - Len(s)] = Newline
      BY <2>3, <2>5, <2>7, <2>9, <3>1
    <3>3. l - Len(s) = m + 1
      BY <2>4, <3>1, <3>2
    <3>4. l = Len(F(k))
      BY <2>3, <2>4, <2>5, <3>1, <3>3
    <3> QED
      BY <3>4
  <2> QED
    BY <2>8, <2>9
<1>5. G(Len(q))
  <2>1. 0 \in S
    BY <1>1, <1>3
  <2>2. ASSUME NEW k \in 1 .. Len(q), k - 1 \in S PROVE k \in S
    <3>1. G(k - 1)
      BY <2>2
    <3>2. G(k)
      BY <1>4, <3>1
    <3> QED
      BY <1>1, <3>2
  <2>3. \A k \in 0 .. Len(q) : k \in S
    <3> HIDE DEF S
    <3> QED
      BY <1>1, <2>1, <2>2, FromZero
  <2>4. Len(q) \in 0 .. Len(q)
    BY <1>1
  <2> QED
    BY <2>3, <2>4
<1>6. F(Len(q)) = Lines(q)
  BY SubSeqFull DEF First
<1>7. PICK k \in 0 .. Len(q) : n = Len(F(k))
  BY <1>5, <1>6
<1>8. /\ First(k, q) \in Seq(Seq(Chars)) /\ Rest(k, q) \in Seq(Seq(Chars))
      /\ First(k, q) \o Rest(k, q) = q
  <2>1. /\ First(k, q) \in Seq(Text) /\ Rest(k, q) \in Seq(Text)
        /\ First(k, q) \o Rest(k, q) = q
    BY FirstRest
  <2> QED
    BY <2>1, TextsAreSequences
<1> DEFINE w == Lines(Rest(k, q))
           v == Lines(q)
<1>9. /\ F(k) \in Seq(Characters) /\ w \in Seq(Characters) /\ v \in Seq(Characters)
      /\ F(k) \o w = v
  BY <1>1, <1>2, <1>8, LinesType, LinesConcat
<1>10. n \in 0 .. Len(v)
  BY <1>9, LenProperties
<1> HIDE DEF w, v, F
<1>11. /\ First(n, v) \in Seq(Characters) /\ Rest(n, v) \in Seq(Characters)
       /\ Len(First(n, v)) = n /\ First(n, v) \o Rest(n, v) = v
  BY <1>9, <1>10, FirstRest
<1>12. First(n, v) = F(k) /\ Rest(n, v) = w
  <2>1. \A a1, a2, b1, b2 \in Seq(Characters) :
          a1 \o a2 = b1 \o b2 /\ Len(a1) = Len(b1) => a1 = b1 /\ a2 = b2
    BY SameCut
  <2>2. First(n, v) \o Rest(n, v) = F(k) \o w /\ Len(First(n, v)) = Len(F(k))
    BY <1>7, <1>9, <1>11
  <2> QED
    BY <1>9, <1>11, <2>1, <2>2
<1> QED
  BY <1>12 DEF v, w, F

-----------------------------------------------------------------------------
\* From the server to the client

DownlinkBroken == cut \/ split \/ Deaf \/ Apart

\* Messages are kept only where they are handed to the handler.
NothingKept == pc[Io] \in {"none", "run", "wait"} => tokens = <<>>

\* What the server has written is what has been handed to the client's handler,
\* what it will hand to it of the chunk it has, and the texts whose lines are
\* under way.
Unread ==
  ~cut /\ ~split /\ ~Apart =>
    /\ writes = <<>>
    /\ seen \in Seq(Text) /\ tokens \in Seq(Text)
    /\ dn \in Seq(Characters)
    /\ \E rest \in Seq(Text) : told = seen \o (tokens \o rest) /\ dn = Lines(rest)

LEMMA NothingKeptKept ==
  ASSUME Memory, NotYet, NothingKept, [Next]_vars
  PROVE  NothingKept'
<1>1. User # Io /\ User \in Threads /\ Io \in Threads /\ Threads = {User, Io}
  BY ClientAssumption DEF ClientAssumption, Threads
<1>2. ASSUME ClientNext PROVE NothingKept'
  <2>1. \A t \in Threads : SendStep(t) => NothingKept'
    BY <1>1 DEF Memory, NothingKept, SendStep, TestEmpty, Push, WriteSome, WriteThrows, Pop,
       Back, Goto, Gone, client
  <2>2. Connect \/ Post \/ SetConnected \/ Join \/ Destroy \/ Corrupt \/ Killed => NothingKept'
    BY <1>1 DEF Memory, NotYet, NothingKept, Connect, Post, SetConnected, Join, Destroy,
       Corrupt, Killed, Goto, Gone, client
  <2>3. Run \/ HandleRead \/ Rearm \/ EndOfFile \/ ReadFails => NothingKept'
    BY <1>1 DEF Memory, NothingKept, Run, HandleRead, Rearm, EndOfFile, ReadFails, Goto, Gone,
       client
  <2>4. Handle \/ Send => NothingKept'
    BY <1>1 DEF Memory, NothingKept, Handle, Send, Enter, Back, Goto
  <2> QED
    BY <1>1, <1>2, <2>1, <2>2, <2>3, <2>4 DEF ClientNext, UserStep, IoStep
<1>3. UNCHANGED client => NothingKept'
  BY DEF client, NothingKept
<1> QED
  BY <1>2, <1>3 DEF Next, vars

LEMMA StillUnread ==
  ASSUME Unread, UNCHANGED <<writes, seen, tokens, dn, told>>,
         ~(cut \/ split \/ Apart)' => ~(cut \/ split \/ Apart)
  PROVE  Unread'
BY DEF Unread

\* async_write: a text that fits at once is behind those under way.
LEMMA WriteReads ==
  ASSUME Unread, NEW x \in Text, NEW safe, AsyncWrite(x, safe), UNCHANGED <<seen, tokens, peer>>,
         ~(cut \/ split \/ Apart), ~cut'
  PROVE  /\ writes' = <<>>
         /\ dn' \in Seq(Characters)
         /\ told' = Append(told, x)
         /\ told \in Seq(Text)
         /\ \E rest \in Seq(Text) : told' = seen' \o (tokens' \o rest) /\ dn' = Lines(rest)
<1> DEFINE line == Line(x)
<1>1. /\ writes = <<>> /\ seen \in Seq(Text) /\ tokens \in Seq(Text) /\ dn \in Seq(Characters)
      /\ peer # "gone"
  BY DEF Unread, Apart
<1>2. PICK rest \in Seq(Text) : told = seen \o (tokens \o rest) /\ dn = Lines(rest)
  BY DEF Unread
<1>3. x \in Seq(Chars) /\ line \in Seq(Characters) /\ Len(line) \in Nat
  BY LineIsText, LenProperties DEF Text
<1> HIDE DEF line
<1>4. /\ dn' = dn \o First(Fits(dn, line), line)
      /\ writes' = IF Fits(dn, line) = Len(line) THEN writes
                   ELSE Append(writes, [left |-> Rest(Fits(dn, line), line), safe |-> safe])
      /\ told' = Append(told, x)
      /\ ~(Fits(dn, line) < Len(line))
  BY <1>1 DEF AsyncWrite, line
<1>5. Fits(dn, line) = Len(line)
  <2> DEFINE l == Len(line)
             r == Room - Len(dn)
  <2>1. Len(dn) \in Nat /\ Room \in Nat
    BY <1>1, LenProperties, StreamAssumption DEF StreamAssumption
  <2>2. l \in Int /\ r \in Int /\ Fits(dn, line) = IF l < r THEN l ELSE r
    BY <1>3, <2>1 DEF Fits, AtMost
  <2>3. ~(Fits(dn, line) < l)
    BY <1>4
  <2> HIDE DEF l, r
  <2>4. Fits(dn, line) = l
    BY <2>2, <2>3
  <2> QED
    BY <2>4 DEF l
<1>6. writes' = <<>> /\ dn' = dn \o line
  <2>1. First(Len(line), line) = line
    BY <1>3, SubSeqFull DEF First
  <2> QED
    BY <1>1, <1>4, <1>5, <2>1
<1>7. /\ Append(rest, x) \in Seq(Text) /\ told \in Seq(Text)
      /\ Append(told, x) = seen \o (tokens \o Append(rest, x))
  <2>1. tokens \o rest \in Seq(Text)
    BY <1>1, <1>2, ConcatProperties
  <2>2. \A q, r \in Seq(Text) : Append(r \o q, x) = r \o Append(q, x)
    BY AppendBehind
  <2>3. Append(seen \o (tokens \o rest), x) = seen \o Append(tokens \o rest, x)
    BY <1>1, <2>1, <2>2
  <2>4. Append(tokens \o rest, x) = tokens \o Append(rest, x)
    BY <1>1, <1>2, <2>2
  <2>5. Append(rest, x) \in Seq(Text)
    BY <1>2, AppendProperties
  <2>6. told \in Seq(Text)
    BY <1>1, <1>2, <2>1, ConcatProperties
  <2> QED
    BY <1>2, <2>3, <2>4, <2>5, <2>6
<1>8. dn' = Lines(Append(rest, x))
  <2>1. rest \in Seq(Seq(Chars))
    BY <1>2, TextsAreSequences
  <2> QED
    BY <1>2, <1>3, <1>6, <2>1, LinesAppend DEF line
<1>9. dn' \in Seq(Characters)
  BY <1>1, <1>3, <1>6, ConcatProperties
<1> QED
  BY <1>4, <1>6, <1>7, <1>8, <1>9

\* _handleRead with a chunk that ends in a newline: its tokens are the first of
\* the texts under way.
LEMMA ChunkReads ==
  ASSUME Unread, NothingKept, HandleRead, UNCHANGED server
  PROVE  Unread'
<1>1. SUFFICES ASSUME ~cut', ~split', ~Apart'
               PROVE  /\ writes' = <<>>
                      /\ seen' \in Seq(Text) /\ tokens' \in Seq(Text)
                      /\ dn' \in Seq(Characters)
                      /\ \E rest \in Seq(Text) :
                           told' = seen' \o (tokens' \o rest) /\ dn' = Lines(rest)
  BY DEF Unread
<1>2. UNCHANGED <<cut, peer, host, writes, told, seen>> /\ tokens = <<>>
  BY DEF HandleRead, server, NothingKept
<1>3. PICK n \in Amounts(dn, ChunkSize) :
         /\ tokens' = Tokens(First(n, dn))
         /\ split' = (split \/ dn[n] # Newline)
         /\ dn' = Rest(n, dn)
  BY DEF HandleRead
<1>4. ~split /\ dn[n] = Newline /\ ~cut /\ ~Apart
  BY <1>1, <1>2, <1>3 DEF Apart
<1>5. /\ writes = <<>> /\ seen \in Seq(Text) /\ dn \in Seq(Characters)
  BY <1>4 DEF Unread
<1>6. PICK q \in Seq(Text) : told = seen \o (tokens \o q) /\ dn = Lines(q)
  BY <1>4 DEF Unread
<1>7. n \in 1 .. Len(dn)
  <2>1. Len(dn) \in Nat /\ ChunkSize \in Nat
    BY <1>5, LenProperties, ClientAssumption DEF ClientAssumption
  <2> QED
    BY <2>1 DEF Amounts, AtMost
<1>8. PICK k \in 0 .. Len(q) : /\ First(n, dn) = Lines(First(k, q))
                               /\ Rest(n, dn) = Lines(Rest(k, q))
  BY <1>4, <1>6, <1>7, CutAfterLine
<1>9. /\ First(k, q) \in Seq(Text) /\ Rest(k, q) \in Seq(Text)
      /\ First(k, q) \o Rest(k, q) = q
  BY FirstRest
<1>10. tokens' = First(k, q) /\ dn' = Lines(Rest(k, q))
  BY <1>3, <1>8, <1>9, TokensOfLines
<1>11. told' = seen' \o (tokens' \o Rest(k, q))
  <2>1. <<>> \o q = q
    BY ConcatEmptySeq
  <2> QED
    BY <1>2, <1>6, <1>9, <1>10, <2>1
<1>12. dn' \in Seq(Characters)
  <2>1. n \in 0 .. Len(dn)
    BY <1>7
  <2> QED
    BY <1>3, <1>5, <2>1, FirstRest
<1> QED
  BY <1>2, <1>5, <1>9, <1>10, <1>11, <1>12

\* The loop over the messages: the first of those kept is seen.
LEMMA HandleReads ==
  ASSUME Unread, Handle, UNCHANGED server
  PROVE  Unread'
<1>1. SUFFICES ASSUME ~cut', ~split', ~Apart'
               PROVE  /\ writes' = <<>>
                      /\ seen' \in Seq(Text) /\ tokens' \in Seq(Text)
                      /\ dn' \in Seq(Characters)
                      /\ \E rest \in Seq(Text) :
                           told' = seen' \o (tokens' \o rest) /\ dn' = Lines(rest)
  BY DEF Unread
<1>2. /\ UNCHANGED <<cut, split, peer, host, dn, writes, told>>
      /\ tokens # <<>> /\ tokens' = Tail(tokens) /\ seen' = Append(seen, Head(tokens))
  BY DEF Handle, server, stream
<1>3. ~split /\ ~cut /\ ~Apart
  BY <1>1, <1>2 DEF Apart
<1>4. /\ writes = <<>> /\ seen \in Seq(Text) /\ tokens \in Seq(Text) /\ dn \in Seq(Characters)
  BY <1>3 DEF Unread
<1>5. PICK rest \in Seq(Text) : told = seen \o (tokens \o rest) /\ dn = Lines(rest)
  BY <1>3 DEF Unread
<1>6. /\ seen' \in Seq(Text) /\ tokens' \in Seq(Text)
      /\ seen \o tokens = seen' \o tokens'
  BY <1>2, <1>4, HeadMoves
<1>7. told' = seen' \o (tokens' \o rest)
  <2>1. Associates(Text)
    BY Associative, Zenon
  <2>2. told = (seen \o tokens) \o rest
    BY <1>4, <1>5, <2>1 DEF Associates
  <2>3. (seen' \o tokens') \o rest = seen' \o (tokens' \o rest)
    BY <1>5, <1>6, <2>1 DEF Associates
  <2> QED
    BY <1>2, <1>6, <2>2, <2>3
<1> QED
  BY <1>2, <1>4, <1>5, <1>6, <1>7

\* Which steps of the server write, and what.
LEMMA ServerWrites ==
  ASSUME Unread, ServerNext, ~(cut \/ Apart), ~split
  PROVE  \/ UNCHANGED <<dn, writes, told, cut>>
         \/ /\ UNCHANGED peer
            /\ \E x \in Text, safe \in BOOLEAN : AsyncWrite(x, safe)
<1>1. writes = <<>> /\ peer # "gone"
  BY DEF Unread, Apart
<1>2. ASSUME NEW m, Respond(m), UNCHANGED peer
      PROVE  \/ UNCHANGED <<dn, writes, told, cut>>
             \/ /\ UNCHANGED peer
                /\ \E x \in Text, safe \in BOOLEAN : AsyncWrite(x, safe)
  <2>1. CASE m \in DOMAIN ServerReplies
    <3>1. ServerReplies[m] \in Text /\ AsyncWrite(ServerReplies[m], FALSE)
      BY <1>2, <2>1, ServerAssumption DEF ServerAssumption, Respond
    <3> QED
      BY <1>2, <3>1
  <2>2. CASE m \notin DOMAIN ServerReplies
    BY <1>2, <2>2 DEF Respond
  <2> QED
    BY <2>1, <2>2
<1>3. CASE Accept
  BY <1>3, ServerAssumption DEF ServerAssumption, Accept
<1>4. CASE Read
  <2>1. peer' = peer
    BY <1>4 DEF Read
  <2>2. PICK n : HandleBuffer(n) \/ UNCHANGED <<dn, writes, told, cut>>
    BY <1>4 DEF Read
  <2>3. CASE HandleBuffer(n)
    BY <1>2, <2>1, <2>3 DEF HandleBuffer
  <2> QED
    BY <2>2, <2>3
<1>5. CASE WriteOn \/ WriteFails \/ ReadEof
  BY <1>1, <1>5 DEF WriteOn, WriteFails, ReadEof
<1>6. CASE ReadEnds \/ ResetArrives \/ Shutdown
  BY <1>6 DEF ReadEnds, ResetArrives, Shutdown, stream, server
<1> QED
  BY <1>3, <1>4, <1>5, <1>6 DEF ServerNext, ServerStep

LEMMA StaysCut ==
  ASSUME [Next]_vars
  PROVE  /\ cut => cut'
         /\ split => split'
         /\ Apart => Apart'
<1>1. Apart => Apart'
  BY StaysBroken DEF Apart
<1>2. split => split'
  <2>1. CASE ClientNext
    <3>1. \A t \in Threads : SendStep(t) => UNCHANGED split
      BY DEF SendStep, TestEmpty, Push, WriteSome, WriteThrows, Pop, Gone, client, past
    <3>2. (\/ Connect \/ Post \/ SetConnected \/ Join \/ Destroy \/ Corrupt \/ Killed
           \/ Run \/ Rearm \/ EndOfFile \/ ReadFails \/ Handle \/ Send)
          => UNCHANGED split
      BY DEF Connect, Post, SetConnected, Join, Destroy, Corrupt, Killed, Run, Rearm, EndOfFile,
         ReadFails, Handle, Send, Gone, client, past
    <3>3. ASSUME HandleRead PROVE split => split'
      <4>1. PICK n : split' = (split \/ dn[n] # Newline)
        BY <3>3 DEF HandleRead
      <4> QED
        BY <4>1, Zenon
    <3>4. UNCHANGED split \/ HandleRead
      <4>1. SendStep(User) \/ SendStep(Io) => UNCHANGED split
        BY <3>1 DEF Threads
      <4> QED
        BY <2>1, <3>2, <4>1 DEF ClientNext, UserStep, IoStep
    <3>5. UNCHANGED split => (split => split')
      OBVIOUS
    <3> QED
      BY <3>3, <3>4, <3>5
  <2>2. CASE UNCHANGED client
    BY <2>2 DEF client, past
  <2> QED
    BY <2>1, <2>2 DEF Next, vars
<1>3. cut => cut'
  <2>1. CASE UNCHANGED server
    BY <2>1 DEF server
  <2>2. CASE ServerNext
    <3>1. \A x, safe : AsyncWrite(x, safe) => (cut => cut')
      <4> SUFFICES ASSUME NEW x, NEW safe, AsyncWrite(x, safe) PROVE cut => cut'
        OBVIOUS
      <4>1. UNCHANGED cut \/ \E b : cut' = (cut \/ b)
        <5> DEFINE n == IF writes = <<>> THEN Fits(dn, Line(x)) ELSE 0
        <5>1. CASE peer = "gone"
          BY <5>1 DEF AsyncWrite
        <5>2. CASE peer # "gone"
          <6>1. cut' = (cut \/ n < Len(Line(x)))
            BY <5>2 DEF AsyncWrite
          <6> QED
            BY <6>1
        <5> QED
          BY <5>1, <5>2
      <4>2. (\E b : cut' = (cut \/ b)) => (cut => cut')
        BY Zenon
      <4>3. UNCHANGED cut => (cut => cut')
        OBVIOUS
      <4> QED
        BY <4>1, <4>2, <4>3
    <3>2. \A m : Respond(m) => (cut => cut')
      BY <3>1 DEF Respond
    <3>3. WriteOn \/ WriteFails \/ ReadEnds \/ ResetArrives \/ Shutdown => UNCHANGED cut
      BY DEF WriteOn, WriteFails, ReadEnds, ResetArrives, Shutdown, server
    <3>4. Accept \/ ReadEof => (cut => cut')
      BY <3>1, <3>2 DEF Accept, ReadEof
    <3>5. Read => (cut => cut')
      <4>1. Read => (\E n : HandleBuffer(n)) \/ UNCHANGED cut
        BY DEF Read
      <4>2. \A n : HandleBuffer(n) => (cut => cut')
        BY <3>2 DEF HandleBuffer
      <4> QED
        BY <4>1, <4>2
    <3> QED
      BY <2>2, <3>3, <3>4, <3>5 DEF ServerNext, ServerStep
  <2> QED
    BY <2>1, <2>2 DEF Next, vars
<1> QED
  BY <1>1, <1>2, <1>3

LEMMA StaysDeaf ==
  ASSUME Memory, NotYet, [Next]_vars, Deaf
  PROVE  Deaf'
<1>1. User # Io /\ User \in Threads /\ Io \in Threads /\ Threads = {User, Io}
  BY ClientAssumption DEF ClientAssumption, Threads
<1>2. ASSUME ClientNext PROVE Deaf'
  <2>1. \A t \in Threads : SendStep(t) => Deaf'
    BY <1>1 DEF Memory, Deaf, SendStep, TestEmpty, Push, WriteSome, WriteThrows, Pop, Back,
       Goto, Gone, client
  <2>2. Connect \/ Post \/ SetConnected \/ Join \/ Destroy \/ Corrupt \/ Killed => Deaf'
    BY <1>1 DEF Memory, NotYet, Deaf, Connect, Post, SetConnected, Join, Destroy, Corrupt, Killed,
       Goto, Gone, client
  <2>3. Run \/ HandleRead \/ Rearm \/ EndOfFile \/ ReadFails => Deaf'
    BY <1>1 DEF Memory, Deaf, Run, HandleRead, Rearm, EndOfFile, ReadFails, Goto, Gone, client
  <2>4. Handle \/ Send => Deaf'
    BY <1>1 DEF Memory, Deaf, Handle, Send, Enter, Back, Goto
  <2> QED
    BY <1>1, <1>2, <2>1, <2>2, <2>3, <2>4 DEF ClientNext, UserStep, IoStep
<1>3. UNCHANGED client => Deaf'
  BY DEF client, Deaf
<1> QED
  BY <1>2, <1>3 DEF Next, vars

LEMMA UnreadKept ==
  ASSUME Unread, NothingKept, [Next]_vars
  PROVE  Unread'
<1>1. SUFFICES ASSUME ~cut', ~split', ~Apart' PROVE Unread'
  BY DEF Unread
<1>2. ~cut /\ ~split /\ ~Apart
  BY <1>1, StaysCut
<1>3. UNCHANGED <<writes, seen, tokens, dn, told>> => Unread'
  BY <1>2, StillUnread
<1>4. CASE ClientNext /\ UNCHANGED server
  <2>1. Threads = {User, Io} /\ UNCHANGED <<writes, told>>
    BY <1>4 DEF Threads, server
  <2>2. ~Disconnect
    BY <1>1 DEF Disconnect, Apart
  <2>3. \A t \in Threads : SendStep(t) => UNCHANGED <<seen, tokens, dn>>
    BY <2>2 DEF SendStep, TestEmpty, Push, WriteSome, WriteThrows, Pop, Gone, stream, client, past
  <2>4. Connect \/ Post \/ SetConnected \/ Join \/ Destroy \/ Corrupt \/ Killed =>
          UNCHANGED <<seen, tokens, dn>>
    BY <2>2 DEF Connect, Post, SetConnected, Join, Destroy, Corrupt, Killed, Gone, stream,
       client, past
  <2>5. Run \/ Rearm \/ EndOfFile \/ ReadFails => UNCHANGED <<seen, tokens, dn>>
    BY <2>2 DEF Run, Rearm, EndOfFile, ReadFails, Gone, stream, client, past
  <2>6. Send => UNCHANGED <<seen, tokens, dn>>
    BY DEF Send, stream
  <2>7. Handle \/ HandleRead => Unread'
    BY <1>4, ChunkReads, HandleReads
  <2>8. UNCHANGED <<seen, tokens, dn>> => Unread'
    BY <1>3, <2>1
  <2> QED
    BY <1>4, <2>1, <2>3, <2>4, <2>5, <2>6, <2>7, <2>8 DEF ClientNext, UserStep, IoStep
<1>5. CASE ServerNext /\ UNCHANGED client
  <2>1. UNCHANGED <<seen, tokens>>
    BY <1>5 DEF client, past
  <2>2. CASE UNCHANGED <<dn, writes, told, cut>>
    BY <1>3, <2>1, <2>2
  <2>3. ASSUME UNCHANGED peer, NEW x \in Text, NEW safe \in BOOLEAN, AsyncWrite(x, safe)
        PROVE  Unread'
    <3>1. seen \in Seq(Text) /\ tokens \in Seq(Text)
      BY <1>2 DEF Unread
    <3>2. /\ writes' = <<>> /\ dn' \in Seq(Characters)
          /\ \E rest \in Seq(Text) : told' = seen' \o (tokens' \o rest) /\ dn' = Lines(rest)
      BY <1>1, <1>2, <2>1, <2>3, WriteReads
    <3> QED
      BY <2>1, <3>1, <3>2 DEF Unread
  <2> QED
    BY <1>2, <1>5, <2>2, <2>3, ServerWrites
<1>6. CASE UNCHANGED vars
  BY <1>3, <1>6 DEF vars, stream, client, server, past
<1> QED
  BY <1>4, <1>5, <1>6 DEF Next

LEMMA DownlinkStep ==
  ASSUME QueueInv, NotYet, NothingKept, Unread, Unread', [Next]_vars
  PROVE  [Downlink!Next]_Downlink!vars
<1>1. CASE DownlinkBroken
  <2>1. DownlinkBroken'
    BY <1>1, StaysCut, StaysDeaf DEF DownlinkBroken, QueueInv
  <2> QED
    BY <1>1, <2>1 DEF Downlink!Next, Downlink!Broken, DownlinkBroken
<1>2. CASE ~DownlinkBroken /\ DownlinkBroken'
  BY <1>2 DEF Downlink!Next, Downlink!Break, DownlinkBroken
<1>3. CASE ~DownlinkBroken /\ ~DownlinkBroken'
  <2>1. /\ ~cut /\ ~split /\ ~Apart /\ ~cut' /\ ~split' /\ ~Apart'
        /\ DownlinkBroken' = DownlinkBroken
    BY <1>3 DEF DownlinkBroken
  <2>2. /\ writes = <<>> /\ seen \in Seq(Text) /\ tokens \in Seq(Text) /\ dn \in Seq(Characters)
    BY <2>1 DEF Unread
  <2>3. PICK rest \in Seq(Text) : told = seen \o (tokens \o rest)
    BY <2>1 DEF Unread
  <2>4. UNCHANGED <<told, seen>> => UNCHANGED Downlink!vars
    BY <2>1 DEF Downlink!vars, DownlinkBroken
  <2>5. Downlink!Say \/ Downlink!Hear => Downlink!Next
    BY <1>3 DEF Downlink!Next, DownlinkBroken
  <2>6. CASE ClientNext /\ UNCHANGED server
    <3>1. ~Disconnect /\ UNCHANGED told /\ Threads = {User, Io}
      BY <2>1, <2>6 DEF Disconnect, Apart, server, Threads
    <3>2. \A t \in Threads : SendStep(t) => UNCHANGED seen
      BY <3>1 DEF SendStep, TestEmpty, Push, WriteSome, WriteThrows, Pop, Gone, client, past
    <3>3. (\/ Connect \/ Post \/ SetConnected \/ Join \/ Destroy \/ Corrupt \/ Killed
           \/ Run \/ Rearm \/ EndOfFile \/ ReadFails \/ HandleRead \/ Send)
          => UNCHANGED seen
      BY <3>1 DEF Connect, Post, SetConnected, Join, Destroy, Corrupt, Killed, Run, Rearm,
         EndOfFile, ReadFails, HandleRead, Send, Gone, client, past
    <3>4. ASSUME Handle PROVE Downlink!Hear
      <4>1. seen' = Append(seen, Head(tokens)) /\ tokens # <<>>
        BY <3>4 DEF Handle
      <4>2. Len(seen) < Len(told) /\ told[Len(seen) + 1] = Head(tokens)
        <5>1. Len(seen) \in Nat /\ Len(tokens) \in Nat \ {0} /\ Len(rest) \in Nat
          BY <2>2, <4>1, LenProperties, EmptySeq
        <5> DEFINE w == tokens \o rest
        <5>2. w \in Seq(Text) /\ Len(w) = Len(tokens) + Len(rest) /\ w[1] = tokens[1]
          <6>1. 1 \in 1 .. Len(tokens) + Len(rest) /\ 1 <= Len(tokens)
            BY <5>1
          <6> QED
            BY <2>2, <6>1, ConcatProperties
        <5> HIDE DEF w
        <5>3. /\ Len(seen \o w) = Len(seen) + Len(w)
              /\ \A i \in 1 .. Len(seen) + Len(w) :
                   (seen \o w)[i] = IF i <= Len(seen) THEN seen[i] ELSE w[i - Len(seen)]
          <6>1. \A y, z \in Seq(Text) :
                  /\ Len(y \o z) = Len(y) + Len(z)
                  /\ \A i \in 1 .. Len(y) + Len(z) :
                       (y \o z)[i] = IF i <= Len(y) THEN y[i] ELSE z[i - Len(y)]
            BY ConcatProperties
          <6> QED
            BY <2>2, <5>2, <6>1
        <5>4. /\ Len(seen) + 1 \in 1 .. Len(seen) + Len(w) /\ ~(Len(seen) + 1 <= Len(seen))
              /\ (Len(seen) + 1) - Len(seen) = 1 /\ Len(seen) < Len(seen) + Len(w)
          BY <5>1, <5>2
        <5>5. (seen \o w)[Len(seen) + 1] = tokens[1] /\ Len(seen) < Len(seen \o w)
          BY <5>2, <5>3, <5>4
        <5>6. Head(tokens) = tokens[1]
          BY <2>2, <4>1
        <5> QED
          BY <2>3, <5>5, <5>6 DEF w
      <4> QED
        BY <2>1, <3>1, <4>1, <4>2 DEF Downlink!Hear, DownlinkBroken
    <3>5. UNCHANGED seen \/ Handle
      <4>1. SendStep(User) \/ SendStep(Io) => UNCHANGED seen
        BY <3>1, <3>2
      <4> QED
        BY <2>6, <3>3, <4>1 DEF ClientNext, UserStep, IoStep
    <3> QED
      BY <2>4, <2>5, <3>1, <3>4, <3>5
  <2>7. CASE ServerNext /\ UNCHANGED client
    <3>1. UNCHANGED <<seen, tokens>>
      BY <2>7 DEF client, past
    <3>2. CASE UNCHANGED told
      BY <2>4, <3>1, <3>2
    <3>3. ASSUME UNCHANGED peer, NEW x \in Text, NEW safe \in BOOLEAN, AsyncWrite(x, safe)
          PROVE  Downlink!Say
      <4>1. told' = Append(told, x) /\ told \in Seq(Text)
        BY <2>1, <3>1, <3>3, WriteReads
      <4>2. Len(told') = Len(told) + 1 /\ SubSeq(told', 1, Len(told)) = told
        BY <4>1, AppendedTo
      <4> QED
        BY <2>1, <3>1, <4>2 DEF Downlink!Say, DownlinkBroken
    <3> QED
      BY <2>1, <2>5, <2>7, <3>2, <3>3, ServerWrites
  <2>8. CASE UNCHANGED vars
    BY <2>4, <2>8 DEF vars, client, server, past
  <2> QED
    BY <2>6, <2>7, <2>8 DEF Next
<1> QED
  BY <1>1, <1>2, <1>3

LEMMA UnreadStart ==
  ASSUME Init
  PROVE  NothingKept /\ Unread /\ Downlink!Init
<1>1. /\ seen = <<>> /\ tokens = <<>> /\ dn = <<>> /\ told = <<>> /\ writes = <<>>
  BY DEF Init, StreamInit, ClientInit, ServerInit
<1>2. <<>> \in Seq(Text) /\ <<>> \in Seq(Characters)
  BY EmptySeq
<1>3. <<>> \o <<>> = <<>>
  BY <1>2, ConcatEmptySeq
<1>4. told = seen \o (tokens \o <<>>) /\ dn = Lines(<<>>)
  BY <1>1, <1>3, LinesEmpty
<1>5. Unread
  BY <1>1, <1>2, <1>4 DEF Unread
<1> QED
  BY <1>1, <1>5 DEF NothingKept, Downlink!Init

\* The direction from the server's handlers, its welcome first, to the handler
\* of the client is a channel of messages too, until a write has not fitted at
\* once, a read has ended inside a line, the client's thread has found nothing
\* to run, or a process ends.  A chunk may bring several messages together.
THEOREM DownlinkIsAChannel == Spec => Downlink!Spec
<1> DEFINE Inv == QueueInv /\ NotYet /\ NothingKept /\ Unread
<1>1. Init => Inv /\ Downlink!Init
  BY QueueStart, UnreadStart
<1>2. Inv /\ [Next]_vars => Inv'
  BY QueueStep, NothingKeptKept, UnreadKept DEF QueueInv
<1>3. Inv /\ Inv' /\ [Next]_vars => [Downlink!Next]_Downlink!vars
  BY DownlinkStep
<1> HIDE DEF Inv
<1> QED
  BY <1>1, <1>2, <1>3, PTL DEF Spec, Downlink!Spec
=============================================================================
