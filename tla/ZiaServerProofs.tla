-------------------------- MODULE ZiaServerProofs --------------------------
(***************************************************************************)
(* Theorems about ZiaServer, for every set of clients, descriptors and     *)
(* module libraries: what each thread has hold of; and, behind that, what  *)
(* is sent to whom and what brings the server down, which follows every    *)
(* handler through the pipeline, and the order in which clients were       *)
(* accepted.                                                               *)
(***************************************************************************)
EXTENDS ZiaServer, SequenceTheorems, TLAPS

(***************************************************************************)
(* The inductive invariant: the properties proved, and what they rest on.  *)
(***************************************************************************)

\* The listen backlog holds the queued connections, each once.
BacklogOK ==
  /\ \A i \in 1 .. Len(backlog) : conn[backlog[i]] = "queued"
  /\ \A i, j \in 1 .. Len(backlog) : backlog[i] = backlog[j] => i = j

\* Where the main thread and the handlers can be.
PlacesOK ==
  /\ pc[Main] \in {"call", "accept", "run", "handshake", "receive", "spawn"}
  /\ \A c \in Conns : pc[c] \notin {"call", "accept", "receive", "spawn"}
  /\ current = None <=> pc[Main] \in {"call", "accept"}
  /\ reserved # NoFd <=> pc[Main] = "accept"

\* A handler reaches SSL_write only if a handshake has begun before.
MainDone == pc[Main] \in {"handshake", "receive", "spawn"} \/ \E c \in Conns : pc[c] # "none"
MainCtxOK ==
  /\ pc[Main] = "run" /\ "SSL" \in Modules =>
       \/ ctx[Main].state = BeforeParse /\ ctx[Main].reason = "BeforeParse"
       \/ ctx[Main].state > Interpret /\ ctx[Main].reason = "Interpret" /\ ssl # None
  /\ pc[Main] = "run" /\ "SSL" \notin Modules => ctx[Main].reason = "BeforeParse"
  /\ pc[Main] = "handshake" => ctx[Main].state = Interpret /\ ctx[Main].reason = "Interpret"
SessionsOK ==
  /\ MainCtxOK
  /\ MainDone /\ "SSL" \in Modules => ssl # None
  /\ \A t \in Threads : pc[t] \in {"handshake", "write"} => "SSL" \in Modules
  /\ \A t \in Threads : pc[t] = "write" => loaded[t] \in Conns
  /\ \A c \in Conns : session[c].status # "none" => session[c].fd \in Fds
  /\ \A c \in Conns : pc[c] = "handshake" => session[c].fd \in Fds
  /\ pc[Main] = "handshake" => session[current].fd \in Fds

IInv ==
  /\ TypeOK
  /\ DescriptorsAgree
  /\ OneUserPerSocket
  /\ BacklogOK
  /\ PlacesOK
  /\ SessionsOK

-----------------------------------------------------------------------------
(***************************************************************************)
(* Contexts.                                                               *)
(***************************************************************************)

LEMMA CtxFields ==
  ASSUME NEW x \in CtxType
  PROVE  /\ x.state \in State /\ x.reason \in Reasons /\ x.header \in BOOLEAN
         /\ x.state \in Nat
BY DEF CtxType, State, Error, Completed

LEMMA NewCtxType ==
  \A s \in State, why \in Reasons : NewCtx(s, why) \in CtxType
BY DEF NewCtx, CtxType

LEMMA UpdatedCtx ==
  ASSUME NEW x \in CtxType, NEW s \in State, NEW why \in Reasons
  PROVE  /\ [x EXCEPT !.state = s] \in CtxType
         /\ [x EXCEPT !.reason = why] \in CtxType
         /\ [x EXCEPT !.reason = why, !.state = s] \in CtxType
         /\ [x EXCEPT !.reason = why, !.header = TRUE] \in CtxType
BY DEF CtxType

LEMMA AdvancedState ==
  \A s \in State : /\ Advanced(s) \in State
                   /\ CanAdvance(s) => Advanced(s) = s + 1
                   /\ Advanced(Interpret) = AfterInterpret
BY DEF State, Advanced, CanAdvance, FinalStates, Error, Completed, StateCount,
       Interpret, AfterInterpret

LEMMA StateConstants ==
  /\ {BeforeParse, Interpret, AfterInterpret, Completed} \subseteq State
  /\ BeforeParse = 1 /\ Interpret = 5 /\ AfterInterpret = 6
BY DEF State, Error, Completed, BeforeParse, Interpret, AfterInterpret

\* What the end of a triggering does to the thread and its context.
LEMMA ContinueEffect ==
  ASSUME TypeOK, NEW t \in Threads, NEW x \in CtxType, Continue(t, x)
  PROVE  \E where \in {"run", IF t = Main THEN "receive" ELSE "respond"}, y \in CtxType :
           /\ pc' = [pc EXCEPT ![t] = where]
           /\ ctx' = [ctx EXCEPT ![t] = y]
           /\ y.reason = x.reason
           /\ y.header = x.header
           /\ y.state = Advanced(x.state)
           /\ where = "run" <=> CanAdvance(x.state)
<1> DEFINE y == [x EXCEPT !.state = Advanced(@)]
<1>1. y \in CtxType /\ y.reason = x.reason /\ y.header = x.header /\ y.state = Advanced(x.state)
  <2>1. Advanced(x.state) \in State
    BY CtxFields, AdvancedState
  <2> QED
    BY <2>1 DEF CtxType
<1>2. ctx' = [ctx EXCEPT ![t] = y]
  BY DEF Continue
<1> HIDE DEF y
<1> QED
  BY <1>1, <1>2 DEF Continue, Goto

-----------------------------------------------------------------------------
(***************************************************************************)
(* Every step keeps the invariant.                                         *)
(***************************************************************************)

LEMMA IInvInit == Init => IInv
<1> SUFFICES ASSUME Init PROVE IInv
  OBVIOUS
<1> USE DEF Init, NoFd, Threads
<1>1. TypeOK
  <2>1. NewCtx(BeforeParse, "BeforeParse") \in CtxType
    BY NewCtxType, StateConstants DEF Reasons
  <2> HIDE DEF Init
  <2>2. ctx \in [Threads -> CtxType]
    BY <2>1 DEF Init
  <2> USE DEF Init
  <2> QED
    BY <2>2, ServerAssumption, EmptySeq DEF TypeOK, PCs, Causes, SessionType, Reply
<1>2. DescriptorsAgree
  BY ServerAssumption DEF DescriptorsAgree, FilesApart
<1>3. OneUserPerSocket
  BY ServerAssumption DEF OneUserPerSocket
<1>4. BacklogOK
  BY DEF BacklogOK
<1>5. PlacesOK
  BY ServerAssumption DEF PlacesOK
<1>6. SessionsOK
  BY ServerAssumption DEF SessionsOK, MainCtxOK, MainDone
<1> QED
  BY <1>1, <1>2, <1>3, <1>4, <1>5, <1>6 DEF IInv

\* Steps that change nothing the invariant speaks of but types.
LEMMA FrameStep ==
  ASSUME IInv,
         UNCHANGED <<conn, backlog, owner, loop, fd, pc, ctx, loaded, file, session, ssl>>,
         sent' \in [Conns -> {"nothing", "hello", "request"}],
         unread' \in [Conns -> BOOLEAN],
         left' \subseteq Conns,
         replies' \in [Conns -> SUBSET Reply],
         down' \in Causes,
         overlap' \subseteq Conns
  PROVE  IInv'
<1> USE DEF loop
<1>1. TypeOK'
  BY DEF IInv, TypeOK
<1>2. DescriptorsAgree' /\ OneUserPerSocket'
  BY DEF IInv, DescriptorsAgree, FilesApart, OneUserPerSocket
<1>3. BacklogOK' /\ PlacesOK'
  BY DEF IInv, BacklogOK, PlacesOK
<1>4. SessionsOK'
  BY DEF IInv, SessionsOK, MainCtxOK, MainDone
<1> QED
  BY <1>1, <1>2, <1>3, <1>4 DEF IInv

LEMMA DownStep ==
  ASSUME IInv, NEW cause \in Causes, GoDown(cause)
  PROVE  IInv'
BY FrameStep DEF GoDown, kernel, module, IInv, TypeOK

LEMMA ClientStep ==
  ASSUME IInv, NEW c \in Conns, Client(c)
  PROVE  IInv'
<1> USE DEF server, loop, module
<1>1. CASE Connect(c)
  <2> USE <1>1 DEF Connect
  <2>1. TypeOK'
    BY AppendProperties DEF IInv, TypeOK
  <2>2. DescriptorsAgree' /\ PlacesOK'
    BY DEF IInv, DescriptorsAgree, FilesApart, PlacesOK
  <2>3. OneUserPerSocket'
    BY DEF IInv, TypeOK, OneUserPerSocket
  <2>4. BacklogOK'
    <3>1. /\ backlog \in Seq(Conns) /\ Len(backlog) \in Nat
          /\ Len(backlog') = Len(backlog) + 1
          /\ \A i \in 1 .. Len(backlog) : backlog'[i] = backlog[i] /\ backlog[i] \in Conns
          /\ backlog'[Len(backlog) + 1] = c
      BY AppendProperties, LenProperties DEF IInv, TypeOK
    <3>2. \A i \in 1 .. Len(backlog) : backlog[i] # c
      BY DEF IInv, BacklogOK
    <3> QED
      BY <3>1, <3>2 DEF IInv, TypeOK, BacklogOK
  <2>5. SessionsOK'
    BY DEF IInv, SessionsOK, MainCtxOK, MainDone
  <2> QED
    BY <2>1, <2>2, <2>3, <2>4, <2>5 DEF IInv
<1>2. CASE SendFirst(c)
  BY <1>2, FrameStep DEF SendFirst, IInv, TypeOK
<1>3. CASE SendRequest(c)
  BY <1>3, FrameStep DEF SendRequest, IInv, TypeOK
<1>4. CASE HangUp(c)
  BY <1>4, FrameStep DEF HangUp, IInv, TypeOK
<1> QED
  BY <1>1, <1>2, <1>3, <1>4 DEF Client

LEMMA CallAcceptStep ==
  ASSUME IInv, CallAccept
  PROVE  IInv'
<1>1. CASE FreeFds = {}
  BY <1>1, DownStep DEF CallAccept, Causes
<1>2. CASE FreeFds # {}
  <2> USE <1>2 DEF CallAccept, kernel, module, Goto
  <2>1. PICK f \in FreeFds : reserved' = f
    OBVIOUS
  <2>2. f \in Fds /\ f # NoFd /\ owner[f] = None /\ \A t \in Threads : file[t] # f
    BY <2>1, ServerAssumption DEF FreeFds, NoFd
  <2>3. pc' = [pc EXCEPT ![Main] = "accept"] /\ Main \in Threads /\ Main \notin Conns
    BY ServerAssumption DEF Threads
  <2>4. TypeOK'
    BY <2>1, <2>2, <2>3 DEF IInv, TypeOK, PCs
  <2>5. DescriptorsAgree'
    <3>1. FilesApart'
      <4>1. \A t \in Threads : pc[t] = "file" => pc'[t] = "file"
        BY <2>3 DEF IInv, TypeOK, PlacesOK
      <4> QED
        BY <2>1, <2>2, <4>1 DEF IInv, DescriptorsAgree, FilesApart
    <3> QED
      BY <2>1, <2>2, <3>1 DEF IInv, DescriptorsAgree
  <2>6. OneUserPerSocket'
    BY <2>3 DEF IInv, TypeOK, OneUserPerSocket, Threads
  <2>7. BacklogOK'
    BY DEF IInv, BacklogOK
  <2>8. PlacesOK'
    BY <2>1, <2>2, <2>3 DEF IInv, TypeOK, PlacesOK, Threads
  <2>9. SessionsOK'
    BY <2>3 DEF IInv, TypeOK, SessionsOK, MainCtxOK, MainDone, Threads
  <2> QED
    BY <2>4, <2>5, <2>6, <2>7, <2>8, <2>9 DEF IInv
<1> QED
  BY <1>1, <1>2

LEMMA AcceptStep ==
  ASSUME IInv, Accept
  PROVE  IInv'
<1> DEFINE c == Head(backlog)
<1>1. /\ c \in Conns /\ conn[c] = "queued" /\ pc[c] = "none" /\ fd[c] = NoFd
      /\ Tail(backlog) \in Seq(Conns) /\ Len(backlog) \in Nat
      /\ Len(Tail(backlog)) = Len(backlog) - 1
      /\ \A i \in 1 .. Len(Tail(backlog)) : Tail(backlog)[i] = backlog[i + 1]
      /\ c = backlog[1]
  <2>1. /\ c \in Conns /\ Tail(backlog) \in Seq(Conns) /\ Len(backlog) \in Nat
        /\ Len(Tail(backlog)) = Len(backlog) - 1 /\ Len(backlog) # 0
        /\ \A i \in 1 .. Len(Tail(backlog)) : Tail(backlog)[i] = backlog[i + 1]
        /\ c = backlog[1]
    BY HeadTailProperties, LenProperties, EmptySeq DEF IInv, TypeOK, Accept
  <2>2. conn[c] = "queued"
    BY <2>1 DEF IInv, BacklogOK
  <2> QED
    BY <2>1, <2>2 DEF IInv, OneUserPerSocket
<1>2. /\ reserved \in Fds /\ reserved # NoFd /\ owner[reserved] = None /\ current = None
      /\ Main \in Threads /\ Main \notin Conns /\ None \notin Conns
  BY ServerAssumption DEF Accept, IInv, TypeOK, PlacesOK, DescriptorsAgree, Threads
<1>3. /\ current' = c
      /\ sockets' = Append(sockets, c)
      /\ conn' = [conn EXCEPT ![c] = "accepted"]
      /\ owner' = [owner EXCEPT ![reserved] = c]
      /\ fd' = [fd EXCEPT ![c] = reserved]
      /\ backlog' = Tail(backlog)
      /\ reserved' = NoFd
      /\ ctx' = [ctx EXCEPT ![Main] = NewCtx(BeforeParse, "BeforeParse")]
      /\ pc' = [pc EXCEPT ![Main] = "run"]
      /\ UNCHANGED <<sent, unread, left, replies, loaded, file, session, ssl, overlap, down>>
  BY DEF Accept, Goto, module
<1>4. NewCtx(BeforeParse, "BeforeParse") \in CtxType
  BY NewCtxType, StateConstants DEF Reasons
<1> HIDE DEF c
<1>5. TypeOK'
  BY <1>1, <1>2, <1>3, <1>4, AppendProperties DEF IInv, TypeOK, PCs
<1>6. DescriptorsAgree'
  <2>1. \A d \in Conns : fd'[d] # NoFd => owner'[fd'[d]] = d
    BY <1>1, <1>2, <1>3 DEF IInv, TypeOK, DescriptorsAgree
  <2>2. \A f \in Fds : owner'[f] # None => fd'[owner'[f]] = f
    <3>1. \A f \in Fds : f # NoFd
      BY ServerAssumption DEF NoFd
    <3> QED
      BY <1>1, <1>2, <1>3, <3>1 DEF IInv, TypeOK, DescriptorsAgree
  <2>3. FilesApart'
    <3>1. \A t \in Threads : pc[t] = "file" => pc'[t] = "file"
      BY <1>3 DEF Accept, IInv, TypeOK
    <3>2. \A f \in Fds : f # reserved => owner'[f] = owner[f]
      BY <1>3 DEF IInv, TypeOK
    <3>3. \A t \in Threads : file[t] # NoFd => file[t] \in Fds
      BY DEF IInv, TypeOK
    <3> QED
      BY <1>3, <3>1, <3>2, <3>3 DEF IInv, DescriptorsAgree, FilesApart
  <2> QED
    BY <1>3, <2>1, <2>2, <2>3 DEF DescriptorsAgree
<1>7. OneUserPerSocket'
  BY <1>1, <1>2, <1>3 DEF IInv, TypeOK, OneUserPerSocket, Threads
<1>8. BacklogOK'
  <2>1. \A i \in 1 .. Len(Tail(backlog)) :
          /\ i + 1 \in 1 .. Len(backlog) /\ i \in Nat
          /\ 1 \in 1 .. Len(backlog) /\ i + 1 # 1
          /\ Tail(backlog)[i] = backlog[i + 1]
    BY <1>1
  <2>2. \A i \in 1 .. Len(Tail(backlog)) : backlog[i + 1] \in Conns \ {c}
    <3>1. \A i \in 1 .. Len(backlog) : backlog[i] \in Conns
      BY ElementOfSeq DEF IInv, TypeOK
    <3> QED
      BY <1>1, <2>1, <3>1 DEF IInv, BacklogOK
  <2>3. \A d \in Conns \ {c} : conn'[d] = conn[d]
    BY <1>3 DEF IInv, TypeOK
  <2>4. \A i \in 1 .. Len(backlog') : conn'[backlog'[i]] = "queued"
    BY <1>3, <2>1, <2>2, <2>3 DEF IInv, BacklogOK
  <2>5. \A i, j \in 1 .. Len(backlog') : backlog'[i] = backlog'[j] => i = j
    <3>1. \A i, j \in 1 .. Len(Tail(backlog)) : backlog[i + 1] = backlog[j + 1] => i + 1 = j + 1
      BY <2>1 DEF IInv, BacklogOK
    <3> QED
      BY <1>3, <2>1, <3>1
  <2> QED
    BY <2>4, <2>5 DEF BacklogOK
<1>9. PlacesOK'
  BY <1>1, <1>2, <1>3 DEF IInv, TypeOK, PlacesOK, Threads
<1>10. SessionsOK'
  <2>1. ctx'[Main].state = BeforeParse /\ ctx'[Main].reason = "BeforeParse"
    BY <1>2, <1>3 DEF IInv, TypeOK, NewCtx
  <2>2. MainCtxOK'
    BY <1>2, <1>3, <2>1 DEF IInv, TypeOK, MainCtxOK
  <2> QED
    BY <1>2, <1>3, <2>2 DEF IInv, TypeOK, SessionsOK, MainDone, Threads
<1> QED
  BY <1>5, <1>6, <1>7, <1>8, <1>9, <1>10 DEF IInv

LEMMA ReceiveStep ==
  ASSUME IInv, Receive
  PROVE  IInv'
<1>1. CASE GoDown("eof")
  BY <1>1, DownStep DEF Causes
<1>2. CASE ~GoDown("eof")
  <2>1. /\ pc' = [pc EXCEPT ![Main] = "spawn"] /\ pc[Main] = "receive"
        /\ unread' = [unread EXCEPT ![current] = FALSE]
        /\ UNCHANGED <<conn, backlog, owner, sent, left, replies, loop, fd, ctx, loaded,
                       file, module, down>>
        /\ Main \in Threads /\ Main \notin Conns
    BY <1>2, ServerAssumption DEF Receive, Goto, Threads
  <2> USE DEF loop, module
  <2>2. TypeOK'
    BY <2>1 DEF IInv, TypeOK, PCs
  <2>3. DescriptorsAgree' /\ OneUserPerSocket'
    BY <2>1 DEF IInv, TypeOK, DescriptorsAgree, FilesApart, OneUserPerSocket, Threads
  <2>4. BacklogOK' /\ PlacesOK'
    BY <2>1 DEF IInv, TypeOK, BacklogOK, PlacesOK, Threads
  <2>5. SessionsOK'
    BY <2>1 DEF IInv, TypeOK, SessionsOK, MainCtxOK, MainDone, Threads
  <2> QED
    BY <2>2, <2>3, <2>4, <2>5 DEF IInv
<1> QED
  BY <1>1, <1>2

LEMMA SpawnStep ==
  ASSUME IInv, Spawn
  PROVE  IInv'
<1>1. /\ current \in Conns /\ conn[current] = "accepted" /\ fd[current] # NoFd
      /\ Main \in Threads /\ Main \notin Conns /\ None \notin Conns
  BY ServerAssumption DEF Spawn, IInv, TypeOK, PlacesOK, OneUserPerSocket, Threads
<1>2. /\ pc[Main] = "spawn"
      /\ pc' = [pc EXCEPT ![Main] = "call", ![current] = "run"]
      /\ ctx' = [ctx EXCEPT ![current] = NewCtx(Interpret, "Interpret")]
      /\ current' = None
      /\ UNCHANGED <<kernel, reserved, sockets, fd, loaded, file, module, down>>
  BY DEF Spawn, NextSocket
<1>3. NewCtx(Interpret, "Interpret") \in CtxType
  BY NewCtxType, StateConstants DEF Reasons
<1> USE DEF kernel, module
<1>4. TypeOK'
  BY <1>1, <1>2, <1>3 DEF IInv, TypeOK, PCs, Threads
<1>5. DescriptorsAgree' /\ BacklogOK'
  <2>1. \A t \in Threads : pc[t] = "file" => pc'[t] = "file"
    BY <1>1, <1>2 DEF IInv, TypeOK, OneUserPerSocket
  <2> QED
    BY <1>2, <2>1 DEF IInv, DescriptorsAgree, FilesApart, BacklogOK
<1>6. OneUserPerSocket'
  BY <1>1, <1>2 DEF IInv, TypeOK, OneUserPerSocket, Threads
<1>7. PlacesOK'
  BY <1>1, <1>2 DEF IInv, TypeOK, PlacesOK, Threads
<1>8. SessionsOK'
  BY <1>1, <1>2 DEF IInv, TypeOK, SessionsOK, MainCtxOK, MainDone, Threads
<1> QED
  BY <1>4, <1>5, <1>6, <1>7, <1>8 DEF IInv

\* A step of a thread inside runPipeline: it moves, and no socket or connection
\* changes.  If a file is open afterwards, the descriptor was free.
LEMMA MoveFileStep ==
  ASSUME IInv, NEW t \in Threads, pc[t] \in {"run", "handshake", "file", "write"},
         NEW where \in {"run", "handshake", "file", "write", "receive", "respond"},
         t = Main => where \notin {"file", "write", "respond"},
         t # Main => where # "receive",
         pc' = [pc EXCEPT ![t] = where],
         UNCHANGED <<conn, backlog, owner, loop, fd>>,
         \A u \in Threads \ {t} : file'[u] = file[u],
         file'[t] = NoFd \/ (where = "file" /\ file'[t] \in FreeFds)
  PROVE  DescriptorsAgree' /\ OneUserPerSocket' /\ BacklogOK' /\ PlacesOK'
<1> USE DEF loop
<1>1. Main \notin Conns /\ Main \in Threads
  BY ServerAssumption DEF Threads
<1>2. DescriptorsAgree' /\ BacklogOK'
  <2>1. pc'[t] = where /\ \A u \in Threads \ {t} : pc'[u] = pc[u]
    BY DEF IInv, TypeOK
  <2>2. FilesApart'
    BY <2>1 DEF IInv, DescriptorsAgree, FilesApart, FreeFds
  <2> QED
    BY <2>2 DEF IInv, DescriptorsAgree, BacklogOK
<1>3. OneUserPerSocket'
  BY <1>1 DEF IInv, TypeOK, OneUserPerSocket, Threads
<1>4. PlacesOK'
  <2>1. pc'[t] = where /\ \A u \in Threads \ {t} : pc'[u] = pc[u]
    BY DEF IInv, TypeOK
  <2>2. CASE t = Main
    BY <1>1, <2>1, <2>2 DEF IInv, PlacesOK, Threads
  <2>3. CASE t # Main
    BY <1>1, <2>1, <2>3 DEF IInv, PlacesOK, Threads
  <2> QED
    BY <2>2, <2>3
<1> QED
  BY <1>2, <1>3, <1>4

LEMMA NoFile ==
  ASSUME IInv, NEW t \in Threads, pc[t] # "file"
  PROVE  file[t] = NoFd
BY DEF IInv, DescriptorsAgree, FilesApart

LEMMA MoveStep ==
  ASSUME IInv, NEW t \in Threads, pc[t] \in {"run", "handshake", "write"},
         NEW where \in {"run", "handshake", "write", "receive", "respond"},
         t = Main => where \notin {"write", "respond"},
         t # Main => where # "receive",
         pc' = [pc EXCEPT ![t] = where],
         UNCHANGED <<conn, backlog, owner, loop, fd, file>>
  PROVE  DescriptorsAgree' /\ OneUserPerSocket' /\ BacklogOK' /\ PlacesOK'
BY NoFile, MoveFileStep

LEMMA PassStep ==
  ASSUME IInv, NEW t \in Threads, Pass(t)
  PROVE  IInv'
<1> DEFINE x == ctx[t]
<1>1. /\ pc[t] = "run" /\ Continue(t, x)
      /\ ~WantsHandshake(ctx[t]) /\ ~WantsWrite(ctx[t])
      /\ UNCHANGED <<kernel, loop, fd, loaded, file, module, down>>
      /\ Main \in Threads /\ Main \notin Conns
  BY ServerAssumption DEF Pass, Threads
<1>2. ctx[t] \in CtxType
  BY DEF IInv, TypeOK
<1>3. x \in CtxType /\ x.state = ctx[t].state /\ x.reason = ctx[t].reason
  BY <1>2
<1> HIDE DEF x
<1>4. PICK where \in {"run", IF t = Main THEN "receive" ELSE "respond"}, y \in CtxType :
        /\ pc' = [pc EXCEPT ![t] = where]
        /\ ctx' = [ctx EXCEPT ![t] = y]
        /\ y.reason = x.reason
        /\ y.state = Advanced(x.state)
        /\ where = "run" => CanAdvance(x.state)
  BY <1>1, <1>3, ContinueEffect DEF IInv
<1> USE DEF kernel, module
<1>5. TypeOK'
  BY <1>1, <1>4 DEF IInv, TypeOK, PCs, loop
<1>6. DescriptorsAgree' /\ OneUserPerSocket' /\ BacklogOK' /\ PlacesOK'
  BY <1>1, <1>4, MoveStep
<1>7. SessionsOK'
  <2>1. MainCtxOK'
    <3>1. CASE t = Main /\ "SSL" \in Modules
      <4>1. ctx[t].state > Interpret /\ ctx[t].reason = "Interpret" /\ ssl # None
        BY <1>1, <3>1 DEF IInv, SessionsOK, MainCtxOK, WantsHandshake, Calls
      <4>2. ctx[t].state \in State /\ ctx[t].state \in Nat
        BY <1>2, CtxFields
      <4>3. y.reason = "Interpret"
        BY <1>3, <1>4, <4>1, <4>2, StateConstants
      <4>4. where = "run" => y.state > Interpret
        BY <1>3, <1>4, <4>1, <4>2, StateConstants, AdvancedState
      <4> QED
        BY <1>1, <1>4, <3>1, <4>1, <4>3, <4>4 DEF IInv, TypeOK, MainCtxOK
    <3>2. CASE t = Main /\ "SSL" \notin Modules
      <4>1. pc'[Main] # "handshake" /\ ctx'[Main].reason = ctx[Main].reason
        BY <1>1, <1>3, <1>4, <3>2 DEF IInv, TypeOK
      <4> QED
        BY <1>1, <3>2, <4>1 DEF IInv, SessionsOK, MainCtxOK
    <3>3. CASE t # Main
      BY <1>1, <1>4, <3>3 DEF IInv, TypeOK, SessionsOK, MainCtxOK, Threads
    <3> QED
      BY <3>1, <3>2, <3>3
  <2>2. "SSL" \in Modules => ssl # None
    <3>1. CASE t = Main
      BY <1>1, <3>1 DEF IInv, SessionsOK, MainCtxOK, WantsHandshake, Calls
    <3>2. CASE t # Main
      BY <1>1, <3>2 DEF IInv, SessionsOK, MainDone, Threads
    <3> QED
      BY <3>1, <3>2
  <2>3. \A u \in Threads : pc'[u] \in {"handshake", "write"} => pc'[u] = pc[u]
    BY <1>4 DEF IInv, TypeOK
  <2> QED
    BY <1>1, <2>1, <2>2, <2>3 DEF IInv, SessionsOK, Threads, loop
<1> QED
  BY <1>5, <1>6, <1>7 DEF IInv

\* Only handlers open index.html: the main thread never has a context that asks
\* for a response.
LEMMA OpenerIsHandler ==
  ASSUME IInv, NEW t \in Threads, pc[t] = "run", WantsResponse(ctx[t])
  PROVE  t # Main
BY StateConstants DEF WantsResponse, Calls, IInv, SessionsOK, MainCtxOK

LEMMA OpenFileStep ==
  ASSUME IInv, NEW t \in Threads, OpenFile(t)
  PROVE  IInv'
<1>1. /\ pc[t] = "run" /\ pc' = [pc EXCEPT ![t] = "file"] /\ t # Main
      /\ UNCHANGED <<kernel, loop, fd, ctx, loaded, module, down>>
      /\ Main \in Threads /\ Main \notin Conns
  BY OpenerIsHandler, ServerAssumption DEF OpenFile, Goto, Threads
<1>2. PICK g \in Fds \union {NoFd} :
        file' = [file EXCEPT ![t] = g] /\ (g = NoFd \/ g \in FreeFds)
  <2>1. CASE UNCHANGED file
    <3>1. file[t] = NoFd /\ file' = [file EXCEPT ![t] = file[t]]
      BY <1>1, <2>1, NoFile DEF IInv, TypeOK
    <3> QED
      BY <3>1
  <2>2. ASSUME NEW f \in FreeFds, file' = [file EXCEPT ![t] = f]
        PROVE  \E g \in Fds \union {NoFd} :
                 file' = [file EXCEPT ![t] = g] /\ (g = NoFd \/ g \in FreeFds)
    BY <2>2 DEF FreeFds
  <2> QED
    BY <2>1, <2>2 DEF OpenFile
<1> USE DEF kernel, module
<1>3. TypeOK'
  BY <1>1, <1>2 DEF IInv, TypeOK, PCs, loop
<1>4. DescriptorsAgree' /\ OneUserPerSocket' /\ BacklogOK' /\ PlacesOK'
  <2>1. file'[t] = g /\ \A u \in Threads \ {t} : file'[u] = file[u]
    BY <1>2 DEF IInv, TypeOK
  <2> QED
    BY <1>1, <1>2, <2>1, MoveFileStep
<1>5. SessionsOK'
  BY <1>1 DEF IInv, TypeOK, SessionsOK, MainCtxOK, MainDone, Threads, loop
<1> QED
  BY <1>3, <1>4, <1>5 DEF IInv

LEMMA CreateResponseStep ==
  ASSUME IInv, NEW t \in Threads, CreateResponse(t)
  PROVE  IInv'
<1> DEFINE x == [ctx[t] EXCEPT !.reason = "AfterInterpret", !.header = TRUE]
<1>1. /\ pc[t] = "file" /\ t # Main /\ Continue(t, x)
      /\ file' = [file EXCEPT ![t] = NoFd]
      /\ UNCHANGED <<kernel, loop, fd, loaded, module, down>>
      /\ Main \in Threads /\ Main \notin Conns
  BY ServerAssumption DEF CreateResponse, Threads, IInv, PlacesOK
<1>2. x \in CtxType
  BY DEF IInv, TypeOK, CtxType, Reasons
<1> HIDE DEF x
<1>3. PICK where \in {"run", "respond"}, y \in CtxType :
        pc' = [pc EXCEPT ![t] = where] /\ ctx' = [ctx EXCEPT ![t] = y]
  BY <1>1, <1>2, ContinueEffect DEF IInv
<1> USE DEF kernel, module
<1>4. TypeOK'
  BY <1>1, <1>3 DEF IInv, TypeOK, PCs, loop
<1>5. DescriptorsAgree' /\ OneUserPerSocket' /\ BacklogOK' /\ PlacesOK'
  <2>1. file'[t] = NoFd /\ \A u \in Threads \ {t} : file'[u] = file[u]
    BY <1>1 DEF IInv, TypeOK
  <2> QED
    BY <1>1, <1>3, <2>1, MoveFileStep
<1>6. SessionsOK'
  BY <1>1, <1>3 DEF IInv, TypeOK, SessionsOK, MainCtxOK, MainDone, Threads, loop
<1> QED
  BY <1>4, <1>5, <1>6 DEF IInv

\* The connection a thread inside runPipeline works for is open.
LEMMA ServedOpen ==
  ASSUME IInv, NEW t \in Threads, pc[t] \in {"run", "handshake", "write"}
  PROVE  Served(t) \in Conns /\ fd[Served(t)] \in Fds
<1>1. Main \notin Conns
  BY ServerAssumption
<1>2. Served(t) \in Conns /\ conn[Served(t)] = "accepted"
  BY <1>1 DEF IInv, TypeOK, PlacesOK, OneUserPerSocket, Served, Threads
<1> QED
  BY <1>2 DEF IInv, TypeOK, OneUserPerSocket

LEMMA SslNewStep ==
  ASSUME IInv, NEW t \in Threads, SslNew(t)
  PROVE  IInv'
<1> DEFINE y == [ctx[t] EXCEPT !.reason = "Interpret", !.state = Interpret]
           c == Served(t)
           s == [fd |-> fd[c], status |-> "new"]
<1>1. /\ pc[t] = "run" /\ WantsHandshake(ctx[t])
      /\ pc' = [pc EXCEPT ![t] = "handshake"]
      /\ session' = [session EXCEPT ![c] = s]
      /\ ssl' = c
      /\ UNCHANGED <<kernel, loop, fd, loaded, file, down>>
  BY DEF SslNew, Goto
<1>2. ctx[t] \in CtxType
  BY DEF IInv, TypeOK
<1>3. y \in CtxType /\ y.state = Interpret /\ y.reason = "Interpret"
  BY <1>2, StateConstants DEF Reasons, CtxType
<1>4. ctx' = [ctx EXCEPT ![t] = y]
  <2>1. ctx' = [ctx EXCEPT ![t].reason = "Interpret", ![t].state = Interpret]
    BY DEF SslNew
  <2> QED
    BY <1>2, <2>1 DEF IInv, TypeOK
<1>5. c \in Conns /\ fd[c] \in Fds /\ None \notin Conns /\ Main \notin Conns
  BY <1>1, ServedOpen, ServerAssumption
<1>6. s \in SessionType /\ s.fd \in Fds
  BY <1>5 DEF SessionType
<1>7. overlap' \subseteq Conns
  BY DEF SslNew, IInv, TypeOK
<1> HIDE DEF y, c, s
<1> USE DEF kernel
<1>8. TypeOK'
  BY <1>1, <1>3, <1>4, <1>5, <1>6, <1>7 DEF IInv, TypeOK, PCs, loop
<1>9. DescriptorsAgree' /\ OneUserPerSocket' /\ BacklogOK' /\ PlacesOK'
  BY <1>1, MoveStep
<1>10. SessionsOK'
  <2>1. MainCtxOK'
    BY <1>1, <1>3, <1>4, <1>5 DEF IInv, TypeOK, SessionsOK, MainCtxOK, Threads
  <2>2. "SSL" \in Modules
    BY <1>1 DEF WantsHandshake, Calls
  <2>3. \A u \in Threads : pc'[u] = "write" => pc[u] = "write"
    BY <1>1 DEF IInv, TypeOK
  <2>4. \A d \in Conns : session'[d].status # "none" => session'[d].fd \in Fds
    BY <1>1, <1>5, <1>6 DEF IInv, TypeOK, SessionsOK
  <2>5. \A d \in Conns : pc'[d] = "handshake" => session'[d].fd \in Fds
    BY <1>1, <1>5, <1>6 DEF IInv, TypeOK, SessionsOK, c, Served, Threads
  <2>6. pc'[Main] = "handshake" => session'[current'].fd \in Fds
    BY <1>1, <1>5, <1>6 DEF IInv, TypeOK, PlacesOK, SessionsOK, c, Served, Threads, loop
  <2> QED
    BY <1>1, <1>5, <2>1, <2>2, <2>3, <2>4, <2>5, <2>6 DEF IInv, SessionsOK
<1> QED
  BY <1>8, <1>9, <1>10 DEF IInv

LEMMA SslAcceptStep ==
  ASSUME IInv, NEW t \in Threads, SslAccept(t)
  PROVE  IInv'
<1> DEFINE c == Served(t)
           status == IF Hello(c) /\ c \notin left THEN "open" ELSE "failed"
           s == [session[c] EXCEPT !.status = status]
<1>1. /\ pc[t] = "handshake" /\ Continue(t, ctx[t])
      /\ unread' = [unread EXCEPT ![c] = @ /\ ~Hello(c)]
      /\ UNCHANGED <<conn, backlog, owner, sent, left, replies, loop, fd, loaded, file,
                     ssl, overlap, down>>
      /\ Main \in Threads /\ Main \notin Conns
  BY ServerAssumption DEF SslAccept, Threads
<1>2. ctx[t] \in CtxType
  BY DEF IInv, TypeOK
<1>3. PICK where \in {"run", IF t = Main THEN "receive" ELSE "respond"}, y \in CtxType :
        /\ pc' = [pc EXCEPT ![t] = where]
        /\ ctx' = [ctx EXCEPT ![t] = y]
        /\ y.reason = ctx[t].reason
        /\ y.state = Advanced(ctx[t].state)
        /\ where = "run" => CanAdvance(ctx[t].state)
  BY <1>1, <1>2, ContinueEffect DEF IInv
<1>4. c \in Conns /\ fd[c] \in Fds
  BY <1>1, ServedOpen
<1>5. session[c] \in SessionType
  BY <1>4 DEF IInv, TypeOK
<1>6. s \in SessionType /\ s.fd = session[c].fd
  BY <1>5 DEF SessionType
<1>7. session' = [session EXCEPT ![c] = s]
  BY DEF SslAccept, Hello
<1>8. unread' \in [Conns -> BOOLEAN]
  <2>1. Hello(c) \in BOOLEAN
    BY <1>4 DEF Hello, IInv, TypeOK
  <2> QED
    BY <1>1, <1>4, <2>1 DEF IInv, TypeOK
<1> HIDE DEF c, s
<1>9. TypeOK'
  BY <1>1, <1>3, <1>4, <1>6, <1>7, <1>8 DEF IInv, TypeOK, PCs, loop
<1>10. DescriptorsAgree' /\ OneUserPerSocket' /\ BacklogOK' /\ PlacesOK'
  BY <1>1, <1>3, MoveStep
<1>11. SessionsOK'
  <2>1. "SSL" \in Modules
    BY <1>1 DEF IInv, SessionsOK
  <2>2. ssl # None
    BY <1>1, <2>1 DEF IInv, SessionsOK, MainDone, Threads
  <2>3. MainCtxOK'
    <3>1. CASE t = Main
      <4>1. y.state > Interpret /\ y.reason = "Interpret"
        BY <1>1, <1>3, <3>1, AdvancedState, StateConstants DEF IInv, SessionsOK, MainCtxOK
      <4> QED
        BY <1>1, <1>3, <2>2, <3>1, <4>1, <2>1 DEF IInv, TypeOK, MainCtxOK
    <3>2. CASE t # Main
      BY <1>1, <1>3, <3>2 DEF IInv, TypeOK, SessionsOK, MainCtxOK, Threads
    <3> QED
      BY <3>1, <3>2
  <2>4. \A u \in Threads : pc'[u] \in {"handshake", "write"} => pc'[u] = pc[u]
    BY <1>3 DEF IInv, TypeOK
  <2>5. \A d \in Conns : session'[d].status # "none" => session'[d].fd \in Fds
    <3>1. session[c].fd \in Fds
      BY <1>1, <1>4 DEF IInv, SessionsOK, c, Served, Threads
    <3> QED
      BY <1>4, <1>6, <1>7, <3>1 DEF IInv, TypeOK, SessionsOK
  <2>6. \A d \in Conns : session'[d].fd = session[d].fd
    BY <1>4, <1>6, <1>7 DEF IInv, TypeOK
  <2>7. /\ \A d \in Conns : pc'[d] = "handshake" => session'[d].fd \in Fds
        /\ pc'[Main] = "handshake" => session'[current'].fd \in Fds
    <3>1. \A u \in Threads : pc'[u] = "handshake" => pc[u] = "handshake"
      BY <1>3 DEF IInv, TypeOK
    <3>2. pc[Main] = "handshake" => current \in Conns /\ current' = current
      BY <1>1 DEF IInv, TypeOK, PlacesOK, loop
    <3> QED
      BY <1>1, <2>6, <3>1, <3>2 DEF IInv, SessionsOK, Threads
  <2> QED
    BY <1>1, <2>2, <2>3, <2>4, <2>5, <2>7 DEF IInv, SessionsOK
<1> QED
  BY <1>9, <1>10, <1>11 DEF IInv

LEMMA LoadSessionStep ==
  ASSUME IInv, NEW t \in Threads, LoadSession(t)
  PROVE  IInv'
<1>1. CASE ~ctx[t].header
  BY <1>1, DownStep DEF LoadSession, Causes
<1>2. CASE ctx[t].header
  <2>1. /\ pc[t] = "run" /\ WantsWrite(ctx[t])
        /\ loaded' = [loaded EXCEPT ![t] = ssl]
        /\ pc' = [pc EXCEPT ![t] = "write"]
        /\ UNCHANGED <<kernel, loop, fd, ctx, file, module, down>>
        /\ Main \in Threads /\ Main \notin Conns
    BY <1>2, ServerAssumption DEF LoadSession, Goto, Threads
  <2>2. "SSL" \in Modules /\ t # Main
    BY <2>1, StateConstants DEF WantsWrite, Calls, IInv, SessionsOK, MainCtxOK
  <2>3. ssl \in Conns
    BY <2>1, <2>2 DEF IInv, TypeOK, SessionsOK, MainDone, Threads
  <2> USE DEF kernel, module
  <2>4. TypeOK'
    BY <2>1, <2>3 DEF IInv, TypeOK, PCs, loop
  <2>5. DescriptorsAgree' /\ OneUserPerSocket' /\ BacklogOK' /\ PlacesOK'
    BY <2>1, <2>2, MoveStep
  <2>6. SessionsOK'
    BY <2>1, <2>2, <2>3 DEF IInv, TypeOK, SessionsOK, MainCtxOK, MainDone, Threads, loop
  <2> QED
    BY <2>4, <2>5, <2>6 DEF IInv
<1> QED
  BY <1>1, <1>2

LEMMA EndWriteStep ==
  ASSUME IInv, NEW t \in Threads, pc[t] = "write", EndWrite(t),
         replies' \in [Conns -> SUBSET Reply]
  PROVE  IInv'
<1> DEFINE x == [ctx[t] EXCEPT !.reason = "Completed", !.state = Completed]
<1>1. /\ Continue(t, x)
      /\ UNCHANGED <<conn, backlog, owner, sent, unread, left, loop, fd, loaded, file,
                     module, down>>
      /\ Main \in Threads /\ Main \notin Conns
  BY ServerAssumption DEF EndWrite, Threads
<1>2. ctx[t] \in CtxType /\ t # Main
  BY DEF IInv, TypeOK, PlacesOK
<1>3. x \in CtxType
  BY <1>2, StateConstants DEF CtxType, Reasons
<1> HIDE DEF x
<1>4. PICK where \in {"run", "respond"}, y \in CtxType :
        pc' = [pc EXCEPT ![t] = where] /\ ctx' = [ctx EXCEPT ![t] = y]
  BY <1>1, <1>2, <1>3, ContinueEffect DEF IInv
<1> USE DEF module
<1>5. TypeOK'
  BY <1>1, <1>4 DEF IInv, TypeOK, PCs, loop
<1>6. DescriptorsAgree' /\ OneUserPerSocket' /\ BacklogOK' /\ PlacesOK'
  BY <1>1, <1>2, <1>4, MoveStep
<1>7. SessionsOK'
  BY <1>1, <1>2, <1>4 DEF IInv, TypeOK, SessionsOK, MainCtxOK, MainDone, Threads, loop
<1> QED
  BY <1>5, <1>6, <1>7 DEF IInv

LEMMA WriteStep ==
  ASSUME IInv, NEW t \in Threads,
         WriteReaches(t) \/ WriteLost(t) \/ WriteSignal(t) \/ WriteRace(t)
  PROVE  IInv'
<1>1. CASE WriteReaches(t)
  <2> DEFINE r == Receiver(t)
             reply == [by |-> t, via |-> loaded[t]]
  <2>1. /\ pc[t] = "write" /\ EndWrite(t) /\ r \notin left \union {None}
        /\ replies' = [replies EXCEPT ![r] = @ \union {reply}]
    BY <1>1 DEF WriteReaches
  <2>2. loaded[t] \in Conns /\ reply \in Reply
    BY <2>1 DEF IInv, SessionsOK, Reply
  <2>3. r \in Conns
    <3>1. session[loaded[t]].status = "open" /\ r = owner[session[loaded[t]].fd]
      BY <2>1 DEF Receiver
    <3>2. session[loaded[t]].fd \in Fds
      BY <2>2, <3>1 DEF IInv, SessionsOK
    <3> QED
      BY <2>1, <3>1, <3>2 DEF IInv, TypeOK
  <2> HIDE DEF r, reply
  <2>4. replies' \in [Conns -> SUBSET Reply]
    BY <2>1, <2>2, <2>3 DEF IInv, TypeOK
  <2> QED
    BY <2>1, <2>4, EndWriteStep
<1>2. CASE WriteLost(t)
  BY <1>2, EndWriteStep DEF WriteLost, IInv, TypeOK
<1>3. CASE WriteSignal(t)
  BY <1>3, DownStep DEF WriteSignal, Causes
<1>4. CASE WriteRace(t)
  BY <1>4, DownStep DEF WriteRace, Causes
<1> QED
  BY <1>1, <1>2, <1>3, <1>4

\* What onPacketReceived and _sendMessage come to.
LEMMA RespondCases ==
  ASSUME NEW c \in Conns, Respond(c)
  PROVE  /\ pc[c] = "respond"
         /\ \/ \E new \in SUBSET {[by |-> c, via |-> None]} : Replied(c, new)
            \/ GoDown("eof")
            \/ GoDown("missing header")
  BY DEF Respond, SendMessage

LEMMA RespondStep ==
  ASSUME IInv, NEW c \in Conns, Respond(c)
  PROVE  IInv'
<1>1. CASE GoDown("eof") \/ GoDown("missing header")
  BY <1>1, DownStep DEF Causes
<1>2. ASSUME NEW new \in SUBSET {[by |-> c, via |-> None]}, Replied(c, new)
      PROVE  IInv'
  <2>1. /\ pc[c] = "respond"
        /\ replies' = [replies EXCEPT ![c] = @ \union new]
        /\ pc' = [pc EXCEPT ![c] = "close"]
        /\ UNCHANGED <<conn, backlog, owner, sent, unread, left, loop, fd, ctx, loaded,
                       file, module, down>>
        /\ Main \in Threads /\ Main \notin Conns /\ c \in Threads
    BY <1>2, RespondCases, ServerAssumption DEF Replied, AfterReply, Goto, Threads
  <2>2. new \subseteq Reply
    BY DEF Reply, Threads
  <2> USE DEF loop, module
  <2>3. TypeOK'
    BY <2>1, <2>2 DEF IInv, TypeOK, PCs
  <2>4. DescriptorsAgree' /\ BacklogOK'
    <3>1. \A t \in Threads : pc[t] = "file" => pc'[t] = "file"
      BY <2>1 DEF IInv, TypeOK
    <3> QED
      BY <2>1, <3>1 DEF IInv, DescriptorsAgree, FilesApart, BacklogOK
  <2>5. OneUserPerSocket' /\ PlacesOK'
    BY <2>1 DEF IInv, TypeOK, OneUserPerSocket, PlacesOK, Threads
  <2>6. SessionsOK'
    BY <2>1 DEF IInv, TypeOK, SessionsOK, MainCtxOK, MainDone, Threads
  <2> QED
    BY <2>3, <2>4, <2>5, <2>6 DEF IInv
<1> QED
  BY <1>1, <1>2, RespondCases

LEMMA CloseStep ==
  ASSUME IInv, NEW c \in Conns, Close(c)
  PROVE  IInv'
<1>1. /\ pc[c] = "close"
      /\ owner' = [owner EXCEPT ![fd[c]] = None]
      /\ fd' = [fd EXCEPT ![c] = NoFd]
      /\ conn' = [conn EXCEPT ![c] = "closed"]
      /\ pc' = [pc EXCEPT ![c] = "done"]
      /\ UNCHANGED <<backlog, sent, unread, left, replies, loop, ctx, loaded, file,
                     module, down>>
      /\ Main \in Threads /\ Main \notin Conns /\ c \in Threads
  BY ServerAssumption DEF Close, ClosedHandle, Goto, Threads
<1>2. /\ conn[c] = "accepted" /\ fd[c] \in Fds /\ fd[c] # NoFd /\ owner[fd[c]] = c
      /\ current # c /\ None \notin Conns
  BY <1>1, ServerAssumption DEF IInv, TypeOK, OneUserPerSocket, DescriptorsAgree
<1> USE DEF loop, module
<1>3. TypeOK'
  BY <1>1, <1>2 DEF IInv, TypeOK, PCs
<1>4. DescriptorsAgree'
  <2>1. FilesApart'
    <3>1. \A t \in Threads : pc[t] = "file" => pc'[t] = "file"
      BY <1>1 DEF IInv, TypeOK
    <3>2. \A f \in Fds : owner'[f] \in {owner[f], None}
      BY <1>1 DEF IInv, TypeOK
    <3>3. \A t \in Threads : file[t] # NoFd => file[t] \in Fds
      BY DEF IInv, TypeOK
    <3> QED
      BY <1>1, <3>1, <3>2, <3>3 DEF IInv, DescriptorsAgree, FilesApart
  <2> QED
    BY <1>1, <1>2, <2>1 DEF IInv, TypeOK, DescriptorsAgree
<1>5. OneUserPerSocket'
  BY <1>1, <1>2 DEF IInv, TypeOK, OneUserPerSocket, Threads
<1>6. BacklogOK'
  <2>1. \A i \in 1 .. Len(backlog) : backlog[i] \in Conns /\ backlog[i] # c
    <3>1. \A i \in 1 .. Len(backlog) : backlog[i] \in Conns
      BY ElementOfSeq DEF IInv, TypeOK
    <3> QED
      BY <1>2, <3>1 DEF IInv, BacklogOK
  <2> QED
    BY <1>1, <2>1 DEF IInv, TypeOK, BacklogOK
<1>7. PlacesOK'
  BY <1>1 DEF IInv, TypeOK, PlacesOK, Threads
<1>8. SessionsOK'
  BY <1>1 DEF IInv, TypeOK, SessionsOK, MainCtxOK, MainDone, Threads
<1> QED
  BY <1>3, <1>4, <1>5, <1>6, <1>7, <1>8 DEF IInv

LEMMA IInvStep == IInv /\ [Next]_vars => IInv'
<1> SUFFICES ASSUME IInv, [Next]_vars PROVE IInv'
  OBVIOUS
<1>1. CASE UNCHANGED vars
  BY <1>1, FrameStep DEF vars, kernel, server, module, IInv, TypeOK
<1>2. ASSUME NEW t \in Threads, RunStep(t) PROVE IInv'
  <2>1. CASE Pass(t)
    BY <2>1, PassStep
  <2>2. CASE SslNew(t)
    BY <2>2, SslNewStep
  <2>3. CASE SslAccept(t)
    BY <2>3, SslAcceptStep
  <2>4. CASE SslAcceptSignal(t)
    BY <2>4, DownStep DEF SslAcceptSignal, Causes
  <2>5. CASE OpenFile(t) \/ CreateResponse(t)
    BY <2>5, OpenFileStep, CreateResponseStep
  <2>6. CASE LoadSession(t)
    BY <2>6, LoadSessionStep
  <2>7. CASE WriteReaches(t) \/ WriteLost(t) \/ WriteSignal(t) \/ WriteRace(t)
    BY <2>7, WriteStep
  <2> QED
    BY <1>2, <2>1, <2>2, <2>3, <2>4, <2>5, <2>6, <2>7 DEF RunStep
<1>3. CASE MainStep
  <2>1. Main \in Threads
    BY DEF Threads
  <2> QED
    BY <1>2, <1>3, <2>1, CallAcceptStep, AcceptStep, ReceiveStep, SpawnStep DEF MainStep
<1>4. ASSUME NEW c \in Conns, Handler(c) PROVE IInv'
  <2>1. c \in Threads
    BY DEF Threads
  <2> QED
    BY <1>2, <1>4, <2>1, RespondStep, CloseStep DEF Handler
<1>5. ASSUME NEW c \in Conns, Client(c) PROVE IInv'
  BY <1>5, ClientStep
<1> QED
  BY <1>1, <1>3, <1>4, <1>5 DEF Next

\* The strengthened invariant holds in every state of every server, however many clients
\* and descriptors there are: the ground of the theorems below.
THEOREM IInvAlways == Spec => []IInv
<1>1. Init => IInv
  BY IInvInit
<1>2. IInv /\ [Next]_vars => IInv'
  BY IInvStep
<1> QED
  BY <1>1, <1>2, PTL DEF Spec

\* Every variable keeps its type.
THEOREM TypeCorrect == Spec => []TypeOK
<1>1. IInv => TypeOK
  BY DEF IInv
<1> QED
  BY <1>1, IInvAlways, PTL

\* Socket objects, descriptor table and pending accept agree (close() in the
\* detached threads against accept() in the main one).
THEOREM DescriptorsAlwaysAgree == Spec => []DescriptorsAgree
<1>1. IInv => DescriptorsAgree
  BY DEF IInv
<1> QED
  BY <1>1, IInvAlways, PTL

\* The reference to _sockets.back() handed to a detached thread is never used
\* by the accept loop again, and the socket is open for as long as it is used.
THEOREM SocketsNeverShared == Spec => []OneUserPerSocket
<1>1. IInv => OneUserPerSocket
  BY DEF IInv
<1> QED
  BY <1>1, IInvAlways, PTL

-----------------------------------------------------------------------------
(***************************************************************************)
(* The server implements ConnectionService.                                *)
(***************************************************************************)

\* A connection whose state of conn and place in the loop stay keeps its phase.
LEMMA PhaseKept ==
  ASSUME NEW c \in Conns, conn'[c] = conn[c], (current' = c) <=> (current = c)
  PROVE  Phase(c)' = Phase(c)
BY DEF Phase

LEMMA PhaseMoves ==
  ASSUME NEW c \in Conns,
         NEW from, NEW to, Phase(c) = from, Phase(c)' = to,
         \A d \in Conns \ {c} : Phase(d)' = Phase(d)
  PROVE  Service!Move(c, from, to)
BY DEF Service!Move

LEMMA PhasesKept ==
  ASSUME \A d \in Conns : Phase(d)' = Phase(d), UNCHANGED <<backlog, down>>
  PROVE  UNCHANGED Service!svars
BY DEF Service!svars

LEMMA ServiceInit == Init => Service!Init
BY DEF Init, Service!Init, Phase

LEMMA ServiceDown ==
  ASSUME NEW cause \in Causes \ {"no"}, GoDown(cause), down = "no"
  PROVE  Service!GoDown
<1>1. \A d \in Conns : Phase(d)' = Phase(d)
  BY PhaseKept DEF GoDown, kernel, loop
<1> QED
  BY <1>1 DEF Service!GoDown, GoDown, kernel

LEMMA ServiceConnect ==
  ASSUME IInv, down = "no", NEW c \in Conns, Connect(c)
  PROVE  Service!Arrive(c)
<1>1. \A d \in Conns \ {c} : Phase(d)' = Phase(d)
  BY PhaseKept DEF Connect, server, loop, IInv, TypeOK
<1>2. Phase(c) = "away"
  BY DEF Connect, Phase
<1>3. Phase(c)' = "waiting"
  BY DEF Connect, Phase, IInv, TypeOK
<1>4. Service!Move(c, "away", "waiting")
  BY <1>1, <1>2, <1>3, PhaseMoves
<1> QED
  BY <1>4 DEF Service!Arrive, Connect, server

LEMMA ServiceAccept ==
  ASSUME IInv, down = "no", Accept
  PROVE  Service!Admit
<1> DEFINE c == Head(backlog)
<1>1. c \in Conns /\ conn[c] = "queued" /\ backlog # <<>>
  <2>1. c \in Conns /\ Len(backlog) \in Nat /\ Len(backlog) # 0 /\ c = backlog[1]
    BY HeadTailProperties, LenProperties, EmptySeq DEF IInv, TypeOK, Accept
  <2> QED
    BY <2>1 DEF IInv, BacklogOK, Accept
<1>2. current = None /\ None \notin Conns
  BY ServerAssumption DEF IInv, PlacesOK, Accept
<1>3. \A d \in Conns : Phase(d) # "admitting"
  BY <1>2 DEF Phase, IInv, TypeOK
<1>4. current' = c /\ conn' = [conn EXCEPT ![c] = "accepted"] /\ backlog' = Tail(backlog)
      /\ down' = down
  BY DEF Accept
<1>5. PICK d \in Conns : d = c
  BY <1>1
<1> HIDE DEF c
<1>6. \A e \in Conns \ {d} : Phase(e)' = Phase(e)
  BY <1>2, <1>4, <1>5, PhaseKept DEF IInv, TypeOK
<1>7. Phase(d) = "waiting"
  BY <1>1, <1>5 DEF Phase
<1>8. Phase(d)' = "admitting"
  BY <1>1, <1>4, <1>5 DEF Phase, IInv, TypeOK
<1>9. Service!Move(d, "waiting", "admitting")
  BY <1>6, <1>7, <1>8, PhaseMoves
<1> QED
  BY <1>1, <1>3, <1>4, <1>5, <1>9 DEF Service!Admit, c

LEMMA ServiceSpawn ==
  ASSUME IInv, down = "no", Spawn
  PROVE  \E c \in Conns : Service!HandOver(c)
<1>1. current \in Conns /\ conn[current] = "accepted" /\ None \notin Conns
  BY ServerAssumption DEF Spawn, IInv, TypeOK, PlacesOK, OneUserPerSocket
<1>2. current' = None /\ UNCHANGED <<conn, backlog, down>>
  BY DEF Spawn, NextSocket, kernel
<1>3. \A d \in Conns \ {current} : Phase(d)' = Phase(d)
  BY <1>1, <1>2, PhaseKept
<1>4. Phase(current) = "admitting"
  BY <1>1 DEF Phase
<1>5. PICK c \in Conns : c = current
  BY <1>1
<1>6. Phase(c)' = "serving"
  BY <1>1, <1>2, <1>5 DEF Phase
<1>7. Service!Move(c, "admitting", "serving")
  BY <1>3, <1>4, <1>5, <1>6, PhaseMoves
<1> QED
  BY <1>2, <1>7 DEF Service!HandOver

LEMMA ServiceClose ==
  ASSUME IInv, down = "no", NEW c \in Conns, Close(c)
  PROVE  Service!Finish(c)
<1>1. conn[c] = "accepted" /\ current # c
  BY DEF Close, IInv, OneUserPerSocket
<1>2. conn' = [conn EXCEPT ![c] = "closed"] /\ UNCHANGED <<backlog, current, down>>
  BY DEF Close, loop
<1>3. \A d \in Conns \ {c} : Phase(d)' = Phase(d)
  BY <1>2, PhaseKept DEF IInv, TypeOK
<1>4. Phase(c) = "serving" /\ Phase(c)' = "closed"
  BY <1>1, <1>2 DEF Phase, IInv, TypeOK
<1>5. Service!Move(c, "serving", "closed")
  BY <1>3, <1>4, PhaseMoves
<1> QED
  BY <1>2, <1>5 DEF Service!Finish

\* Every other step is a stutter of the service, or the end of the process.
LEMMA ServiceQuiet ==
  ASSUME UNCHANGED <<conn, current, backlog, down>>
  PROVE  UNCHANGED Service!svars
BY PhaseKept, PhasesKept

LEMMA ServiceRun ==
  ASSUME IInv, down = "no", NEW t \in Threads, RunStep(t)
  PROVE  Service!GoDown \/ UNCHANGED Service!svars
<1> USE DEF Causes
<1>1. CASE Pass(t)
  BY <1>1, ServiceQuiet DEF Pass, kernel, loop
<1>2. CASE SslNew(t)
  BY <1>2, ServiceQuiet DEF SslNew, kernel, loop
<1>3. CASE SslAccept(t)
  BY <1>3, ServiceQuiet DEF SslAccept, loop
<1>4. CASE LoadSession(t)
  BY <1>4, ServiceQuiet, ServiceDown DEF LoadSession, kernel, loop
<1>5. CASE WriteReaches(t) \/ WriteLost(t)
  BY <1>5, ServiceQuiet DEF WriteReaches, WriteLost, EndWrite, loop
<1>6. CASE SslAcceptSignal(t) \/ WriteSignal(t) \/ WriteRace(t)
  BY <1>6, ServiceDown DEF SslAcceptSignal, WriteSignal, WriteRace
<1>7. CASE OpenFile(t) \/ CreateResponse(t)
  BY <1>7, ServiceQuiet DEF OpenFile, CreateResponse, kernel, loop
<1> QED
  BY <1>1, <1>2, <1>3, <1>4, <1>5, <1>6, <1>7 DEF RunStep

LEMMA ServiceStep == IInv /\ [Next]_vars => [Service!Next]_(Service!svars)
<1> SUFFICES ASSUME IInv, [Next]_vars
             PROVE  Service!Next \/ UNCHANGED Service!svars
  OBVIOUS
<1> USE DEF Service!Next, Causes
<1>1. CASE UNCHANGED vars
  BY <1>1, ServiceQuiet DEF vars, kernel, server, loop
<1>2. CASE Next
  <2> USE <1>2 DEF Next
  <2>1. CASE MainStep
    <3>1. Main \in Threads
      BY DEF Threads
    <3>2. CASE CallAccept
      BY <1>2, <3>2, ServiceQuiet, ServiceDown DEF CallAccept, kernel
    <3>3. CASE Receive
      BY <1>2, <3>3, ServiceQuiet, ServiceDown DEF Receive, loop
    <3> QED
      BY <1>2, <2>1, <3>1, <3>2, <3>3, ServiceAccept, ServiceSpawn, ServiceRun DEF MainStep
  <2>2. ASSUME NEW c \in Conns, Handler(c)
        PROVE  Service!Next \/ UNCHANGED Service!svars
    <3>1. c \in Threads
      BY DEF Threads
    <3>2. CASE Respond(c)
      BY <1>2, <3>2, RespondCases, ServiceQuiet, ServiceDown DEF Replied, loop
    <3> QED
      BY <1>2, <2>2, <3>1, <3>2, ServiceRun, ServiceClose DEF Handler
  <2>3. ASSUME NEW c \in Conns, Client(c)
        PROVE  Service!Next \/ UNCHANGED Service!svars
    BY <1>2, <2>3, ServiceConnect, ServiceQuiet
       DEF Client, SendFirst, SendRequest, HangUp, server, loop
  <2> QED
    BY <2>1, <2>2, <2>3
<1> QED
  BY <1>1, <1>2

\* turnOn, _handleRequest and the modules under them implement the service:
\* first come, first admitted, one at a time, then served concurrently.
THEOREM ServerImplementsService == Spec => ImplementsService
<1>1. Init => Service!Init
  BY ServiceInit
<1>2. IInv /\ [Next]_vars => [Service!Next]_(Service!svars)
  BY ServiceStep
<1> QED
  BY <1>1, <1>2, IInvAlways, PTL DEF Spec, ImplementsService, Service!Spec

-----------------------------------------------------------------------------
(***************************************************************************)
(* The contexts of the handlers.                                           *)
(***************************************************************************)

\* The pipeline takes a handler from Interpret to Completed, whatever the
\* modules: the context it ends with is settled, and HTTP has filled in the
\* header by the time SSL looks at it.
HandlerCtxOK(c) ==
  /\ pc[c] = "run" =>
       \/ ctx[c].state = Interpret /\ ctx[c].reason = "Interpret"
       \/ ctx[c].state = AfterInterpret
          /\ ("HTTP" \in Modules => ctx[c].reason = "AfterInterpret")
          /\ (ctx[c].reason = "AfterInterpret" => ctx[c].header)
       \/ ctx[c].state = Completed /\ Modules # {"SSL", "HTTP"}
  /\ pc[c] = "file" => ctx[c].state = Interpret
  /\ pc[c] \in {"respond", "close", "done"} => ctx[c].state = Completed
  /\ pc[c] # "handshake"

HandlersOK == \A c \in Conns : HandlerCtxOK(c)

\* No reply goes out in clear.
ViaOK == \A c \in Conns : \A r \in replies[c] : r.via # None

(***************************************************************************)
(* The order of the connections.                                           *)
(***************************************************************************)

\* _sockets holds every connection that was ever accepted, once, the one the
\* accept loop is busy with last.
SocketsOK ==
  /\ \A i, j \in 1 .. Len(sockets) : sockets[i] = sockets[j] => i = j
  /\ \A c \in Conns :
       conn[c] \in {"accepted", "closed"} <=> \E i \in 1 .. Len(sockets) : sockets[i] = c
  /\ current # None => sockets # <<>> /\ sockets[Len(sockets)] = current

NotAfter(c, d) ==
  \E i, j \in 1 .. Len(sockets) : sockets[i] = c /\ sockets[j] = d /\ i <= j

HasBegun ==
  \/ pc[Main] = "run" /\ ctx[Main].state > Interpret
  \/ pc[Main] \in {"handshake", "receive", "spawn"}

OrderOK ==
  /\ \A c \in Conns : session[c].status # "none" => NotAfter(c, c)
  /\ \A c \in Conns : session[c].status # "none" /\ owner[session[c].fd] # None
                        => NotAfter(c, owner[session[c].fd])
  /\ "SSL" \in Modules =>
       /\ HasBegun => ssl = current
       /\ \A c \in Conns : pc[c] # "none" => NotAfter(c, ssl)
  /\ \A c \in Conns : pc[c] = "write" => NotAfter(c, loaded[c])
  /\ \A c \in Conns : \A r \in replies[c] :
       NotAfter(r.by, c) /\ (r.via # None => NotAfter(r.via, c))

(***************************************************************************)
(* A handler no handshake has overtaken.                                   *)
(***************************************************************************)

PendingOK == pc[Main] = "handshake" => session[current].status # "none"

OwnSessionOK ==
  /\ \A c \in Conns : session[c].status # "none" /\ fd[c] # NoFd => session[c].fd = fd[c]
  /\ \A c \in Conns \ overlap :
       /\ pc[c] \in {"run", "file"} /\ "SSL" \in Modules => ssl = c
       /\ pc[c] = "write" => loaded[c] = c
       /\ /\ pc[c] \in {"respond", "close", "done"}
          /\ Modules = {"SSL", "HTTP"}
          /\ session[c].status = "open"
          /\ c \notin left
          => [by |-> c, via |-> c] \in replies[c]

RInv ==
  /\ HandlersOK
  /\ ViaOK
  /\ SocketsOK
  /\ OrderOK
  /\ PendingOK
  /\ OwnSessionOK

-----------------------------------------------------------------------------
(***************************************************************************)
(* The order of the connections, and what keeps it.                        *)
(***************************************************************************)

LEMMA SocketsLength ==
  ASSUME TypeOK
  PROVE  Len(sockets) \in Nat /\ \A i \in 1 .. Len(sockets) : sockets[i] \in Conns
BY LenProperties, ElementOfSeq DEF TypeOK

\* Nothing that is accepted later comes before.
LEMMA OrderKept ==
  ASSUME TypeOK, NEW c, NEW d, NotAfter(c, d),
         UNCHANGED sockets \/ \E e \in Conns : sockets' = Append(sockets, e)
  PROVE  NotAfter(c, d)'
<1>1. CASE UNCHANGED sockets
  BY <1>1 DEF NotAfter
<1>2. ASSUME NEW e \in Conns, sockets' = Append(sockets, e)
      PROVE  NotAfter(c, d)'
  <2>1. /\ Len(sockets) \in Nat /\ Len(sockets') = Len(sockets) + 1
        /\ \A i \in 1 .. Len(sockets) : sockets'[i] = sockets[i]
    BY <1>2, AppendProperties, LenProperties DEF TypeOK
  <2>2. PICK i \in 1 .. Len(sockets), j \in 1 .. Len(sockets) :
          sockets[i] = c /\ sockets[j] = d /\ i <= j
    BY DEF NotAfter
  <2>3. i \in 1 .. Len(sockets') /\ j \in 1 .. Len(sockets')
    BY <2>1
  <2> QED
    BY <2>1, <2>2, <2>3 DEF NotAfter
<1> QED
  BY <1>1, <1>2

LEMMA OrderTransitive ==
  ASSUME SocketsOK, TypeOK, NEW c, NEW d, NEW e, NotAfter(c, d), NotAfter(d, e)
  PROVE  NotAfter(c, e)
<1>1. PICK i \in 1 .. Len(sockets), j \in 1 .. Len(sockets) :
        sockets[i] = c /\ sockets[j] = d /\ i <= j
  BY DEF NotAfter
<1>2. PICK k \in 1 .. Len(sockets), l \in 1 .. Len(sockets) :
        sockets[k] = d /\ sockets[l] = e /\ k <= l
  BY DEF NotAfter
<1>3. j = k
  BY <1>1, <1>2 DEF SocketsOK
<1> QED
  BY <1>1, <1>2, <1>3, SocketsLength DEF NotAfter

\* An accepted connection is in the order, and none is after the one the
\* accept loop is busy with.
LEMMA AcceptedInOrder ==
  ASSUME SocketsOK, TypeOK, NEW c \in Conns, conn[c] \in {"accepted", "closed"}
  PROVE  NotAfter(c, c) /\ (current # None => NotAfter(c, current))
<1>1. PICK i \in 1 .. Len(sockets) : sockets[i] = c
  BY DEF SocketsOK
<1>2. NotAfter(c, c)
  BY <1>1, SocketsLength DEF NotAfter
<1>3. ASSUME current # None PROVE NotAfter(c, current)
  <2>1. sockets[Len(sockets)] = current /\ Len(sockets) \in Nat /\ i <= Len(sockets)
    BY <1>1, <1>3, SocketsLength DEF SocketsOK
  <2>2. Len(sockets) \in 1 .. Len(sockets)
    BY <1>1, <2>1
  <2> QED
    BY <1>1, <2>1, <2>2 DEF NotAfter
<1> QED
  BY <1>2, <1>3

\* The other way round: what is in the order was accepted.
LEMMA InOrderAccepted ==
  ASSUME SocketsOK, NEW c \in Conns, NEW d \in Conns, NotAfter(c, d)
  PROVE  conn[c] \in {"accepted", "closed"} /\ conn[d] \in {"accepted", "closed"}
BY DEF NotAfter, SocketsOK

\* What the properties of replies say of places is what the order says.
LEMMA PlaceOf ==
  ASSUME SocketsOK, TypeOK, NEW i \in 1 .. Len(sockets)
  PROVE  Position(sockets[i]) = i
<1>1. sockets \in Seq(Conns) /\ DOMAIN sockets = 1 .. Len(sockets)
  BY LenProperties DEF TypeOK
<1> QED
  BY <1>1 DEF Position, SocketsOK

LEMMA OrderIsPosition ==
  ASSUME SocketsOK, TypeOK, NEW c, NEW d, NotAfter(c, d)
  PROVE  Position(c) <= Position(d)
<1>1. PICK i \in 1 .. Len(sockets), j \in 1 .. Len(sockets) :
        sockets[i] = c /\ sockets[j] = d /\ i <= j
  BY DEF NotAfter
<1> QED
  BY <1>1, PlaceOf

-----------------------------------------------------------------------------
(***************************************************************************)
(* Every step keeps the invariant.                                         *)
(***************************************************************************)

LEMMA RInvInit == Init => RInv
<1> SUFFICES ASSUME Init PROVE RInv
  OBVIOUS
<1> USE DEF Init, Threads
<1>1. Main \notin Conns
  BY ServerAssumption
<1>2. HandlersOK /\ ViaOK /\ SocketsOK
  BY <1>1 DEF HandlersOK, HandlerCtxOK, ViaOK, SocketsOK
<1>3. OrderOK /\ PendingOK
  BY <1>1 DEF OrderOK, PendingOK, HasBegun
<1>4. OwnSessionOK
  BY <1>1 DEF OwnSessionOK
<1> QED
  BY <1>2, <1>3, <1>4 DEF RInv

\* Steps that change nothing the invariant speaks of, but let clients leave.
LEMMA QuietStep ==
  ASSUME RInv,
         UNCHANGED <<conn, owner, replies, sockets, current, fd, pc, ctx, loaded, module>>,
         left \subseteq left'
  PROVE  RInv'
<1> USE DEF module
<1>1. HandlersOK' /\ ViaOK' /\ SocketsOK'
  BY DEF RInv, HandlersOK, HandlerCtxOK, ViaOK, SocketsOK
<1>2. OrderOK' /\ PendingOK'
  BY DEF RInv, OrderOK, PendingOK, NotAfter, HasBegun
<1>3. OwnSessionOK'
  BY DEF RInv, OwnSessionOK
<1> QED
  BY <1>1, <1>2, <1>3 DEF RInv

LEMMA QuietDown ==
  ASSUME RInv, NEW cause, GoDown(cause)
  PROVE  RInv'
BY QuietStep DEF GoDown, kernel, loop

LEMMA ConnectQuiet ==
  ASSUME IInv, RInv, NEW c \in Conns, Connect(c)
  PROVE  RInv'
<1>1. /\ conn[c] = "away" /\ conn' = [conn EXCEPT ![c] = "queued"]
      /\ UNCHANGED <<owner, replies, left, sockets, current, fd, pc, ctx, loaded,
                     session, ssl, overlap>>
  BY DEF Connect, server, loop, module
<1>2. HandlersOK' /\ ViaOK'
  BY <1>1 DEF RInv, HandlersOK, HandlerCtxOK, ViaOK
<1>3. SocketsOK'
  BY <1>1 DEF RInv, SocketsOK, IInv, TypeOK
<1>4. OrderOK' /\ PendingOK' /\ OwnSessionOK'
  BY <1>1 DEF RInv, OrderOK, PendingOK, NotAfter, HasBegun, OwnSessionOK
<1> QED
  BY <1>2, <1>3, <1>4 DEF RInv

LEMMA ClientQuiet ==
  ASSUME IInv, RInv, NEW c \in Conns, Client(c)
  PROVE  RInv'
<1> USE DEF server, loop
<1>1. CASE SendFirst(c)
  BY <1>1, QuietStep DEF SendFirst
<1>2. CASE SendRequest(c)
  BY <1>2, QuietStep DEF SendRequest
<1>3. CASE HangUp(c)
  BY <1>3, QuietStep DEF HangUp
<1> QED
  BY <1>1, <1>2, <1>3, ConnectQuiet DEF Client

\* The accept loop moves, and no handler does.
LEMMA LoopMoves ==
  ASSUME IInv, RInv, NEW where,
         pc' = [pc EXCEPT ![Main] = where],
         where \in {"receive", "spawn"} => HasBegun,
         where \in {"call", "accept", "receive", "spawn"},
         UNCHANGED <<conn, owner, replies, left, sockets, current, fd, ctx, loaded, module>>
  PROVE  RInv'
<1> USE DEF module
<1>1. /\ Main \notin Conns
      /\ \A c \in Conns : pc'[c] = pc[c]
      /\ pc'[Main] = where
  BY ServerAssumption DEF IInv, TypeOK, Threads
<1>2. HandlersOK' /\ ViaOK' /\ SocketsOK'
  BY <1>1 DEF RInv, HandlersOK, HandlerCtxOK, ViaOK, SocketsOK
<1>3. HasBegun' => HasBegun
  BY <1>1 DEF HasBegun
<1>4. OrderOK'
  BY <1>1, <1>3 DEF RInv, OrderOK, NotAfter
<1>5. PendingOK' /\ OwnSessionOK'
  BY <1>1 DEF RInv, PendingOK, OwnSessionOK
<1> QED
  BY <1>2, <1>4, <1>5 DEF RInv

LEMMA CallAcceptOrder ==
  ASSUME IInv, RInv, CallAccept
  PROVE  RInv'
<1>1. CASE FreeFds = {}
  BY <1>1, QuietDown DEF CallAccept
<1>2. CASE FreeFds # {}
  BY <1>2, LoopMoves DEF CallAccept, Goto, kernel
<1> QED
  BY <1>1, <1>2

LEMMA ReceiveOrder ==
  ASSUME IInv, RInv, Receive
  PROVE  RInv'
<1>1. CASE GoDown("eof")
  BY <1>1, QuietDown
<1>2. CASE ~GoDown("eof")
  <2>1. HasBegun
    BY DEF Receive, HasBegun
  <2> QED
    BY <1>2, <2>1, LoopMoves DEF Receive, Goto, loop
<1> QED
  BY <1>1, <1>2

LEMMA AcceptOrder ==
  ASSUME IInv, RInv, Accept
  PROVE  RInv'
<1>0. PICK c \in Conns : c = Head(backlog)
  BY HeadTailProperties DEF IInv, TypeOK, Accept
<1>1. c \in Conns /\ conn[c] = "queued" /\ pc[c] = "none" /\ fd[c] = NoFd
  <2>1. c \in Conns /\ Len(backlog) \in Nat /\ Len(backlog) # 0 /\ c = backlog[1]
    BY <1>0, HeadTailProperties, LenProperties, EmptySeq DEF IInv, TypeOK, Accept
  <2>2. conn[c] = "queued"
    BY <2>1 DEF IInv, BacklogOK
  <2> QED
    BY <2>1, <2>2 DEF IInv, OneUserPerSocket
<1>2. /\ reserved \in Fds /\ reserved # NoFd /\ current = None
      /\ Main \in Threads /\ Main \notin Conns /\ None \notin Conns
  BY ServerAssumption DEF Accept, IInv, TypeOK, PlacesOK, Threads
<1>3. /\ current' = c
      /\ sockets' = Append(sockets, c)
      /\ conn' = [conn EXCEPT ![c] = "accepted"]
      /\ owner' = [owner EXCEPT ![reserved] = c]
      /\ fd' = [fd EXCEPT ![c] = reserved]
      /\ ctx' = [ctx EXCEPT ![Main] = NewCtx(BeforeParse, "BeforeParse")]
      /\ pc' = [pc EXCEPT ![Main] = "run"]
      /\ UNCHANGED <<left, replies, loaded, session, ssl, overlap>>
  BY <1>0 DEF Accept, Goto, module
<1>4. /\ ctx'[Main].state = BeforeParse /\ pc'[Main] = "run"
      /\ \A d \in Conns : pc'[d] = pc[d] /\ ctx'[d] = ctx[d]
  BY <1>2, <1>3 DEF IInv, TypeOK, Threads, NewCtx
<1>5. HandlersOK' /\ ViaOK'
  BY <1>3, <1>4 DEF RInv, HandlersOK, HandlerCtxOK, ViaOK
<1>6. /\ Len(sockets) \in Nat /\ Len(sockets') = Len(sockets) + 1
      /\ \A i \in 1 .. Len(sockets) : sockets'[i] = sockets[i] /\ sockets[i] \in Conns
      /\ sockets'[Len(sockets')] = c
  BY <1>1, <1>3, AppendProperties, SocketsLength DEF IInv, TypeOK
<1>7. SocketsOK'
  <2>1. \A i \in 1 .. Len(sockets) : sockets[i] # c
    BY <1>1 DEF RInv, SocketsOK
  <2>2. \A i, j \in 1 .. Len(sockets') : sockets'[i] = sockets'[j] => i = j
    BY <1>6, <2>1 DEF RInv, SocketsOK
  <2>3. \A d \in Conns :
          conn'[d] \in {"accepted", "closed"} <=> \E i \in 1 .. Len(sockets') : sockets'[i] = d
    <3>1. \A i \in 1 .. Len(sockets') : i \in 1 .. Len(sockets) \/ i = Len(sockets')
      BY <1>6
    <3>2. \A i \in 1 .. Len(sockets) : i \in 1 .. Len(sockets')
      BY <1>6
    <3>3. Len(sockets') \in 1 .. Len(sockets')
      BY <1>6
    <3>4. \A d \in Conns \ {c} : conn'[d] = conn[d]
      BY <1>3 DEF IInv, TypeOK
    <3>5. conn'[c] = "accepted"
      BY <1>1, <1>3 DEF IInv, TypeOK
    <3> QED
      BY <1>6, <3>1, <3>2, <3>3, <3>4, <3>5 DEF RInv, SocketsOK
  <2>4. sockets' # <<>>
    BY <1>6
  <2> QED
    BY <1>3, <1>6, <2>2, <2>3, <2>4 DEF SocketsOK
<1>8. \A d, e : NotAfter(d, e) => NotAfter(d, e)'
  BY <1>1, <1>3, OrderKept DEF IInv
<1>9. \A d \in Conns : NotAfter(d, d) => NotAfter(d, c)'
  <2> SUFFICES ASSUME NEW d \in Conns, NotAfter(d, d) PROVE NotAfter(d, c)'
    OBVIOUS
  <2>1. PICK i \in 1 .. Len(sockets) : sockets[i] = d
    BY DEF NotAfter
  <2>2. i \in 1 .. Len(sockets') /\ Len(sockets') \in 1 .. Len(sockets') /\ i <= Len(sockets')
    BY <1>6
  <2> QED
    BY <1>6, <2>1, <2>2 DEF NotAfter
<1>10. session[c].status = "none"
  BY <1>1, InOrderAccepted DEF RInv, OrderOK
<1>11. OrderOK'
  <2>1. \A d \in Conns : session'[d].status # "none" => NotAfter(d, d)'
    BY <1>3, <1>8 DEF RInv, OrderOK
  <2>2. ASSUME NEW d \in Conns, session'[d].status # "none", owner'[session'[d].fd] # None
        PROVE  NotAfter(d, owner[session[d].fd])'
    <3>1. session[d].status # "none" /\ session[d].fd \in Fds
      BY <1>3, <2>2 DEF IInv, SessionsOK
    <3>2. CASE session[d].fd = reserved
      <4>1. owner'[session'[d].fd] = c
        BY <1>2, <1>3, <3>1, <3>2 DEF IInv, TypeOK
      <4> QED
        BY <1>9, <3>1, <4>1 DEF RInv, OrderOK
    <3>3. CASE session[d].fd # reserved
      <4>1. owner'[session'[d].fd] = owner[session[d].fd]
        BY <1>2, <1>3, <3>1, <3>3 DEF IInv, TypeOK
      <4> QED
        BY <1>8, <2>2, <3>1, <4>1 DEF RInv, OrderOK
    <3> QED
      BY <3>2, <3>3
  <2>3. ~HasBegun'
    BY <1>4, StateConstants DEF HasBegun
  <2>4. "SSL" \in Modules => \A d \in Conns : pc'[d] # "none" => NotAfter(d, ssl)'
    BY <1>3, <1>4, <1>8 DEF RInv, OrderOK
  <2>5. \A d \in Conns : pc'[d] = "write" => NotAfter(d, loaded[d])'
    BY <1>3, <1>4, <1>8 DEF RInv, OrderOK
  <2>6. \A d \in Conns : \A r \in replies'[d] :
          NotAfter(r.by, d)' /\ (r.via # None => NotAfter(r.via, d)')
    BY <1>3, <1>8 DEF RInv, OrderOK
  <2> QED
    BY <2>1, <2>2, <2>3, <2>4, <2>5, <2>6 DEF OrderOK
<1>12. OwnSessionOK'
  <2>1. \A d \in Conns : session'[d].status # "none" /\ fd'[d] # NoFd => session'[d].fd = fd'[d]
    BY <1>3, <1>10 DEF RInv, OwnSessionOK, IInv, TypeOK
  <2> QED
    BY <1>3, <1>4, <2>1 DEF RInv, OwnSessionOK
<1>13. PendingOK'
  BY <1>4 DEF PendingOK
<1> QED
  BY <1>5, <1>7, <1>11, <1>12, <1>13 DEF RInv

LEMMA SpawnOrder ==
  ASSUME IInv, RInv, Spawn
  PROVE  RInv'
<1>1. /\ current \in Conns /\ conn[current] = "accepted" /\ pc[current] = "none"
      /\ Main \in Threads /\ Main \notin Conns /\ None \notin Conns
  BY ServerAssumption DEF Spawn, IInv, TypeOK, PlacesOK, OneUserPerSocket, Threads
<1>2. /\ pc[Main] = "spawn"
      /\ pc' = [pc EXCEPT ![Main] = "call", ![current] = "run"]
      /\ ctx' = [ctx EXCEPT ![current] = NewCtx(Interpret, "Interpret")]
      /\ current' = None
      /\ UNCHANGED <<conn, owner, left, replies, sockets, fd, loaded, session, ssl, overlap>>
  BY DEF Spawn, NextSocket, kernel, module
<1>3. /\ \A c \in Conns \ {current} : pc'[c] = pc[c] /\ ctx'[c] = ctx[c]
      /\ pc'[current] = "run" /\ pc'[Main] = "call"
      /\ ctx'[current].state = Interpret /\ ctx'[current].reason = "Interpret"
  BY <1>1, <1>2 DEF IInv, TypeOK, Threads, NewCtx
<1>4. HandlersOK' /\ ViaOK' /\ SocketsOK'
  <2>1. HandlersOK'
    BY <1>1, <1>3 DEF RInv, HandlersOK, HandlerCtxOK
  <2>2. ViaOK' /\ SocketsOK'
    BY <1>2 DEF RInv, ViaOK, SocketsOK
  <2> QED
    BY <2>1, <2>2
<1>5. "SSL" \in Modules => ssl = current
  BY <1>2 DEF RInv, OrderOK, HasBegun
<1>6. \A c, d : NotAfter(c, d)' <=> NotAfter(c, d)
  BY <1>2 DEF NotAfter
<1>7. NotAfter(current, current)
  BY <1>1, AcceptedInOrder DEF IInv, RInv
<1>8. OrderOK'
  <2>1. ~HasBegun'
    BY <1>3 DEF HasBegun
  <2>2. "SSL" \in Modules => \A c \in Conns : pc'[c] # "none" => NotAfter(c, ssl)
    BY <1>3, <1>5, <1>7 DEF RInv, OrderOK
  <2>3. \A c \in Conns : pc'[c] = "write" => NotAfter(c, loaded[c])
    BY <1>3 DEF RInv, OrderOK
  <2> QED
    BY <1>2, <1>6, <2>1, <2>2, <2>3 DEF RInv, OrderOK
<1>9. PendingOK' /\ OwnSessionOK'
  BY <1>2, <1>3, <1>5 DEF RInv, PendingOK, OwnSessionOK
<1> QED
  BY <1>4, <1>8, <1>9 DEF RInv

\* One thread moves inside runPipeline: what it leaves alone.
LEMMA OneMoves ==
  ASSUME IInv, NEW t \in Threads, NEW where, pc' = [pc EXCEPT ![t] = where]
  PROVE  /\ pc'[t] = where
         /\ \A u \in Threads \ {t} : pc'[u] = pc[u]
         /\ Main \in Threads /\ Main \notin Conns /\ Conns \subseteq Threads
BY ServerAssumption DEF IInv, TypeOK, Threads

LEMMA FinalState ==
  \A s \in State : /\ CanAdvance(s) => Advanced(s) = s + 1
                   /\ ~CanAdvance(s) => Advanced(s) = s
                   /\ CanAdvance(Interpret) /\ Advanced(Interpret) = AfterInterpret
                   /\ CanAdvance(AfterInterpret) /\ Advanced(AfterInterpret) = Completed
                   /\ ~CanAdvance(Completed) /\ Advanced(Completed) = Completed
                   /\ s \in Nat
BY DEF State, Advanced, CanAdvance, FinalStates, Error, Completed, StateCount,
       Interpret, AfterInterpret

LEMMA PassOrder ==
  ASSUME IInv, RInv, NEW t \in Threads, Pass(t)
  PROVE  RInv'
<1> DEFINE x == ctx[t]
<1>1. /\ pc[t] = "run" /\ Continue(t, x)
      /\ ~WantsHandshake(ctx[t]) /\ ~WantsResponse(ctx[t]) /\ ~WantsWrite(ctx[t])
      /\ UNCHANGED <<conn, owner, left, replies, sockets, current, fd, loaded,
                     session, ssl, overlap>>
  BY DEF Pass, kernel, loop, module
<1>2. ctx[t] \in CtxType
  BY DEF IInv, TypeOK
<1>3. x \in CtxType /\ x.state = ctx[t].state /\ x.reason = ctx[t].reason
  BY <1>2
<1> HIDE DEF x
<1>4. PICK where \in {"run", IF t = Main THEN "receive" ELSE "respond"}, y \in CtxType :
        /\ pc' = [pc EXCEPT ![t] = where]
        /\ ctx' = [ctx EXCEPT ![t] = y]
        /\ y.reason = x.reason
        /\ y.header = x.header
        /\ y.state = Advanced(x.state)
        /\ where = "run" <=> CanAdvance(x.state)
  BY <1>1, <1>3, ContinueEffect DEF IInv
<1>5. /\ pc'[t] = where /\ ctx'[t] = y
      /\ \A u \in Threads \ {t} : pc'[u] = pc[u] /\ ctx'[u] = ctx[u]
      /\ Main \in Threads /\ Main \notin Conns /\ Conns \subseteq Threads
  BY <1>4, OneMoves DEF IInv, TypeOK
<1>6. ViaOK' /\ SocketsOK' /\ PendingOK'
  <2>1. pc'[Main] = "handshake" => pc[Main] = "handshake"
    BY <1>4, <1>5
  <2> QED
    BY <1>1, <2>1 DEF RInv, ViaOK, SocketsOK, PendingOK
<1>7. \A c, d : NotAfter(c, d)' <=> NotAfter(c, d)
  BY <1>1 DEF NotAfter
<1>8. ctx[t].state \in State /\ ctx[t].state \in Nat
  BY <1>2, CtxFields
<1>9. CASE t = Main
  <2>1. \A c \in Conns : pc'[c] = pc[c] /\ ctx'[c] = ctx[c]
    BY <1>5, <1>9
  <2>2. "SSL" \in Modules => HasBegun
    BY <1>1, <1>9, StateConstants
       DEF IInv, SessionsOK, MainCtxOK, WantsHandshake, Calls, HasBegun
  <2>3. HandlersOK'
    BY <2>1 DEF RInv, HandlersOK, HandlerCtxOK
  <2>4. OrderOK'
    BY <1>1, <1>7, <2>1, <2>2 DEF RInv, OrderOK
  <2>5. OwnSessionOK'
    BY <1>1, <2>1 DEF RInv, OwnSessionOK
  <2> QED
    BY <1>6, <2>3, <2>4, <2>5 DEF RInv
<1>10. CASE t # Main
  <2>1. t \in Conns /\ HandlerCtxOK(t) /\ where \in {"run", "respond"}
    BY <1>4, <1>10 DEF RInv, HandlersOK, Threads
  <2>2. /\ ctx[t].state = Interpret => where = "run" /\ y.state = AfterInterpret
        /\ ctx[t].state = AfterInterpret => where = "run" /\ y.state = Completed
        /\ ctx[t].state = Completed => where = "respond" /\ y.state = Completed
    BY <1>3, <1>4, <1>8, <2>1, FinalState
  <2>3. Interpret # AfterInterpret /\ AfterInterpret # Completed /\ Interpret # Completed
    BY DEF Interpret, AfterInterpret, Completed
  <2>4. Modules # {"SSL", "HTTP"}
    BY <1>1, <2>1 DEF HandlerCtxOK, WantsResponse, WantsWrite, Calls
  <2>5. HandlerCtxOK(t)'
    <3>1. CASE ctx[t].state = Interpret
      <4>1. "HTTP" \notin Modules /\ ctx[t].reason = "Interpret"
        BY <1>1, <2>1, <2>3, <3>1 DEF HandlerCtxOK, WantsResponse, Calls
      <4> QED
        BY <1>3, <1>4, <1>5, <2>2, <3>1, <4>1 DEF HandlerCtxOK
    <3>2. CASE ctx[t].state = AfterInterpret
      BY <1>5, <2>2, <2>3, <2>4, <3>2 DEF HandlerCtxOK
    <3>3. CASE ctx[t].state = Completed
      BY <1>5, <2>2, <3>3 DEF HandlerCtxOK
    <3> QED
      BY <1>1, <2>1, <3>1, <3>2, <3>3 DEF HandlerCtxOK
  <2>6. HandlersOK'
    BY <1>5, <2>5 DEF RInv, HandlersOK, HandlerCtxOK
  <2>7. OrderOK'
    <3>1. HasBegun' <=> HasBegun
      BY <1>5, <1>10 DEF HasBegun
    <3>2. \A c \in Conns : pc'[c] = "write" => pc[c] = "write"
      BY <1>5, <2>1
    <3>3. \A c \in Conns : pc'[c] # "none" => pc[c] # "none"
      BY <1>1, <1>5, <2>1
    <3> QED
      BY <1>1, <1>7, <3>1, <3>2, <3>3 DEF RInv, OrderOK
  <2>8. OwnSessionOK'
    BY <1>1, <1>5, <2>1, <2>4 DEF RInv, OwnSessionOK
  <2> QED
    BY <1>6, <2>6, <2>7, <2>8 DEF RInv
<1> QED
  BY <1>9, <1>10

LEMMA OpenFileOrder ==
  ASSUME IInv, RInv, NEW t \in Threads, OpenFile(t)
  PROVE  RInv'
<1>1. /\ pc[t] = "run" /\ t \in Conns /\ ctx[t].state = Interpret
      /\ pc' = [pc EXCEPT ![t] = "file"]
      /\ UNCHANGED <<conn, owner, left, replies, sockets, current, fd, ctx, loaded,
                     session, ssl, overlap>>
  BY OpenerIsHandler
     DEF OpenFile, Goto, WantsResponse, Calls, Threads, kernel, loop, module
<1>2. /\ pc'[t] = "file"
      /\ \A u \in Threads \ {t} : pc'[u] = pc[u]
      /\ Main \in Threads /\ Main \notin Conns /\ Conns \subseteq Threads
  BY <1>1, OneMoves
<1>3. HandlersOK'
  BY <1>1, <1>2 DEF RInv, HandlersOK, HandlerCtxOK
<1>4. ViaOK' /\ SocketsOK' /\ PendingOK'
  BY <1>1, <1>2 DEF RInv, ViaOK, SocketsOK, PendingOK
<1>5. OrderOK'
  <2>1. HasBegun' <=> HasBegun
    BY <1>1, <1>2 DEF HasBegun
  <2>2. \A c \in Conns : /\ pc'[c] # "none" => pc[c] # "none"
                         /\ pc'[c] = "write" => pc[c] = "write"
    BY <1>1, <1>2
  <2> QED
    BY <1>1, <2>1, <2>2 DEF RInv, OrderOK, NotAfter
<1>6. OwnSessionOK'
  BY <1>1, <1>2 DEF RInv, OwnSessionOK
<1> QED
  BY <1>3, <1>4, <1>5, <1>6 DEF RInv

LEMMA CreateResponseOrder ==
  ASSUME IInv, RInv, NEW t \in Threads, CreateResponse(t)
  PROVE  RInv'
<1> DEFINE x == [ctx[t] EXCEPT !.reason = "AfterInterpret", !.header = TRUE]
<1>1. /\ pc[t] = "file" /\ t # Main /\ t \in Conns /\ Continue(t, x)
      /\ UNCHANGED <<conn, owner, left, replies, sockets, current, fd, loaded,
                     session, ssl, overlap>>
  BY DEF CreateResponse, Threads, IInv, PlacesOK, kernel, loop, module
<1>2. x \in CtxType /\ x.state = Interpret /\ x.reason = "AfterInterpret" /\ x.header
  <2>1. ctx[t] \in CtxType /\ ctx[t].state = Interpret
    BY <1>1 DEF IInv, TypeOK, RInv, HandlersOK, HandlerCtxOK
  <2> QED
    BY <2>1 DEF CtxType, Reasons
<1> HIDE DEF x
<1>3. PICK where \in {"run", "respond"}, y \in CtxType :
        /\ pc' = [pc EXCEPT ![t] = where]
        /\ ctx' = [ctx EXCEPT ![t] = y]
        /\ y.reason = x.reason
        /\ y.header = x.header
        /\ y.state = Advanced(x.state)
        /\ where = "run" <=> CanAdvance(x.state)
  BY <1>1, <1>2, ContinueEffect DEF IInv
<1>4. where = "run" /\ y.state = AfterInterpret /\ y.reason = "AfterInterpret" /\ y.header
  BY <1>2, <1>3, FinalState, StateConstants
<1>5. /\ pc'[t] = "run" /\ ctx'[t] = y
      /\ \A u \in Threads \ {t} : pc'[u] = pc[u] /\ ctx'[u] = ctx[u]
      /\ Main \in Threads /\ Main \notin Conns /\ Conns \subseteq Threads
  BY <1>3, <1>4, OneMoves DEF IInv, TypeOK
<1>6. HandlersOK'
  BY <1>4, <1>5 DEF RInv, HandlersOK, HandlerCtxOK
<1>7. ViaOK' /\ SocketsOK' /\ PendingOK'
  BY <1>1, <1>5 DEF RInv, ViaOK, SocketsOK, PendingOK
<1>8. OrderOK'
  <2>1. HasBegun' <=> HasBegun
    BY <1>1, <1>5 DEF HasBegun
  <2>2. \A c \in Conns : /\ pc'[c] # "none" => pc[c] # "none"
                         /\ pc'[c] = "write" => pc[c] = "write"
    BY <1>1, <1>5
  <2> QED
    BY <1>1, <2>1, <2>2 DEF RInv, OrderOK, NotAfter
<1>9. OwnSessionOK'
  BY <1>1, <1>5 DEF RInv, OwnSessionOK
<1> QED
  BY <1>6, <1>7, <1>8, <1>9 DEF RInv

\* Only the accept loop opens sessions.
LEMMA SslNewOrder ==
  ASSUME IInv, RInv, NEW t \in Threads, SslNew(t)
  PROVE  RInv'
<1>1. t = Main
  <2>1. ctx[t].state = BeforeParse /\ pc[t] = "run"
    BY DEF SslNew, WantsHandshake, Calls
  <2>2. BeforeParse \notin {Interpret, AfterInterpret, Completed}
    BY DEF BeforeParse, Interpret, AfterInterpret, Completed
  <2> QED
    BY <2>1, <2>2 DEF RInv, HandlersOK, HandlerCtxOK, Threads
<1> DEFINE s == [fd |-> fd[current], status |-> "new"]
<1>2. /\ pc[Main] = "run"
      /\ pc' = [pc EXCEPT ![Main] = "handshake"]
      /\ session' = [session EXCEPT ![current] = s]
      /\ ssl' = current
      /\ overlap' = overlap \union {h \in Conns : pc[h] \in {"run", "file"}}
      /\ UNCHANGED <<conn, owner, left, replies, sockets, current, fd, loaded>>
  BY <1>1 DEF SslNew, Goto, Served, kernel, loop
<1>3. /\ pc'[Main] = "handshake"
      /\ Main \in Threads /\ Main \notin Conns /\ Conns \subseteq Threads
      /\ \A c \in Conns : pc'[c] = pc[c]
  BY <1>1, <1>2, OneMoves
<1>4. \A c \in Conns : ctx'[c] = ctx[c]
  BY <1>1, <1>3 DEF SslNew, IInv, TypeOK
<1>5. /\ current \in Conns /\ fd[current] \in Fds /\ conn[current] = "accepted"
      /\ fd[current] # NoFd /\ owner[fd[current]] = current /\ current # None
  BY <1>2, <1>3, ServerAssumption, ServedOpen
     DEF Served, IInv, TypeOK, PlacesOK, OneUserPerSocket, DescriptorsAgree
<1>6. /\ session'[current].status = "new" /\ session'[current].fd = fd[current]
      /\ \A c \in Conns \ {current} : session'[c] = session[c]
  BY <1>2, <1>5 DEF IInv, TypeOK
<1> HIDE DEF s
<1>7. HandlersOK' /\ ViaOK' /\ SocketsOK'
  <2>1. HandlersOK'
    BY <1>3, <1>4 DEF RInv, HandlersOK, HandlerCtxOK
  <2> QED
    BY <1>2, <2>1 DEF RInv, ViaOK, SocketsOK
<1>8. \A c, d : NotAfter(c, d)' <=> NotAfter(c, d)
  BY <1>2 DEF NotAfter
<1>9. \A c \in Conns : conn[c] \in {"accepted", "closed"} => NotAfter(c, current)
  BY <1>5, AcceptedInOrder DEF RInv, IInv
<1>10. OrderOK'
  <2>1. \A c \in Conns : session'[c].status # "none" => NotAfter(c, c)
    BY <1>5, <1>6, <1>9 DEF RInv, OrderOK
  <2>2. \A c \in Conns : session'[c].status # "none" /\ owner[session'[c].fd] # None
                           => NotAfter(c, owner[session'[c].fd])
    BY <1>5, <1>6, <1>9 DEF RInv, OrderOK
  <2>3. \A c \in Conns : pc'[c] # "none" => NotAfter(c, current)
    BY <1>3, <1>9 DEF IInv, OneUserPerSocket
  <2>4. \A c \in Conns : pc'[c] = "write" => NotAfter(c, loaded[c])
    BY <1>3 DEF RInv, OrderOK
  <2> QED
    BY <1>2, <1>8, <2>1, <2>2, <2>3, <2>4 DEF RInv, OrderOK
<1>11. OwnSessionOK'
  <2>1. \A c \in Conns : session'[c].status # "none" /\ fd'[c] # NoFd => session'[c].fd = fd'[c]
    BY <1>2, <1>6 DEF RInv, OwnSessionOK
  <2>2. pc[current] = "none"
    BY <1>5 DEF IInv, OneUserPerSocket
  <2> QED
    BY <1>2, <1>3, <1>6, <2>1, <2>2 DEF RInv, OwnSessionOK
<1>12. PendingOK'
  BY <1>2, <1>6 DEF PendingOK
<1> QED
  BY <1>7, <1>10, <1>11, <1>12 DEF RInv

LEMMA SslAcceptOrder ==
  ASSUME IInv, RInv, NEW t \in Threads, SslAccept(t)
  PROVE  RInv'
<1>1. t = Main
  BY DEF SslAccept, RInv, HandlersOK, HandlerCtxOK, Threads
<1> DEFINE status == IF Hello(current) /\ current \notin left THEN "open" ELSE "failed"
<1>2. /\ pc[Main] = "handshake" /\ Continue(Main, ctx[Main])
      /\ session' = [session EXCEPT ![current].status = status]
      /\ UNCHANGED <<conn, owner, left, replies, sockets, current, fd, loaded, ssl, overlap>>
  BY <1>1 DEF SslAccept, Served, loop
<1>3. ctx[Main] \in CtxType
  BY <1>1 DEF IInv, TypeOK
<1>4. PICK where \in {"run", "receive"}, y \in CtxType :
        pc' = [pc EXCEPT ![Main] = where] /\ ctx' = [ctx EXCEPT ![Main] = y]
  BY <1>1, <1>2, <1>3, ContinueEffect DEF IInv
<1>5. /\ Main \in Threads /\ Main \notin Conns /\ Conns \subseteq Threads
      /\ \A c \in Conns : pc'[c] = pc[c] /\ ctx'[c] = ctx[c]
  BY <1>1, <1>4, OneMoves DEF IInv, TypeOK
<1>6. current \in Conns /\ conn[current] = "accepted" /\ pc[current] = "none"
  BY <1>2 DEF IInv, TypeOK, PlacesOK, OneUserPerSocket
<1>7. /\ \A c \in Conns : session'[c].fd = session[c].fd
      /\ \A c \in Conns \ {current} : session'[c] = session[c]
  BY <1>2, <1>6 DEF IInv, TypeOK, SessionType
<1> HIDE DEF status
<1>8. HandlersOK' /\ ViaOK' /\ SocketsOK'
  <2>1. HandlersOK'
    BY <1>5 DEF RInv, HandlersOK, HandlerCtxOK
  <2> QED
    BY <1>2, <2>1 DEF RInv, ViaOK, SocketsOK
<1>9. \A c, d : NotAfter(c, d)' <=> NotAfter(c, d)
  BY <1>2 DEF NotAfter
<1>10. session[current].status # "none"
  BY <1>2 DEF RInv, PendingOK
<1>11. OrderOK'
  <2>1. HasBegun
    BY <1>2 DEF HasBegun
  <2>2. \A c \in Conns : session'[c].status # "none" => session[c].status # "none"
    BY <1>7, <1>10
  <2> QED
    BY <1>2, <1>5, <1>7, <1>9, <2>1, <2>2 DEF RInv, OrderOK
<1>12. PendingOK' /\ OwnSessionOK'
  <2>1. pc'[Main] # "handshake"
    BY <1>4, <1>5 DEF IInv, TypeOK
  <2> QED
    BY <1>2, <1>5, <1>6, <1>7, <1>10, <2>1 DEF RInv, PendingOK, OwnSessionOK
<1> QED
  BY <1>8, <1>11, <1>12 DEF RInv

\* A thread that is about to write is a handler, and its context has a header.
LEMMA WriterHasHeader ==
  ASSUME IInv, RInv, NEW t \in Threads, pc[t] = "run", WantsWrite(ctx[t])
  PROVE  t \in Conns /\ ctx[t].header /\ "SSL" \in Modules
<1>1. "SSL" \in Modules /\ ctx[t].state = AfterInterpret /\ ctx[t].reason = "AfterInterpret"
  BY DEF WantsWrite, Calls
<1>2. t \in Conns
  BY <1>1 DEF IInv, SessionsOK, MainCtxOK, Threads
<1>3. Interpret # AfterInterpret /\ AfterInterpret # Completed
  BY DEF Interpret, AfterInterpret, Completed
<1> QED
  BY <1>1, <1>2, <1>3 DEF RInv, HandlersOK, HandlerCtxOK

LEMMA LoadSessionOrder ==
  ASSUME IInv, RInv, NEW t \in Threads, LoadSession(t)
  PROVE  RInv'
<1>1. pc[t] = "run" /\ t \in Conns /\ ctx[t].header /\ "SSL" \in Modules
  BY WriterHasHeader DEF LoadSession
<1>2. /\ pc' = [pc EXCEPT ![t] = "write"]
      /\ loaded' = [loaded EXCEPT ![t] = ssl]
      /\ UNCHANGED <<conn, owner, left, replies, sockets, current, fd, ctx,
                     session, ssl, overlap>>
  BY <1>1 DEF LoadSession, Goto, kernel, loop, module
<1>3. /\ pc'[t] = "write" /\ loaded'[t] = ssl
      /\ \A u \in Threads \ {t} : pc'[u] = pc[u] /\ loaded'[u] = loaded[u]
      /\ Main \in Threads /\ Main \notin Conns /\ Conns \subseteq Threads
  BY <1>2, OneMoves DEF IInv, TypeOK
<1>4. HandlersOK' /\ ViaOK' /\ SocketsOK' /\ PendingOK'
  <2>1. HandlersOK'
    BY <1>2, <1>3 DEF RInv, HandlersOK, HandlerCtxOK
  <2>2. pc'[Main] = pc[Main]
    BY <1>1, <1>3
  <2> QED
    BY <1>2, <2>1, <2>2 DEF RInv, ViaOK, SocketsOK, PendingOK
<1>5. \A c, d : NotAfter(c, d)' <=> NotAfter(c, d)
  BY <1>2 DEF NotAfter
<1>6. OrderOK'
  <2>1. HasBegun' <=> HasBegun
    BY <1>1, <1>2, <1>3 DEF HasBegun
  <2>2. NotAfter(t, ssl)
    BY <1>1 DEF RInv, OrderOK
  <2>3. \A c \in Conns : pc'[c] # "none" => pc[c] # "none"
    BY <1>1, <1>3
  <2>4. \A c \in Conns : pc'[c] = "write" => NotAfter(c, loaded'[c])
    BY <1>3, <2>2 DEF RInv, OrderOK
  <2> QED
    BY <1>2, <1>5, <2>1, <2>3, <2>4 DEF RInv, OrderOK
<1>7. OwnSessionOK'
  BY <1>1, <1>2, <1>3 DEF RInv, OwnSessionOK
<1> QED
  BY <1>4, <1>6, <1>7 DEF RInv

\* SSL_write is over: the context is settled, and what is left to show is
\* where the replies went.
LEMMA EndWriteOrder ==
  ASSUME IInv, RInv, NEW t \in Threads, pc[t] = "write", EndWrite(t),
         ViaOK',
         \A c \in Conns : \A r \in replies'[c] :
           NotAfter(r.by, c) /\ (r.via # None => NotAfter(r.via, c)),
         \A c \in Conns : replies[c] \subseteq replies'[c],
         (loaded[t] = t /\ session[t].status = "open" /\ t \notin left)
            => [by |-> t, via |-> t] \in replies'[t]
  PROVE  RInv'
<1> DEFINE x == [ctx[t] EXCEPT !.reason = "Completed", !.state = Completed]
<1>1. /\ Continue(t, x)
      /\ UNCHANGED <<conn, owner, left, sockets, current, fd, loaded, session, ssl, overlap>>
  BY DEF EndWrite, loop, module
<1>2. ctx[t] \in CtxType /\ t # Main /\ t \in Conns
  BY DEF IInv, TypeOK, PlacesOK, Threads
<1>3. x \in CtxType /\ x.state = Completed /\ Completed \in State
  BY <1>2, StateConstants DEF CtxType, Reasons
<1> HIDE DEF x
<1>4. PICK where \in {"run", "respond"}, y \in CtxType :
        /\ pc' = [pc EXCEPT ![t] = where]
        /\ ctx' = [ctx EXCEPT ![t] = y]
        /\ y.state = Advanced(x.state)
        /\ where = "run" <=> CanAdvance(x.state)
  BY <1>1, <1>2, <1>3, ContinueEffect DEF IInv
<1>5. y.state = Completed /\ where = "respond"
  BY <1>3, <1>4, FinalState
<1>6. /\ pc'[t] = "respond" /\ ctx'[t] = y
      /\ \A u \in Threads \ {t} : pc'[u] = pc[u] /\ ctx'[u] = ctx[u]
      /\ Main \in Threads /\ Main \notin Conns /\ Conns \subseteq Threads
  BY <1>4, <1>5, OneMoves DEF IInv, TypeOK
<1>7. HandlersOK' /\ SocketsOK' /\ PendingOK'
  <2>1. HandlersOK'
    BY <1>5, <1>6 DEF RInv, HandlersOK, HandlerCtxOK
  <2>2. pc'[Main] = pc[Main]
    BY <1>2, <1>6
  <2> QED
    BY <1>1, <2>1, <2>2 DEF RInv, SocketsOK, PendingOK
<1>8. \A c, d : NotAfter(c, d)' <=> NotAfter(c, d)
  BY <1>1 DEF NotAfter
<1>9. OrderOK'
  <2>1. HasBegun' <=> HasBegun
    BY <1>2, <1>6 DEF HasBegun
  <2>2. \A c \in Conns : pc'[c] # "none" => pc[c] # "none"
    BY <1>6
  <2>3. \A c \in Conns : pc'[c] = "write" => pc[c] = "write"
    BY <1>6
  <2> QED
    BY <1>1, <1>8, <2>1, <2>2, <2>3 DEF RInv, OrderOK
<1>10. OwnSessionOK'
  BY <1>1, <1>2, <1>6 DEF RInv, OwnSessionOK
<1> QED
  BY <1>7, <1>9, <1>10 DEF RInv

\* The reply goes to whoever holds the descriptor of the session now: nobody
\* accepted before the session was made, and the client itself if it is its own.
LEMMA ReceiverInOrder ==
  ASSUME IInv, RInv, NEW t \in Threads, pc[t] = "write"
  PROVE  /\ t \in Conns /\ loaded[t] \in Conns
         /\ Receiver(t) # None =>
              /\ Receiver(t) \in Conns
              /\ NotAfter(t, Receiver(t)) /\ NotAfter(loaded[t], Receiver(t))
         /\ loaded[t] = t /\ session[t].status = "open" => Receiver(t) = t
<1>1. t \in Conns /\ loaded[t] \in Conns /\ NotAfter(t, loaded[t])
  BY DEF IInv, PlacesOK, SessionsOK, RInv, OrderOK, Threads
<1>2. session[loaded[t]].status # "none" => session[loaded[t]].fd \in Fds
  BY <1>1 DEF IInv, SessionsOK
<1>3. ASSUME Receiver(t) # None
      PROVE  Receiver(t) \in Conns /\ NotAfter(t, Receiver(t)) /\ NotAfter(loaded[t], Receiver(t))
  <2>1. session[loaded[t]].status = "open" /\ Receiver(t) = owner[session[loaded[t]].fd]
    BY <1>3 DEF Receiver
  <2>2. Receiver(t) \in Conns
    BY <1>2, <1>3, <2>1 DEF IInv, TypeOK
  <2>3. NotAfter(loaded[t], Receiver(t))
    BY <1>1, <1>3, <2>1 DEF RInv, OrderOK
  <2> QED
    BY <1>1, <2>2, <2>3, OrderTransitive DEF IInv, RInv
<1>4. ASSUME loaded[t] = t, session[t].status = "open"
      PROVE  Receiver(t) = t
  <2>1. conn[t] = "accepted" /\ fd[t] # NoFd /\ owner[fd[t]] = t
    BY <1>1 DEF IInv, OneUserPerSocket, DescriptorsAgree
  <2>2. session[t].fd = fd[t]
    BY <1>1, <1>4, <2>1 DEF RInv, OwnSessionOK
  <2> QED
    BY <1>4, <2>1, <2>2 DEF Receiver
<1> QED
  BY <1>1, <1>3, <1>4

LEMMA WriteOrder ==
  ASSUME IInv, RInv, NEW t \in Threads, WriteReaches(t) \/ WriteLost(t)
  PROVE  RInv'
<1>1. pc[t] = "write" /\ EndWrite(t)
  BY DEF WriteReaches, WriteLost
<1>2. CASE WriteLost(t)
  <2>1. replies' = replies /\ Receiver(t) \in left \union {None}
    BY <1>2 DEF WriteLost
  <2>2. t # None /\ t \in Conns
    BY <1>1, ReceiverInOrder, ServerAssumption
  <2> QED
    BY <1>1, <2>1, <2>2, EndWriteOrder, ReceiverInOrder DEF RInv, ViaOK, OrderOK
<1>3. CASE WriteReaches(t)
  <2>1. PICK d : d = Receiver(t)
    OBVIOUS
  <2>2. /\ d \notin left \union {None}
        /\ replies' = [replies EXCEPT ![d] = @ \union {[by |-> t, via |-> loaded[t]]}]
    BY <1>3, <2>1 DEF WriteReaches
  <2>3. /\ d \in Conns /\ NotAfter(t, d) /\ NotAfter(loaded[t], d) /\ loaded[t] # None
        /\ t \in Conns
        /\ loaded[t] = t /\ session[t].status = "open" => d = t
    BY <1>1, <2>1, <2>2, ReceiverInOrder, ServerAssumption
  <2>4. /\ replies'[d] = replies[d] \union {[by |-> t, via |-> loaded[t]]}
        /\ \A c \in Conns \ {d} : replies'[c] = replies[c]
    BY <2>2, <2>3 DEF IInv, TypeOK
  <2>5. ViaOK'
    BY <2>3, <2>4 DEF RInv, ViaOK
  <2>6. \A c \in Conns : \A r \in replies'[c] :
          NotAfter(r.by, c) /\ (r.via # None => NotAfter(r.via, c))
    BY <2>3, <2>4 DEF RInv, OrderOK
  <2> QED
    BY <1>1, <2>3, <2>4, <2>5, <2>6, EndWriteOrder
<1> QED
  BY <1>2, <1>3

\* onPacketReceived finds every context settled, so that nothing is sent.
LEMMA RespondSettled ==
  ASSUME IInv, RInv, NEW c \in Conns, Respond(c)
  PROVE  Replied(c, {})
<1>1. ctx[c].state = Completed
  BY DEF Respond, RInv, HandlersOK, HandlerCtxOK
<1> QED
  BY <1>1 DEF Respond, Settled, isCompleted

\* The end of a handler, after runPipeline: its reply, if any, is written.
LEMMA HandlerEnds ==
  ASSUME IInv, RInv, NEW c \in Conns, NEW where \in {"close", "done"},
         pc[c] \in {"respond", "close"},
         pc' = [pc EXCEPT ![c] = where],
         UNCHANGED <<left, replies, sockets, current, ctx, loaded, session, ssl, overlap>>,
         \A d \in Conns : conn'[d] \in {"accepted", "closed"} <=> conn[d] \in {"accepted", "closed"},
         \A f \in Fds : owner'[f] \in {owner[f], None},
         \A d \in Conns : fd'[d] \in {fd[d], NoFd}
  PROVE  RInv'
<1>1. /\ pc'[c] = where
      /\ \A u \in Threads \ {c} : pc'[u] = pc[u]
      /\ Main \in Threads /\ Main \notin Conns /\ Conns \subseteq Threads
  BY OneMoves DEF Threads
<1>2. HandlersOK' /\ ViaOK' /\ SocketsOK' /\ PendingOK'
  <2>1. HandlersOK'
    BY <1>1 DEF RInv, HandlersOK, HandlerCtxOK
  <2>2. pc'[Main] = pc[Main]
    BY <1>1
  <2> QED
    BY <2>1, <2>2 DEF RInv, ViaOK, SocketsOK, PendingOK
<1>3. \A d, e : NotAfter(d, e)' <=> NotAfter(d, e)
  BY DEF NotAfter
<1>4. OrderOK'
  <2>1. HasBegun' <=> HasBegun
    BY <1>1 DEF HasBegun
  <2>2. \A d \in Conns : /\ pc'[d] # "none" => pc[d] # "none"
                         /\ pc'[d] = "write" => pc[d] = "write"
    BY <1>1
  <2>3. \A d \in Conns : session[d].status # "none" /\ owner'[session[d].fd] # None
                           => owner'[session[d].fd] = owner[session[d].fd]
    BY DEF IInv, SessionsOK
  <2> QED
    BY <1>3, <2>1, <2>2, <2>3 DEF RInv, OrderOK
<1>5. OwnSessionOK'
  BY <1>1 DEF RInv, OwnSessionOK
<1> QED
  BY <1>2, <1>4, <1>5 DEF RInv

LEMMA RespondOrder ==
  ASSUME IInv, RInv, NEW c \in Conns, Respond(c)
  PROVE  RInv'
<1>1. /\ pc[c] = "respond" /\ pc' = [pc EXCEPT ![c] = "close"]
      /\ replies' = [replies EXCEPT ![c] = @ \union {}]
      /\ UNCHANGED <<conn, owner, left, sockets, current, fd, ctx, loaded, session, ssl, overlap>>
  BY RespondSettled DEF Respond, Replied, AfterReply, Goto, loop, module
<1>2. replies' = replies
  BY <1>1 DEF IInv, TypeOK
<1> QED
  BY <1>1, <1>2, HandlerEnds

LEMMA CloseOrder ==
  ASSUME IInv, RInv, NEW c \in Conns, Close(c)
  PROVE  RInv'
<1>1. /\ pc[c] = "close" /\ pc' = [pc EXCEPT ![c] = "done"]
      /\ owner' = [owner EXCEPT ![fd[c]] = None]
      /\ fd' = [fd EXCEPT ![c] = NoFd]
      /\ conn' = [conn EXCEPT ![c] = "closed"]
      /\ UNCHANGED <<left, replies, sockets, current, ctx, loaded, session, ssl, overlap>>
  BY DEF Close, ClosedHandle, Goto, loop, module
<1>2. conn[c] = "accepted"
  BY <1>1 DEF IInv, OneUserPerSocket
<1>3. \A d \in Conns : conn'[d] \in {"accepted", "closed"} <=> conn[d] \in {"accepted", "closed"}
  BY <1>1, <1>2 DEF IInv, TypeOK
<1>4. \A f \in Fds : owner'[f] \in {owner[f], None}
  BY <1>1 DEF IInv, TypeOK
<1>5. \A d \in Conns : fd'[d] \in {fd[d], NoFd}
  BY <1>1 DEF IInv, TypeOK
<1> QED
  BY <1>1, <1>3, <1>4, <1>5, HandlerEnds

LEMMA RInvStep == IInv /\ RInv /\ [Next]_vars => RInv'
<1> SUFFICES ASSUME IInv, RInv, [Next]_vars PROVE RInv'
  OBVIOUS
<1>1. CASE UNCHANGED vars
  BY <1>1, QuietStep DEF vars, kernel, server, loop
<1>2. ASSUME NEW t \in Threads, RunStep(t) PROVE RInv'
  <2>1. CASE SslAcceptSignal(t) \/ WriteSignal(t) \/ WriteRace(t)
    BY <2>1, QuietDown DEF SslAcceptSignal, WriteSignal, WriteRace
  <2> QED
    BY <1>2, <2>1, PassOrder, OpenFileOrder, CreateResponseOrder, SslNewOrder,
       SslAcceptOrder, LoadSessionOrder, WriteOrder
       DEF RunStep
<1>3. CASE MainStep
  <2>1. Main \in Threads
    BY DEF Threads
  <2> QED
    BY <1>2, <1>3, <2>1, CallAcceptOrder, AcceptOrder, ReceiveOrder, SpawnOrder DEF MainStep
<1>4. ASSUME NEW c \in Conns, Handler(c) PROVE RInv'
  <2>1. c \in Threads
    BY DEF Threads
  <2> QED
    BY <1>2, <1>4, <2>1, RespondOrder, CloseOrder DEF Handler
<1>5. ASSUME NEW c \in Conns, Client(c) PROVE RInv'
  BY <1>5, ClientQuiet
<1> QED
  BY <1>1, <1>3, <1>4, <1>5 DEF Next

\* Where every context, session, socket and reply stands, in every state of
\* every server: the ground of the theorems below.
THEOREM RInvAlways == Spec => []RInv
<1>1. Init => RInv
  BY RInvInit
<1>2. IInv /\ RInv /\ [Next]_vars => RInv'
  BY RInvStep
<1> QED
  BY <1>1, <1>2, IInvAlways, PTL DEF Spec

\* The member _ssl_per_client is shared by every thread, and a handler may well
\* write to another client's session, but only to a client accepted later.
THEOREM RepliesNeverGoBack == Spec => []ReplyNeverGoesBack
<1>1. IInv /\ RInv => ReplyNeverGoesBack
  BY OrderIsPosition DEF ReplyNeverGoesBack, IInv, RInv, OrderOK
<1> QED
  BY <1>1, IInvAlways, RInvAlways, PTL

\* With the SSL module in the pipeline _handleRequest never sends a reply in
\* clear.  The invariant says more: it never sends one whatever the modules,
\* since a pipeline that runs to its end has completed its context.
THEOREM NothingEverInClear == Spec => []NothingInClear
<1>1. RInv => NothingInClear
  BY DEF NothingInClear, RInv, ViaOK
<1> QED
  BY <1>1, RInvAlways, PTL

\* A client that completed its handshake, stayed, and whose handler reached
\* SSL_write before the next handshake began, has its reply once it is closed.
THEOREM EveryoneServedUnlessOvertaken == Spec => []ServedUnlessOvertaken
<1>1. IInv /\ RInv => ServedUnlessOvertaken
  BY DEF ServedUnlessOvertaken, IInv, OneUserPerSocket, RInv, OwnSessionOK
<1> QED
  BY <1>1, IInvAlways, RInvAlways, PTL

-----------------------------------------------------------------------------
(***************************************************************************)
(* What brings the process down.                                           *)
(***************************************************************************)

\* Why the process is gone, if it is.
CauseOK ==
  /\ down # "missing header"
  /\ down \in {"eof", "signal"} => left # {}
  /\ down = "descriptors" => FreeFds = {} /\ pc[Main] = "call"
  /\ down = "race" => \E t \in Threads, u \in Threads :
                         t # u /\ pc[t] = "write" /\ Inside(u, loaded[t])


LEMMA CauseInit == Init => CauseOK
BY DEF Init, CauseOK

\* A step that lets the process live has nothing to explain.
LEMMA Alive == down' = "no" => CauseOK'
BY DEF CauseOK

LEMMA RunCause ==
  ASSUME IInv, RInv, down = "no", NEW t \in Threads, RunStep(t)
  PROVE  CauseOK'
<1>1. CASE \/ Pass(t) \/ OpenFile(t) \/ CreateResponse(t) \/ SslNew(t) \/ SslAccept(t)
           \/ WriteReaches(t) \/ WriteLost(t)
  BY <1>1, Alive DEF Pass, OpenFile, CreateResponse, SslNew, SslAccept, WriteReaches,
                     WriteLost, EndWrite
<1>2. CASE LoadSession(t)
  BY <1>2, WriterHasHeader, Alive DEF LoadSession
<1>3. CASE SslAcceptSignal(t) \/ WriteSignal(t)
  BY <1>3 DEF SslAcceptSignal, WriteSignal, GoDown, kernel, CauseOK
<1>4. CASE WriteRace(t)
  BY <1>4 DEF WriteRace, GoDown, loop, CauseOK, Inside, Served
<1> QED
  BY <1>1, <1>2, <1>3, <1>4 DEF RunStep

LEMMA CauseStep == IInv /\ RInv /\ CauseOK /\ [Next]_vars => CauseOK'
<1> SUFFICES ASSUME IInv, RInv, CauseOK, [Next]_vars PROVE CauseOK'
  OBVIOUS
<1>1. CASE UNCHANGED vars
  BY <1>1 DEF vars, kernel, server, loop, CauseOK, FreeFds, Inside, Served
<1>2. CASE Next
  <2>1. down = "no"
    BY <1>2 DEF Next
  <2>2. CASE MainStep
    <3>1. CASE CallAccept
      <4>1. CASE FreeFds # {}
        BY <2>1, <3>1, <4>1, Alive DEF CallAccept
      <4>2. CASE FreeFds = {}
        <5>1. /\ pc[Main] = "call" /\ down' = "descriptors"
              /\ UNCHANGED <<owner, file, reserved, pc>>
          BY <3>1, <4>2 DEF CallAccept, GoDown, kernel, loop
        <5>2. FreeFds' = FreeFds
          BY <5>1 DEF FreeFds
        <5> QED
          BY <4>2, <5>1, <5>2 DEF CauseOK
      <4> QED
        BY <4>1, <4>2
    <3>2. CASE Receive
      BY <2>1, <3>2, Alive DEF Receive, GoDown, kernel, CauseOK
    <3>3. CASE Accept \/ Spawn
      BY <2>1, <3>3, Alive DEF Accept, Spawn
    <3> QED
      BY <2>1, <2>2, <3>1, <3>2, <3>3, RunCause DEF MainStep, Threads
  <2>3. ASSUME NEW c \in Conns, Handler(c) PROVE CauseOK'
    <3>1. CASE Respond(c)
      BY <2>1, <3>1, RespondSettled, Alive DEF Replied
    <3>2. CASE Close(c)
      BY <2>1, <3>2, Alive DEF Close
    <3> QED
      BY <2>1, <2>3, <3>1, <3>2, RunCause DEF Handler, Threads
  <2>4. ASSUME NEW c \in Conns, Client(c) PROVE CauseOK'
    BY <2>1, <2>4, Alive DEF Client, Connect, SendFirst, SendRequest, HangUp, server
  <2> QED
    BY <1>2, <2>2, <2>3, <2>4 DEF Next
<1> QED
  BY <1>1, <1>2

\* Two threads inside one session: the one of them that is not its client's
\* handler was overtaken.
LEMMA RaceOvertaken ==
  ASSUME IInv, RInv, NEW t \in Threads, NEW u \in Threads,
         t # u, pc[t] = "write", Inside(u, loaded[t])
  PROVE  \E w \in overlap : /\ pc[w] = "write" /\ loaded[w] # w
                            /\ \E v \in Threads \ {w} : Inside(v, loaded[w])
<1>1. t \in Conns /\ Main \notin Conns
  BY ServerAssumption DEF IInv, PlacesOK, Threads
<1>2. \A c \in Conns : pc[c] = "write" /\ loaded[c] # c => c \in overlap
  BY DEF RInv, OwnSessionOK
<1>3. CASE pc[u] = "write" /\ loaded[u] = loaded[t]
  <2>1. u \in Conns
    BY <1>3 DEF IInv, PlacesOK, Threads
  <2>2. CASE loaded[t] # t
    BY <1>1, <1>2, <2>2
  <2>3. CASE loaded[t] = t
    <3>1. loaded[u] # u /\ Inside(t, loaded[u])
      BY <1>3, <2>3 DEF Inside
    <3> QED
      BY <1>2, <1>3, <2>1, <3>1
  <2> QED
    BY <2>2, <2>3
<1>4. CASE pc[u] = "handshake" /\ Served(u) = loaded[t]
  <2>1. u = Main
    BY <1>4 DEF RInv, HandlersOK, HandlerCtxOK, Threads
  <2>2. loaded[t] = current /\ current \in Conns /\ pc[current] = "none"
    BY <1>1, <1>4, <2>1 DEF Served, IInv, SessionsOK, OneUserPerSocket
  <2> QED
    BY <1>1, <1>2, <2>2
<1> QED
  BY <1>3, <1>4 DEF Inside

\* It takes a client that hangs up, an overtaken handler inside SSL_write with a
\* session someone else is inside of as well, or a descriptor table full of open
\* connections and of their handlers' files to bring the process down; the
\* missing header of an unanswered context never does.
THEOREM OnlyDownForThat == Spec => []DownOnlyFor
<1>1. IInv /\ RInv /\ CauseOK => DownOnlyFor
  <2> SUFFICES ASSUME IInv, RInv, CauseOK PROVE DownOnlyFor
    OBVIOUS
  <2>1. ASSUME down = "descriptors", NEW f \in Fds
        PROVE  \/ owner[f] # None /\ conn[owner[f]] = "accepted"
               \/ \E c \in Conns : file[c] = f /\ pc[c] = "file" /\ conn[c] = "accepted"
    <3>1. f # NoFd
      BY ServerAssumption DEF NoFd
    <3>2. CASE owner[f] # None
      <4>1. owner[f] \in Conns
        BY <3>2 DEF IInv, TypeOK
      <4>2. fd[owner[f]] = f
        BY <3>2 DEF IInv, DescriptorsAgree
      <4> QED
        BY <3>1, <3>2, <4>1, <4>2 DEF IInv, OneUserPerSocket
    <3>3. CASE owner[f] = None
      <4>1. PICK t \in Threads : file[t] = f
        BY <2>1, <3>1, <3>3 DEF CauseOK, FreeFds, IInv, PlacesOK
      <4>2. pc[t] = "file"
        BY <3>1, <4>1 DEF IInv, DescriptorsAgree, FilesApart
      <4>3. t \in Conns
        BY <4>2 DEF IInv, PlacesOK, Threads
      <4> QED
        BY <4>1, <4>2, <4>3 DEF IInv, OneUserPerSocket
    <3> QED
      BY <3>2, <3>3
  <2> QED
    BY <2>1, RaceOvertaken DEF CauseOK, DownOnlyFor
<1>2. Init => CauseOK
  BY CauseInit
<1>3. IInv /\ RInv /\ CauseOK /\ [Next]_vars => CauseOK'
  BY CauseStep
<1> QED
  BY <1>1, <1>2, <1>3, IInvAlways, RInvAlways, PTL DEF Spec
=============================================================================
