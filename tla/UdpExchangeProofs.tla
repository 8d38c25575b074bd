-------------------------- MODULE UdpExchangeProofs -------------------------
(***************************************************************************)
(* Theorems about UdpExchange, for any clients, lengths of messages,       *)
(* numbers of calls and of faults.                                         *)
(***************************************************************************)
EXTENDS UdpExchange, SequenceTheorems, TLAPS

-----------------------------------------------------------------------------
\* The inductive invariant for one call at a time: where the halves of the
\* call of c, and of its answer, can be.

Mine(c)   == Header(c, client[c].size)
MyData(c) == Data(c, client[c].size, Called(c))

\* Only the header has been sent.
Asking(c) ==
  /\ client[c].pc = "data" /\ threads = {} /\ toClient[c] = <<>>
  /\ \/ server.at = "header" /\ toServer \in {<<>>, <<Mine(c)>>}
     \/ /\ server.at = "data" /\ toServer = <<>>
        /\ server.buffer = Reparsed(client[c].size) /\ server.endpoint = c

\* Both halves have been sent; the server misreads a half that comes alone.
Asked(c) ==
  /\ client[c].pc = "reply" /\ threads = {} /\ toClient[c] = <<>>
  /\ \/ server.at = "header"
        /\ toServer \in {<<>>, <<Mine(c)>>, <<MyData(c)>>, <<Mine(c), MyData(c)>>}
     \/ /\ server.at = "data" /\ toServer \in {<<>>, <<MyData(c)>>}
        /\ server.buffer = Reparsed(client[c].size) /\ server.endpoint = c
     \/ server.at = "data" /\ toServer = <<>>

Idling == server.at = "header" /\ toServer = <<>>

\* The thread for the call is there, and the endpoint it refers to is c.
Answering(c) ==
  /\ Idling /\ slot = c
  /\ \E t \in threads :
       /\ threads = {t} /\ t.body = Called(c)
       /\ \/ t.at = "header" /\ client[c].pc = "reply" /\ toClient[c] = <<>>
          \/ /\ t.at = "data" /\ t.size \in Sizes /\ client[c].pc = "reply"
             /\ toClient[c] \in {<<>>, <<Header(None, t.size)>>}
          \/ /\ t.at = "data" /\ t.size \in Sizes /\ client[c].pc = "buffer"
             /\ client[c].buffer = Reparsed(t.size) /\ toClient[c] = <<>>

\* Both halves of the answer have been sent; the client misreads a lone one.
Answered(c) ==
  /\ Idling /\ threads = {}
  /\ \E s \in Sizes :
       LET reply == Data(None, s, Called(c)) IN
       \/ /\ client[c].pc = "reply"
          /\ toClient[c] \in {<<>>, <<Header(None, s)>>, <<reply>>, <<Header(None, s), reply>>}
       \/ /\ client[c].pc = "buffer" /\ client[c].buffer = Reparsed(s)
          /\ toClient[c] \in {<<>>, <<reply>>}
       \/ client[c].pc = "buffer" /\ toClient[c] = <<>>

Alone(c) == \A d \in Clients \ {c} : ~InCall(d)
Phase(c) == Asking(c) \/ Asked(c) \/ Answering(c) \/ Answered(c)
Rest     == Idling /\ threads = {}

SerialInv ==
  Serial => /\ \A c \in Clients : /\ client[c].pc # "exited"
                                  /\ client[c].reply \in {None, Called(c)}
                                  /\ ~InCall(c) => toClient[c] = <<>>
            /\ \/ Rest /\ \A c \in Clients : ~InCall(c)
               \/ \E c \in Clients : Alone(c) /\ Phase(c)

-----------------------------------------------------------------------------
\* The inductive invariant for overlapping calls without faults: halves stand
\* side by side in the server's queue, whoever they are from.

Intact == lost = 0 /\ disturbed = 0 /\ ~split /\ Sound

Halves(h, d) == h.kind = "header" /\ d.kind = "data" /\ d.size = h.size

OneSender ==
  \A c, d \in Clients : client[c].pc = "data" /\ client[d].pc = "data" => c = d

\* A header is followed by its data, or its sender still has it to send.
HeadersFollowed ==
  \A i \in 1..Len(toServer) : toServer[i].kind = "header" =>
    \/ i < Len(toServer) /\ Halves(toServer[i], toServer[i + 1])
    \/ i = Len(toServer) /\ \E c \in Clients : client[c].pc = "data"

\* Data stands behind its header, or the server has read that.
DataPreceded ==
  \A i \in 1..Len(toServer) : toServer[i].kind = "data" =>
    /\ toServer[i].body \in Calls
    /\ i = 1 => server.at = "data" /\ server.buffer = Reparsed(toServer[i].size)
    /\ i > 1 => Halves(toServer[i - 1], toServer[i])

SenderLast ==
  \A c \in Clients : client[c].pc = "data" =>
    \/ /\ toServer # <<>> /\ toServer[Len(toServer)].kind = "header"
       /\ toServer[Len(toServer)].size = client[c].size
    \/ toServer = <<>> /\ server.at = "data" /\ server.buffer = Reparsed(client[c].size)

LoopFed ==
  server.at = "data" => \/ toServer # <<>> /\ toServer[1].kind = "data"
                        \/ toServer = <<>> /\ \E c \in Clients : client[c].pc = "data"

NothingDamaged == server.at # "exited" /\ \A t \in threads : t.body # Damaged

PairsInv ==
  Intact => /\ OneSender /\ HeadersFollowed /\ DataPreceded
            /\ SenderLast /\ LoopFed /\ NothingDamaged

\* What the handler was given, and what is yet to be given to it.  Nothing is
\* answered that it was not given.
GivenCalls ==
  \A i \in 1..Len(handled) : handled[i] \in Calls /\ handled[i][2] <= client[handled[i][1]].calls

NotYetGiven ==
  /\ \A c \in Clients : client[c].pc = "data" => ~Service!WasHandled(Called(c))
  /\ \A i \in 1..Len(toServer) :
       toServer[i].kind = "data" => ~Service!WasHandled(toServer[i].body)

AnswersGiven ==
  /\ \A t \in threads : Service!WasHandled(t.body)
  /\ \A c \in Clients : \A i \in 1..Len(toClient[c]) :
       toClient[c][i].kind = "data" => Service!WasHandled(toClient[c][i].body)

HandledInv == Serial => GivenCalls /\ NotYetGiven /\ AnswersGiven

\* The locals that are set before they are used.
LocalsInv ==
  /\ \A c \in Clients : InCall(c) => client[c].size \in Sizes /\ client[c].calls > 0
  /\ server.at = "data" => server.endpoint \in Clients
  /\ threads # {} => slot \in Clients
  /\ \A t \in threads : t.at = "data" => t.size \in Sizes

-----------------------------------------------------------------------------
\* The buffer

\* What is announced fits, although the length is read twice.
LEMMA ReparsedCovers ==
  ASSUME NEW n \in Nat
  PROVE  Reparsed(n) \in Nat /\ n <= Reparsed(n)
<1> DEFINE a == n \div 10
           b == n \div 100
           d == n \div 1000
           e == n \div 10000
           f == n \div 100000
<1>1. /\ n = 10 * a + (n % 10) /\ n % 10 \in 0..9
      /\ a \in Nat /\ b \in Nat /\ d \in Nat /\ e \in Nat /\ f \in Nat
  OBVIOUS
<1>2. a = 10 * b + (a % 10) /\ a % 10 \in 0..9
  OBVIOUS
<1>3. b = 10 * d + (b % 10) /\ b % 10 \in 0..9
  OBVIOUS
<1>4. d = 10 * e + (d % 10) /\ d % 10 \in 0..9
  OBVIOUS
<1>5. e = 10 * f + (e % 10) /\ e % 10 \in 0..9
  OBVIOUS
<1>6. Reparsed(n) = (n % 10) + 16 * (a % 10) + 256 * (b % 10) + 4096 * (d % 10)
                    + 65536 * (e % 10) + 1048576 * f
  BY DEF Reparsed
<1> HIDE DEF a, b, d, e, f
<1> QED  BY <1>1, <1>2, <1>3, <1>4, <1>5, <1>6

LEMMA RoomType ==
  ASSUME NEW S, NEW d \in Datagrams(S)
  PROVE  Room(d) \in Buffers
BY DEF Room, Announced, Buffers, Datagrams

LEMMA DecodedType ==
  ASSUME NEW S, NEW d \in Datagrams(S), NEW x,
         NEW m \in Decoded(x, d), m # Failure
  PROVE  m \in Messages
BY DEF Decoded, Datagrams, Messages

LEMMA HeldType ==
  ASSUME NEW S, NEW d \in Datagrams(S), NEW x, x.held \in Nat, x.buffer \in Buffers \union {0},
         NEW n \in Buffers
  PROVE  Kept(x, n) \in Nat /\ HeldAfter(x, d) \in Nat
<1>1. \A k \in Sizes \union {34} : Reparsed(k) \in Nat
  BY ReparsedCovers, SizesAssumption
<1>2. n \in Nat /\ x.buffer \in Nat /\ d.size \in Nat
  BY <1>1, SizesAssumption DEF Buffers, Datagrams
<1> QED  BY <1>2 DEF Kept, HeldAfter

-----------------------------------------------------------------------------
\* Types

LEMMA TravelsType ==
  ASSUME NEW S, NEW q \in Seq(S), NEW d \in S, NEW fate \in Fates,
         fate = "overtakes" => q # <<>>
  PROVE  Travels(q, d, fate) \in Seq(S)
<1>1. CASE fate = "arrives"
  BY <1>1, AppendProperties DEF Travels
<1>2. CASE fate = "lost"
  BY <1>2 DEF Travels
<1>3. CASE fate = "twice"
  BY <1>3 DEF Travels
<1>4. CASE fate = "overtakes"
  <2>1. Len(q) \in Nat \ {0} /\ q[Len(q)] \in S
    BY <1>4, EmptySeq, LenProperties, ElementOfSeq
  <2>2. SubSeq(q, 1, Len(q) - 1) \in Seq(S)
    <3>1. \A i \in 1..(Len(q) - 1) : q[i] \in S
      BY <2>1, ElementOfSeq
    <3> QED  BY <2>1, <3>1, SubSeqProperties
  <2>3. <<d, q[Len(q)]>> \in Seq(S)
    BY <2>1
  <2>4. SubSeq(q, 1, Len(q) - 1) \o <<d, q[Len(q)]>> \in Seq(S)
    BY <2>2, <2>3, ConcatProperties
  <2> QED  BY <1>4, <2>4 DEF Travels
<1> QED  BY <1>1, <1>2, <1>3, <1>4 DEF Fates

TypeInv == TypeOK /\ LocalsInv

LEMMA FaultsCounted ==
  ASSUME TypeOK, NEW fate \in Fates, NEW q, Meets(fate, q)
  PROVE  /\ lost' \in Nat /\ disturbed' \in Nat
         /\ fate = "overtakes" => q # <<>>
BY DEF TypeOK, Meets

LEMMA Sent ==
  ASSUME NEW S, NEW by \in S, NEW s \in Sizes, NEW m \in Messages
  PROVE  Header(by, s) \in Datagrams(S) /\ Data(by, s, m) \in Datagrams(S)
BY DEF Header, Data, Datagram, Datagrams

LEMMA TypeClient ==
  ASSUME TypeInv, NEW c \in Clients,
         SetServer(c) \/ Refuse(c) \/ DataTooLong(c) \/ GetReplyHeader(c) \/ GetReplyData(c)
  PROVE  TypeInv'
<1> USE DEF TypeInv
<1> SUFFICES /\ client' \in [Clients -> ClientType] /\ toClient' \in [Clients -> Seq(Datagrams({None}))]
             /\ \A d \in Clients : InCall(d)' => InCall(d) /\ client'[d].size = client[d].size
                                                         /\ client'[d].calls = client[d].calls
  <2>1. /\ UNCHANGED <<server, slot, threads, handled, toServer, faults, overlap, split>>
        /\ stale' \in BOOLEAN /\ tooLong' \in BOOLEAN
    <3>1. CASE SetServer(c) \/ Refuse(c)
      BY <3>1 DEF TypeOK, SetServer, Refuse, sockets, faults, history
    <3>2. CASE DataTooLong(c)
      BY <3>2 DEF TypeOK, DataTooLong, sockets, faults
    <3>3. CASE GetReplyHeader(c)
      BY <3>3 DEF TypeOK, GetReplyHeader, faults, history
    <3>4. CASE GetReplyData(c)
      BY <3>4 DEF TypeOK, GetReplyData, Decodes, ReadsOn, faults
    <3> QED  BY <3>1, <3>2, <3>3, <3>4
  <2> QED  BY <2>1 DEF TypeOK, LocalsInv, faults
<1>1. CASE SetServer(c)
  BY <1>1 DEF TypeOK, ClientType, SetServer, sockets, InCall
<1>2. CASE Refuse(c)
  BY <1>2 DEF TypeOK, ClientType, Refuse, sockets, InCall
<1>6. CASE DataTooLong(c)
  BY <1>6 DEF TypeOK, ClientType, DataTooLong, sockets, InCall
<1>3. ASSUME toClient[c] # <<>>
      PROVE  Head(toClient[c]) \in Datagrams({None}) /\ Tail(toClient[c]) \in Seq(Datagrams({None}))
  BY <1>3, HeadTailProperties DEF TypeOK
<1>4. CASE GetReplyHeader(c)
  <2>1. Room(Head(toClient[c])) \in Buffers /\ Tail(toClient[c]) \in Seq(Datagrams({None}))
    BY <1>3, <1>4, RoomType DEF GetReplyHeader
  <2>2. PICK r \in Buffers, k \in Nat :
          client' = [client EXCEPT ![c] = [@ EXCEPT !.pc = "buffer", !.buffer = r, !.held = k]]
    <3>1. PICK r \in Buffers : r = Room(Head(toClient[c]))
      BY <2>1
    <3>2. PICK k \in Nat : k = Kept(client[c], r)
      BY <1>3, <1>4, HeldType DEF GetReplyHeader, TypeOK, ClientType
    <3> QED  BY <1>4, <3>1, <3>2 DEF GetReplyHeader, Resized, TypeOK
  <2>3. toClient' \in [Clients -> Seq(Datagrams({None}))]
    BY <1>4, <2>1 DEF GetReplyHeader, TypeOK
  <2>4. client[c].pc = "reply"
    BY <1>4 DEF GetReplyHeader
  <2> QED  BY <2>2, <2>3, <2>4 DEF TypeOK, ClientType, InCall
<1>5. CASE GetReplyData(c)
  <2>1. PICK m \in Decoded(client[c], Head(toClient[c])) :
          client' = [client EXCEPT ![c] =
                    IF m = Failure
                      THEN [@ EXCEPT !.pc = "exited"]
                      ELSE [@ EXCEPT !.pc = "idle", !.reply = m,
                                     !.held = HeldAfter(client[c], Head(toClient[c]))]]
    BY <1>5 DEF GetReplyData
  <2>2. m # Failure => m \in Messages
    BY <1>3, <1>5, <2>1, DecodedType DEF GetReplyData
  <2>3. toClient' \in [Clients -> Seq(Datagrams({None}))]
    BY <1>3, <1>5 DEF GetReplyData, TypeOK
  <2>4. client' \in [Clients -> ClientType]
    <3>1. CASE m = Failure
      BY <2>1, <3>1 DEF TypeOK, ClientType
    <3>2. CASE m # Failure
      <4>1. PICK k \in Nat : k = HeldAfter(client[c], Head(toClient[c]))
        <5>1. client[c].held \in Nat /\ client[c].buffer \in Buffers \union {0}
          BY DEF TypeOK, ClientType
        <5>2. Head(toClient[c]) \in Datagrams({None}) /\ Room(Head(toClient[c])) \in Buffers
          BY <1>3, <1>5, RoomType DEF GetReplyData
        <5> QED  BY <5>1, <5>2, HeldType
      <4>2. client' = [client EXCEPT ![c] = [@ EXCEPT !.pc = "idle", !.reply = m, !.held = k]]
        BY <2>1, <3>2, <4>1
      <4> QED  BY <2>2, <3>2, <4>2 DEF TypeOK, ClientType
    <3> QED  BY <3>1, <3>2
  <2>5. \A d \in Clients : InCall(d)' => client'[d] = client[d]
    BY <2>1 DEF TypeOK, ClientType, InCall
  <2> QED  BY <2>3, <2>4, <2>5 DEF InCall
<1> QED  BY <1>1, <1>2, <1>4, <1>5, <1>6

LEMMA TypeSendHeader ==
  ASSUME TypeInv, NEW c \in Clients, SendHeader(c)
  PROVE  TypeInv'
<1> USE DEF TypeInv
<1>1. PICK s \in Sizes, fate \in Fates :
        /\ Meets(fate, toServer)
        /\ toServer' = Travels(toServer, Header(c, s), fate)
        /\ client' = [client EXCEPT ![c] = Begun(@, s)]
  BY DEF SendHeader
<1>2. toServer' \in Seq(Datagrams(Clients)) /\ lost' \in Nat /\ disturbed' \in Nat
  <2>1. Header(c, s) \in Datagrams(Clients)
    BY DEF Header, Datagram, Datagrams
  <2> QED  BY <1>1, <2>1, FaultsCounted, TravelsType DEF TypeOK
<1>3. MaxCalls \in Nat
  BY BoundsAssumption
<1>4. client[c] \in ClientType /\ client[c].calls \in 0..MaxCalls /\ client[c].calls < MaxCalls
  BY DEF SendHeader, TypeOK, ClientType
<1> DEFINE new == Begun(client[c], s)
<1>5. new \in ClientType /\ new.size = s /\ new.calls = client[c].calls + 1
  <2>1. client[c].calls + 1 \in 0..MaxCalls
    BY <1>3, <1>4
  <2> QED  BY <1>4, <2>1 DEF ClientType, Begun
<1>6. client' = [client EXCEPT ![c] = new]
  BY <1>1 DEF TypeOK
<1> HIDE DEF new
<1>7. client' \in [Clients -> ClientType]
  BY <1>5, <1>6 DEF TypeOK
<1>8. \A d \in Clients : InCall(d)' => client'[d].size \in Sizes /\ client'[d].calls > 0
  <2>1. client'[c].size = s /\ client'[c].calls = client[c].calls + 1
    BY <1>5, <1>6 DEF TypeOK
  <2>2. \A d \in Clients \ {c} : client'[d] = client[d]
    BY <1>6 DEF TypeOK
  <2> QED  BY <1>3, <1>4, <2>1, <2>2 DEF LocalsInv, InCall
<1> QED  BY <1>2, <1>7, <1>8 DEF TypeOK, LocalsInv, SendHeader

LEMMA TypeSendData ==
  ASSUME TypeInv, NEW c \in Clients, SendData(c)
  PROVE  TypeInv'
<1> USE DEF TypeInv
<1>1. PICK fate \in Fates :
        /\ Meets(fate, toServer)
        /\ toServer' = Travels(toServer, Data(c, client[c].size, Called(c)), fate)
  BY DEF SendData
<1>2. Called(c) \in Messages /\ client[c].size \in Sizes
  BY DEF SendData, TypeOK, ClientType, LocalsInv, InCall, Called, Messages, Calls
<1>3. toServer' \in Seq(Datagrams(Clients)) /\ lost' \in Nat /\ disturbed' \in Nat
  BY <1>1, <1>2, Sent, FaultsCounted, TravelsType DEF TypeOK
<1>4. client' \in [Clients -> ClientType]
  BY DEF SendData, TypeOK, ClientType
<1>5. \A d \in Clients : InCall(d)' => client'[d].size \in Sizes /\ client'[d].calls > 0
  BY DEF SendData, TypeOK, LocalsInv, InCall, ClientType
<1> QED  BY <1>3, <1>4, <1>5 DEF TypeOK, LocalsInv, SendData, history

LEMMA TypeLoop ==
  ASSUME TypeInv, Loop
  PROVE  TypeInv'
<1> USE DEF TypeInv
<1>0. toServer # <<>> /\ toServer' = Tail(toServer) /\ toServer \in Seq(Datagrams(Clients))
  BY DEF Loop, ReceiveHeader, ReceiveData, TypeOK
<1>1. PICK d \in Datagrams(Clients) : d = Head(toServer)
  BY <1>0, HeadTailProperties
<1>2. toServer' \in Seq(Datagrams(Clients))
  BY <1>0, HeadTailProperties
<1>3. CASE ReceiveHeader
  <2>1. d.from \in Clients /\ Room(d) \in Buffers
    BY RoomType DEF Datagrams
  <2>2. PICK r \in Buffers, k \in Nat :
          server' = [server EXCEPT !.buffer = r, !.held = k, !.at = "data", !.endpoint = d.from]
    <3>1. PICK r \in Buffers, k \in Nat : r = Room(d) /\ k = Kept(server, r)
      BY <2>1, HeldType DEF TypeOK, ServerType
    <3> QED  BY <1>1, <1>3, <3>1 DEF ReceiveHeader, Resized, TypeOK, ServerType
  <2>3. server' \in ServerType /\ server'.endpoint \in Clients
    BY <2>1, <2>2 DEF TypeOK, ServerType
  <2> QED  BY <1>2, <1>3, <2>3 DEF TypeOK, LocalsInv, ReceiveHeader, faults, history, InCall
<1>4. CASE ReceiveData
  <2>0. PICK k \in Nat : k = HeldAfter(server, d)
    <3>1. Room(d) \in Buffers /\ server.held \in Nat /\ server.buffer \in Buffers \union {0}
      BY RoomType DEF TypeOK, ServerType
    <3> QED  BY <3>1, HeldType
  <2>1. PICK m \in Decoded(server, d) :
         IF m = Failure
         THEN /\ server' = [server EXCEPT !.at = "exited"]
              /\ threads' = {}
              /\ UNCHANGED <<slot, handled>>
         ELSE /\ server' = [server EXCEPT !.at = "header", !.held = k]
              /\ slot' = server.endpoint
              /\ threads' = threads \union {Spawned(m)}
              /\ handled' = Append(handled, m)
    BY <1>1, <1>4, <2>0 DEF ReceiveData
  <2>2. m # Failure => m \in Messages /\ Spawned(m) \in ThreadType
    BY DecodedType DEF Spawned, ThreadType, TypeOK
  <2>3. server.endpoint \in Clients
    BY <1>4 DEF ReceiveData, LocalsInv
  <2>4. TypeOK'
    <3>1. /\ client' = client /\ toClient' = toClient /\ lost' = lost
          /\ disturbed' = disturbed /\ overlap' = overlap /\ split' = split
          /\ stale' \in BOOLEAN /\ tooLong' = tooLong
      BY <1>4 DEF ReceiveData, Decodes, ReadsOn, faults, TypeOK
    <3>2. server' \in ServerType
      BY <2>1 DEF TypeOK, ServerType
    <3>3. slot' \in Clients \union {None} /\ threads' \subseteq ThreadType
      BY <2>1, <2>2, <2>3 DEF TypeOK
    <3>4. handled' \in Seq(Messages)
      <4>1. handled' = handled \/ (m \in Messages /\ handled' = Append(handled, m))
        BY <2>1, <2>2
      <4>2. handled \in Seq(Messages)
        BY DEF TypeOK
      <4> QED  BY <4>1, <4>2, AppendProperties
    <3> QED  BY <1>2, <3>1, <3>2, <3>3, <3>4 DEF TypeOK
  <2>5. LocalsInv'
    <3>1. server'.at # "data" /\ client' = client
      BY <1>4, <2>1 DEF TypeOK, ServerType, ReceiveData
    <3>2. threads' # {} => slot' \in Clients
      BY <2>1, <2>3
    <3>3. \A t \in threads' : t.at = "data" => t \in threads
      BY <2>1 DEF Spawned
    <3> QED  BY <3>1, <3>2, <3>3 DEF LocalsInv, InCall
  <2> QED  BY <2>4, <2>5
<1> QED  BY <1>3, <1>4 DEF Loop

LEMMA TypeThread ==
  ASSUME TypeInv, NEW t \in threads, SendReplyHeader(t) \/ SendReplyData(t) \/ ReplyTooLong(t)
  PROVE  TypeInv'
<1> USE DEF TypeInv
<1>1. slot \in Clients /\ toClient[slot] \in Seq(Datagrams({None})) /\ t \in ThreadType
  BY DEF LocalsInv, TypeOK
<1>2. CASE SendReplyHeader(t)
  <2>1. PICK s \in Sizes, fate \in Fates :
       /\ Meets(fate, toClient[slot])
       /\ toClient' = [toClient EXCEPT ![slot] = Travels(@, Header(None, s), fate)]
       /\ threads' = (threads \ {t}) \union {[t EXCEPT !.at = "data", !.size = s]}
    BY <1>2 DEF SendReplyHeader
  <2>2. Header(None, s) \in Datagrams({None})
    BY DEF Header, Datagram, Datagrams
  <2>3. /\ Travels(toClient[slot], Header(None, s), fate) \in Seq(Datagrams({None}))
        /\ lost' \in Nat /\ disturbed' \in Nat
    BY <1>1, <2>1, <2>2, FaultsCounted, TravelsType
  <2>4. [t EXCEPT !.at = "data", !.size = s] \in ThreadType
    BY <1>1 DEF ThreadType
  <2>5. TypeOK'
    BY <1>2, <2>1, <2>3, <2>4 DEF TypeOK, SendReplyHeader, history
  <2> QED  BY <1>1, <1>2, <2>1, <2>5 DEF LocalsInv, SendReplyHeader, InCall, ThreadType
<1>3. CASE SendReplyData(t)
  <2>1. PICK fate \in Fates :
       /\ Meets(fate, toClient[slot])
       /\ toClient' = [toClient EXCEPT ![slot] = Travels(@, Data(None, t.size, t.body), fate)]
    BY <1>3 DEF SendReplyData
  <2>2. t.size \in Sizes /\ t.body \in Messages
    BY <1>1, <1>3 DEF SendReplyData, LocalsInv, ThreadType
  <2>3. /\ Travels(toClient[slot], Data(None, t.size, t.body), fate) \in Seq(Datagrams({None}))
        /\ lost' \in Nat /\ disturbed' \in Nat
    BY <1>1, <2>1, <2>2, Sent, FaultsCounted, TravelsType
  <2>4. TypeOK'
    BY <1>3, <2>1, <2>3 DEF TypeOK, SendReplyData, history
  <2> QED  BY <1>1, <1>3, <2>4 DEF LocalsInv, SendReplyData, InCall
<1>4. CASE ReplyTooLong(t)
  <2>1. server' \in ServerType /\ server'.at = "exited" /\ threads' = {}
    BY <1>4 DEF TypeOK, ServerType, ReplyTooLong
  <2> QED  BY <1>4, <2>1 DEF TypeOK, LocalsInv, ReplyTooLong, sockets, faults, InCall
<1> QED  BY <1>2, <1>3, <1>4

LEMMA TypeInit == Init => TypeInv
<1>1. MaxCalls \in Nat
  BY BoundsAssumption
<1> SUFFICES ASSUME Init PROVE TypeInv
  OBVIOUS
<1>2. client \in [Clients -> ClientType] /\ \A c \in Clients : ~InCall(c)
  BY <1>1 DEF Init, ClientType, InCall
<1>3. server \in ServerType /\ server.at = "header" /\ threads = {}
  BY DEF Init, ServerType
<1>4. /\ toServer \in Seq(Datagrams(Clients)) /\ toClient \in [Clients -> Seq(Datagrams({None}))]
      /\ handled \in Seq(Messages)
  BY DEF Init
<1>5. stale \in BOOLEAN /\ tooLong \in BOOLEAN
  BY DEF Init
<1> QED  BY <1>2, <1>3, <1>4, <1>5 DEF Init, TypeInv, TypeOK, LocalsInv

LEMMA TypeNext == TypeInv /\ [Next]_vars => TypeInv'
<1> SUFFICES ASSUME TypeInv, [Next]_vars PROVE TypeInv'
  OBVIOUS
<1>1. CASE Loop
  BY <1>1, TypeLoop
<1>2. CASE Thread
  BY <1>2, TypeThread DEF Thread
<1>3. ASSUME NEW c \in Clients, Client(c) PROVE TypeInv'
  BY <1>3, TypeClient, TypeSendHeader, TypeSendData DEF Client
<1>4. CASE UNCHANGED vars
  BY <1>4 DEF vars, sockets, faults, history, TypeInv, TypeOK, LocalsInv, InCall
<1> QED  BY <1>1, <1>2, <1>3, <1>4 DEF Next

-----------------------------------------------------------------------------
\* One call at a time

LEMMA ShortQueues ==
  ASSUME NEW a, NEW b
  PROVE  /\ Append(<<>>, a) = <<a>> /\ Append(<<a>>, b) = <<a, b>>
         /\ Head(<<a>>) = a /\ Tail(<<a>>) = <<>>
         /\ Head(<<a, b>>) = a /\ Tail(<<a, b>>) = <<b>>
         /\ <<a>> # <<>> /\ <<a, b>> # <<>>
<1> DEFINE q == Append(<<a>>, b)
<1>1. /\ <<a>> \in Seq({a, b}) /\ Len(<<a>>) = 1 /\ <<a>>[1] = a
      /\ <<a, b>> \in Seq({a, b}) /\ Len(<<a, b>>) = 2 /\ <<a, b>>[1] = a /\ <<a, b>>[2] = b
  OBVIOUS
<1>2. q \in Seq({a, b}) /\ Len(q) = 2 /\ q[1] = a /\ q[2] = b
  BY <1>1, AppendProperties
<1> HIDE DEF q
<1>3. q = <<a, b>>
  BY <1>1, <1>2, SeqEqual
<1>4. /\ Append(<<>>, a) = <<a>> /\ <<a>> # <<>> /\ <<a, b>> # <<>>
      /\ Head(<<a>>) = a /\ Tail(<<a>>) = <<>>
      /\ Head(<<a, b>>) = a /\ Tail(<<a, b>>) = <<b>>
  OBVIOUS
<1> QED  BY <1>3, <1>4 DEF q

LEMMA InOrder ==
  ASSUME TypeOK, NEW fate \in Fates, NEW q, NEW d, Meets(fate, q), disturbed' = 0
  PROVE  disturbed = 0 /\ Travels(q, d, fate) \in {q, Append(q, d)}
<1>1. disturbed \in Nat
  BY DEF TypeOK
<1>2. disturbed = 0 /\ fate \in {"arrives", "lost"}
  BY <1>1 DEF Meets, Fates
<1>3. CASE fate = "arrives"
  BY <1>2, <1>3 DEF Travels
<1>4. CASE fate = "lost"
  BY <1>2, <1>4 DEF Travels
<1> QED  BY <1>2, <1>3, <1>4

LEMMA PhaseInCall ==
  ASSUME NEW c, Phase(c)
  PROVE  InCall(c)
BY DEF Phase, Asking, Asked, Answering, Answered, InCall

LEMMA CalledNotFailure ==
  ASSUME TypeInv, NEW c \in Clients, InCall(c)
  PROVE  Called(c) # Failure
<1>1. client[c].calls \in 1..MaxCalls
  BY BoundsAssumption DEF TypeInv, TypeOK, ClientType, LocalsInv
<1> QED  BY <1>1, NamesAssumption DEF Called

\* Who is in a call is the one.
LEMMA TheCall ==
  ASSUME SerialInv, Serial, NEW c \in Clients, InCall(c)
  PROVE  Alone(c) /\ Phase(c)
BY PhaseInCall DEF SerialInv, Alone

LEMMA Frame ==
  ASSUME SerialInv, Serial, NEW c \in Clients, Alone(c),
         \A d \in Clients \ {c} : client'[d] = client[d] /\ toClient'[d] = toClient[d],
         client'[c].pc # "exited", client'[c].reply \in {None, Called(c)'},
         Phase(c)' \/ (Rest' /\ ~InCall(c)' /\ toClient'[c] = <<>>)
  PROVE  SerialInv'
<1>1. \A d \in Clients \ {c} : ~InCall(d)' /\ toClient'[d] = <<>> /\ client'[d].pc # "exited"
                               /\ client'[d].reply \in {None, Called(d)'}
  BY DEF SerialInv, Alone, InCall, Called
<1>2. Alone(c)'
  BY <1>1 DEF Alone
<1>3. Phase(c)' => InCall(c)'
  BY DEF Phase, Asking, Asked, Answering, Answered, InCall
<1> QED  BY <1>1, <1>2, <1>3 DEF SerialInv

LEMMA SerialRest ==
  ASSUME TypeInv, SerialInv, NEW c \in Clients, SetServer(c) \/ Refuse(c)
  PROVE  SerialInv'
<1>0. /\ client[c].pc = "unset"
      /\ client' = [client EXCEPT ![c].pc = "idle"] \/ client' = [client EXCEPT ![c].pc = "refused"]
  BY DEF SetServer, Refuse
<1>1. /\ \A d \in Clients : InCall(d)' = InCall(d)
      /\ \A d \in Clients : /\ client'[d].reply = client[d].reply /\ client'[d].size = client[d].size
                            /\ client'[d].calls = client[d].calls /\ client'[d].buffer = client[d].buffer
                            /\ client'[d].pc = "exited" => client[d].pc = "exited"
      /\ \A d \in Clients : InCall(d) => client'[d] = client[d]
  <2>1. CASE client' = [client EXCEPT ![c].pc = "idle"]
    BY <1>0, <2>1 DEF TypeInv, TypeOK, ClientType, InCall
  <2>2. CASE client' = [client EXCEPT ![c].pc = "refused"]
    BY <1>0, <2>2 DEF TypeInv, TypeOK, ClientType, InCall
  <2> QED  BY <1>0, <2>1, <2>2
<1>2. \A d \in Clients : Phase(d) => Phase(d)'
  <2> SUFFICES ASSUME NEW d \in Clients, Phase(d) PROVE Phase(d)'
    OBVIOUS
  <2>1. client'[d] = client[d]
    BY <1>1, PhaseInCall
  <2> QED  BY <2>1 DEF Phase, Asking, Asked, Answering, Answered, Idling, Mine, MyData, Called,
                       SetServer, Refuse, sockets
<1>3. Serial' = Serial /\ toClient' = toClient /\ Rest' = Rest
  BY DEF Serial, Sound, Rest, Idling, SetServer, Refuse, sockets, faults, history
<1> QED  BY <1>1, <1>2, <1>3 DEF SerialInv, Alone, Called

LEMMA SerialSendHeader ==
  ASSUME TypeInv, SerialInv, NEW c \in Clients, SendHeader(c)
  PROVE  SerialInv'
<1> SUFFICES ASSUME Serial' PROVE SerialInv'
  BY DEF SerialInv
<1>1. PICK s \in Sizes, fate \in Fates :
        /\ Meets(fate, toServer)
        /\ toServer' = Travels(toServer, Header(c, s), fate)
        /\ client' = [client EXCEPT ![c] = Begun(@, s)]
  BY DEF SendHeader
<1>2. Serial /\ toServer' \in {toServer, Append(toServer, Header(c, s))}
  BY <1>1, InOrder DEF Serial, Sound, SendHeader, TypeInv, TypeOK
<1>3. Alone(c) /\ ~InCall(c)
  BY DEF Serial, Sound, SendHeader, Alone, InCall
<1>4. Rest /\ toClient[c] = <<>>
  BY <1>2, <1>3, PhaseInCall DEF SerialInv, Alone
<1>5. client'[c].pc = "data" /\ client'[c].size = s /\ client'[c].reply = None
  BY <1>1 DEF TypeInv, TypeOK, ClientType, Begun
<1>6. Asking(c)'
  BY <1>2, <1>4, <1>5, ShortQueues DEF Asking, Rest, Idling, Mine, SendHeader
<1>7. \A d \in Clients \ {c} : client'[d] = client[d] /\ toClient'[d] = toClient[d]
  BY <1>1 DEF SendHeader, TypeInv, TypeOK
<1> QED  BY <1>2, <1>3, <1>5, <1>6, <1>7, Frame DEF Phase

LEMMA SerialSendData ==
  ASSUME TypeInv, SerialInv, NEW c \in Clients, SendData(c)
  PROVE  SerialInv'
<1> SUFFICES ASSUME Serial' PROVE SerialInv'
  BY DEF SerialInv
<1>1. PICK fate \in Fates :
        /\ Meets(fate, toServer)
        /\ toServer' = Travels(toServer, MyData(c), fate)
  BY DEF SendData, MyData
<1>2. Serial /\ toServer' \in {toServer, Append(toServer, MyData(c))}
  BY <1>1, InOrder DEF Serial, Sound, SendData, TypeInv, TypeOK, history
<1>3. client[c].pc = "data" /\ client' = [client EXCEPT ![c].pc = "reply"]
  BY DEF SendData
<1>4. Alone(c) /\ Asking(c)
  BY <1>2, <1>3, TheCall DEF InCall, Phase, Asked, Answering, Answered
<1>5. /\ client'[c].pc = "reply" /\ client'[c].size = client[c].size
      /\ client'[c].calls = client[c].calls /\ client'[c].reply = client[c].reply
  BY <1>3 DEF TypeInv, TypeOK, ClientType
<1>6. Mine(c)' = Mine(c) /\ MyData(c)' = MyData(c) /\ Called(c)' = Called(c)
  BY <1>5 DEF Mine, MyData, Called
<1>7. threads' = {} /\ toClient'[c] = <<>> /\ server' = server
  BY <1>4 DEF Asking, SendData
<1>8. Asked(c)'
  <2>1. PICK h, d : h = Mine(c) /\ d = MyData(c)
    OBVIOUS
  <2>2. Append(<<>>, d) = <<d>> /\ Append(<<h>>, d) = <<h, d>>
    BY ShortQueues
  <2>3. CASE server.at = "header"
    <3>1. toServer \in {<<>>, <<h>>}
      BY <1>4, <2>1, <2>3 DEF Asking
    <3>2. toServer' \in {<<>>, <<h>>, <<d>>, <<h, d>>}
      BY <1>2, <2>1, <2>2, <3>1
    <3> QED  BY <1>5, <1>6, <1>7, <2>1, <2>3, <3>2 DEF Asked
  <2>4. CASE server.at = "data"
    <3>1. toServer = <<>> /\ server.buffer = Reparsed(client[c].size) /\ server.endpoint = c
      BY <1>4, <2>4 DEF Asking
    <3>2. toServer' \in {<<>>, <<d>>}
      BY <1>2, <2>1, <2>2, <3>1
    <3> QED  BY <1>5, <1>6, <1>7, <2>1, <2>4, <3>1, <3>2 DEF Asked
  <2> QED  BY <1>4, <2>3, <2>4 DEF Asking
<1>9. \A e \in Clients \ {c} : client'[e] = client[e] /\ toClient'[e] = toClient[e]
  BY <1>3 DEF SendData, TypeInv, TypeOK
<1> QED  BY <1>2, <1>4, <1>5, <1>6, <1>8, <1>9, Frame DEF Phase, SerialInv

LEMMA SerialGetReplyHeader ==
  ASSUME TypeInv, SerialInv, NEW c \in Clients, GetReplyHeader(c)
  PROVE  SerialInv'
<1> SUFFICES ASSUME Serial PROVE SerialInv'
  BY DEF SerialInv, Serial, Sound, GetReplyHeader, faults, history
<1>1. /\ client[c].pc = "reply" /\ toClient[c] # <<>>
      /\ client' = [client EXCEPT ![c] = [Resized(@, Room(Head(toClient[c]))) EXCEPT !.pc = "buffer"]]
      /\ toClient' = [toClient EXCEPT ![c] = Tail(@)]
      /\ server' = server /\ toServer' = toServer /\ threads' = threads /\ slot' = slot
  BY DEF GetReplyHeader
<1>2. /\ client'[c].pc = "buffer" /\ client'[c].buffer = Room(Head(toClient[c]))
      /\ client'[c].calls = client[c].calls /\ client'[c].reply = client[c].reply
      /\ toClient'[c] = Tail(toClient[c]) /\ Called(c)' = Called(c)
  <2>1. PICK b, k : client' = [client EXCEPT ![c] = [@ EXCEPT !.buffer = b, !.held = k, !.pc = "buffer"]]
                    /\ b = Room(Head(toClient[c]))
    BY <1>1 DEF Resized, TypeInv, TypeOK
  <2> QED  BY <1>1, <2>1 DEF TypeInv, TypeOK, ClientType, Called
<1>3. Alone(c) /\ (Answering(c) \/ Answered(c))
  BY <1>1, TheCall DEF InCall, Phase, Asking, Asked
<1>4. ASSUME Answering(c) PROVE Phase(c)'
  <2>1. PICK t \in threads :
          /\ threads = {t} /\ t.body = Called(c) /\ t.at = "data" /\ t.size \in Sizes
          /\ toClient[c] = <<Header(None, t.size)>>
    BY <1>1, <1>4 DEF Answering
  <2>2. Room(Head(toClient[c])) = Reparsed(t.size) /\ Tail(toClient[c]) = <<>>
    BY <2>1, ShortQueues DEF Room, Announced, Header, Datagram
  <2>3. Answering(c)'
    BY <1>1, <1>2, <1>4, <2>1, <2>2 DEF Answering, Idling
  <2> QED  BY <2>3 DEF Phase
<1>5. ASSUME Answered(c) PROVE Phase(c)'
  <2>1. PICK s \in Sizes : toClient[c] \in {<<>>, <<Header(None, s)>>, <<Data(None, s, Called(c))>>,
                                            <<Header(None, s), Data(None, s, Called(c))>>}
    BY <1>1, <1>5 DEF Answered
  <2>2. PICK h, d : h = Header(None, s) /\ d = Data(None, s, Called(c))
    OBVIOUS
  <2>3. Room(h) = Reparsed(s)
    BY <2>2 DEF Room, Announced, Header, Datagram
  <2>4. \/ toClient'[c] = <<>>
        \/ toClient'[c] = <<d>> /\ client'[c].buffer = Reparsed(s)
    <3>1. toClient[c] \in {<<h>>, <<d>>, <<h, d>>}
      BY <1>1, <2>1, <2>2
    <3>2. /\ Tail(<<h>>) = <<>> /\ Tail(<<d>>) = <<>> /\ Tail(<<h, d>>) = <<d>>
          /\ Head(<<h, d>>) = h
      BY ShortQueues
    <3>3. PICK q : q = toClient[c]
      OBVIOUS
    <3> QED  BY <1>2, <2>3, <3>1, <3>2, <3>3
  <2>5. Rest' /\ d = Data(None, s, Called(c)')
    BY <1>1, <1>2, <1>5, <2>2 DEF Answered, Rest, Idling
  <2>6. Answered(c)'
    BY <1>2, <2>4, <2>5 DEF Answered, Rest
  <2> QED  BY <2>6 DEF Phase
<1>6. \A e \in Clients \ {c} : client'[e] = client[e] /\ toClient'[e] = toClient[e]
  BY <1>1 DEF TypeInv, TypeOK
<1> QED  BY <1>2, <1>3, <1>4, <1>5, <1>6, Frame DEF SerialInv

\* A half that was announced is decoded.
LEMMA WholeDecoded ==
  ASSUME NEW by, NEW s \in Sizes, NEW m, NEW x, x.buffer = Reparsed(s),
         ~ReadsOn(x, Data(by, s, m))
  PROVE  Decoded(x, Data(by, s, m)) = {m}
<1>1. s \in Nat
  BY SizesAssumption
<1> QED  BY <1>1, ReparsedCovers DEF Decoded, Data, Datagram

\* What takes a half off a queue breaks none of the conditions but Sound.
LEMMA SerialDecodes ==
  ASSUME NEW x, NEW d, Decodes(x, d), UNCHANGED faults, Serial'
  PROVE  Serial /\ ~ReadsOn(x, d)
BY DEF Serial, Sound, Decodes, faults

\* What is taken for a reply is the reply.
LEMMA ReplyTaken ==
  ASSUME TypeInv, SerialInv, Serial', NEW c \in Clients, GetReplyData(c)
  PROVE  /\ Serial /\ Alone(c) /\ Answered(c)
         /\ \E s \in Sizes : toClient[c] = <<Data(None, s, Called(c))>>
         /\ \E k : client' = [client EXCEPT ![c] = [@ EXCEPT !.pc = "idle", !.reply = Called(c), !.held = k]]
<1>1. client[c].pc = "buffer" /\ toClient[c] # <<>>
  BY DEF GetReplyData
<1>2. PICK m \in Decoded(client[c], Head(toClient[c])) : \E k :
        client' = [client EXCEPT ![c] = IF m = Failure
                                          THEN [@ EXCEPT !.pc = "exited"]
                                          ELSE [@ EXCEPT !.pc = "idle", !.reply = m, !.held = k]]
  BY DEF GetReplyData
<1>3. PICK k :
        client' = [client EXCEPT ![c] = IF m = Failure
                                          THEN [@ EXCEPT !.pc = "exited"]
                                          ELSE [@ EXCEPT !.pc = "idle", !.reply = m, !.held = k]]
  BY <1>2
<1>4. Serial /\ ~ReadsOn(client[c], Head(toClient[c]))
  BY SerialDecodes DEF GetReplyData
<1>5. Alone(c) /\ Answered(c)
  BY <1>4, <1>1, TheCall DEF InCall, Phase, Asking, Asked, Answering
<1>6. PICK s \in Sizes : toClient[c] = <<Data(None, s, Called(c))>> /\ client[c].buffer = Reparsed(s)
  BY <1>1, <1>5 DEF Answered
<1>7. Head(toClient[c]) = Data(None, s, Called(c))
  BY <1>6, ShortQueues
<1>8. m = Called(c)
  BY <1>4, <1>2, <1>6, <1>7, WholeDecoded
<1>9. m # Failure
  BY <1>1, <1>8, CalledNotFailure DEF InCall
<1>10. client' = [client EXCEPT ![c] = [@ EXCEPT !.pc = "idle", !.reply = Called(c), !.held = k]]
  BY <1>8, <1>9, <1>3
<1> QED  BY <1>4, <1>5, <1>6, <1>10

LEMMA SerialGetReplyData ==
  ASSUME TypeInv, SerialInv, NEW c \in Clients, GetReplyData(c)
  PROVE  SerialInv'
<1> SUFFICES ASSUME Serial' PROVE SerialInv'
  BY DEF SerialInv
<1>1. /\ toClient' = [toClient EXCEPT ![c] = Tail(@)]
      /\ server' = server /\ toServer' = toServer /\ threads' = threads
  BY DEF GetReplyData
<1>2. /\ Serial /\ Alone(c) /\ Answered(c)
      /\ \E k : client' = [client EXCEPT ![c] = [@ EXCEPT !.pc = "idle", !.reply = Called(c), !.held = k]]
  BY ReplyTaken
<1>3. Tail(toClient[c]) = <<>>
  <2>1. PICK s \in Sizes : toClient[c] = <<Data(None, s, Called(c))>>
    BY ReplyTaken
  <2> QED  BY <2>1, ShortQueues
<1>4. /\ client'[c].pc = "idle" /\ client'[c].reply = Called(c)' /\ toClient'[c] = <<>>
      /\ \A e \in Clients \ {c} : client'[e] = client[e] /\ toClient'[e] = toClient[e]
  BY <1>1, <1>2, <1>3 DEF TypeInv, TypeOK, ClientType, Called
<1>5. Rest'
  BY <1>1, <1>2 DEF Answered, Rest, Idling
<1> QED  BY <1>2, <1>4, <1>5, Frame DEF InCall

LEMMA HeaderTaken ==
  ASSUME TypeInv, ReceiveHeader
  PROVE  /\ server'.at = "data" /\ server'.buffer = Room(Head(toServer))
         /\ server'.endpoint = Head(toServer).from
<1>1. PICK b, k, e :
        /\ server' = [server EXCEPT !.buffer = b, !.held = k, !.at = "data", !.endpoint = e]
        /\ b = Room(Head(toServer)) /\ e = Head(toServer).from
  BY DEF ReceiveHeader, Resized, TypeInv, TypeOK, ServerType
<1> QED  BY <1>1 DEF TypeInv, TypeOK, ServerType

LEMMA SerialReceiveHeader ==
  ASSUME TypeInv, SerialInv, ReceiveHeader
  PROVE  SerialInv'
<1> SUFFICES ASSUME Serial PROVE SerialInv'
  BY DEF SerialInv, Serial, Sound, ReceiveHeader, faults, history
<1>1. /\ server.at = "header" /\ toServer # <<>> /\ toServer' = Tail(toServer)
      /\ server'.at = "data" /\ server'.buffer = Room(Head(toServer))
      /\ server'.endpoint = Head(toServer).from
      /\ client' = client /\ toClient' = toClient /\ threads' = threads
  BY HeaderTaken DEF ReceiveHeader
<1>2. PICK c \in Clients : Alone(c) /\ Phase(c)
  BY <1>1 DEF SerialInv, Rest, Idling
<1>3. /\ Mine(c)' = Mine(c) /\ MyData(c)' = MyData(c) /\ Called(c)' = Called(c)
      /\ server'.at = "data" /\ server'.buffer = Room(Head(toServer))
      /\ server'.endpoint = Head(toServer).from
  BY <1>1 DEF Mine, MyData, Called
<1>4. PICK h, d : h = Mine(c) /\ d = MyData(c)
  OBVIOUS
<1>5. Room(h) = Reparsed(client[c].size) /\ h.from = c
  BY <1>4 DEF Room, Announced, Mine, Header, Datagram
<1>6. /\ Tail(<<h>>) = <<>> /\ Tail(<<d>>) = <<>> /\ Tail(<<h, d>>) = <<d>>
      /\ Head(<<h, d>>) = h /\ Head(<<h>>) = h
  BY ShortQueues
<1>7. Asking(c) \/ Asked(c)
  BY <1>1, <1>2 DEF Phase, Answering, Answered, Idling
<1>8. ASSUME Asking(c) PROVE Phase(c)'
  <2>1. toServer = <<h>>
    BY <1>1, <1>4, <1>8 DEF Asking
  <2>2. Asking(c)'
    BY <1>1, <1>3, <1>5, <1>6, <1>8, <2>1 DEF Asking
  <2> QED  BY <2>2 DEF Phase
<1>9. ASSUME Asked(c) PROVE Phase(c)'
  <2>1. toServer \in {<<h>>, <<d>>, <<h, d>>}
    BY <1>1, <1>4, <1>9 DEF Asked
  <2>2. PICK q : q = toServer
    OBVIOUS
  <2>3. \/ toServer' = <<>>
        \/ toServer' = <<d>> /\ server'.buffer = Reparsed(client[c].size) /\ server'.endpoint = c
    BY <1>1, <1>3, <1>5, <1>6, <2>1, <2>2
  <2>4. Asked(c)'
    BY <1>1, <1>3, <1>4, <1>9, <2>3 DEF Asked
  <2> QED  BY <2>4 DEF Phase
<1>10. /\ client'[c].pc # "exited" /\ client'[c].reply \in {None, Called(c)'}
       /\ \A e \in Clients \ {c} : client'[e] = client[e] /\ toClient'[e] = toClient[e]
  BY <1>1, <1>3 DEF SerialInv
<1> QED  BY <1>2, <1>7, <1>8, <1>9, <1>10, Frame

\* What is given to the handler is the message of the only call.
LEMMA MessageGiven ==
  ASSUME TypeInv, SerialInv, Serial', ReceiveData
  PROVE  \E c \in Clients :
           /\ Serial /\ Alone(c) /\ Phase(c) /\ client[c].pc = "reply" /\ toClient[c] = <<>>
           /\ toServer = <<MyData(c)>> /\ toServer' = <<>>
           /\ server'.at = "header" /\ slot' = c /\ threads' = {Spawned(Called(c))}
           /\ handled' = Append(handled, Called(c))
<1>1. server.at = "data" /\ toServer # <<>> /\ toServer' = Tail(toServer)
  BY DEF ReceiveData
<1>2. PICK m \in Decoded(server, Head(toServer)) : \E k :
         IF m = Failure
         THEN /\ server' = [server EXCEPT !.at = "exited"]
              /\ threads' = {}
              /\ UNCHANGED <<slot, handled>>
         ELSE /\ server' = [server EXCEPT !.at = "header", !.held = k]
              /\ slot' = server.endpoint
              /\ threads' = threads \union {Spawned(m)}
              /\ handled' = Append(handled, m)
  BY DEF ReceiveData
<1>3. PICK k :
         IF m = Failure
         THEN /\ server' = [server EXCEPT !.at = "exited"]
              /\ threads' = {}
              /\ UNCHANGED <<slot, handled>>
         ELSE /\ server' = [server EXCEPT !.at = "header", !.held = k]
              /\ slot' = server.endpoint
              /\ threads' = threads \union {Spawned(m)}
              /\ handled' = Append(handled, m)
  BY <1>2
<1>4. Serial /\ ~ReadsOn(server, Head(toServer))
  BY SerialDecodes DEF ReceiveData
<1>5. PICK c \in Clients : Alone(c) /\ Phase(c)
  BY <1>4, <1>1 DEF SerialInv, Rest, Idling
<1>6. /\ client[c].pc = "reply" /\ threads = {} /\ toClient[c] = <<>>
      /\ toServer = <<MyData(c)>> /\ server.buffer = Reparsed(client[c].size) /\ server.endpoint = c
  BY <1>1, <1>5 DEF Phase, Asking, Asked, Answering, Answered, Idling
<1>7. Head(toServer) = MyData(c) /\ toServer' = <<>>
  BY <1>1, <1>6, ShortQueues
<1>8. client[c].size \in Sizes
  BY <1>6 DEF TypeInv, LocalsInv, InCall
<1>9. m = Called(c)
  BY <1>4, <1>2, <1>6, <1>7, <1>8, WholeDecoded DEF MyData
<1>10. m # Failure
  BY <1>6, <1>9, CalledNotFailure DEF InCall
<1>11. /\ server'.at = "header" /\ slot' = c /\ threads' = {Spawned(m)}
      /\ handled' = Append(handled, m)
  BY <1>6, <1>10, <1>3 DEF TypeInv, TypeOK, ServerType
<1> QED  BY <1>4, <1>5, <1>6, <1>7, <1>9, <1>11

LEMMA SerialReceiveData ==
  ASSUME TypeInv, SerialInv, ReceiveData
  PROVE  SerialInv'
<1> SUFFICES ASSUME Serial' PROVE SerialInv'
  BY DEF SerialInv
<1>1. client' = client /\ toClient' = toClient
  BY DEF ReceiveData
<1>2. PICK c \in Clients :
        /\ Serial /\ Alone(c) /\ Phase(c) /\ client[c].pc = "reply" /\ toClient[c] = <<>>
        /\ toServer' = <<>>
        /\ server'.at = "header" /\ slot' = c /\ threads' = {Spawned(Called(c))}
  BY MessageGiven
<1>3. Spawned(Called(c)).body = Called(c)' /\ Spawned(Called(c)).at = "header"
  BY <1>1 DEF Spawned, Called
<1>4. Answering(c)'
  BY <1>1, <1>2, <1>3 DEF Answering, Idling
<1>5. /\ client'[c].pc # "exited" /\ client'[c].reply \in {None, Called(c)'}
      /\ \A e \in Clients \ {c} : client'[e] = client[e] /\ toClient'[e] = toClient[e]
  BY <1>1, <1>2 DEF SerialInv, Called
<1> QED  BY <1>2, <1>4, <1>5, Frame DEF Phase

\* A thread sends one half of its answer, or the network loses it.
SendsHalf(t, d) ==
  /\ toClient' \in {toClient, [toClient EXCEPT ![slot] = Append(@, d)]}
  /\ \/ /\ t.at = "header"
        /\ \E s \in Sizes :
             /\ d = Header(None, s)
             /\ threads' = (threads \ {t}) \union {[t EXCEPT !.at = "data", !.size = s]}
     \/ /\ t.at = "data" /\ d = Data(None, t.size, t.body)
        /\ threads' = threads \ {t}

LEMMA HalfSent ==
  ASSUME TypeInv, NEW t \in threads, SendReplyHeader(t) \/ SendReplyData(t), Serial'
  PROVE  Serial /\ \E d : SendsHalf(t, d)
<1>1. slot \in Clients /\ toClient \in [Clients -> Seq(Datagrams({None}))]
  BY DEF TypeInv, TypeOK, LocalsInv
<1>2. PICK fate \in Fates : \E e :
        /\ Meets(fate, toClient[slot])
        /\ toClient' = [toClient EXCEPT ![slot] = Travels(@, e, fate)]
        /\ \/ /\ t.at = "header"
              /\ \E s \in Sizes : /\ e = Header(None, s)
                                  /\ threads' = (threads \ {t}) \union {[t EXCEPT !.at = "data", !.size = s]}
           \/ /\ t.at = "data" /\ e = Data(None, t.size, t.body)
              /\ threads' = threads \ {t}
  <2>1. CASE SendReplyHeader(t)
    <3>1. t.at = "header"
      BY <2>1 DEF SendReplyHeader
    <3>2. PICK s \in Sizes, fate \in Fates :
            /\ Meets(fate, toClient[slot])
            /\ toClient' = [toClient EXCEPT ![slot] = Travels(@, Header(None, s), fate)]
            /\ threads' = (threads \ {t}) \union {[t EXCEPT !.at = "data", !.size = s]}
      BY <2>1 DEF SendReplyHeader
    <3> QED  BY <3>1, <3>2
  <2>2. CASE SendReplyData(t)
    <3>1. t.at = "data" /\ threads' = threads \ {t}
      BY <2>2 DEF SendReplyData
    <3>2. PICK fate \in Fates :
            /\ Meets(fate, toClient[slot])
            /\ toClient' = [toClient EXCEPT ![slot] = Travels(@, Data(None, t.size, t.body), fate)]
      BY <2>2 DEF SendReplyData
    <3> QED  BY <3>1, <3>2
  <2> QED  BY <2>1, <2>2
<1>3. PICK d :
        /\ Meets(fate, toClient[slot])
        /\ toClient' = [toClient EXCEPT ![slot] = Travels(@, d, fate)]
        /\ \/ /\ t.at = "header"
              /\ \E s \in Sizes : /\ d = Header(None, s)
                                  /\ threads' = (threads \ {t}) \union {[t EXCEPT !.at = "data", !.size = s]}
           \/ /\ t.at = "data" /\ d = Data(None, t.size, t.body)
              /\ threads' = threads \ {t}
  BY <1>2
<1>4. Serial /\ toClient' \in {toClient, [toClient EXCEPT ![slot] = Append(@, d)]}
  <2>1. disturbed = 0 /\ Travels(toClient[slot], d, fate) \in {toClient[slot], Append(toClient[slot], d)}
    BY <1>3, InOrder DEF Serial, Sound, TypeInv
  <2>2. overlap' = overlap /\ stale' = stale /\ tooLong' = tooLong
    BY DEF SendReplyHeader, SendReplyData, history
  <2> QED  BY <1>1, <1>3, <2>1, <2>2 DEF Serial, Sound
<1>5. SendsHalf(t, d)
  BY <1>3, <1>4 DEF SendsHalf
<1> QED  BY <1>4, <1>5, Zenon

LEMMA SerialThread ==
  ASSUME TypeInv, SerialInv, NEW t \in threads, SendReplyHeader(t) \/ SendReplyData(t)
  PROVE  SerialInv'
<1> SUFFICES ASSUME Serial' PROVE SerialInv'
  BY DEF SerialInv
<1>1. slot \in Clients /\ toClient \in [Clients -> Seq(Datagrams({None}))]
  BY DEF TypeInv, TypeOK, LocalsInv
<1>2. client' = client /\ server' = server /\ slot' = slot /\ toServer' = toServer
  BY DEF SendReplyHeader, SendReplyData
<1>3. Serial
  BY HalfSent
<1>4. PICK d : SendsHalf(t, d)
  BY HalfSent
<1>5. PICK c \in Clients : Alone(c) /\ Phase(c)
  BY <1>3 DEF SerialInv, Rest
<1>6. Answering(c)
  BY <1>5 DEF Phase, Asking, Asked, Answered
<1>7. Idling /\ slot = c /\ threads = {t} /\ t.body = Called(c)
  BY <1>6 DEF Answering
<1>8. toClient'[c] \in {toClient[c], Append(toClient[c], d)}
  BY <1>1, <1>4, <1>7 DEF SendsHalf
<1>9. Called(c)' = Called(c) /\ Idling'
  BY <1>2, <1>7 DEF Called, Idling
<1>10. ASSUME t.at = "header" PROVE Phase(c)'
  <2>1. PICK s \in Sizes : /\ d = Header(None, s)
                           /\ threads' = {[t EXCEPT !.at = "data", !.size = s]}
    BY <1>4, <1>7, <1>10 DEF SendsHalf
  <2>2. PICK u : u = [t EXCEPT !.at = "data", !.size = s]
    OBVIOUS
  <2>3. u.at = "data" /\ u.size = s /\ u.body = Called(c)
    BY <1>7, <2>2 DEF TypeInv, TypeOK, ThreadType
  <2>4. client[c].pc = "reply" /\ toClient[c] = <<>>
    BY <1>6, <1>7, <1>10 DEF Answering
  <2>5. toClient'[c] \in {<<>>, <<d>>}
    BY <1>8, <2>4, ShortQueues
  <2>6. Answering(c)'
    BY <1>2, <1>7, <1>9, <2>1, <2>2, <2>3, <2>4, <2>5 DEF Answering
  <2> QED  BY <2>6 DEF Phase
<1>11. ASSUME t.at = "data" PROVE Phase(c)'
  <2>1. d = Data(None, t.size, Called(c)) /\ threads' = {} /\ t.size \in Sizes
    BY <1>4, <1>7, <1>11 DEF TypeInv, LocalsInv, SendsHalf
  <2>2. PICK h : h = Header(None, t.size)
    OBVIOUS
  <2>3. \/ client[c].pc = "reply" /\ toClient[c] \in {<<>>, <<h>>}
        \/ client[c].pc = "buffer" /\ client[c].buffer = Reparsed(t.size) /\ toClient[c] = <<>>
    BY <1>6, <1>7, <1>11, <2>2 DEF Answering
  <2>4. Append(<<>>, d) = <<d>> /\ Append(<<h>>, d) = <<h, d>>
    BY ShortQueues
  <2>5. \/ client[c].pc = "reply" /\ toClient'[c] \in {<<>>, <<h>>, <<d>>, <<h, d>>}
        \/ client[c].pc = "buffer" /\ client[c].buffer = Reparsed(t.size) /\ toClient'[c] \in {<<>>, <<d>>}
    BY <1>8, <2>3, <2>4
  <2>6. Answered(c)'
    BY <1>2, <1>9, <2>1, <2>2, <2>5 DEF Answered
  <2> QED  BY <2>6 DEF Phase
<1>12. /\ client'[c].pc # "exited" /\ client'[c].reply \in {None, Called(c)'}
       /\ \A e \in Clients \ {c} : client'[e] = client[e] /\ toClient'[e] = toClient[e]
  BY <1>1, <1>2, <1>3, <1>4, <1>7, <1>9 DEF SerialInv, SendsHalf
<1>13. t.at \in {"header", "data"}
  BY <1>4 DEF SendsHalf
<1> QED  BY <1>3, <1>5, <1>10, <1>11, <1>12, <1>13, Frame

LEMMA SerialInit == Init => SerialInv
BY DEF Init, SerialInv, Rest, Idling, InCall, Called

LEMMA SerialNext == TypeInv /\ SerialInv /\ [Next]_vars => SerialInv'
<1> SUFFICES ASSUME TypeInv, SerialInv, [Next]_vars PROVE SerialInv'
  OBVIOUS
<1>1. CASE Loop
  BY <1>1, SerialReceiveHeader, SerialReceiveData DEF Loop
<1>2. CASE Thread
  <2>1. ASSUME NEW t \in threads, ReplyTooLong(t) PROVE SerialInv'
    BY <2>1 DEF ReplyTooLong, SerialInv, Serial, Sound
  <2> QED  BY <1>2, <2>1, SerialThread DEF Thread
<1>3. ASSUME NEW c \in Clients, Client(c) PROVE SerialInv'
  <2>1. CASE DataTooLong(c)
    BY <2>1 DEF DataTooLong, SerialInv, Serial, Sound
  <2> QED  BY <1>3, <2>1, SerialRest, SerialSendHeader, SerialSendData, SerialGetReplyHeader,
              SerialGetReplyData DEF Client
<1>4. CASE UNCHANGED vars
  BY <1>4 DEF vars, sockets, faults, history, SerialInv, Serial, Sound, Rest, Idling, InCall, Called, Alone,
              Phase, Asking, Asked, Answering, Answered, Mine, MyData
<1> QED  BY <1>1, <1>2, <1>3, <1>4 DEF Next

-----------------------------------------------------------------------------
\* Calls that overlap

LEMMA NoFault ==
  ASSUME TypeOK, NEW fate \in Fates, NEW q, NEW d, Meets(fate, q), lost' = 0, disturbed' = 0
  PROVE  lost = 0 /\ disturbed = 0 /\ Travels(q, d, fate) = Append(q, d)
<1>1. lost \in Nat /\ disturbed \in Nat
  BY DEF TypeOK
<1>2. fate = "arrives" /\ lost = 0 /\ disturbed = 0
  BY <1>1 DEF Meets, Fates
<1> QED  BY <1>2 DEF Travels

LEMMA Queued ==
  ASSUME NEW S, NEW q \in Seq(S), NEW d \in S
  PROVE  LET r == Append(q, d) IN
         /\ Len(q) \in Nat /\ Len(r) = Len(q) + 1 /\ r # <<>> /\ (q = <<>> <=> Len(q) = 0)
         /\ r[Len(q) + 1] = d /\ \A i \in 1..Len(q) : r[i] = q[i]
<1>1. Len(q) \in Nat /\ (q = <<>> <=> Len(q) = 0)
  BY LenProperties, EmptySeq
<1> QED  BY <1>1, AppendProperties

LEMMA PairsSendHeader ==
  ASSUME TypeInv, PairsInv, NEW c \in Clients, SendHeader(c)
  PROVE  PairsInv'
<1> SUFFICES ASSUME Intact' PROVE PairsInv'
  BY DEF PairsInv
<1>1. PICK s \in Sizes, fate \in Fates :
        /\ Meets(fate, toServer)
        /\ toServer' = Travels(toServer, Header(c, s), fate)
        /\ client' = [client EXCEPT ![c] = Begun(@, s)]
  BY DEF SendHeader
<1>2. lost = 0 /\ disturbed = 0 /\ toServer' = Append(toServer, Header(c, s))
  BY <1>1, NoFault DEF Intact, TypeInv
<1>3. Intact /\ \A d \in Clients : client[d].pc # "data"
  BY <1>2 DEF Intact, Sound, SendHeader
<1>4. client'[c].pc = "data" /\ client'[c].size = s /\ \A d \in Clients \ {c} : client'[d] = client[d]
  BY <1>1 DEF TypeInv, TypeOK, ClientType, Begun
<1>5. PICK h \in Datagrams(Clients) : h = Header(c, s) /\ h.kind = "header" /\ h.size = s
  <2>1. Header(c, s) \in Datagrams(Clients)
    BY DEF Header, Datagram, Datagrams
  <2>2. Header(c, s).kind = "header" /\ Header(c, s).size = s
    BY DEF Header, Datagram
  <2> QED  BY <2>1, <2>2
<1>6. PICK q, r : q \in Seq(Datagrams(Clients)) /\ q = toServer /\ r = toServer' /\ r = Append(q, h)
  BY <1>2, <1>5 DEF TypeInv, TypeOK
<1>7. /\ Len(q) \in Nat /\ Len(r) = Len(q) + 1 /\ r # <<>> /\ (q = <<>> <=> Len(q) = 0)
      /\ r[Len(q) + 1] = h /\ \A i \in 1..Len(q) : r[i] = q[i]
  BY <1>6, Queued
<1>8. server' = server /\ threads' = threads
  BY DEF SendHeader
<1>9. OneSender'
  BY <1>3, <1>4 DEF OneSender
<1>10. HeadersFollowed'
  <2>1. \A i \in 1..Len(q) : q[i].kind = "header" => i < Len(q) /\ Halves(q[i], q[i + 1])
    BY <1>3, <1>6 DEF PairsInv, HeadersFollowed
  <2> QED  BY <1>4, <1>6, <1>7, <2>1 DEF HeadersFollowed
<1>11. DataPreceded'
  <2>1. \A i \in 1..Len(q) : q[i].kind = "data" =>
          /\ q[i].body \in Calls
          /\ i = 1 => server.at = "data" /\ server.buffer = Reparsed(q[i].size)
          /\ i > 1 => Halves(q[i - 1], q[i])
    BY <1>3, <1>6 DEF PairsInv, DataPreceded
  <2> QED  BY <1>5, <1>6, <1>7, <1>8, <2>1 DEF DataPreceded
<1>12. SenderLast'
  BY <1>3, <1>4, <1>5, <1>6, <1>7 DEF SenderLast
<1>13. LoopFed'
  <2>1. server.at = "data" => q # <<>> /\ q[1].kind = "data"
    BY <1>3, <1>6 DEF PairsInv, LoopFed
  <2> QED  BY <1>6, <1>7, <1>8, <2>1 DEF LoopFed
<1> QED  BY <1>3, <1>8, <1>9, <1>10, <1>11, <1>12, <1>13 DEF PairsInv, NothingDamaged

LEMMA PairsSendData ==
  ASSUME TypeInv, PairsInv, NEW c \in Clients, SendData(c)
  PROVE  PairsInv'
<1> SUFFICES ASSUME Intact' PROVE PairsInv'
  BY DEF PairsInv
<1>1. PICK fate \in Fates : Meets(fate, toServer) /\ toServer' = Travels(toServer, MyData(c), fate)
  BY DEF SendData, MyData
<1>2. lost = 0 /\ disturbed = 0 /\ toServer' = Append(toServer, MyData(c))
  BY <1>1, NoFault DEF Intact, TypeInv
<1>3. Intact /\ client[c].pc = "data" /\ client' = [client EXCEPT ![c].pc = "reply"]
  BY <1>2 DEF Intact, Sound, SendData, history
<1>4. \A d \in Clients : client'[d].pc # "data"
  BY <1>3 DEF TypeInv, TypeOK, ClientType, PairsInv, OneSender
<1>5. Called(c) \in Calls /\ client[c].size \in Sizes
  BY <1>3 DEF TypeInv, TypeOK, ClientType, LocalsInv, InCall, Called, Calls
<1>6. PICK e \in Datagrams(Clients) : /\ e = MyData(c) /\ e.kind = "data" /\ e.body \in Calls
                                      /\ e.size = client[c].size
  <2>1. MyData(c) \in Datagrams(Clients)
    BY <1>5, Sent DEF MyData, Messages
  <2>2. MyData(c).kind = "data" /\ MyData(c).body = Called(c) /\ MyData(c).size = client[c].size
    BY DEF MyData, Data, Datagram
  <2> QED  BY <1>5, <2>1, <2>2
<1>7. PICK q, r : q \in Seq(Datagrams(Clients)) /\ q = toServer /\ r = toServer' /\ r = Append(q, e)
  BY <1>2, <1>6 DEF TypeInv, TypeOK
<1>8. /\ Len(q) \in Nat /\ Len(r) = Len(q) + 1 /\ r # <<>> /\ (q = <<>> <=> Len(q) = 0)
      /\ r[Len(q) + 1] = e /\ \A i \in 1..Len(q) : r[i] = q[i]
  BY <1>7, Queued
<1>9. server' = server /\ threads' = threads
  BY DEF SendData
<1>10. \/ q # <<>> /\ Halves(q[Len(q)], e)
       \/ q = <<>> /\ server.at = "data" /\ server.buffer = Reparsed(e.size)
  BY <1>3, <1>6, <1>7 DEF PairsInv, SenderLast, Halves
<1>11. HeadersFollowed'
  <2>1. \A i \in 1..Len(q) : q[i].kind = "header" => i = Len(q) \/ (i < Len(q) /\ Halves(q[i], q[i + 1]))
    BY <1>3, <1>7 DEF PairsInv, HeadersFollowed
  <2> QED  BY <1>6, <1>7, <1>8, <1>10, <2>1 DEF HeadersFollowed
<1>12. DataPreceded'
  <2>1. \A i \in 1..Len(q) : q[i].kind = "data" =>
          /\ q[i].body \in Calls
          /\ i = 1 => server.at = "data" /\ server.buffer = Reparsed(q[i].size)
          /\ i > 1 => Halves(q[i - 1], q[i])
    BY <1>3, <1>7 DEF PairsInv, DataPreceded
  <2> QED  BY <1>6, <1>7, <1>8, <1>9, <1>10, <2>1 DEF DataPreceded
<1>13. LoopFed'
  <2>1. server.at = "data" => q = <<>> \/ q[1].kind = "data"
    BY <1>3, <1>7 DEF PairsInv, LoopFed
  <2> QED  BY <1>6, <1>7, <1>8, <1>9, <2>1 DEF LoopFed
<1> QED  BY <1>3, <1>4, <1>9, <1>11, <1>12, <1>13 DEF PairsInv, OneSender, SenderLast, NothingDamaged

\* Steps that leave the server, its queue, and who has a half to send.
LEMMA PairsFrame ==
  ASSUME PairsInv, Intact' => Intact, toServer' = toServer, server' = server,
         \A t \in threads' : t.body # Damaged \/ \E u \in threads : u.body = t.body,
         \A d \in Clients : /\ client'[d].pc = "data" <=> client[d].pc = "data"
                            /\ client'[d].size = client[d].size
  PROVE  PairsInv'
<1> SUFFICES ASSUME Intact' PROVE PairsInv'
  BY DEF PairsInv
<1>1. OneSender' /\ HeadersFollowed'
  BY DEF PairsInv, OneSender, HeadersFollowed
<1>2. DataPreceded'
  BY DEF PairsInv, DataPreceded
<1>3. SenderLast' /\ LoopFed' /\ NothingDamaged'
  BY DEF PairsInv, SenderLast, LoopFed, NothingDamaged
<1> QED  BY <1>1, <1>2, <1>3 DEF PairsInv

LEMMA PairsClient ==
  ASSUME TypeInv, PairsInv, NEW c \in Clients,
         SetServer(c) \/ Refuse(c) \/ GetReplyHeader(c) \/ GetReplyData(c)
  PROVE  PairsInv'
<1>1. /\ toServer' = toServer /\ server' = server /\ threads' = threads
      /\ UNCHANGED <<faults, split>> /\ (Sound' => Sound)
  <2>1. CASE SetServer(c) \/ Refuse(c)
    BY <2>1 DEF SetServer, Refuse, sockets, history, Sound
  <2>2. CASE GetReplyHeader(c)
    BY <2>2 DEF GetReplyHeader, history, Sound
  <2>3. CASE GetReplyData(c)
    BY <2>3 DEF GetReplyData, Decodes, Sound
  <2> QED  BY <2>1, <2>2, <2>3
<1>2. client \in [Clients -> ClientType]
  BY DEF TypeInv, TypeOK
<1>3. \A d \in Clients : /\ client'[d].pc = "data" <=> client[d].pc = "data"
                         /\ client'[d].size = client[d].size
  <2>1. CASE SetServer(c)
    BY <1>2, <2>1 DEF SetServer, ClientType
  <2>2. CASE Refuse(c)
    BY <1>2, <2>2 DEF Refuse, ClientType
  <2>3. CASE GetReplyHeader(c)
    <3>1. PICK b, k : client' = [client EXCEPT ![c] = [@ EXCEPT !.buffer = b, !.held = k, !.pc = "buffer"]]
      BY <1>2, <2>3 DEF GetReplyHeader, Resized
    <3>2. client[c].pc = "reply"
      BY <2>3 DEF GetReplyHeader
    <3> QED  BY <1>2, <3>1, <3>2 DEF ClientType
  <2>4. CASE GetReplyData(c)
    <3>1. PICK m, k : client' = [client EXCEPT ![c] =
                     IF m = Failure THEN [@ EXCEPT !.pc = "exited"]
                                    ELSE [@ EXCEPT !.pc = "idle", !.reply = m, !.held = k]]
      BY <2>4 DEF GetReplyData
    <3>2. client[c].pc = "buffer"
      BY <2>4 DEF GetReplyData
    <3>3. CASE m = Failure
      BY <1>2, <3>1, <3>2, <3>3 DEF ClientType
    <3>4. CASE m # Failure
      BY <1>2, <3>1, <3>2, <3>4 DEF ClientType
    <3> QED  BY <3>3, <3>4
  <2> QED  BY <2>1, <2>2, <2>3, <2>4
<1>4. Intact' => Intact
  BY <1>1 DEF Intact, faults
<1> QED  BY <1>1, <1>3, <1>4, PairsFrame

LEMMA PairsThread ==
  ASSUME TypeInv, PairsInv, NEW t \in threads, SendReplyHeader(t) \/ SendReplyData(t)
  PROVE  PairsInv'
<1>1. toServer' = toServer /\ server' = server /\ client' = client /\ t \in ThreadType
  BY DEF SendReplyHeader, SendReplyData, TypeInv, TypeOK
<1>2. Intact' => Intact
  BY NoFault DEF SendReplyHeader, SendReplyData, Intact, Sound, TypeInv, history
<1>3. \A u \in threads' : \E v \in threads : v.body = u.body
  <2>1. CASE SendReplyHeader(t)
    BY <1>1, <2>1 DEF SendReplyHeader, ThreadType
  <2>2. CASE SendReplyData(t)
    BY <2>2 DEF SendReplyData
  <2> QED  BY <2>1, <2>2
<1> QED  BY <1>1, <1>2, <1>3, PairsFrame

LEMMA Dequeued ==
  ASSUME NEW S, NEW q \in Seq(S), q # <<>>
  PROVE  LET r == Tail(q) IN
         /\ Len(q) \in Nat \ {0} /\ Len(r) = Len(q) - 1 /\ (r = <<>> <=> Len(q) = 1)
         /\ Head(q) = q[1] /\ \A i \in 1..Len(r) : r[i] = q[i + 1]
<1>1. Len(q) \in Nat \ {0} /\ Tail(q) \in Seq(S)
  BY LenProperties, EmptySeq, HeadTailProperties
<1>2. Len(Tail(q)) = Len(q) - 1 /\ \A i \in 1..Len(Tail(q)) : Tail(q)[i] = q[i + 1]
  BY <1>1, HeadTailProperties
<1>3. Tail(q) = <<>> <=> Len(Tail(q)) = 0
  BY <1>1, EmptySeq
<1> QED  BY <1>1, <1>2, <1>3

LEMMA PairsLoop ==
  ASSUME TypeInv, PairsInv, Loop
  PROVE  PairsInv'
<1> SUFFICES ASSUME Intact' PROVE PairsInv'
  BY DEF PairsInv
<1>1. /\ toServer # <<>> /\ toServer' = Tail(toServer) /\ client' = client /\ Intact
      /\ ReceiveData => ~ReadsOn(server, Head(toServer))
  <2>1. CASE ReceiveHeader
    BY <2>1 DEF ReceiveHeader, ReceiveData, Intact, Sound, faults, history
  <2>2. CASE ReceiveData
    BY <2>2 DEF ReceiveData, Decodes, Intact, Sound, faults
  <2> QED  BY <2>1, <2>2 DEF Loop
<1>2. PICK q \in Seq(Datagrams(Clients)), r \in Seq(Datagrams(Clients)) :
        q = toServer /\ q # <<>> /\ r = toServer' /\ r = Tail(q)
  BY <1>1, HeadTailProperties DEF TypeInv, TypeOK
<1>3. /\ Len(q) \in Nat \ {0} /\ Len(r) = Len(q) - 1 /\ (r = <<>> <=> Len(q) = 1)
      /\ Head(q) = q[1] /\ \A i \in 1..Len(r) : r[i] = q[i + 1]
  BY <1>2, Dequeued
<1>4. \A i \in 1..Len(q) : q[i].kind = "header" =>
        \/ i < Len(q) /\ Halves(q[i], q[i + 1])
        \/ i = Len(q) /\ \E c \in Clients : client[c].pc = "data"
  BY <1>1, <1>2 DEF PairsInv, HeadersFollowed
<1>5. \A i \in 1..Len(q) : q[i].kind = "data" =>
        /\ q[i].body \in Calls
        /\ i = 1 => server.at = "data" /\ server.buffer = Reparsed(q[i].size)
        /\ i > 1 => Halves(q[i - 1], q[i])
  BY <1>1, <1>2 DEF PairsInv, DataPreceded
<1>6. \A c \in Clients : client[c].pc = "data" =>
         q[Len(q)].kind = "header" /\ q[Len(q)].size = client[c].size
  BY <1>1, <1>2 DEF PairsInv, SenderLast
<1>7. OneSender'
  BY <1>1 DEF PairsInv, OneSender
<1>8. HeadersFollowed'
  <2>1. ASSUME NEW i \in 1..Len(r), r[i].kind = "header"
        PROVE  \/ i < Len(r) /\ Halves(r[i], r[i + 1])
               \/ i = Len(r) /\ \E c \in Clients : client[c].pc = "data"
    <3>1. i + 1 \in 1..Len(q) /\ r[i] = q[i + 1]
      BY <1>3
    <3>2. CASE i + 1 = Len(q)
      BY <1>3, <1>4, <2>1, <3>1, <3>2
    <3>3. CASE i + 1 < Len(q)
      <4>1. i + 1 \in 1..Len(r)
        BY <1>3, <3>3
      <4>2. r[i + 1] = q[(i + 1) + 1]
        BY <1>3, <4>1
      <4>3. Halves(q[i + 1], q[(i + 1) + 1])
        BY <1>4, <2>1, <3>1, <3>3
      <4> QED  BY <1>3, <3>1, <3>3, <4>2, <4>3
    <3> QED  BY <1>3, <3>1, <3>2, <3>3
  <2> QED  BY <1>1, <1>2, <2>1 DEF HeadersFollowed
<1>9. CASE ReceiveHeader
  <2>1. server.at = "header" /\ server'.at = "data" /\ server'.buffer = Room(q[1]) /\ threads' = threads
    BY <1>2, <1>3, <1>9, HeaderTaken DEF ReceiveHeader
  <2>2. q[1].kind = "header" /\ server'.buffer = Reparsed(q[1].size)
    BY <1>3, <1>5, <2>1, ElementOfSeq DEF Room, Announced, Datagrams
  <2>3. DataPreceded'
    <3>1. \A i \in 1..Len(r) : r[i].kind = "data" => Halves(q[i], q[i + 1])
      BY <1>3, <1>5
    <3>2. \A i \in 1..Len(r) : r[i].kind = "data" /\ i > 1 => Halves(r[i - 1], r[i])
      BY <1>3, <3>1
    <3> QED  BY <1>2, <1>3, <1>5, <2>1, <2>2, <3>1, <3>2 DEF DataPreceded, Halves
  <2>4. SenderLast'
    BY <1>1, <1>2, <1>3, <1>6, <2>1, <2>2 DEF SenderLast
  <2>5. LoopFed'
    <3>1. CASE Len(q) = 1
      BY <1>1, <1>2, <1>3, <1>4, <2>2, <3>1 DEF LoopFed
    <3>2. CASE Len(q) > 1
      <4>1. Halves(q[1], q[2]) /\ r # <<>>
        BY <1>3, <1>4, <2>2, <3>2
      <4>2. r[1] = q[2]
        BY <1>3, <3>2
      <4> QED  BY <1>2, <4>1, <4>2 DEF LoopFed, Halves
    <3> QED  BY <1>3, <3>1, <3>2
  <2> QED  BY <1>1, <1>7, <1>8, <2>1, <2>3, <2>4, <2>5 DEF PairsInv, NothingDamaged
<1>10. CASE ReceiveData
  <2>1. server.at = "data" /\ q[1].kind = "data"
    BY <1>1, <1>2, <1>10 DEF ReceiveData, PairsInv, LoopFed
  <2>2. q[1] \in Datagrams(Clients) /\ q[1].body \in Calls /\ server.buffer = Reparsed(q[1].size)
    BY <1>3, <1>5, <2>1, ElementOfSeq
  <2>3. Decoded(server, q[1]) = {q[1].body}
    <3>1. q[1].size \in Sizes
      BY <2>2 DEF Datagrams
    <3>2. q[1].size \in Nat
      BY <3>1, SizesAssumption
    <3>3. ~ReadsOn(server, q[1])
      BY <1>1, <1>2, <1>3, <1>10
    <3>4. q[1].size <= server.buffer /\ server.buffer \in Nat
      BY <2>2, <3>2, ReparsedCovers
    <3> QED  BY <2>1, <3>2, <3>3, <3>4 DEF Decoded
  <2>4. q[1].body \notin {Damaged, Failure}
    BY <2>2, NamesAssumption, BoundsAssumption DEF Calls
  <2>5. PICK k : /\ server' = [server EXCEPT !.at = "header", !.held = k]
                 /\ threads' = threads \union {Spawned(q[1].body)}
    BY <1>2, <1>3, <1>10, <2>3, <2>4 DEF ReceiveData
  <2>6. server'.at = "header" /\ NothingDamaged'
    BY <1>1, <2>4, <2>5 DEF TypeInv, TypeOK, ServerType, PairsInv, NothingDamaged, Spawned
  <2>7. DataPreceded'
    <3>1. \A i \in 1..Len(r) : r[i].kind = "data" => i > 1 /\ Halves(q[i], q[i + 1])
      BY <1>3, <1>5, <2>1 DEF Halves
    <3>2. \A i \in 1..Len(r) : r[i].kind = "data" => Halves(r[i - 1], r[i])
      BY <1>3, <3>1
    <3> QED  BY <1>2, <1>3, <1>5, <3>1, <3>2 DEF DataPreceded
  <2>8. SenderLast'
    BY <1>1, <1>2, <1>3, <1>6, <2>1 DEF SenderLast
  <2> QED  BY <1>7, <1>8, <2>6, <2>7, <2>8 DEF PairsInv, LoopFed
<1> QED  BY <1>9, <1>10 DEF Loop

LEMMA PairsInit == Init => PairsInv
BY DEF Init, PairsInv, OneSender, HeadersFollowed, DataPreceded, SenderLast, LoopFed, NothingDamaged

LEMMA PairsNext == TypeInv /\ PairsInv /\ [Next]_vars => PairsInv'
<1> SUFFICES ASSUME TypeInv, PairsInv, [Next]_vars PROVE PairsInv'
  OBVIOUS
<1>1. CASE Loop
  BY <1>1, PairsLoop
<1>2. CASE Thread
  <2>1. ASSUME NEW t \in threads, ReplyTooLong(t) PROVE PairsInv'
    BY <2>1 DEF ReplyTooLong, PairsInv, Intact, Sound
  <2> QED  BY <1>2, <2>1, PairsThread DEF Thread
<1>3. ASSUME NEW c \in Clients, Client(c) PROVE PairsInv'
  <2>1. CASE DataTooLong(c)
    BY <2>1 DEF DataTooLong, PairsInv, Intact, Sound
  <2> QED  BY <1>3, <2>1, PairsClient, PairsSendHeader, PairsSendData DEF Client
<1>4. CASE UNCHANGED vars
  BY <1>4, PairsFrame DEF vars, sockets, faults, history, Intact, Sound
<1> QED  BY <1>1, <1>2, <1>3, <1>4 DEF Next
-----------------------------------------------------------------------------
\* Calls made one at a time: what the handler is given

\* The other faults and an overlap are never undone.
LEMMA SerialBefore ==
  ASSUME TypeInv, [Next]_vars, Serial'
  PROVE  Serial
<1>1. ASSUME NEW c \in Clients, Client(c) PROVE Serial
  <2>1. CASE SendHeader(c)
    <3>1. PICK fate \in Fates : Meets(fate, toServer)
      BY <2>1 DEF SendHeader
    <3> QED  BY <2>1, <3>1, InOrder DEF Serial, Sound, SendHeader, TypeInv
  <2>2. CASE SendData(c)
    <3>1. PICK fate \in Fates : Meets(fate, toServer)
      BY <2>2 DEF SendData
    <3> QED  BY <2>2, <3>1, InOrder DEF Serial, Sound, SendData, TypeInv, history
  <2>3. CASE SetServer(c) \/ Refuse(c)
    BY <2>3 DEF Serial, Sound, SetServer, Refuse, faults, history
  <2>4. CASE GetReplyHeader(c)
    BY <2>4 DEF Serial, Sound, GetReplyHeader, faults, history
  <2>5. CASE GetReplyData(c)
    BY <2>5, SerialDecodes DEF GetReplyData
  <2>6. CASE DataTooLong(c)
    BY <2>6 DEF DataTooLong, Serial, Sound
  <2> QED  BY <1>1, <2>1, <2>2, <2>3, <2>4, <2>5, <2>6 DEF Client
<1>2. CASE Loop
  <2>1. CASE ReceiveHeader
    BY <2>1 DEF Serial, Sound, ReceiveHeader, faults, history
  <2>2. CASE ReceiveData
    BY <2>2, SerialDecodes DEF ReceiveData
  <2> QED  BY <1>2, <2>1, <2>2 DEF Loop
<1>3. CASE Thread
  <2>1. ASSUME NEW t \in threads, ReplyTooLong(t) PROVE FALSE
    BY <2>1 DEF ReplyTooLong, Serial, Sound
  <2>2. PICK fate \in Fates : Meets(fate, toClient[slot]) /\ UNCHANGED history
    BY <1>3, <2>1 DEF Thread, SendReplyHeader, SendReplyData
  <2> QED  BY <2>2, InOrder DEF Serial, Sound, TypeInv, history
<1>4. CASE UNCHANGED vars
  BY <1>4 DEF Serial, Sound, vars, faults, history
<1> QED  BY <1>1, <1>2, <1>3, <1>4 DEF Next

\* A step in which nothing is called, handled or returned.
LEMMA QuietService ==
  ASSUME Serial, Serial', handled' = handled,
         \A d \in Clients : /\ InCall(d)' <=> InCall(d)
                            /\ client'[d].calls = client[d].calls
                            /\ client'[d].reply = client[d].reply
  PROVE  UNCHANGED Service!vars
<1>1. {d \in Clients : InCall(d)}' = {d \in Clients : InCall(d)}
  OBVIOUS
<1>2. /\ [d \in Clients |-> client[d].calls]' = [d \in Clients |-> client[d].calls]
      /\ [d \in Clients |-> client[d].reply]' = [d \in Clients |-> client[d].reply]
  OBVIOUS
<1>3. (~Serial)' = ~Serial
  OBVIOUS
<1> QED  BY <1>1, <1>2, <1>3 DEF Service!vars

LEMMA HandledFrame ==
  ASSUME HandledInv, Serial, handled' = handled,
         \A d \in Clients : client'[d].calls = client[d].calls,
         \A d \in Clients : client'[d].pc = "data" => client[d].pc = "data",
         NotYetGiven' \/ toServer' = toServer,
         AnswersGiven' \/ (threads' = threads /\ toClient' = toClient)
  PROVE  HandledInv'
<1>1. \A m : Service!WasHandled(m)' <=> Service!WasHandled(m)
  BY DEF Service!WasHandled
<1>2. GivenCalls'
  BY DEF HandledInv, GivenCalls, Calls
<1>3. \A d \in Clients : Called(d)' = Called(d)
  BY DEF Called
<1>4. NotYetGiven'
  BY <1>1, <1>3 DEF HandledInv, NotYetGiven
<1>5. AnswersGiven'
  BY <1>1 DEF HandledInv, AnswersGiven
<1> QED  BY <1>2, <1>4, <1>5 DEF HandledInv

\* The queue that may have got one more datagram.
LEMMA OneMore ==
  ASSUME NEW S, NEW q \in Seq(S), NEW d \in S, NEW r \in {q, Append(q, d)},
         NEW i \in 1..Len(r)
  PROVE  r[i] = d \/ (i \in 1..Len(q) /\ r[i] = q[i])
<1>1. CASE r = q
  BY <1>1
<1>2. CASE r = Append(q, d)
  <2>1. Len(q) \in Nat /\ Len(r) = Len(q) + 1
    BY <1>2, AppendProperties, LenProperties
  <2>2. CASE i = Len(q) + 1
    BY <1>2, <2>2, AppendProperties
  <2>3. CASE i \in 1..Len(q)
    BY <1>2, <2>3, AppendProperties
  <2> QED  BY <2>1, <2>2, <2>3
<1> QED  BY <1>1, <1>2

LEMMA ServiceCall ==
  ASSUME TypeInv, SerialInv, HandledInv, NEW c \in Clients, SendHeader(c), Serial'
  PROVE  HandledInv' /\ Service!Call(c)
<1>1. PICK s \in Sizes, fate \in Fates :
        /\ Meets(fate, toServer)
        /\ toServer' = Travels(toServer, Header(c, s), fate)
        /\ client' = [client EXCEPT ![c] = Begun(@, s)]
  BY DEF SendHeader
<1>2. Serial /\ toServer' \in {toServer, Append(toServer, Header(c, s))}
  BY <1>1, InOrder DEF Serial, Sound, SendHeader, TypeInv, TypeOK
<1>3. \A d \in Clients : ~InCall(d)
  BY DEF Serial, Sound, SendHeader, InCall
<1>4. /\ client'[c].pc = "data" /\ client'[c].calls = client[c].calls + 1 /\ client'[c].reply = None
      /\ \A d \in Clients \ {c} : client'[d] = client[d]
      /\ client[c].calls \in Nat
  BY <1>1, BoundsAssumption DEF TypeInv, TypeOK, ClientType, Begun
<1>5. handled' = handled /\ threads' = threads /\ toClient' = toClient
  BY DEF SendHeader
<1>6. \A m : Service!WasHandled(m)' <=> Service!WasHandled(m)
  BY <1>5 DEF Service!WasHandled
<1>7. GivenCalls /\ NotYetGiven /\ AnswersGiven
  BY <1>2 DEF HandledInv
<1>8. GivenCalls'
  <2>1. ASSUME NEW d \in Clients
        PROVE  /\ client[d].calls \in Nat /\ client'[d].calls \in Nat
               /\ client[d].calls <= client'[d].calls
    <3>1. client[d].calls \in Nat
      BY BoundsAssumption DEF TypeInv, TypeOK, ClientType
    <3> QED  BY <1>4, <3>1
  <2> SUFFICES ASSUME NEW i \in 1..Len(handled)
               PROVE  handled[i] \in Calls /\ handled[i][2] <= client'[handled[i][1]].calls
    BY <1>5 DEF GivenCalls
  <2>2. handled[i] \in Calls /\ handled[i][2] <= client[handled[i][1]].calls
    BY <1>7 DEF GivenCalls
  <2>3. handled[i][1] \in Clients /\ handled[i][2] \in Nat
    BY <2>2 DEF Calls
  <2>4. PICK d \in Clients, n \in Nat : d = handled[i][1] /\ n = handled[i][2]
    BY <2>3
  <2>5. n <= client[d].calls
    BY <2>2, <2>4
  <2>6. n <= client'[d].calls
    BY <2>1, <2>5
  <2> QED  BY <2>2, <2>4, <2>6
<1>9. ~Service!WasHandled(Called(c)')
  <2> SUFFICES ASSUME NEW i \in 1..Len(handled), handled[i] = <<c, client[c].calls + 1>> PROVE FALSE
    BY <1>4 DEF Service!WasHandled, Called
  <2>1. handled[i][2] <= client[handled[i][1]].calls
    BY <1>7 DEF GivenCalls
  <2>2. handled[i][1] = c /\ handled[i][2] = client[c].calls + 1
    OBVIOUS
  <2> QED  BY <1>4, <2>1, <2>2
<1>10. NotYetGiven'
  <2>1. \A d \in Clients : client'[d].pc = "data" => d = c
    BY <1>3, <1>4 DEF InCall
  <2>2. Header(c, s) \in Datagrams(Clients) /\ Header(c, s).kind = "header"
    BY DEF Header, Datagram, Datagrams
  <2>3. \A i \in 1..Len(toServer') :
          toServer'[i] = Header(c, s) \/ (i \in 1..Len(toServer) /\ toServer'[i] = toServer[i])
    <3>1. toServer \in Seq(Datagrams(Clients))
      BY DEF TypeInv, TypeOK
    <3>2. PICK r : r = toServer'
      OBVIOUS
    <3>3. r \in {toServer, Append(toServer, Header(c, s))}
      BY <1>2, <3>2
    <3>4. \A i \in 1..Len(r) :
            r[i] = Header(c, s) \/ (i \in 1..Len(toServer) /\ r[i] = toServer[i])
      BY <2>2, <3>1, <3>3, OneMore
    <3> QED  BY <3>2, <3>4
  <2> QED  BY <1>6, <1>7, <1>9, <2>1, <2>2, <2>3 DEF NotYetGiven
<1>11. AnswersGiven'
  BY <1>5, <1>6, <1>7 DEF AnswersGiven
<1>12. Service!Call(c)
  <2>1. {d \in Clients : InCall(d)} = {} /\ {d \in Clients : InCall(d)}' = {c}
    BY <1>3, <1>4 DEF InCall
  <2>2. [d \in Clients |-> client[d].calls]' = [[d \in Clients |-> client[d].calls] EXCEPT ![c] = @ + 1]
    BY <1>4
  <2>3. [d \in Clients |-> client[d].reply]' = [[d \in Clients |-> client[d].reply] EXCEPT ![c] = None]
    BY <1>4
  <2> QED  BY <1>5, <2>1, <2>2, <2>3 DEF Service!Call
<1> QED  BY <1>8, <1>10, <1>11, <1>12 DEF HandledInv

LEMMA ServiceClientRests ==
  ASSUME TypeInv, HandledInv, NEW c \in Clients, SetServer(c) \/ Refuse(c), Serial'
  PROVE  HandledInv' /\ UNCHANGED Service!vars
<1>1. /\ client[c].pc = "unset"
      /\ client' = [client EXCEPT ![c].pc = "idle"] \/ client' = [client EXCEPT ![c].pc = "refused"]
      /\ UNCHANGED <<handled, toServer, toClient, threads, faults, history>>
  BY DEF SetServer, Refuse, sockets
<1>2. Serial
  BY <1>1 DEF Serial, Sound, faults, history
<1>3. \A d \in Clients : /\ InCall(d)' <=> InCall(d)
                         /\ client'[d].calls = client[d].calls
                         /\ client'[d].reply = client[d].reply
                         /\ client'[d].pc = "data" => client[d].pc = "data"
  <2>1. CASE client' = [client EXCEPT ![c].pc = "idle"]
    BY <1>1, <2>1 DEF TypeInv, TypeOK, ClientType, InCall
  <2>2. CASE client' = [client EXCEPT ![c].pc = "refused"]
    BY <1>1, <2>2 DEF TypeInv, TypeOK, ClientType, InCall
  <2> QED  BY <1>1, <2>1, <2>2
<1>4. HandledInv'
  BY <1>1, <1>2, <1>3, HandledFrame
<1> QED  BY <1>1, <1>2, <1>3, <1>4, QuietService

LEMMA ServiceSendData ==
  ASSUME TypeInv, SerialInv, HandledInv, NEW c \in Clients, SendData(c), Serial'
  PROVE  HandledInv' /\ UNCHANGED Service!vars
<1>1. PICK fate \in Fates :
        /\ Meets(fate, toServer)
        /\ toServer' = Travels(toServer, MyData(c), fate)
  BY DEF SendData, MyData
<1>2. Serial /\ toServer' \in {toServer, Append(toServer, MyData(c))}
  BY <1>1, InOrder DEF Serial, Sound, SendData, TypeInv, TypeOK, history
<1>3. /\ client[c].pc = "data" /\ client' = [client EXCEPT ![c].pc = "reply"]
      /\ UNCHANGED <<handled, threads, toClient>>
  BY DEF SendData
<1>4. \A d \in Clients : /\ InCall(d)' <=> InCall(d)
                         /\ client'[d].calls = client[d].calls
                         /\ client'[d].reply = client[d].reply
                         /\ client'[d].pc = "data" => client[d].pc = "data"
  BY <1>3 DEF TypeInv, TypeOK, ClientType, InCall
<1>5. \A m : Service!WasHandled(m)' <=> Service!WasHandled(m)
  BY <1>3 DEF Service!WasHandled
<1>6. NotYetGiven /\ \A d \in Clients : Called(d)' = Called(d)
  BY <1>2, <1>4 DEF HandledInv, Called
<1>7. MyData(c) \in Datagrams(Clients) /\ MyData(c).body = Called(c)
  <2>1. client[c].size \in Sizes /\ Called(c) \in Calls
    BY <1>3, BoundsAssumption DEF TypeInv, LocalsInv, InCall, TypeOK, ClientType, Called, Calls
  <2> QED  BY <2>1 DEF MyData, Data, Datagram, Datagrams, Messages
<1>8. \A i \in 1..Len(toServer') :
        toServer'[i] = MyData(c) \/ (i \in 1..Len(toServer) /\ toServer'[i] = toServer[i])
  <2>1. toServer \in Seq(Datagrams(Clients))
    BY DEF TypeInv, TypeOK
  <2>2. PICK r : r = toServer'
    OBVIOUS
  <2>3. r \in {toServer, Append(toServer, MyData(c))}
    BY <1>2, <2>2
  <2>4. \A i \in 1..Len(r) :
          r[i] = MyData(c) \/ (i \in 1..Len(toServer) /\ r[i] = toServer[i])
    BY <1>7, <2>1, <2>3, OneMore
  <2> QED  BY <2>2, <2>4
<1>9. NotYetGiven'
  BY <1>3, <1>4, <1>5, <1>6, <1>7, <1>8 DEF NotYetGiven
<1>10. HandledInv'
  BY <1>2, <1>3, <1>4, <1>9, HandledFrame
<1> QED  BY <1>2, <1>3, <1>4, <1>10, QuietService

\* What is left of a queue of which one datagram has been taken.
LEMMA OneLess ==
  ASSUME NEW S, NEW q \in Seq(S), q # <<>>, NEW i \in 1..Len(Tail(q))
  PROVE  i + 1 \in 1..Len(q) /\ Tail(q)[i] = q[i + 1]
<1>1. Len(q) \in Nat /\ Len(Tail(q)) = Len(q) - 1 /\ Len(q) # 0
  BY HeadTailProperties, LenProperties, EmptySeq
<1> QED  BY <1>1, HeadTailProperties

LEMMA ServiceGetReplyHeader ==
  ASSUME TypeInv, HandledInv, NEW c \in Clients, GetReplyHeader(c), Serial'
  PROVE  HandledInv' /\ UNCHANGED Service!vars
<1>1. /\ client[c].pc = "reply" /\ toClient[c] # <<>>
      /\ \E b, k : client' = [client EXCEPT ![c] = [@ EXCEPT !.buffer = b, !.held = k, !.pc = "buffer"]]
      /\ toClient' = [toClient EXCEPT ![c] = Tail(@)]
      /\ handled' = handled /\ toServer' = toServer /\ threads' = threads
  BY DEF GetReplyHeader, Resized, TypeInv, TypeOK
<1>2. Serial
  BY DEF Serial, Sound, GetReplyHeader, faults, history
<1>3. \A d \in Clients : /\ InCall(d)' <=> InCall(d)
                         /\ client'[d].calls = client[d].calls
                         /\ client'[d].reply = client[d].reply
                         /\ client'[d].pc = "data" => client[d].pc = "data"
  BY <1>1 DEF TypeInv, TypeOK, ClientType, InCall
<1>4. AnswersGiven'
  <2>1. \A m : Service!WasHandled(m)' <=> Service!WasHandled(m)
    BY <1>1 DEF Service!WasHandled
  <2>2. AnswersGiven
    BY <1>2 DEF HandledInv
  <2>3. toClient[c] \in Seq(Datagrams({None})) /\ toClient'[c] = Tail(toClient[c])
    BY <1>1 DEF TypeInv, TypeOK
  <2>4. \A d \in Clients \ {c} : toClient'[d] = toClient[d]
    BY <1>1 DEF TypeInv, TypeOK
  <2>5. ASSUME NEW i \in 1..Len(toClient'[c])
        PROVE  i + 1 \in 1..Len(toClient[c]) /\ toClient'[c][i] = toClient[c][i + 1]
    BY <1>1, <2>3, OneLess
  <2> QED  BY <1>1, <2>1, <2>2, <2>4, <2>5 DEF AnswersGiven
<1>5. HandledInv'
  BY <1>1, <1>2, <1>3, <1>4, HandledFrame
<1> QED  BY <1>1, <1>2, <1>3, <1>5, QuietService

LEMMA ServiceReturn ==
  ASSUME TypeInv, SerialInv, HandledInv, NEW c \in Clients, GetReplyData(c), Serial'
  PROVE  HandledInv' /\ Service!Return(c)
<1>1. /\ client[c].pc = "buffer" /\ toClient[c] # <<>>
      /\ toClient' = [toClient EXCEPT ![c] = Tail(@)]
      /\ handled' = handled /\ toServer' = toServer /\ threads' = threads
  BY DEF GetReplyData
<1>2. Serial
  BY ReplyTaken
<1>3. PICK s \in Sizes : toClient[c] = <<Data(None, s, Called(c))>>
  BY ReplyTaken
<1>4. \E k : client' = [client EXCEPT ![c] = [@ EXCEPT !.pc = "idle", !.reply = Called(c), !.held = k]]
  BY ReplyTaken
<1>5. /\ client'[c].pc = "idle" /\ client'[c].calls = client[c].calls /\ client'[c].reply = Called(c)
      /\ \A d \in Clients \ {c} : client'[d] = client[d] /\ toClient'[d] = toClient[d]
  BY <1>1, <1>4 DEF TypeInv, TypeOK, ClientType
<1>6. toClient'[c] = <<>>
  BY <1>1, <1>3, ShortQueues DEF TypeInv, TypeOK
<1>7. Service!WasHandled(Called(c))
  <2>1. 1 \in 1..Len(toClient[c]) /\ toClient[c][1] = Data(None, s, Called(c))
    BY <1>3
  <2>2. Data(None, s, Called(c)).kind = "data" /\ Data(None, s, Called(c)).body = Called(c)
    BY DEF Data, Datagram
  <2> QED  BY <1>2, <2>1, <2>2 DEF HandledInv, AnswersGiven
<1>8. AnswersGiven'
  <2>1. \A m : Service!WasHandled(m)' <=> Service!WasHandled(m)
    BY <1>1 DEF Service!WasHandled
  <2>2. 1..Len(toClient'[c]) = {}
    BY <1>6
  <2> QED  BY <1>1, <1>2, <1>5, <2>1, <2>2 DEF HandledInv, AnswersGiven
<1>9. HandledInv'
  BY <1>1, <1>2, <1>5, <1>8, HandledFrame
<1>10. Service!Return(c)
  <2>1. /\ c \in {d \in Clients : InCall(d)}
        /\ {d \in Clients : InCall(d)}' = {d \in Clients : InCall(d)} \ {c}
    BY <1>1, <1>5 DEF InCall
  <2>2. [d \in Clients |-> client[d].calls]' = [d \in Clients |-> client[d].calls]
    BY <1>5
  <2>3. /\ Called(c) = <<c, [d \in Clients |-> client[d].calls][c]>>
        /\ [d \in Clients |-> client[d].reply]'
             = [[d \in Clients |-> client[d].reply] EXCEPT ![c] = Called(c)]
    BY <1>5 DEF Called
  <2> QED  BY <1>1, <1>7, <2>1, <2>2, <2>3 DEF Service!Return, Service!Message
<1> QED  BY <1>9, <1>10

LEMMA ServiceReceiveHeader ==
  ASSUME TypeInv, HandledInv, ReceiveHeader, Serial'
  PROVE  HandledInv' /\ UNCHANGED Service!vars
<1>1. /\ toServer # <<>> /\ toServer' = Tail(toServer) /\ toServer \in Seq(Datagrams(Clients))
      /\ client' = client /\ toClient' = toClient /\ threads' = threads /\ handled' = handled
  BY DEF ReceiveHeader, TypeInv, TypeOK
<1>2. Serial
  BY DEF Serial, Sound, ReceiveHeader, faults, history
<1>3. \A d \in Clients : /\ InCall(d)' <=> InCall(d)
                         /\ client'[d].calls = client[d].calls
                         /\ client'[d].reply = client[d].reply
                         /\ client'[d].pc = "data" => client[d].pc = "data"
  BY <1>1 DEF InCall
<1>4. NotYetGiven'
  <2>1. /\ \A m : Service!WasHandled(m)' <=> Service!WasHandled(m)
        /\ \A d \in Clients : Called(d)' = Called(d)
    BY <1>1 DEF Service!WasHandled, Called
  <2>2. ASSUME NEW i \in 1..Len(toServer')
        PROVE  i + 1 \in 1..Len(toServer) /\ toServer'[i] = toServer[i + 1]
    BY <1>1, OneLess
  <2> QED  BY <1>1, <1>2, <2>1, <2>2 DEF HandledInv, NotYetGiven
<1>5. HandledInv'
  BY <1>1, <1>2, <1>3, <1>4, HandledFrame
<1> QED  BY <1>1, <1>2, <1>3, <1>5, QuietService

LEMMA ServiceHandle ==
  ASSUME TypeInv, SerialInv, HandledInv, ReceiveData, Serial'
  PROVE  HandledInv' /\ \E c \in Clients : Service!Handle(c)
<1>1. client' = client /\ toClient' = toClient /\ Serial
  BY MessageGiven DEF ReceiveData
<1>2. PICK c \in Clients :
        /\ Alone(c) /\ client[c].pc = "reply" /\ toClient[c] = <<>>
        /\ toServer = <<MyData(c)>> /\ toServer' = <<>>
        /\ threads' = {Spawned(Called(c))} /\ handled' = Append(handled, Called(c))
  BY <1>1, MessageGiven
<1>3. GivenCalls /\ NotYetGiven /\ AnswersGiven
  BY <1>1 DEF HandledInv
<1>4. Called(c) \in Calls /\ handled \in Seq(Messages)
  BY <1>2, BoundsAssumption DEF TypeInv, LocalsInv, InCall, TypeOK, ClientType, Called, Calls
<1>5. /\ Len(handled) \in Nat /\ Len(handled') = Len(handled) + 1
      /\ \A i \in 1..Len(handled) : handled'[i] = handled[i]
      /\ handled'[Len(handled) + 1] = Called(c)
  BY <1>2, <1>4, AppendProperties, LenProperties DEF Messages
<1>6. \A m : Service!WasHandled(m)' <=> Service!WasHandled(m) \/ m = Called(c)
  <2> SUFFICES ASSUME NEW m
               PROVE  (\E i \in 1..Len(handled') : handled'[i] = m)
                        <=> (\E i \in 1..Len(handled) : handled[i] = m) \/ m = Called(c)
    BY DEF Service!WasHandled
  <2> QED  BY <1>5
<1>7. ~Service!WasHandled(Called(c))
  <2>1. 1 \in 1..Len(toServer) /\ toServer[1] = MyData(c)
    BY <1>2
  <2>2. MyData(c).kind = "data" /\ MyData(c).body = Called(c)
    BY DEF MyData, Data, Datagram
  <2> QED  BY <1>3, <2>1, <2>2 DEF NotYetGiven
<1>8. GivenCalls'
  <2>1. Called(c)[1] = c /\ Called(c)[2] = client[c].calls /\ client[c].calls \in Nat
    BY BoundsAssumption DEF Called, TypeInv, TypeOK, ClientType
  <2>2. ASSUME NEW i \in 1..Len(handled')
        PROVE  handled'[i] = Called(c) \/ (i \in 1..Len(handled) /\ handled'[i] = handled[i])
    BY <1>5
  <2> QED  BY <1>1, <1>3, <1>4, <2>1, <2>2 DEF GivenCalls
<1>9. NotYetGiven'
  <2>1. \A d \in Clients : client'[d].pc # "data"
    BY <1>1, <1>2 DEF Alone, InCall
  <2>2. 1..Len(toServer') = {}
    BY <1>2
  <2> QED  BY <2>1, <2>2 DEF NotYetGiven
<1>10. AnswersGiven'
  <2>1. Spawned(Called(c)).body = Called(c)
    BY DEF Spawned
  <2> QED  BY <1>1, <1>2, <1>3, <1>6, <2>1 DEF AnswersGiven
<1>11. Service!Handle(c)
  <2>1. /\ c \in {d \in Clients : InCall(d)}
        /\ {d \in Clients : InCall(d)}' = {d \in Clients : InCall(d)}
        /\ [d \in Clients |-> client[d].calls]' = [d \in Clients |-> client[d].calls]
        /\ [d \in Clients |-> client[d].reply]' = [d \in Clients |-> client[d].reply]
    BY <1>1, <1>2 DEF InCall
  <2>2. Called(c) = <<c, [d \in Clients |-> client[d].calls][c]>>
    BY DEF Called
  <2> QED  BY <1>2, <1>7, <2>1, <2>2 DEF Service!Handle, Service!Message
<1> QED  BY <1>8, <1>9, <1>10, <1>11 DEF HandledInv

LEMMA ServiceThread ==
  ASSUME TypeInv, HandledInv, NEW t \in threads, SendReplyHeader(t) \/ SendReplyData(t), Serial'
  PROVE  HandledInv' /\ UNCHANGED Service!vars
<1>1. slot \in Clients /\ toClient \in [Clients -> Seq(Datagrams({None}))] /\ t \in ThreadType
  BY DEF TypeInv, TypeOK, LocalsInv
<1>2. client' = client /\ handled' = handled /\ toServer' = toServer
  BY DEF SendReplyHeader, SendReplyData
<1>3. Serial
  BY HalfSent
<1>4. PICK d : SendsHalf(t, d)
  BY HalfSent
<1>5. AnswersGiven /\ Service!WasHandled(t.body)
  BY <1>3 DEF HandledInv, AnswersGiven
<1>6. d \in Datagrams({None}) /\ (d.kind = "data" => d.body = t.body)
  <2>1. CASE t.at = "header"
    <3>1. PICK s \in Sizes : d = Header(None, s)
      BY <1>4, <2>1 DEF SendsHalf
    <3> QED  BY <3>1 DEF Header, Datagram, Datagrams
  <2>2. CASE t.at = "data"
    <3>1. t.size \in Sizes /\ t.body \in Messages
      BY <1>1, <2>2 DEF TypeInv, LocalsInv, ThreadType
    <3> QED  BY <1>4, <2>2, <3>1 DEF Data, Datagram, Datagrams, SendsHalf
  <2> QED  BY <1>4, <2>1, <2>2 DEF SendsHalf
<1>7. \A u \in threads' : u \in threads \/ u.body = t.body
  <2>1. \A s \in Sizes : [t EXCEPT !.at = "data", !.size = s].body = t.body
    BY <1>1 DEF ThreadType
  <2> QED  BY <1>4, <2>1 DEF SendsHalf
<1>8. ASSUME NEW c \in Clients, NEW i \in 1..Len(toClient'[c])
      PROVE  toClient'[c][i] = d \/ (i \in 1..Len(toClient[c]) /\ toClient'[c][i] = toClient[c][i])
  <2>1. PICK r : r = toClient'[c]
    OBVIOUS
  <2>2. r \in {toClient[c], Append(toClient[c], d)}
    BY <1>1, <1>4, <2>1 DEF SendsHalf
  <2>3. r[i] = d \/ (i \in 1..Len(toClient[c]) /\ r[i] = toClient[c][i])
    <3>1. PICK q : q = toClient[c] /\ q \in Seq(Datagrams({None}))
      BY <1>1
    <3>2. r \in {q, Append(q, d)} /\ i \in 1..Len(r)
      BY <2>1, <2>2, <3>1
    <3> QED  BY <1>6, <3>1, <3>2, OneMore
  <2> QED  BY <2>1, <2>3
<1>9. AnswersGiven'
  <2>1. \A m : Service!WasHandled(m)' <=> Service!WasHandled(m)
    BY <1>2 DEF Service!WasHandled
  <2> QED  BY <1>5, <1>6, <1>7, <1>8, <2>1 DEF AnswersGiven
<1>10. \A c \in Clients : InCall(c)' <=> InCall(c)
  BY <1>2 DEF InCall
<1>11. HandledInv'
  BY <1>2, <1>3, <1>9, HandledFrame
<1> QED  BY <1>2, <1>3, <1>10, <1>11, QuietService

LEMMA ServiceStep ==
  ASSUME TypeInv, SerialInv, HandledInv, [Next]_vars, Serial'
  PROVE  HandledInv' /\ (UNCHANGED Service!vars \/ Service!Step)
<1>1. CASE Loop
  BY <1>1, ServiceReceiveHeader, ServiceHandle DEF Loop, Service!Step
<1>2. CASE Thread
  <2>1. ASSUME NEW t \in threads, ReplyTooLong(t) PROVE FALSE
    BY <2>1 DEF ReplyTooLong, Serial, Sound
  <2> QED  BY <1>2, <2>1, ServiceThread DEF Thread
<1>3. ASSUME NEW c \in Clients, Client(c)
      PROVE  HandledInv' /\ (UNCHANGED Service!vars \/ Service!Step)
  <2>1. CASE DataTooLong(c)
    BY <2>1 DEF DataTooLong, Serial, Sound
  <2> QED  BY <1>3, <2>1, ServiceClientRests, ServiceCall, ServiceSendData, ServiceGetReplyHeader,
              ServiceReturn DEF Client, Service!Step
<1>4. CASE UNCHANGED vars
  <2>1. /\ client' = client /\ handled' = handled /\ toServer' = toServer
        /\ threads' = threads /\ toClient' = toClient /\ Serial
    BY <1>4, SerialBefore DEF vars, sockets
  <2>2. \A c \in Clients : InCall(c)' <=> InCall(c)
    BY <2>1 DEF InCall
  <2>3. HandledInv'
    BY <2>1, HandledFrame
  <2> QED  BY <2>1, <2>2, <2>3, QuietService
<1> QED  BY <1>1, <1>2, <1>3, <1>4 DEF Next

LEMMA HandledNext == TypeInv /\ SerialInv /\ HandledInv /\ [Next]_vars => HandledInv'
BY ServiceStep DEF HandledInv

LEMMA HandledInit == Init => HandledInv
BY DEF Init, HandledInv, GivenCalls, NotYetGiven, AnswersGiven

LEMMA ServiceInit == Init => Service!Init
<1> SUFFICES ASSUME Init PROVE Service!Init
  OBVIOUS
<1>1. {c \in Clients : InCall(c)} = {} /\ Serial /\ handled = <<>>
  BY DEF Init, InCall, Serial, Sound
<1>2. /\ [c \in Clients |-> client[c].calls] = [c \in Clients |-> 0]
      /\ [c \in Clients |-> client[c].reply] = [c \in Clients |-> None]
  BY DEF Init
<1> QED  BY <1>1, <1>2 DEF Service!Init

\* A step after which the conditions do not hold is one of which nothing is promised.
LEMMA ServiceNext ==
  TypeInv /\ SerialInv /\ HandledInv /\ [Next]_vars => [Service!Next]_(Service!vars)
<1> SUFFICES ASSUME TypeInv, SerialInv, HandledInv, [Next]_vars
             PROVE  Service!Next \/ UNCHANGED Service!vars
  OBVIOUS
<1>1. CASE Serial'
  BY <1>1, ServiceStep, SerialBefore DEF Service!Next, Service!Works
<1>2. CASE ~Serial'
  BY <1>2 DEF Service!Next, Service!Break
<1> QED  BY <1>1, <1>2

-----------------------------------------------------------------------------
\* Theorems

IInv == TypeInv /\ SerialInv /\ PairsInv /\ HandledInv

LEMMA IInvAlways == Spec => []IInv
<1>1. Init => IInv
  BY TypeInit, SerialInit, PairsInit, HandledInit DEF IInv
<1>2. IInv /\ [Next]_vars => IInv'
  BY TypeNext, SerialNext, PairsNext, HandledNext DEF IInv
<1> QED  BY <1>1, <1>2, PTL DEF Spec

\* Every variable keeps its type: what is received for any length announced,
\* misread or not, is a buffer of that length or more.
THEOREM TypeCorrect == Spec => []TypeOK
<1>1. IInv => TypeOK
  BY DEF IInv, TypeInv
<1> QED  BY <1>1, IInvAlways, PTL

\* One call at a time on a network that loses at most: a client never takes
\* anything but the handler's return for the message it sent, through whatever
\* halves that stood alone before, as long as no message was too long to send
\* and no number stood before what an earlier message left in a buffer.
THEOREM SerialRepliesAlways == Spec => []SerialReplies
<1>1. IInv => SerialReplies
  BY DEF IInv, SerialInv, SerialReplies
<1> QED  BY <1>1, IInvAlways, PTL

\* Under the same conditions nobody ends in exit(31) or exit(34).
THEOREM SerialNeverExitsAlways == Spec => []SerialNeverExits
<1>1. IInv => SerialNeverExits
  BY DEF IInv, SerialInv, Rest, Idling, Phase, Asking, Asked, Answering, Answered, SerialNeverExits
<1> QED  BY <1>1, IInvAlways, PTL

\* However calls overlap, the server survives and decodes every message whole
\* while no header falls between the halves of a message, nothing is lost, no
\* message is too long to send and no number is read on into an earlier message.
THEOREM IntactPairsAlways == Spec => []IntactPairsKeepServerUp
<1>1. IInv => IntactPairsKeepServerUp
  BY DEF IInv, PairsInv, Intact, NothingDamaged, IntactPairsKeepServerUp
<1> QED  BY <1>1, IInvAlways, PTL

\* Calls made one at a time run at most once: whatever is lost, and while
\* messages are sound, no message is given to the handler twice, none is out of
\* turn, and a call returns only what was answered to it after the handler was
\* given it.
THEOREM CallsImplementService == Spec => ImplementsCallService
<1>1. IInv /\ [Next]_vars => [Service!Next]_(Service!vars)
  BY ServiceNext DEF IInv
<1> QED  BY <1>1, ServiceInit, IInvAlways, PTL DEF Spec, ImplementsCallService, Service!Spec
=============================================================================
