---------------------------- MODULE UdpExchange -----------------------------
(***************************************************************************)
(* ServerUdpMultiThreadWrapper, the clients of ClientUdpMultiThreadWrapper *)
(* and the datagrams between them.  A message is two datagrams, a header   *)
(* with the length and the data, and each side pairs what it receives by   *)
(* order alone.  The server answers each message in a detached thread,     *)
(* which has a reference to the endpoint in a variable of the receive      *)
(* loop.                                                                   *)
(*                                                                         *)
(* A message is the call of its client that sent it, and the handler's     *)
(* return is named by the message it answers.  Each client has a host of   *)
(* its own: setServer binds the server's port on the local host.           *)
(*                                                                         *)
(* Each side receives into one buffer, which it resizes and never clears:  *)
(* behind a message stands what is left of longer ones before it.          *)
(***************************************************************************)
EXTENDS Integers, Sequences

CONSTANTS
  Clients,
  Sizes,         \* the lengths of serialized messages
  EndsInNumber,  \* whether the archive of the packet's type ends in a number
  MaxCalls,      \* bound: calls of sendMessage per client
  MaxFaults,     \* bound: datagrams the network loses, duplicates or lets overtake
  None,          \* no client, no message
  Damaged,       \* a message that was misread
  Failure        \* what cannot be decoded

\* A text archive begins with a signature of 28 bytes; memory is no concern up
\* to six digits.
ASSUME SizesAssumption == \A s \in Sizes : s \in Nat /\ 28 <= s /\ s <= 999999

ASSUME PacketAssumption == EndsInNumber \in BOOLEAN

ASSUME BoundsAssumption == MaxCalls \in Nat /\ MaxFaults \in Nat

ASSUME NamesAssumption ==
  /\ None \notin Clients
  /\ \A c \in Clients, n \in 1..MaxCalls : <<c, n>> \notin {None, Damaged, Failure}
  /\ Failure \notin {None, Damaged} /\ Damaged # None

VARIABLES
  client,     \* what each client is at, and its last reply
  server,     \* what the receive loop is at, and its locals
  slot,       \* where clientMessage.second is kept in the frame of turnOn
  threads,    \* the detached threads
  handled,    \* history: the messages given to them, in order
  toServer,   \* datagrams at the server's socket
  toClient,   \* datagrams at each client's socket
  lost,       \* datagrams lost
  disturbed,  \* datagrams duplicated or out of order
  overlap,    \* history: a call began before another client's was answered
  split,      \* history: a header was sent between the halves of a message
  stale,      \* history: a number was read on into what an earlier message left
  tooLong     \* history: a send_to threw between the halves of a message

sockets == <<toServer, toClient>>
faults  == <<lost, disturbed>>
history == <<overlap, split, stale, tooLong>>
vars    == <<client, server, slot, threads, handled, sockets, faults, history>>

Calls    == Clients \X (1..MaxCalls)
Messages == Calls \union {Damaged}

\* The length goes out in hexadecimal, comes back as the same number, is
\* printed in decimal and that is read as hexadecimal: the buffer is too large,
\* never too small.
Reparsed(n) == (n % 10) + 16 * ((n \div 10) % 10) + 256 * ((n \div 100) % 10)
               + 4096 * ((n \div 1000) % 10) + 65536 * ((n \div 10000) % 10)
               + 1048576 * (n \div 100000)

\* What send_to throws message_size for is longer than this.
MaxDatagram == 65507

Buffers == {Reparsed(n) : n \in Sizes \union {34}}

Datagram(by, k, s, m) == [from |-> by, kind |-> k, size |-> s, body |-> m]
Header(by, s)  == Datagram(by, "header", s, None)
Data(by, s, m) == Datagram(by, "data", s, m)

Datagrams(senders) ==
  [from : senders, kind : {"header"}, size : Sizes, body : {None}]
  \union [from : senders, kind : {"data"}, size : Sizes, body : Messages]

ClientType ==
  [pc : {"unset", "idle", "data", "reply", "buffer", "exited", "refused"},
   calls : 0..MaxCalls, size : Sizes \union {0}, buffer : Buffers \union {0},
   held : Nat, reply : Messages \union {None}]
ServerType == [at : {"header", "data", "exited"}, buffer : Buffers \union {0},
               held : Nat, endpoint : Clients \union {None}]
ThreadType == [id : Nat, body : Messages, at : {"header", "data"}, size : Sizes \union {0}]

TypeOK ==
  /\ client \in [Clients -> ClientType]
  /\ server \in ServerType
  /\ slot \in Clients \union {None}
  /\ threads \subseteq ThreadType
  /\ handled \in Seq(Messages)
  /\ toServer \in Seq(Datagrams(Clients))
  /\ toClient \in [Clients -> Seq(Datagrams({None}))]
  /\ lost \in Nat /\ disturbed \in Nat
  /\ overlap \in BOOLEAN /\ split \in BOOLEAN /\ stale \in BOOLEAN /\ tooLong \in BOOLEAN

Init ==
  /\ client = [c \in Clients |->
                 [pc |-> "unset", calls |-> 0, size |-> 0, buffer |-> 0, held |-> 0, reply |-> None]]
  /\ server = [at |-> "header", buffer |-> 0, held |-> 0, endpoint |-> None]
  /\ slot = None
  /\ threads = {}
  /\ handled = <<>>
  /\ toServer = <<>>
  /\ toClient = [c \in Clients |-> <<>>]
  /\ lost = 0
  /\ disturbed = 0
  /\ overlap = FALSE
  /\ split = FALSE
  /\ stale = FALSE
  /\ tooLong = FALSE

-----------------------------------------------------------------------------
\* The network: a datagram is lost, arrives, arrives twice, or before the one
\* sent before it.  Losing it on the way is losing it when it is sent.

Fates == {"arrives", "lost", "twice", "overtakes"}

Travels(q, d, fate) ==
  CASE fate = "arrives"   -> Append(q, d)
    [] fate = "lost"      -> q
    [] fate = "twice"     -> q \o <<d, d>>
    [] fate = "overtakes" -> SubSeq(q, 1, Len(q) - 1) \o <<d, q[Len(q)]>>

Meets(fate, q) ==
  /\ fate = "overtakes" => q # <<>>
  /\ lost' = IF fate = "lost" THEN lost + 1 ELSE lost
  /\ disturbed' = IF fate \in {"twice", "overtakes"} THEN disturbed + 1 ELSE disturbed
  /\ lost' + disturbed' <= MaxFaults

-----------------------------------------------------------------------------
\* Receiving, on both sides

\* The header is read as hexadecimal up to the first blank.  Eight bytes of
\* data received in its place are "22 seria", the start of every text archive:
\* no error, but 0x22.  The mutant does not resize the buffer.
Announced(d) == IF d.kind = "header" THEN d.size ELSE 34
HeaderRoom(d) == 8
Room(d) == Reparsed(Announced(d))

\* The receiver x (a client or the server) has a buffer of length x.buffer, of
\* which the first x.held bytes came with messages and the rest are zeros.
\* resize cuts off what is behind its end.
Kept(x, length) == IF x.held <= length THEN x.held ELSE length

\* A string is read to its announced length.  A number at the end of an archive
\* is read on as long as there are digits, and behind it may be some of an
\* earlier, longer message's.
ReadsOn(x, d) == EndsInNumber /\ d.kind = "data" /\ d.size < x.held

\* What boost makes of the second datagram: a header has no archive signature,
\* and of a truncated archive it depends on what is missing.  A number that is
\* read on is right if no digit follows, wrong, or too large.  The mutant
\* accepts only what fills the buffer.
DecodedWhole(x, d) ==
  IF d.kind = "header" \/ d.size # x.buffer THEN {Failure} ELSE {d.body}

Decoded(x, d) ==
  IF d.kind = "header" THEN {Failure}
  ELSE IF d.size > x.buffer THEN {Damaged, Failure}
  ELSE IF ReadsOn(x, d) THEN {d.body, Damaged, Failure}
  ELSE {d.body}

\* What the buffer holds of this message and earlier ones, and whether the
\* archive's end was looked for among them.
HeldAfter(x, d) ==
  IF d.size <= x.held THEN x.held ELSE IF d.size <= x.buffer THEN d.size ELSE x.buffer

Decodes(x, d) == stale' = (stale \/ ReadsOn(x, d)) /\ UNCHANGED <<overlap, split, tooLong>>

-----------------------------------------------------------------------------
\* The clients

InCall(c) == client[c].pc \in {"data", "reply", "buffer"}

SetServer(c) ==
  /\ client[c].pc = "unset"
  /\ client' = [client EXCEPT ![c].pc = "idle"]
  /\ UNCHANGED <<server, slot, threads, handled, sockets, faults, history>>

\* sendMessage without a server: exit(30).
Refuse(c) ==
  /\ client[c].pc = "unset"
  /\ client' = [client EXCEPT ![c].pc = "refused"]
  /\ UNCHANGED <<server, slot, threads, handled, sockets, faults, history>>

\* The two send_to of sendMessage.
Begun(x, s) == [x EXCEPT !.pc = "data", !.calls = x.calls + 1, !.size = s, !.reply = None]

SendHeader(c) ==
  /\ client[c].pc = "idle"
  /\ client[c].calls < MaxCalls
  /\ \E s \in Sizes, fate \in Fates :
       /\ Meets(fate, toServer)
       /\ toServer' = Travels(toServer, Header(c, s), fate)
       /\ client' = [client EXCEPT ![c] = Begun(@, s)]
  /\ overlap' = (overlap \/ \E d \in Clients \ {c} : InCall(d))
  /\ split' = (split \/ \E d \in Clients \ {c} : client[d].pc = "data")
  /\ UNCHANGED <<server, slot, threads, handled, toClient, stale, tooLong>>

Called(c) == <<c, client[c].calls>>

SendData(c) ==
  /\ client[c].pc = "data"
  /\ client[c].size <= MaxDatagram
  /\ \E fate \in Fates :
       /\ Meets(fate, toServer)
       /\ toServer' = Travels(toServer, Data(c, client[c].size, Called(c)), fate)
  /\ client' = [client EXCEPT ![c].pc = "reply"]
  /\ UNCHANGED <<server, slot, threads, handled, toClient, history>>

\* The second send_to throws, the header is on its way: the caller, if it
\* catches that, may call again.
DataTooLong(c) ==
  /\ client[c].pc = "data"
  /\ client[c].size > MaxDatagram
  /\ client' = [client EXCEPT ![c].pc = "idle"]
  /\ tooLong' = TRUE
  /\ UNCHANGED <<server, slot, threads, handled, sockets, faults, overlap, split, stale>>

\* The two receives of getReply, which wait for ever and take anything.
Resized(x, length) == [x EXCEPT !.buffer = length, !.held = Kept(x, length)]

GetReplyHeader(c) ==
  /\ client[c].pc = "reply"
  /\ toClient[c] # <<>>
  /\ client' = [client EXCEPT ![c] = [Resized(@, Room(Head(toClient[c]))) EXCEPT !.pc = "buffer"]]
  /\ toClient' = [toClient EXCEPT ![c] = Tail(@)]
  /\ UNCHANGED <<server, slot, threads, handled, toServer, faults, history>>

GetReplyData(c) ==
  /\ client[c].pc = "buffer"
  /\ toClient[c] # <<>>
  /\ \E m \in Decoded(client[c], Head(toClient[c])) :
       client' = [client EXCEPT ![c] =
                    IF m = Failure
                      THEN [@ EXCEPT !.pc = "exited"]
                      ELSE [@ EXCEPT !.pc = "idle", !.reply = m,
                                     !.held = HeldAfter(client[c], Head(toClient[c]))]]
  /\ Decodes(client[c], Head(toClient[c]))
  /\ toClient' = [toClient EXCEPT ![c] = Tail(@)]
  /\ UNCHANGED <<server, slot, threads, handled, toServer, faults>>

Client(c) == SetServer(c) \/ Refuse(c) \/ SendHeader(c) \/ SendData(c) \/ DataTooLong(c)
             \/ GetReplyHeader(c) \/ GetReplyData(c)

-----------------------------------------------------------------------------
\* The server

\* receive_from: whoever sent the header is whom the reply is for.
ReceiveHeader ==
  /\ server.at = "header"
  /\ toServer # <<>>
  /\ server' = [Resized(server, Room(Head(toServer))) EXCEPT
                  !.at = "data", !.endpoint = Head(toServer).from]
  /\ toServer' = Tail(toServer)
  /\ UNCHANGED <<client, slot, threads, handled, toClient, faults, history>>

\* receive: the data is whatever comes next, from anyone.  A message that
\* cannot be decoded ends the process, exit(34); otherwise the loop stores the
\* pair in clientMessage and gives a detached thread a copy of the message and
\* a reference to the endpoint, which the next round overwrites in place.
Spawned(m) == [id |-> Len(handled) + 1, body |-> m, at |-> "header", size |-> 0]

ReceiveData ==
  /\ server.at = "data"
  /\ toServer # <<>>
  /\ \E m \in Decoded(server, Head(toServer)) :
       IF m = Failure
         THEN /\ server' = [server EXCEPT !.at = "exited"]
              /\ threads' = {}
              /\ UNCHANGED <<slot, handled>>
         ELSE /\ server' = [server EXCEPT !.at = "header", !.held = HeldAfter(server, Head(toServer))]
              /\ slot' = server.endpoint
              /\ threads' = threads \union {Spawned(m)}
              /\ handled' = Append(handled, m)
  /\ Decodes(server, Head(toServer))
  /\ toServer' = Tail(toServer)
  /\ UNCHANGED <<client, toClient, faults>>

\* _handleRequest: the handler's return, of any size, in two send_to, each of
\* which reads the endpoint through the reference.
SendReplyHeader(t) ==
  /\ t.at = "header"
  /\ \E s \in Sizes, fate \in Fates :
       /\ Meets(fate, toClient[slot])
       /\ toClient' = [toClient EXCEPT ![slot] = Travels(@, Header(None, s), fate)]
       /\ threads' = (threads \ {t}) \union {[t EXCEPT !.at = "data", !.size = s]}
  /\ UNCHANGED <<client, server, slot, handled, toServer, history>>

\* The mutant sends the data again and again.
ReplyDataAgain(t) ==
  /\ t.at = "data"
  /\ \E fate \in Fates :
       /\ Meets(fate, toClient[slot])
       /\ toClient' = [toClient EXCEPT ![slot] = Travels(@, Data(None, t.size, t.body), fate)]
  /\ UNCHANGED <<client, server, slot, threads, handled, toServer, history>>

SendReplyData(t) ==
  /\ t.at = "data"
  /\ t.size <= MaxDatagram
  /\ \E fate \in Fates :
       /\ Meets(fate, toClient[slot])
       /\ toClient' = [toClient EXCEPT ![slot] = Travels(@, Data(None, t.size, t.body), fate)]
  /\ threads' = threads \ {t}
  /\ UNCHANGED <<client, server, slot, handled, toServer, history>>

\* The second send_to throws in a detached thread, where nothing catches it:
\* the process is terminated.
ReplyTooLong(t) ==
  /\ t.at = "data"
  /\ t.size > MaxDatagram
  /\ server' = [server EXCEPT !.at = "exited"]
  /\ threads' = {}
  /\ tooLong' = TRUE
  /\ UNCHANGED <<client, slot, handled, sockets, faults, overlap, split, stale>>

Loop   == ReceiveHeader \/ ReceiveData
Thread == \E t \in threads : SendReplyHeader(t) \/ SendReplyData(t) \/ ReplyTooLong(t)
Next   == Loop \/ Thread \/ \E c \in Clients : Client(c)

Spec == Init /\ [][Next]_vars

\* The loop and the threads run, and a client in a call goes on with it.
Fairness ==
  /\ WF_vars(Loop)
  /\ WF_vars(Thread)
  /\ \A c \in Clients :
       WF_vars(SendData(c) \/ DataTooLong(c) \/ GetReplyHeader(c) \/ GetReplyData(c))

FairSpec == Spec /\ Fairness

-----------------------------------------------------------------------------
\* Properties

\* A message that is too long for a datagram, or a number that stands before
\* what an earlier message left, takes every promise away: the first leaves a
\* header, or no server, behind; of the second anything may be read.
Sound == ~stale /\ ~tooLong

\* One client at a time, on a network that may lose datagrams and does not
\* reorder or duplicate them.
Serial == ~overlap /\ disturbed = 0 /\ Sound

\* Then a reply is the handler's return for the very message it replies to,
\* whatever is lost, although halves of messages are paired by order alone and
\* the endpoint is read through a dangling reference (ImplementsCallService has it).
SerialReplies ==
  Serial => \A c \in Clients : client[c].reply \in {None, Called(c)}

\* And neither side ends in exit(31) or exit(34): a half that stands alone is
\* misread, and leaves its receiver waiting, but is never followed by another.
SerialNeverExits ==
  Serial => server.at # "exited" /\ \A c \in Clients : client[c].pc # "exited"

\* Calls of several clients may overlap without harm to the server as long as
\* nobody's header falls between the halves of another's message and nothing
\* is lost: it never takes a header for data, nor misreads a message.
IntactPairsKeepServerUp ==
  lost = 0 /\ disturbed = 0 /\ ~split /\ Sound =>
    /\ server.at # "exited"
    /\ \A t \in threads : t.body # Damaged

\* A client whose call is the only one, and loses no datagram, gets its reply.
SerialAnswered ==
  \A c \in Clients :
    InCall(c) ~> (client[c].pc = "idle" \/ overlap \/ disturbed > 0 \/ lost > 0 \/ ~Sound)

\* Such calls are remote calls that run at most once: the handler gets a message
\* once however its halves and those of its answer are paired, in the order of
\* the calls, and a call returns only after that and with the answer to it.
Service == INSTANCE CallService
            WITH waiting <- {c \in Clients : InCall(c)},
                 made <- [c \in Clients |-> client[c].calls],
                 got <- [c \in Clients |-> client[c].reply],
                 broken <- ~Serial

ImplementsCallService == Service!Spec

\* "the return is the reply" (tests/test_1_source_code/servUdp.cpp): whatever
\* a client gets is the handler's return for its message.  Violated: two calls
\* that overlap are enough.
ReturnIsTheReply ==
  \A c \in Clients : client[c].reply \in {None, Called(c)}
=============================================================================
