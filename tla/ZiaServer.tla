----------------------------- MODULE ZiaServer ------------------------------
(***************************************************************************)
(* The zia HTTP server: the accept loop of ServerTcpMultiThreadWrapper on  *)
(* the main thread, the detached threads running _handleRequest, the       *)
(* pipeline each of them runs through ProtocolHandler, and the two modules *)
(* in it.  The SSL module keeps the session of "the client" in one member  *)
(* that every thread reads and the main thread overwrites.                 *)
(*                                                                         *)
(* Every client connects once, so that a connection names its client, its  *)
(* element of _sockets, its handler thread and its SSL session.            *)
(***************************************************************************)
EXTENDS Context, Sequences

CONSTANTS
  Conns,       \* the connections clients open, one each
  TlsConns,    \* those whose client speaks TLS; the others speak plain HTTP
  Impatient,   \* those whose client may hang up at any time
  Fds,         \* the file descriptors left to the process
  Modules,     \* the module libraries found in ../lib
  Main,        \* the main thread
  None         \* no connection, no session

ASSUME ServerAssumption ==
  /\ TlsConns \subseteq Conns
  /\ Impatient \subseteq Conns
  /\ Fds \subseteq Nat \ {0}
  /\ Modules \subseteq {"SSL", "HTTP"}
  /\ Main \notin Conns
  /\ None \notin Conns

NoFd    == 0
Threads == Conns \union {Main}

VARIABLES
  \* the kernel and the clients
  conn,      \* "away", "queued" (in the listen backlog), "accepted", "closed"
  backlog,   \* connections the kernel has ready for accept, oldest first
  owner,     \* the connection an open descriptor refers to
  sent,      \* the last thing the client has sent: "nothing", "hello", "request"
  unread,    \* what it sent is waiting in the socket
  left,      \* the clients that have hung up
  replies,   \* the replies that reached each client: who wrote them, and under
             \* which SSL session (None: in clear)
  \* the main thread
  reserved,  \* the descriptor the pending accept call will use
  sockets,   \* _sockets, without the last element while it is not accepted into
  current,   \* the connection in _sockets.back(), None before accept returns
  \* every socket object and every thread
  fd,        \* native_handle() of the connection's socket, NoFd once closed
  pc,        \* what the thread is doing
  ctx,       \* the oZ::Context it is running through the pipeline
  loaded,    \* the session its SSL_write call was given
  file,      \* the descriptor it has index.html open on, NoFd if none
  \* the SSL module
  session,   \* the SSL object made for a connection: its descriptor, its state
  ssl,       \* _ssl_per_client
  \* the process
  down,      \* why the process is gone, or "no"
  overlap    \* history: handlers that a newer SSL_new has overtaken

kernel == <<conn, backlog, owner, sent, unread, left, replies>>
module == <<session, ssl, overlap>>
loop   == <<reserved, sockets, current>>
server == <<loop, fd, pc, ctx, loaded, file, module, down>>
vars   == <<kernel, server>>

Reasons == {"BeforeParse", "Interpret", "AfterInterpret", "Completed"}
PCs     == {"none", "call", "accept", "run", "handshake", "receive", "spawn",
            "file", "write", "respond", "close", "done"}
Causes  == {"no", "descriptors", "eof", "missing header", "signal", "race"}

CtxType     == [state : State, reason : Reasons, header : BOOLEAN]
SessionType == [fd : Fds \union {NoFd}, status : {"none", "new", "open", "failed"}]
Reply       == [by : Threads, via : Conns \union {None}]

TypeOK ==
  /\ conn \in [Conns -> {"away", "queued", "accepted", "closed"}]
  /\ backlog \in Seq(Conns)
  /\ owner \in [Fds -> Conns \union {None}]
  /\ sent \in [Conns -> {"nothing", "hello", "request"}]
  /\ unread \in [Conns -> BOOLEAN]
  /\ left \subseteq Conns
  /\ replies \in [Conns -> SUBSET Reply]
  /\ reserved \in Fds \union {NoFd}
  /\ sockets \in Seq(Conns)
  /\ current \in Conns \union {None}
  /\ fd \in [Conns -> Fds \union {NoFd}]
  /\ pc \in [Threads -> PCs]
  /\ ctx \in [Threads -> CtxType]
  /\ loaded \in [Threads -> Conns \union {None}]
  /\ file \in [Threads -> Fds \union {NoFd}]
  /\ session \in [Conns -> SessionType]
  /\ ssl \in Conns \union {None}
  /\ down \in Causes
  /\ overlap \subseteq Conns

NewCtx(s, why) == [state |-> s, reason |-> why, header |-> FALSE]

Init ==
  /\ conn = [c \in Conns |-> "away"]
  /\ backlog = <<>>
  /\ owner = [f \in Fds |-> None]
  /\ sent = [c \in Conns |-> "nothing"]
  /\ unread = [c \in Conns |-> FALSE]
  /\ left = {}
  /\ replies = [c \in Conns |-> {}]
  /\ reserved = NoFd
  /\ sockets = <<>>
  /\ current = None
  /\ fd = [c \in Conns |-> NoFd]
  /\ pc = [t \in Threads |-> IF t = Main THEN "call" ELSE "none"]
  /\ ctx = [t \in Threads |-> NewCtx(BeforeParse, "BeforeParse")]
  /\ loaded = [t \in Threads |-> None]
  /\ file = [t \in Threads |-> NoFd]
  /\ session = [c \in Conns |-> [fd |-> NoFd, status |-> "none"]]
  /\ ssl = None
  /\ down = "no"
  /\ overlap = {}

Goto(t, where) == pc' = [pc EXCEPT ![t] = where]

\* The process disappears: an exception no one catches, a signal, a crash.
GoDown(cause) ==
  /\ down' = cause
  /\ UNCHANGED <<kernel, loop, fd, pc, ctx, loaded, file, module>>

-----------------------------------------------------------------------------
\* Clients

Connect(c) ==
  /\ conn[c] = "away"
  /\ conn' = [conn EXCEPT ![c] = "queued"]
  /\ backlog' = Append(backlog, c)
  /\ UNCHANGED <<owner, sent, unread, left, replies, server>>

\* A TLS client opens with its hello and sends the request once the handshake
\* is over; a plain one sends the request at once.
SendFirst(c) ==
  /\ conn[c] \in {"queued", "accepted"}
  /\ c \notin left
  /\ sent[c] = "nothing"
  /\ sent' = [sent EXCEPT ![c] = IF c \in TlsConns THEN "hello" ELSE "request"]
  /\ unread' = [unread EXCEPT ![c] = TRUE]
  /\ UNCHANGED <<conn, backlog, owner, left, replies, server>>

SendRequest(c) ==
  /\ conn[c] = "accepted"
  /\ c \notin left
  /\ sent[c] = "hello"
  /\ session[c].status = "open"
  /\ sent' = [sent EXCEPT ![c] = "request"]
  /\ unread' = [unread EXCEPT ![c] = TRUE]
  /\ UNCHANGED <<conn, backlog, owner, left, replies, server>>

HangUp(c) ==
  /\ c \in Impatient
  /\ conn[c] \in {"queued", "accepted"}
  /\ c \notin left
  /\ left' = left \union {c}
  /\ UNCHANGED <<conn, backlog, owner, sent, unread, replies, server>>

Client(c) == Connect(c) \/ SendFirst(c) \/ SendRequest(c) \/ HangUp(c)

-----------------------------------------------------------------------------
\* The main thread: turnOn

\* The descriptors of the table nothing stands behind: neither a connection,
\* nor an index.html some handler reads, nor the accept call.
FreeFds   == {f \in Fds \ {reserved} : owner[f] = None /\ \A t \in Threads : file[t] # f}
Lowest(f) == f \in FreeFds /\ \A g \in FreeFds : f <= g

\* accept(2) takes the lowest free descriptor before it waits for a client;
\* without one it fails, and the exception of acceptor.accept leaves turnOn.
CallAccept ==
  /\ pc[Main] = "call"
  /\ IF FreeFds = {}
       THEN GoDown("descriptors")
       ELSE /\ \E f \in FreeFds : Lowest(f) /\ reserved' = f
            /\ Goto(Main, "accept")
            /\ UNCHANGED <<kernel, sockets, current, fd, ctx, loaded, file, module, down>>

\* accept returns a connection in _sockets.back(); onAccept makes a context.
Accept ==
  /\ pc[Main] = "accept"
  /\ backlog # <<>>
  /\ LET c == Head(backlog) IN
       /\ current' = c
       /\ sockets' = Append(sockets, c)
       /\ conn' = [conn EXCEPT ![c] = "accepted"]
       /\ owner' = [owner EXCEPT ![reserved] = c]
       /\ fd' = [fd EXCEPT ![c] = reserved]
  /\ backlog' = Tail(backlog)
  /\ reserved' = NoFd
  /\ ctx' = [ctx EXCEPT ![Main] = NewCtx(BeforeParse, "BeforeParse")]
  /\ Goto(Main, "run")
  /\ UNCHANGED <<sent, unread, left, replies, loaded, file, module, down>>

\* getIncomingClientMessage, in TEXT mode: one receive, which waits for bytes
\* and throws on end of file.  Nobody catches it.
Receive ==
  /\ pc[Main] = "receive"
  /\ \/ /\ unread[current]
        /\ unread' = [unread EXCEPT ![current] = FALSE]
        /\ Goto(Main, "spawn")
        /\ UNCHANGED <<conn, backlog, owner, sent, left, replies, loop, fd, ctx,
                       loaded, file, module, down>>
     \/ /\ ~unread[current] /\ current \in left
        /\ GoDown("eof")

\* The detached thread gets a reference to _sockets.back() and its copy of the
\* request, and the loop pushes the next socket (the mutant does not).
\* onPacketReceived makes the thread's context.
SameSocket == current
NextSocket == None

Spawn ==
  /\ pc[Main] = "spawn"
  /\ pc' = [pc EXCEPT ![Main] = "call", ![current] = "run"]
  /\ ctx' = [ctx EXCEPT ![current] = NewCtx(Interpret, "Interpret")]
  /\ current' = NextSocket
  /\ UNCHANGED <<kernel, reserved, sockets, fd, loaded, file, module, down>>

-----------------------------------------------------------------------------
\* runPipeline, one triggering at a time, with the callbacks of the modules

\* The connection a thread works for.
Served(t) == IF t = Main THEN current ELSE t

\* SSL registers for BeforeParse and AfterInterpret, HTTP for Interpret, and
\* each callback acts only on a context whose reason is the one it waits for.
\* The mutants: a session made for the first client only, an _onAfterInterpret
\* that does not look at the reason, or is registered for Interpret.
Calls(m, x, s, why) == m \in Modules /\ x.state = s /\ x.reason = why

WantsOneHandshake(x) == ssl = None /\ Calls("SSL", x, BeforeParse, "BeforeParse")
WantsHandshake(x)    == Calls("SSL", x, BeforeParse, "BeforeParse")
WantsResponse(x)     == Calls("HTTP", x, Interpret, "Interpret")
WantsAnyWrite(x)     == "SSL" \in Modules /\ x.state = AfterInterpret
WantsEarlyWrite(x)   == Calls("SSL", x, Interpret, "AfterInterpret")
WantsWrite(x)        == Calls("SSL", x, AfterInterpret, "AfterInterpret")

\* The callbacks of a state have left the context as x: nextState, or the end
\* of runPipeline.  No module registers for Error.
Continue(t, x) ==
  /\ ctx' = [ctx EXCEPT ![t] = [x EXCEPT !.state = Advanced(@)]]
  /\ Goto(t, IF CanAdvance(x.state) THEN "run"
             ELSE IF t = Main THEN "receive" ELSE "respond")

\* A triggering in which no callback does anything.
Pass(t) ==
  /\ pc[t] = "run"
  /\ ~WantsHandshake(ctx[t]) /\ ~WantsResponse(ctx[t]) /\ ~WantsWrite(ctx[t])
  /\ Continue(t, ctx[t])
  /\ UNCHANGED <<kernel, loop, fd, loaded, file, module, down>>

\* HTTP::_onInterpret up to the fstream of _createBodyToSend, which takes the
\* lowest free descriptor for index.html.  Nobody looks whether it could.
OpenFile(t) ==
  /\ pc[t] = "run"
  /\ WantsResponse(ctx[t])
  /\ \/ \E f \in FreeFds : Lowest(f) /\ file' = [file EXCEPT ![t] = f]
     \/ FreeFds = {} /\ UNCHANGED file
  /\ Goto(t, "file")
  /\ UNCHANGED <<kernel, loop, fd, ctx, loaded, module, down>>

\* The body is what was read, nothing if the file is not open; the file is
\* closed, the header set and the reason changed, whatever was read.
CreateResponse(t) ==
  /\ pc[t] = "file"
  /\ file' = [file EXCEPT ![t] = NoFd]
  /\ Continue(t, [ctx[t] EXCEPT !.reason = "AfterInterpret", !.header = TRUE])
  /\ UNCHANGED <<kernel, loop, fd, loaded, module, down>>

\* _onBeforeParse up to SSL_set_fd: the member is overwritten with the new
\* session, before anyone knows whether the handshake will succeed.
SslNew(t) ==
  /\ pc[t] = "run"
  /\ WantsHandshake(ctx[t])
  /\ ctx' = [ctx EXCEPT ![t].reason = "Interpret", ![t].state = Interpret]
  /\ session' = [session EXCEPT ![Served(t)] = [fd |-> fd[Served(t)], status |-> "new"]]
  /\ ssl' = Served(t)
  /\ overlap' = overlap \union {h \in Conns : pc[h] \in {"run", "file"}}
  /\ Goto(t, "handshake")
  /\ UNCHANGED <<kernel, loop, fd, loaded, file, down>>

\* SSL_accept returns: it needs the client's bytes or its departure, consumes
\* a hello, and fails on anything else (a plain request is longer than the
\* record header SSL_accept looks at, so that there is still some to receive).
\* The boolean _onBeforeParse returns ends a list it is alone in.
Hello(c) == unread[c] /\ sent[c] = "hello"

SslAccept(t) ==
  /\ pc[t] = "handshake"
  /\ LET c == Served(t) IN
       /\ unread[c] \/ c \in left
       /\ unread' = [unread EXCEPT ![c] = @ /\ ~Hello(c)]
       /\ session' = [session EXCEPT ![c].status =
                        IF Hello(c) /\ c \notin left THEN "open" ELSE "failed"]
  /\ Continue(t, ctx[t])
  /\ UNCHANGED <<conn, backlog, owner, sent, left, replies, loop, fd, loaded, file,
                 ssl, overlap, down>>

\* SSL_accept answers a hello with write(2) as well.
SslAcceptSignal(t) ==
  /\ pc[t] = "handshake"
  /\ Hello(Served(t)) /\ Served(t) \in left
  /\ GoDown("signal")

\* _onAfterInterpret up to the call of SSL_write: the reply is put together
\* (header.get throws on a missing field) and the member is read.
LoadSession(t) ==
  /\ pc[t] = "run"
  /\ WantsWrite(ctx[t])
  /\ IF ~ctx[t].header
       THEN GoDown("missing header")
       ELSE /\ loaded' = [loaded EXCEPT ![t] = ssl]
            /\ Goto(t, "write")
            /\ UNCHANGED <<kernel, loop, fd, ctx, file, module, down>>

\* The connection behind the descriptor the session was made for, by now: none
\* if it is closed, or some handler's index.html, which is open for reading.
Receiver(t) ==
  IF session[loaded[t]].status = "open" THEN owner[session[loaded[t]].fd] ELSE None

\* SSL_write returns and _onAfterInterpret declares the context completed.
EndWrite(t) ==
  /\ Continue(t, [ctx[t] EXCEPT !.reason = "Completed", !.state = Completed])
  /\ UNCHANGED <<conn, backlog, owner, sent, unread, left, loop, fd, loaded, file,
                 module, down>>

WriteReaches(t) ==
  /\ pc[t] = "write"
  /\ Receiver(t) \notin left \union {None}
  /\ replies' = [replies EXCEPT ![Receiver(t)] = @ \union {[by |-> t, via |-> loaded[t]]}]
  /\ EndWrite(t)

\* Errors of SSL_write are not looked at: no session, a descriptor closed in
\* the meantime, a client that has left.
WriteLost(t) ==
  /\ pc[t] = "write"
  /\ Receiver(t) \in left \union {None}
  /\ UNCHANGED replies
  /\ EndWrite(t)

\* OpenSSL writes with write(2), so that a connection the client has reset
\* raises SIGPIPE, which nothing in the program ignores.
WriteSignal(t) ==
  /\ pc[t] = "write"
  /\ Receiver(t) \in left
  /\ GoDown("signal")

\* SSL_write on an SSL object that another thread is inside SSL_accept or
\* SSL_write with is undefined: the write may go well, fail (WriteLost) or
\* corrupt the process.
Inside(u, s) ==
  \/ pc[u] = "write" /\ loaded[u] = s
  \/ pc[u] = "handshake" /\ Served(u) = s

WriteRace(t) ==
  /\ pc[t] = "write"
  /\ \E u \in Threads \ {t} : Inside(u, loaded[t])
  /\ GoDown("race")

RunStep(t) ==
  \/ Pass(t) \/ SslNew(t) \/ SslAccept(t) \/ SslAcceptSignal(t)
  \/ OpenFile(t) \/ CreateResponse(t) \/ LoadSession(t)
  \/ WriteReaches(t) \/ WriteLost(t) \/ WriteSignal(t) \/ WriteRace(t)

-----------------------------------------------------------------------------
\* The detached threads: the rest of onPacketReceived and _handleRequest

\* onPacketReceived returns "" for a completed context, and then nothing is
\* sent; otherwise the reply goes out in clear.  The mutant has the test the
\* wrong way round.
Unsent(x)  == ~isCompleted(x.state)
Settled(x) == isCompleted(x.state)

\* _handleRequest goes on to the close.  The mutant returns before it when
\* there is nothing to send.
LeftOpen(x)   == IF Settled(x) THEN "done" ELSE "close"
AfterReply(x) == "close"

Replied(t, new) ==
  /\ replies' = [replies EXCEPT ![t] = @ \union new]
  /\ Goto(t, AfterReply(ctx[t]))
  /\ UNCHANGED <<conn, backlog, owner, sent, unread, left, loop, fd, ctx, loaded,
                 file, module, down>>

\* _sendMessage, in TEXT mode: what is sent to a client that has left is lost,
\* or makes send throw, which nobody catches.
SendMessage(t) ==
  \/ Replied(t, IF t \in left THEN {} ELSE {[by |-> t, via |-> None]})
  \/ t \in left /\ GoDown("eof")

Respond(t) ==
  /\ pc[t] = "respond"
  /\ CASE Settled(ctx[t]) -> Replied(t, {})
       [] ~Settled(ctx[t]) /\ ctx[t].header -> SendMessage(t)
       [] OTHER -> GoDown("missing header")

\* socket.close().  The element stays in _sockets for ever.  The mutant closes
\* the native handle, and the socket object knows nothing of it.
StaleHandle(f)  == f
ClosedHandle(f) == NoFd

Close(t) ==
  /\ pc[t] = "close"
  /\ owner' = [owner EXCEPT ![fd[t]] = None]
  /\ fd' = [fd EXCEPT ![t] = ClosedHandle(@)]
  /\ conn' = [conn EXCEPT ![t] = "closed"]
  /\ Goto(t, "done")
  /\ UNCHANGED <<backlog, sent, unread, left, replies, loop, ctx, loaded, file,
                 module, down>>

MainStep   == CallAccept \/ Accept \/ RunStep(Main) \/ Receive \/ Spawn
Handler(c) == RunStep(c) \/ Respond(c) \/ Close(c)

Next ==
  /\ down = "no"
  /\ MainStep \/ \E c \in Conns : Handler(c) \/ Client(c)

Spec == Init /\ [][Next]_vars

\* The scheduler runs every thread, and the clients that are not Impatient
\* say what they came to say; an Impatient one may stay and say nothing.
Fairness ==
  /\ WF_vars(down = "no" /\ MainStep)
  /\ \A c \in Conns : WF_vars(down = "no" /\ Handler(c))
  /\ \A c \in Conns \ Impatient :
       WF_vars(down = "no" /\ (SendFirst(c) \/ SendRequest(c)))

FairSpec == Spec /\ Fairness

-----------------------------------------------------------------------------
\* Properties

\* The socket objects, the descriptor table and the pending accept agree: no
\* two open sockets share a descriptor, no handler works on one the kernel has
\* given to somebody else, the next connection gets one nobody holds, and what
\* a handler reads its index.html from is nothing else, and not kept open.
FilesApart ==
  \A t \in Threads : file[t] # NoFd =>
    /\ pc[t] = "file"
    /\ owner[file[t]] = None /\ file[t] # reserved
    /\ \A u \in Threads \ {t} : file[u] # file[t]

DescriptorsAgree ==
  /\ \A c \in Conns : fd[c] # NoFd => owner[fd[c]] = c
  /\ \A f \in Fds : owner[f] # None => fd[owner[f]] = f
  /\ reserved # NoFd => owner[reserved] = None
  /\ FilesApart

\* std::ref(_sockets.back()) handed to a detached thread: an accepted socket
\* has one user at a time, the accept loop until it spawns the handler and the
\* handler after that, and is open exactly as long as it has one.
OneUserPerSocket ==
  \A c \in Conns :
    /\ conn[c] = "accepted" <=> fd[c] # NoFd
    /\ conn[c] = "accepted" <=> (current = c \/ pc[c] \notin {"none", "done"})
    /\ conn[c] = "closed" <=> pc[c] = "done"
    /\ current = c => pc[c] = "none"

\* What it takes to bring the process down: a client that hangs up; a handler
\* that was overtaken and is inside SSL_write with a session of another client,
\* which the main thread is shaking hands with or another handler writes to; or
\* a table with an open connection or a handler's index.html on every
\* descriptor.  The missing header of an unanswered context, an uncaught
\* exception too, takes none of these and never happens.
DownOnlyFor ==
  /\ down # "missing header"
  /\ down \in {"eof", "signal"} => left # {}
  /\ down = "descriptors" =>
       \A f \in Fds : \/ owner[f] # None /\ conn[owner[f]] = "accepted"
                      \/ \E c \in Conns : file[c] = f /\ pc[c] = "file" /\ conn[c] = "accepted"
  /\ down = "race" =>
       \E t \in overlap : /\ pc[t] = "write" /\ loaded[t] # t
                          /\ \E u \in Threads \ {t} : Inside(u, loaded[t])

\* With the SSL module in the pipeline no reply is sent in clear: whatever the
\* interleaving, _onAfterInterpret settles the context of every handler and
\* _handleRequest has nothing to send.
NothingInClear ==
  "SSL" \in Modules =>
    \A c \in Conns : \A r \in replies[c] : r.via # None

Position(c) == CHOOSE i \in DOMAIN sockets : sockets[i] = c

\* _ssl_per_client is shared, and a handler may write to the session of another
\* client, or to a descriptor that was closed and given away since; but only to
\* the client of a connection accepted after its own.
ReplyNeverGoesBack ==
  \A c \in Conns : \A r \in replies[c] :
    Position(r.by) <= Position(c) /\ (r.via # None => Position(r.via) <= Position(c))

\* The one way to lose a reply: unless another handshake began between the
\* spawn of the handler and its SSL_write, a client that completed its own and
\* stayed has its reply, under its own session, by the time it is closed.
ServedUnlessOvertaken ==
  Modules = {"SSL", "HTTP"} =>
    \A c \in Conns :
      (conn[c] = "closed" /\ session[c].status = "open" /\ c \notin left \union overlap)
        => [by |-> c, via |-> c] \in replies[c]

\* Every queued client is served and closed, unless the process goes down or
\* the accept loop waits for ever for a client that says nothing and that no
\* one makes leave: a handshake or a receive waits for nobody else, and a
\* handler, once spawned, for nobody at all.
Silent == current \in Impatient /\ ~unread[current]

EveryoneServed ==
  \A c \in Conns :
    [](conn[c] = "queued" => <>(conn[c] = "closed" \/ down # "no" \/ []Silent))

\* The server is the service clients expect: first come, first admitted, one at
\* a time, and served concurrently after that.
Phase(c) ==
  CASE conn[c] = "accepted" -> IF current = c THEN "admitting" ELSE "serving"
    [] conn[c] = "queued" -> "waiting"
    [] OTHER -> conn[c]

Service == INSTANCE ConnectionService
             WITH phase <- [c \in Conns |-> Phase(c)], queue <- backlog, up <- (down = "no")

ImplementsService == Service!Spec

\* The reply a client receives is its own.  The code does not keep this.
OwnReplyOnly ==
  \A c \in Conns : \A r \in replies[c] : r.by = c
=============================================================================
