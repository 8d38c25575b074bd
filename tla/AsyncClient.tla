---------------------------- MODULE AsyncClient ----------------------------
(***************************************************************************)
(* uti::network::ClientTcpAsyncWrapper.  Two threads are in it: the user's,*)
(* which connects, sends and destroys, and the one connectToHost starts,   *)
(* which runs the io_context and answers what the server says.  Both call  *)
(* sendMessage, and share _messagesToSend without a lock.                  *)
(***************************************************************************)
EXTENDS AsyncStream

CONSTANTS
  User, Io,        \* the threads
  Script,          \* the texts the user sends, in order
  ClientReplies,   \* _handleMessageReceived, where it is not the empty string
  ChunkSize        \* 128, the size of _buf

Threads == {User, Io}

ASSUME ClientAssumption ==
  /\ User # Io
  /\ ChunkSize \in Nat \ {0}
  /\ Script \in Seq(Text)
  /\ \A m \in DOMAIN ClientReplies : ClientReplies[m] \in Text

VARIABLES
  pc,         \* where each thread is
  next,       \* the index in Script of what the user sends next
  posted,     \* an async_read_some is outstanding
  connected,  \* _connected
  queue,      \* _messagesToSend
  text,       \* the text a thread is in sendMessage with
  busy,       \* its write_in_progress
  tokens,     \* what _handleRead has still to hand to the handler
  open,       \* the client has not closed _socket
  \* history
  accepted,   \* the texts pushed on the queue, in order
  written,    \* the texts written, in order
  seen,       \* the messages handed to the handler
  clash,      \* both threads have been inside sendMessage at once
  torn,       \* write_some has written a part, and the rest is lost
  split       \* a read has ended inside a line

memory == <<queue, text, busy>>
past   == <<accepted, written, seen, clash, torn, split>>
client == <<pc, next, posted, connected, memory, tokens, open, past>>

Sending == {"empty", "push", "write", "pop"}
UserPCs == {"new", "post", "flag", "idle", "join", "gone"} \union Sending
IoPCs   == {"none", "run", "wait", "handle", "returned"} \union Sending

ClientTypeOK ==
  /\ pc \in [Threads -> UserPCs \union IoPCs]
  /\ pc[User] \in UserPCs /\ pc[Io] \in IoPCs
  /\ next \in Nat
  /\ posted \in BOOLEAN /\ connected \in BOOLEAN /\ open \in BOOLEAN
  /\ queue \in Seq(Text)
  /\ text \in [Threads -> Seq(Chars)]
  /\ busy \in [Threads -> BOOLEAN]
  /\ tokens \in Seq(Seq(Chars \union {Junk}))
  /\ accepted \in Seq(Text) /\ written \in Seq(Text)
  /\ seen \in Seq(Seq(Chars \union {Junk}))
  /\ clash \in BOOLEAN /\ torn \in BOOLEAN /\ split \in BOOLEAN

ClientInit ==
  /\ pc = [t \in Threads |-> IF t = User THEN "new" ELSE "none"]
  /\ next = 1
  /\ posted = FALSE /\ connected = FALSE /\ open = TRUE
  /\ queue = <<>>
  /\ text = [t \in Threads |-> <<>>]
  /\ busy = [t \in Threads |-> FALSE]
  /\ tokens = <<>>
  /\ accepted = <<>> /\ written = <<>>
  /\ seen = <<>>
  /\ clash = FALSE /\ torn = FALSE /\ split = FALSE

Goto(t, where) == pc' = [pc EXCEPT ![t] = where]
Other(t) == IF t = User THEN Io ELSE User
\* Where a thread goes on after sendMessage.
Back(t) == IF t = User THEN "idle" ELSE "handle"

\* The process ends: the kernel closes the connection with an end of file, or
\* with a reset if something has arrived that the client has not read.  A reset
\* that follows an end of file changes nothing of what the server's calls return.
Disconnect ==
  /\ peer' = "gone"
  /\ dn' = <<>>
  /\ reset' \in IF dn = <<>> THEN {reset} ELSE {reset, "coming"}
  /\ UNCHANGED <<up, host>>

Gone == Disconnect /\ UNCHANGED client

-----------------------------------------------------------------------------
\* connectToHost.  The thread is started before there is anything to run.

Connect ==
  /\ pc[User] = "new" /\ host = "there"
  /\ peer' = "there"
  /\ pc' = [pc EXCEPT ![User] = "post", ![Io] = "run"]
  /\ UNCHANGED <<up, dn, host, reset, next, posted, connected, memory, tokens, open, past>>

Post ==
  /\ pc[User] = "post"
  /\ posted' = TRUE
  /\ Goto(User, "flag")
  /\ UNCHANGED <<stream, next, connected, memory, tokens, open, past>>

SetConnected ==
  /\ pc[User] = "flag"
  /\ connected' = TRUE
  /\ Goto(User, "idle")
  /\ UNCHANGED <<stream, next, posted, memory, tokens, open, past>>

\* io_context::run returns at once when no work is outstanding.
Run ==
  /\ pc[Io] = "run"
  /\ Goto(Io, IF posted THEN "wait" ELSE "returned")
  /\ UNCHANGED <<stream, next, posted, connected, memory, tokens, open, past>>

-----------------------------------------------------------------------------
\* sendMessage and _do_write, one access to shared memory at a time

\* The first test of sendMessage: nothing is sent, or said, before _connected.
Enter(t, what) ==
  /\ IF connected
       THEN /\ Goto(t, "empty")
            /\ clash' = (clash \/ pc[Other(t)] \in Sending)
       ELSE Goto(t, Back(t)) /\ UNCHANGED clash
  /\ text' = [text EXCEPT ![t] = what]

\* write_in_progress = !_messagesToSend.empty()
TestEmpty(t) ==
  /\ pc[t] = "empty"
  /\ busy' = [busy EXCEPT ![t] = queue # <<>>]
  /\ Goto(t, "push")
  /\ UNCHANGED <<stream, next, posted, connected, queue, text, tokens, open, past>>

Push(t) ==
  /\ pc[t] = "push"
  /\ queue' = Append(queue, text[t])
  /\ accepted' = Append(accepted, text[t])
  /\ Goto(t, IF busy[t] THEN Back(t) ELSE "write")
  /\ UNCHANGED <<stream, next, posted, connected, text, busy, tokens, open, written,
                 seen, clash, torn, split>>

\* write_some returns once it has written something, and may yet be written to a
\* server that is gone.
WriteSome(t) ==
  /\ pc[t] = "write"
  /\ open /\ Len(up) < Room
  /\ LET line == Line(Head(queue))
         n    == Fits(up, line)
     IN  /\ up' = up \o First(n, line)
         /\ torn' = (torn \/ n < Len(line))
  /\ written' = Append(written, Head(queue))
  /\ Goto(t, "pop")
  /\ UNCHANGED <<dn, peer, host, reset, next, posted, connected, memory, tokens, open,
                 accepted, seen, clash, split>>

\* write_some throws.  The user's thread catches it outside of the wrapper and
\* what it wanted to write stays in the queue; nobody catches it on the other.
WriteThrows(t) ==
  /\ pc[t] = "write"
  /\ ~open \/ host = "gone"
  /\ IF t = User
       THEN Goto(User, "idle") /\ UNCHANGED <<stream, next, posted, connected, memory,
                                              tokens, open, past>>
       ELSE Gone

\* The mutant keeps what has been written.
NotPopped(q) == q
Popped(q)    == Tail(q)

Pop(t) ==
  /\ pc[t] = "pop"
  /\ queue' = Popped(queue)
  /\ Goto(t, Back(t))
  /\ UNCHANGED <<stream, next, posted, connected, text, busy, tokens, open, past>>

\* Two threads inside sendMessage, one of which changes the queue: a data race,
\* which may also end the process.
Corrupt ==
  /\ \E t \in Threads : pc[t] \in {"push", "pop"} /\ pc[Other(t)] \in Sending
  /\ Gone

SendStep(t) == TestEmpty(t) \/ Push(t) \/ WriteSome(t) \/ WriteThrows(t) \/ Pop(t)

-----------------------------------------------------------------------------
\* The thread of io_context::run

\* _handleRead with a chunk of at most ChunkSize characters.
HandleRead ==
  /\ pc[Io] = "wait" /\ posted
  /\ \E n \in Amounts(dn, ChunkSize) :
       /\ tokens' = Tokens(First(n, dn))
       /\ split' = (split \/ dn[n] # Newline)
       /\ dn' = Rest(n, dn)
  /\ posted' = FALSE
  /\ Goto(Io, "handle")
  /\ UNCHANGED <<up, peer, host, reset, next, connected, memory, open, accepted, written,
                 seen, clash, torn>>

\* The loop over the messages of the chunk: the handler, and its reply.
Handle ==
  /\ pc[Io] = "handle" /\ tokens # <<>>
  /\ tokens' = Tail(tokens)
  /\ seen' = Append(seen, Head(tokens))
  /\ IF Head(tokens) \in DOMAIN ClientReplies
       THEN Enter(Io, ClientReplies[Head(tokens)])
       ELSE UNCHANGED <<pc, text, clash>>
  /\ UNCHANGED <<stream, next, posted, connected, queue, busy, open, accepted, written,
                 torn, split>>

\* The read is posted again.  The mutant returns without, as if it were the
\* reply that kept the connection going.
NotRearmed == FALSE
Rearmed    == TRUE

Rearm ==
  /\ pc[Io] = "handle" /\ tokens = <<>>
  /\ posted' = Rearmed
  /\ Goto(Io, "wait")
  /\ UNCHANGED <<stream, next, connected, memory, tokens, open, past>>

\* End of file: the socket is closed, nothing is posted, and run returns.
EndOfFile ==
  /\ pc[Io] = "wait" /\ posted
  /\ host = "gone" /\ dn = <<>>
  /\ open' = FALSE /\ posted' = FALSE
  /\ Goto(Io, "returned")
  /\ UNCHANGED <<stream, next, connected, memory, tokens, past>>

\* Any other error is thrown on the thread, where nobody catches it: a server
\* that ends with something unread resets the connection.
ReadFails ==
  /\ pc[Io] = "wait" /\ posted
  /\ host = "gone" /\ up # <<>>
  /\ Gone

IoStep == Run \/ HandleRead \/ Handle \/ Rearm \/ EndOfFile \/ ReadFails \/ SendStep(Io)

-----------------------------------------------------------------------------
\* The user's program

Send ==
  /\ pc[User] = "idle" /\ next <= Len(Script)
  /\ next' = next + 1
  /\ Enter(User, Script[next])
  /\ UNCHANGED <<stream, posted, connected, queue, busy, tokens, open, accepted, written,
                 seen, torn, split>>

Destroy ==
  /\ pc[User] = "idle"
  /\ Goto(User, "join")
  /\ UNCHANGED <<stream, next, posted, connected, memory, tokens, open, past>>

\* The destructor waits for the thread; then _socket is destroyed.
Join ==
  /\ pc[User] = "join" /\ pc[Io] = "returned"
  /\ Goto(User, "gone")
  /\ Disconnect
  /\ UNCHANGED <<next, posted, connected, memory, tokens, open, past>>

Killed == peer = "there" /\ Gone

UserStep == Post \/ SetConnected \/ SendStep(User) \/ Join

ClientNext ==
  /\ peer # "gone"
  /\ Connect \/ UserStep \/ IoStep \/ Send \/ Destroy \/ Corrupt \/ Killed
=============================================================================
