---------------------------- MODULE AsyncServer ----------------------------
(***************************************************************************)
(* uti::network::ServerTcpAsyncWrapper: one thread, inside turnOn, runs    *)
(* the handlers of the acceptor and of the connection, each to its end.    *)
(* Connections share nothing but that thread: the module follows one.      *)
(***************************************************************************)
EXTENDS AsyncStream

CONSTANTS
  Welcome,        \* _welcomeMessage, without its newline
  ServerReplies,  \* _handleMessageReceived, where it is not the empty string
  BufSize         \* 8192, the size of _buffer

ASSUME ServerAssumption ==
  /\ Welcome \in Text
  /\ \A m \in DOMAIN ServerReplies : ServerReplies[m] \in Text
  /\ BufSize \in Nat \ {0}

VARIABLES
  conn,     \* "none", "open", "ended" (handleRead has returned without a new read)
  buf,      \* _buffer up to its first '\0', as nothing ever clears it
  got,      \* the characters the read that is under way has put into it
  need,     \* how many complete it: 1 for async_read_some, then transfer_at_least(2)
  writes,   \* async_writes under way: what is left to write, and whether the
            \* buffer it is in is still there
  \* history
  heard,    \* the messages handed to the handler, but for those of end of file
  told,     \* the texts written, in order
  ragged,   \* a read has not been one line, or not all of the buffer
  cut       \* a write did not fit at once

server == <<conn, buf, got, need, writes, heard, told, ragged, cut>>

ServerTypeOK ==
  /\ conn \in {"none", "open", "ended"}
  /\ buf \in Seq(Chars \union {Newline}) /\ Len(buf) <= BufSize
  /\ got \in 0 .. BufSize
  /\ need \in {1, 2}
  /\ writes \in Seq([left : Seq(Chars \union {Newline}), safe : BOOLEAN])
  /\ heard \in Seq(Seq(Chars \union {Newline}))
  /\ told \in Seq(Text)
  /\ ragged \in BOOLEAN /\ cut \in BOOLEAN

ServerInit ==
  /\ conn = "none"
  /\ buf = <<>> /\ got = 0 /\ need = 1
  /\ writes = <<>>
  /\ heard = <<>> /\ told = <<>>
  /\ ragged = FALSE /\ cut = FALSE

-----------------------------------------------------------------------------
\* async_write writes what fits at once if no other write is waiting, and waits
\* for room with the rest.  A reply is a local of handleRead and the rest of it
\* is read after it is gone; the welcome is a member.
\* What is written to a client that is gone goes nowhere, and the pending error
\* goes to handleWrite, which does not look at it.
Spent == IF reset = "here" THEN "spent" ELSE reset

AsyncWrite(text, safe) ==
  IF peer = "gone"
    THEN /\ reset' = Spent
         /\ UNCHANGED <<dn, writes, told, cut>>
    ELSE LET line == Line(text)
             n    == IF writes = <<>> THEN Fits(dn, line) ELSE 0
         IN  /\ dn' = dn \o First(n, line)
             /\ writes' = IF n = Len(line) THEN writes
                          ELSE Append(writes, [left |-> Rest(n, line), safe |-> safe])
             /\ told' = Append(told, text)
             /\ cut' = (cut \/ n < Len(line))
             /\ UNCHANGED reset

\* _handleAccept: start posts the welcome and the first read.
Accept ==
  /\ conn = "none" /\ peer # "away"
  /\ conn' = "open"
  /\ AsyncWrite(Welcome, TRUE)
  /\ UNCHANGED <<up, peer, host, buf, got, need, heard, ragged>>

\* There is room again: the oldest write goes on, and behind the others if that
\* is not all of it.
WriteOn ==
  /\ peer = "there" /\ writes # <<>> /\ Len(dn) < Room
  /\ LET w == Head(writes)
         n == Fits(dn, w.left)
     IN  /\ dn' = dn \o IF w.safe THEN First(n, w.left) ELSE [i \in 1 .. n |-> Junk]
         /\ writes' = IF n = Len(w.left) THEN Tail(writes)
                      ELSE Append(Tail(writes), [w EXCEPT !.left = Rest(n, @)])
  /\ UNCHANGED <<up, peer, host, reset, conn, buf, got, need, heard, told, ragged, cut>>

\* A write that waits for room is given the pending error as well.
WriteFails ==
  /\ peer = "gone" /\ writes # <<>> /\ reset = "here"
  /\ writes' = Tail(writes)
  /\ reset' = Spent
  /\ UNCHANGED <<up, dn, peer, host, conn, buf, got, need, heard, told, ragged, cut>>

\* A message without the newlines it ends in.  The mutant leaves them.
Unstripped(s) == s
Stripped(s)   ==
  First(CHOOSE n \in 0 .. Len(s) : /\ n > 0 => s[n] # Newline
                                   /\ \A i \in n + 1 .. Len(s) : s[i] = Newline, s)

\* What handleRead does with the buffer, and the new read.  A reply is sent
\* unless it is empty.  The mutant reads again only when there was a reply.
OnlyAfterReply(message) == IF message \in DOMAIN ServerReplies THEN "open" ELSE "ended"
ReadAgain(message)      == "open"

Respond(message) ==
  /\ got' = 0 /\ need' = 2
  /\ conn' = ReadAgain(message)
  /\ IF message \in DOMAIN ServerReplies
       THEN AsyncWrite(ServerReplies[message], FALSE)
       ELSE UNCHANGED <<dn, writes, told, cut, reset>>

\* The buffer once a chunk of n characters has been put into it, from where the
\* read under way has got to; what an earlier, longer message left behind stays.
Overlaid(n) == First(got, buf) \o First(n, up) \o Rest(got + n, buf)

OneLine(s) == s # <<>> /\ s[Len(s)] = Newline /\ \A i \in 1 .. Len(s) - 1 : s[i] # Newline

HandleBuffer(n) ==
  LET message == Stripped(Overlaid(n))
  IN  /\ heard' = Append(heard, message)
      /\ ragged' = (ragged \/ ~OneLine(Overlaid(n)) \/ Len(Overlaid(n)) # got + n)
      /\ Respond(message)

\* The socket has something to read, of which the kernel gives what is there.
Read ==
  /\ conn = "open"
  /\ \E n \in Amounts(up, BufSize - got) :
       /\ up' = Rest(n, up)
       /\ buf' = Overlaid(n)
       /\ IF got + n >= need \/ got + n = BufSize
            THEN HandleBuffer(n)
            ELSE /\ got' = got + n
                 /\ UNCHANGED <<dn, reset, conn, need, writes, heard, told, ragged, cut>>
  /\ UNCHANGED <<peer, host>>

\* End of file is no error for handleRead: it handles the buffer as it is, and
\* reads again.  Once there, it stays: recv goes on returning it whatever is
\* written and whatever comes back, and so it does after a reset whose error
\* has been taken.
ReadEof ==
  /\ conn = "open"
  /\ peer = "gone" /\ up = <<>> /\ reset \in {"no", "spent"}
  /\ Respond(Stripped(buf))
  /\ UNCHANGED <<up, peer, host, buf, heard, ragged>>

\* Any other error ends the connection, whose socket stays open.
ReadEnds ==
  /\ conn = "open"
  /\ up = <<>> /\ reset = "here"
  /\ conn' = "ended"
  /\ reset' = Spent
  /\ UNCHANGED <<up, dn, peer, host, buf, got, need, writes, heard, told, ragged, cut>>

ResetArrives ==
  /\ reset = "coming"
  /\ reset' = "here"
  /\ UNCHANGED <<up, dn, peer, host, server>>

\* The server's process ends; nothing else closes a connection.
Shutdown ==
  /\ host' = "gone"
  /\ UNCHANGED <<up, dn, peer, reset, server>>

ServerStep ==
  Accept \/ WriteOn \/ WriteFails \/ Read \/ ReadEof \/ ReadEnds \/ ResetArrives

ServerNext == host = "there" /\ (ServerStep \/ Shutdown)
=============================================================================
