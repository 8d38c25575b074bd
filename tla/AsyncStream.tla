---------------------------- MODULE AsyncStream ----------------------------
(***************************************************************************)
(* The TCP connection between the client and the server of                 *)
(* lib/uti/my_network/Async: two streams of characters, each with the room *)
(* the kernels give it, and the two ends.  A text is a sequence of         *)
(* characters; what is sent of it is a line, the text and a newline.       *)
(***************************************************************************)
EXTENDS Integers, Sequences, FiniteSets

CONSTANTS
  Chars,     \* what texts are made of
  Room,      \* the characters a stream holds before its writer has to wait
  Newline,   \* '\n'
  Junk       \* whatever freed memory holds

ASSUME StreamAssumption ==
  /\ Room \in Nat \ {0}
  /\ Newline \notin Chars
  /\ Junk \notin Chars \union {Newline}

Text == Seq(Chars) \ {<<>>}
Line(text) == Append(text, Newline)

VARIABLES
  up,      \* from the client to the server, written and not read
  dn,      \* from the server to the client
  peer,    \* the client's process: "away", "there", "gone"
  host,    \* the server's process: "there", "gone"
  reset    \* the client has gone with a reset and not with an end of file: "no",
           \* "coming", "here" (the error is pending), "spent" (a call returned it)

stream == <<up, dn, peer, host, reset>>

StreamTypeOK ==
  /\ up \in Seq(Chars \union {Newline}) /\ Len(up) <= Room
  /\ dn \in Seq(Chars \union {Newline, Junk}) /\ Len(dn) <= Room
  /\ peer \in {"away", "there", "gone"}
  /\ host \in {"there", "gone"}
  /\ reset \in {"no", "coming", "here", "spent"}

StreamInit ==
  /\ up = <<>> /\ dn = <<>>
  /\ peer = "away" /\ host = "there" /\ reset = "no"

AtMost(m, n) == IF m < n THEN m ELSE n
First(n, s)  == SubSeq(s, 1, n)
Rest(n, s)   == SubSeq(s, n + 1, Len(s))

\* What a non-blocking send takes of a buffer.
Fits(s, buffer) == AtMost(Len(buffer), Room - Len(s))

\* The amounts a read may return: everything there is, or less when part of it
\* is still on its way.
Amounts(s, size) == 1 .. AtMost(Len(s), size)

\* The tokens of uti::myStrTok with "\n": the longest runs without a newline.
Starts(s) == {i \in DOMAIN s : s[i] # Newline /\ (i > 1 => s[i - 1] = Newline)}
Token(s, i) ==
  LET ends == {j \in i .. Len(s) : s[j] = Newline}
  IN  SubSeq(s, i, IF ends = {} THEN Len(s)
                   ELSE (CHOOSE j \in ends : \A k \in ends : j <= k) - 1)
Tokens(s) ==
  [n \in 1 .. Cardinality(Starts(s)) |->
     Token(s, CHOOSE i \in Starts(s) : Cardinality({j \in Starts(s) : j <= i}) = n)]
=============================================================================
