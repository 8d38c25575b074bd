----------------------------- MODULE StringDump -----------------------------
(***************************************************************************)
(* A string that a serializer dumps, of any bytes: the loop of JsonEscape  *)
(* and what it gives to the output.                                        *)
(***************************************************************************)
EXTENDS JsonEscape

CONSTANTS
  Texts,     \* the strings
  Room       \* the size of string_buffer, 512 in the code

ASSUME TextsAssumption == Texts \subseteq Seq(Byte)
ASSUME RoomAssumption  == Room \in Nat /\ Room >= Left

VARIABLES
  text, how,   \* the arguments of the call, and the error handler
  dump,        \* the locals of the call, the buffer and the output
  pc           \* "loop", "end"

dumpVars == <<text, how, dump, pc>>

DumpInit ==
  /\ text \in Texts
  /\ how \in [ascii : BOOLEAN, errors : {"strict", "ignore", "replace"}, room : {Room}]
  /\ dump = NewDump
  /\ pc = "loop"

ReadByte ==
  /\ pc = "loop" /\ ~dump.thrown /\ dump.at <= Len(text)
  /\ dump' = Round(dump, text[dump.at], how)
  /\ UNCHANGED <<text, how, pc>>

Finish ==
  /\ pc = "loop" /\ ~dump.thrown /\ dump.at > Len(text)
  /\ dump' = Ended(dump, how)
  /\ pc' = "end"
  /\ UNCHANGED <<text, how>>

DumpNext == ReadByte \/ Finish

DumpSpec == DumpInit /\ [][DumpNext]_dumpVars

-----------------------------------------------------------------------------
\* What may stand between the quotes of a string of JSON (RFC 8259), its characters
\* in UTF-8 as the Unicode standard has them.

PlainBytes == (\h20 .. \h7F) \ {34, Backslash}
Tails == \h80 .. \hBF
HexDigits == 48 .. 57 \union 65 .. 70 \union 97 .. 102
Second(byte) ==
  CASE byte = \hE0 -> \hA0 .. \hBF
    [] byte = \hED -> \h80 .. \h9F
    [] byte = \hF0 -> \h90 .. \hBF
    [] byte = \hF4 -> \h80 .. \h8F
    [] OTHER -> Tails

IsCharacter(c) ==
  \/ Len(c) = 1 /\ c[1] \in PlainBytes
  \/ Len(c) = 2 /\ c[1] \in \hC2 .. \hDF /\ c[2] \in Tails
  \/ Len(c) = 3 /\ c[1] \in \hE0 .. \hEF /\ c[2] \in Second(c[1]) /\ c[3] \in Tails
  \/ Len(c) = 4 /\ c[1] \in \hF0 .. \hF4 /\ c[2] \in Second(c[1]) /\ c[3] \in Tails /\ c[4] \in Tails
  \/ Len(c) = 2 /\ c[1] = Backslash /\ c[2] \in {34, 47, Backslash, 98, 102, 110, 114, 116}
  \/ Len(c) = 6 /\ c[1] = Backslash /\ c[2] = 117 /\ \A i \in 3 .. 6 : c[i] \in HexDigits

\* One character after another: s up to n, by where it is whole before its last one.
EndsCharacter(s, whole, n) ==
  n = 0 \/ \E k \in 1 .. 6 : k <= n /\ IsCharacter(SubSeq(s, n - k + 1, n)) /\ whole[n - k]
IsContent(s) ==
  LET whole[n \in 0 .. Len(s)] == EndsCharacter(s, whole, n) IN whole[Len(s)]

-----------------------------------------------------------------------------
\* Properties

\* Nothing is written past the end of string_buffer, though it is flushed only
\* between code points: whatever part of one is in it, there is room for the rest, for
\* an escape in its place, and for the zero snprintf writes after that.
BufferHolds == dump.most <= Room

\* Whatever bytes a string is of, what is given to the output is whole characters of a
\* JSON string, nothing of an invalid or unfinished code point among them, and ASCII
\* if ensure_ascii says so; also what had been flushed before an exception.
WellFormed ==
  /\ IsContent(dump.out)
  /\ how.ascii => \A i \in 1 .. Len(dump.out) : dump.out[i] < 127
=============================================================================
