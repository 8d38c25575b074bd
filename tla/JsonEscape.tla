----------------------------- MODULE JsonEscape -----------------------------
(***************************************************************************)
(* dump_escaped of nlohmann::detail::serializer: a string, byte by byte,   *)
(* through the decoder of UTF-8 into a buffer, which is flushed to the     *)
(* output between code points.  A caller says how: whether to              *)
(* ensure_ascii, what to do with errors, and the room of the buffer.       *)
(***************************************************************************)
EXTENDS Integers, Sequences

Byte == 0 .. 255

\* utf8d: the class of a byte, and the state of the decoder after it.
Accept == 0
Reject == 1
ByteClass(byte) ==
  CASE byte \in \h00 .. \h7F -> 0
    [] byte \in \h80 .. \h8F -> 1
    [] byte \in \h90 .. \h9F -> 9
    [] byte \in \hA0 .. \hBF -> 7
    [] byte \in \hC2 .. \hDF -> 2
    [] byte = \hE0 -> 10
    [] byte \in (\hE1 .. \hEF) \ {\hED} -> 3
    [] byte = \hED -> 4
    [] byte = \hF0 -> 11
    [] byte \in \hF1 .. \hF3 -> 6
    [] byte = \hF4 -> 5
    [] byte \in {\hC0, \hC1} \union \hF5 .. \hFF -> 8

Decoded(state, class) ==
  CASE state = Accept -> <<0, 1, 2, 3, 5, 8, 7, 1, 1, 1, 4, 6>>[class + 1]
    [] state = 2 /\ class \in {1, 7, 9} -> Accept
    [] state = 3 /\ class \in {1, 7, 9} -> 2
    [] state = 4 /\ class = 7           -> 2
    [] state = 5 /\ class \in {1, 9}    -> 2
    [] state = 6 /\ class \in {7, 9}    -> 3
    [] state = 7 /\ class \in {1, 7, 9} -> 3
    [] state = 8 /\ class = 1           -> 3
    [] OTHER -> Reject

\* The bits of a first byte that are of the code point: 0xFF is shifted by its class.
FirstBits(byte, class) == IF class < 8 THEN byte % <<256, 128, 64, 32, 16, 8, 4, 2>>[class + 1] ELSE 0

Backslash   == 92
Hex(d) == IF d < 10 THEN 48 + d ELSE 87 + d
Escape(n) ==
  <<Backslash, 117, Hex((n \div 4096) % 16), Hex((n \div 256) % 16), Hex((n \div 16) % 16), Hex(n % 16)>>

\* What a code point adds to the buffer; its bytes but for the last are there already,
\* unless ensure_ascii keeps them out.
Letter ==
  [c \in {8, 9, 10, 12, 13, 34, 92} |->
     CASE c = 8 -> 98 [] c = 9 -> 116 [] c = 10 -> 110 [] c = 12 -> 102 [] c = 13 -> 114 [] OTHER -> c]
Escaped(code, byte, ascii) ==
  CASE code \in DOMAIN Letter -> <<Backslash, Letter[code]>>
    [] code \notin DOMAIN Letter /\ (code <= 31 \/ (ascii /\ code >= 127)) ->
         IF code <= 65535 THEN Escape(code) ELSE Escape(\hD7C0 + code \div 1024) \o Escape(\hDC00 + (code % 1024))
    [] OTHER -> <<byte>>
Replacement(ascii) == IF ascii THEN Escape(\hFFFD) ELSE <<\hEF, \hBF, \hBD>>

-----------------------------------------------------------------------------
\* The decoder, the buffer and what was flushed from it.

NewDump ==
  [at       |-> 1,        \* the byte to be read
   state    |-> Accept,
   code     |-> 0,        \* codepoint
   out      |-> <<>>,     \* what was given to the output
   buffer   |-> <<>>,     \* string_buffer, up to bytes
   accepted |-> 0,        \* bytes_after_last_accept
   undumped |-> 0,        \* undumped_chars
   most     |-> 0,        \* history: how far the buffer was written to
   thrown   |-> FALSE]    \* whether type_error 316 was thrown

\* A flush follows whatever leaves less than thirteen bytes of room.  The mutant
\* leaves room for the longest escape, and not for the zero after it.
Left == 13
FlushedLate(b, room) ==
  IF room - Len(b.buffer) < Left - 1 THEN [b EXCEPT !.out = @ \o b.buffer, !.buffer = <<>>] ELSE b
Flushed(b, room) ==
  IF room - Len(b.buffer) < Left THEN [b EXCEPT !.out = @ \o b.buffer, !.buffer = <<>>] ELSE b

\* Written to the buffer: s, with a zero after it when snprintf writes it.
Added(b, s, zero) ==
  LET end == Len(b.buffer) + Len(s) + zero
  IN  [b EXCEPT !.buffer = @ \o s, !.most = IF end > @ THEN end ELSE @]
Marked(b) == [b EXCEPT !.accepted = Len(b.buffer), !.undumped = 0]

Decode(b, byte) ==
  [b EXCEPT !.at    = @ + 1,
            !.state = Decoded(b.state, ByteClass(byte)),
            !.code  = IF b.state # Accept THEN @ * 64 + (byte % 64) ELSE FirstBits(byte, ByteClass(byte))]

\* The decoder has found a code point.
Found(b, byte, how) ==
  LET s == Escaped(b.code, byte, how.ascii)
  IN  Marked(Flushed(Added(b, s, IF Len(s) >= 6 THEN 1 ELSE 0), how.room))

\* It has found an invalid byte, which is read again if others came before it.  The
\* mutant leaves those in the buffer.
NotTakenBack(b) == b.buffer
TakenBack(b)    == SubSeq(b.buffer, 1, b.accepted)
Invalid(b, how) ==
  LET back == [b EXCEPT !.state = Accept, !.buffer = TakenBack(b), !.undumped = 0,
                        !.at = IF b.undumped > 0 THEN @ - 1 ELSE @]
  IN  CASE how.errors = "strict"  -> [b EXCEPT !.thrown = TRUE]
        [] how.errors = "ignore"  -> back
        [] how.errors = "replace" -> Marked(Flushed(Added(back, Replacement(how.ascii), 0), how.room))

\* The code point goes on.
Incomplete(b, byte, how) ==
  [(IF how.ascii THEN b ELSE Added(b, <<byte>>, 0)) EXCEPT !.undumped = @ + 1]

\* One round of the loop, and what follows the last.
Round(b, byte, how) ==
  LET c == Decode(b, byte)
  IN  CASE c.state = Accept -> Found(c, byte, how)
        [] c.state = Reject -> Invalid(c, how)
        [] c.state \notin {Accept, Reject} -> Incomplete(c, byte, how)

Ended(b, how) ==
  CASE b.state = Accept -> [b EXCEPT !.out = @ \o b.buffer]
    [] b.state # Accept /\ how.errors = "strict"  -> [b EXCEPT !.thrown = TRUE]
    [] b.state # Accept /\ how.errors = "ignore"  -> [b EXCEPT !.out = @ \o TakenBack(b)]
    [] b.state # Accept /\ how.errors = "replace" -> [b EXCEPT !.out = @ \o TakenBack(b) \o Replacement(how.ascii)]
=============================================================================
