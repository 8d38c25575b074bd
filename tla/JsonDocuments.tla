--------------------------- MODULE JsonDocuments ---------------------------
(***************************************************************************)
(* A document of basic_json written in one of its formats and read again:  *)
(* dump and parse, to_cbor and from_cbor, and so on.  What was written may *)
(* lose its end on the way; and what is read may come from anywhere, and   *)
(* is then a document to be written in its turn.                           *)
(***************************************************************************)
EXTENDS JsonText

CONSTANTS
  Documents,  \* what is written: pairs of a format and a value
  Inputs,     \* what comes from elsewhere: pairs of a format and bytes
  MaxKept,    \* bound: what is cut keeps no more bytes than this, or all but one
  Memory      \* what may lie behind the string of the indentation: some bytes

\* A format is [name, strict] and, as the name has it, the other options of its writer.

VARIABLES
  format,
  value,   \* the document
  bytes,   \* what was written, or came from elsewhere: units, of a wide string
  phase,   \* "value", "written", "thrown", "crashed", "cut", "foreign", "read", "read_cut" or "refused"
  read     \* what the reader returned

vars == <<format, value, bytes, phase, read>>

Init ==
  /\ read = Failed
  /\ \/ \E d \in Documents : format = d[1] /\ value = d[2] /\ bytes = <<>> /\ phase = "value"
     \/ \E i \in Inputs : format = i[1] /\ value = Nothing /\ bytes = i[2] /\ phase = "foreign"

Written(f, v) ==
  CASE f.name = "text"    -> Dump(v, f)
    [] f.name = "cbor"    -> WriteCbor(v)
    [] f.name = "msgpack" -> WriteMsgpack(v)
    [] f.name = "ubjson"  -> WriteUbjson(v, f, TRUE)
    [] f.name = "bson"    -> WriteBson(v)

ReadIn(f, in) ==
  IF f.name = "text" THEN ReadText(GetCharacters(f.width, in), f.strict) ELSE ReadBinary(f.name, in, f.strict)

\* A text of UTF-8 as the wide string that holds it.
CodePoint(s) ==
  LET n == Len(s)
  IN  CASE n = 1 -> s[1]
        [] n = 2 -> (s[1] % 32) * 64 + (s[2] % 64)
        [] n = 3 -> (s[1] % 16) * 4096 + (s[2] % 64) * 64 + (s[3] % 64)
        [] n = 4 -> (s[1] % 8) * 262144 + (s[2] % 64) * 4096 + (s[3] % 64) * 64 + (s[4] % 64)
Units(width, code) ==
  IF width = 32 \/ code < \h10000 THEN <<code>>
  ELSE <<\hD800 + (code - \h10000) \div 1024, \hDC00 + ((code - \h10000) % 1024)>>
RECURSIVE AsWide(_, _)
AsWide(width, s) ==
  LET n == IF s[1] < 128 THEN 1 ELSE Len(Following(s[1])) + 1
  IN  IF width = 8 \/ s = <<>> THEN s
      ELSE Units(width, CodePoint(SubSeq(s, 1, n))) \o AsWide(width, SubSeq(s, n + 1, Len(s)))

\* The outputs there may be, of which some have read beyond the string of the indentation.
Lying(out) ==
  IF Beyond \in Range(out)
    THEN {[i \in DOMAIN out |-> IF out[i] = Beyond THEN byte ELSE out[i]] : byte \in Memory}
    ELSE {out}

\* What was written before an exception is in the output already.
Write ==
  LET written == Written(format, value)
  IN  /\ phase = "value"
      /\ phase' = IF Thrown \in Range(written) THEN "thrown" ELSE "written"
      /\ \E out \in Lying(Emitted(written)) :
           bytes' = IF format.name = "text" /\ phase' = "written" THEN AsWide(format.width, out) ELSE out
      /\ UNCHANGED <<format, value, read>>

\* Nor need there be anything behind it that can be read.
Crash ==
  /\ phase = "value" /\ format.name = "text"
  /\ Beyond \in Range(Emitted(Written(format, value)))
  /\ phase' = "crashed"
  /\ UNCHANGED <<format, value, bytes, read>>

\* The end of the bytes does not arrive.
Lose ==
  /\ phase = "written"
  /\ \E n \in 0 .. Len(bytes) - 1 :
       /\ n <= MaxKept \/ n = Len(bytes) - 1
       /\ bytes' = SubSeq(bytes, 1, n)
  /\ phase' = "cut"
  /\ UNCHANGED <<format, value, read>>

Parse ==
  /\ phase \in {"written", "cut"}
  /\ read' = ReadIn(format, bytes)
  /\ phase' = IF phase = "written" THEN "read" ELSE "read_cut"
  /\ UNCHANGED <<format, value, bytes>>

ParseForeign ==
  /\ phase = "foreign"
  /\ read' = ReadIn(format, bytes)
  /\ value' = read'.value
  /\ phase' = IF read'.ok THEN "value" ELSE "refused"
  /\ UNCHANGED <<format, bytes>>

Next == Write \/ Crash \/ Lose \/ Parse \/ ParseForeign
Spec == Init /\ [][Next]_vars
=============================================================================
