----------------------------- MODULE JsonBinary -----------------------------
(***************************************************************************)
(* nlohmann::detail::binary_writer and binary_reader: a value as the bytes *)
(* of CBOR, MessagePack, UBJSON and BSON, and back.                        *)
(*                                                                         *)
(* A value is [kind, of]: of a number its 64 bits as eight bytes, the most *)
(* significant first; of a string its bytes; of an array its elements; of  *)
(* an object the pairs of a key and a value in the order of std::map.      *)
(***************************************************************************)
EXTENDS Integers, Sequences, FiniteSetsExt, SequencesExt

Value(kind, of) == [kind |-> kind, of |-> of]
Nothing         == Value("null", <<>>)

\* An exception, at the place of the output that was reached: the type of the
\* top level, a number, or a key that the format cannot hold.
Thrown   == -1
Emitted(out) == IF Thrown \in Range(out) THEN SubSeq(out, 1, SelectInSeq(out, LAMBDA b : b = Thrown) - 1) ELSE out

\* The least of 1, 2, 4 and 8 bytes that hold a number, 2 ^ the result being the width.
Fits(b, w)       == \A i \in 1 .. 8 - w : b[i] = 0
SignedFits(b, w) == \A i \in 1 .. 8 - w : b[i] = IF b[9 - w] >= 128 THEN 255 ELSE 0
Code(b)       == Min({c \in 0 .. 3 : Fits(b, 2 ^ c)})
SignedCode(b) == Min({c \in 0 .. 3 : SignedFits(b, 2 ^ c)})
Low(b, c)     == SubSeq(b, 9 - 2 ^ c, 8)
Negative(b)   == b[1] >= 128
Complement(b) == [i \in 1 .. 8 |-> 255 - b[i]]     \* -1 - n
Bytes(n)      == <<0, 0, 0, 0>> \o [i \in 1 .. 4 |-> (n \div 256 ^ (4 - i)) % 256]

-----------------------------------------------------------------------------
\* CBOR

CborHead(major, b) ==
  IF Fits(b, 1) /\ b[8] <= 23 THEN <<32 * major + b[8]>>
  ELSE <<32 * major + 24 + Code(b)>> \o Low(b, Code(b))

CborInteger(b) == IF Negative(b) THEN CborHead(1, Complement(b)) ELSE CborHead(0, b)

CborString(s) == CborHead(3, Bytes(Len(s))) \o s

RECURSIVE WriteCbor(_)
WriteCbor(v) ==
  CASE v.kind = "null"     -> <<\hF6>>
    [] v.kind = "boolean"  -> <<\hF4 + v.of[1]>>
    [] v.kind = "integer"  -> CborInteger(v.of)
    [] v.kind = "unsigned" -> CborHead(0, v.of)
    [] v.kind = "float"    -> <<\hFB>> \o v.of
    [] v.kind = "string"   -> CborString(v.of)
    [] v.kind = "array"    -> CborHead(4, Bytes(Len(v.of))) \o FlattenSeq([i \in DOMAIN v.of |-> WriteCbor(v.of[i])])
    [] v.kind = "object"   ->
         CborHead(5, Bytes(Len(v.of)))
           \o FlattenSeq([i \in DOMAIN v.of |-> CborString(v.of[i][1]) \o WriteCbor(v.of[i][2])])

-----------------------------------------------------------------------------
\* MessagePack

MsgpackUnsigned(b) ==
  IF Fits(b, 1) /\ b[8] < 128 THEN <<b[8]>> ELSE <<\hCC + Code(b)>> \o Low(b, Code(b))

MsgpackInteger(b) ==
  IF ~Negative(b) THEN MsgpackUnsigned(b)
  ELSE IF SignedFits(b, 1) /\ b[8] >= 256 - 32 THEN <<b[8]>>
  ELSE <<\hD0 + SignedCode(b)>> \o Low(b, SignedCode(b))

MsgpackString(s) ==
  LET b == Bytes(Len(s))
  IN  (IF Len(s) <= 31 THEN <<\hA0 + Len(s)>> ELSE <<\hD9 + Code(b)>> \o Low(b, Code(b))) \o s

\* There is no head with a size of one byte.  The mutant writes one as if there were.
ByteSize(fixed, sized, n) ==
  LET c == Code(Bytes(n)) IN IF n <= 15 THEN <<fixed + n>> ELSE <<sized + c - 1>> \o Low(Bytes(n), c)
MsgpackSize(fixed, sized, n) ==
  LET c == Max({1, Code(Bytes(n))})
  IN  IF n <= 15 THEN <<fixed + n>> ELSE <<sized + c - 1>> \o Low(Bytes(n), c)

RECURSIVE WriteMsgpack(_)
WriteMsgpack(v) ==
  CASE v.kind = "null"     -> <<\hC0>>
    [] v.kind = "boolean"  -> <<\hC2 + v.of[1]>>
    [] v.kind = "integer"  -> MsgpackInteger(v.of)
    [] v.kind = "unsigned" -> MsgpackUnsigned(v.of)
    [] v.kind = "float"    -> <<\hCB>> \o v.of
    [] v.kind = "string"   -> MsgpackString(v.of)
    [] v.kind = "array"    ->
         MsgpackSize(\h90, \hDC, Len(v.of)) \o FlattenSeq([i \in DOMAIN v.of |-> WriteMsgpack(v.of[i])])
    [] v.kind = "object"   ->
         MsgpackSize(\h80, \hDE, Len(v.of))
           \o FlattenSeq([i \in DOMAIN v.of |-> MsgpackString(v.of[i][1]) \o WriteMsgpack(v.of[i][2])])

-----------------------------------------------------------------------------
\* UBJSON, whose markers are letters

Mark == [T |-> 84, F |-> 70, Z |-> 90, N |-> 78, S |-> 83, C |-> 67, d |-> 100, D |-> 68,
         i |-> 105, U |-> 85, I |-> 73, l |-> 108, L |-> 76]

\* The marker of an integer, and of any value: the smallest type that has it.
UbjsonInteger(b) ==
  IF SignedFits(b, 1) THEN Mark.i
  ELSE IF Fits(b, 1) THEN Mark.U
  ELSE <<Mark.I, Mark.l, Mark.L>>[SignedCode(b)]

UbjsonPrefix(v) ==
  CASE v.kind = "null"     -> Mark.Z
    [] v.kind = "boolean"  -> IF v.of = <<1>> THEN Mark.T ELSE Mark.F
    [] v.kind = "integer"  -> UbjsonInteger(v.of)
    [] v.kind = "unsigned" -> IF Negative(v.of) THEN Mark.L ELSE UbjsonInteger(v.of)
    [] v.kind = "float"    -> Mark.D
    [] v.kind = "string"   -> Mark.S
    [] v.kind = "array"    -> 91
    [] v.kind = "object"   -> 123

UbjsonBytes(b) == IF SignedFits(b, 1) \/ Fits(b, 1) THEN Low(b, 0) ELSE Low(b, SignedCode(b))
UbjsonSize(n)  == <<UbjsonInteger(Bytes(n))>> \o UbjsonBytes(Bytes(n))

\* How a value is written: [count, type] say whether containers have a size and a type.
RECURSIVE WriteUbjson(_, _, _)
WriteUbjson(v, how, prefixed) ==
  LET parts == IF v.kind = "array" THEN v.of ELSE [i \in DOMAIN v.of |-> v.of[i][2]]
      same  == how.type /\ parts # <<>> /\ \A i \in DOMAIN parts : UbjsonPrefix(parts[i]) = UbjsonPrefix(parts[1])
      name(i) == IF v.kind = "array" THEN <<>> ELSE UbjsonSize(Len(v.of[i][1])) \o v.of[i][1]
      inside ==
        (IF same THEN <<36, UbjsonPrefix(parts[1])>> ELSE <<>>)
          \o (IF how.count THEN <<35>> \o UbjsonSize(Len(parts)) ELSE <<>>)
          \o FlattenSeq([i \in DOMAIN parts |-> name(i) \o WriteUbjson(parts[i], how, ~same)])
          \o (IF how.count THEN <<>> ELSE <<UbjsonPrefix(v) + 2>>)     \* [ and ], { and }
  IN  IF v.kind = "unsigned" /\ Negative(v.of) THEN <<Thrown>>
      ELSE (IF prefixed THEN <<UbjsonPrefix(v)>> ELSE <<>>)
             \o (CASE v.kind \in {"null", "boolean"}     -> <<>>
                   [] v.kind \in {"integer", "unsigned"} -> UbjsonBytes(v.of)
                   [] v.kind = "float"                   -> v.of
                   [] v.kind = "string"                  -> UbjsonSize(Len(v.of)) \o v.of
                   [] v.kind \in {"array", "object"}     -> inside)

-----------------------------------------------------------------------------
\* BSON

RECURSIVE Digits(_)
Digits(n) == IF n < 10 THEN <<48 + n>> ELSE Digits(n \div 10) \o <<48 + (n % 10)>>

\* What an array is written as: an object whose keys are the indices.
Named(v) == IF v.kind = "object" THEN v.of ELSE [i \in DOMAIN v.of |-> <<Digits(i - 1), v.of[i]>>]

LittleEndian(b, c) == Reverse(Low(b, c))

\* calc_bson_element_size: the bytes after the name.  The mutant takes the numbers of 32
\* bits without a sign for int32.
UnsignedIn32(b)     == IF Fits(b, 4) THEN 4 ELSE 8
BsonIntegerSize(b)  == IF SignedFits(b, 4) THEN 4 ELSE 8
BsonUnsignedSize(b) == IF Fits(b, 4) /\ b[5] < 128 THEN 4 ELSE 8

RECURSIVE BsonSize(_)
BsonSize(v) ==
  CASE v.kind = "null"     -> 0
    [] v.kind = "boolean"  -> 1
    [] v.kind = "float"    -> 8
    [] v.kind = "integer"  -> BsonIntegerSize(v.of)
    [] v.kind = "unsigned" -> BsonUnsignedSize(v.of)
    [] v.kind = "string"   -> 4 + Len(v.of) + 1
    [] v.kind \in {"array", "object"} ->
         LET parts == Named(v)
         IN  4 + MapThenSumSet(LAMBDA i : 1 + Len(parts[i][1]) + 1 + BsonSize(parts[i][2]), DOMAIN parts) + 1

\* The sizes are found before anything is written, and find any key with U+0000.
RECURSIVE BsonKeysHold(_)
BsonKeysHold(v) ==
  v.kind \in {"array", "object"} =>
    \A i \in DOMAIN Named(v) : 0 \notin Range(Named(v)[i][1]) /\ BsonKeysHold(Named(v)[i][2])

BsonType(v) ==
  CASE v.kind = "float"    -> \h01
    [] v.kind = "string"   -> \h02
    [] v.kind = "object"   -> \h03
    [] v.kind = "array"    -> \h04
    [] v.kind = "boolean"  -> \h08
    [] v.kind = "null"     -> \h0A
    [] v.kind = "integer"  -> IF SignedFits(v.of, 4) THEN \h10 ELSE \h12
    [] v.kind = "unsigned" -> IF Fits(v.of, 4) /\ v.of[5] < 128 THEN \h10 ELSE \h12

RECURSIVE BsonContent(_)
BsonContent(v) ==
  CASE v.kind = "null"    -> <<>>
    [] v.kind = "boolean" -> v.of
    [] v.kind = "float"   -> LittleEndian(v.of, 3)
    [] v.kind \in {"integer", "unsigned"} -> LittleEndian(v.of, IF BsonType(v) = \h10 THEN 2 ELSE 3)
    [] v.kind = "string"  -> LittleEndian(Bytes(Len(v.of) + 1), 2) \o v.of \o <<0>>
    [] v.kind \in {"array", "object"} ->
         LET parts == Named(v)
             element(name, part) ==
               IF part.kind = "unsigned" /\ Negative(part.of) THEN <<Thrown>>
               ELSE <<BsonType(part)>> \o name \o <<0>> \o BsonContent(part)
         IN  LittleEndian(Bytes(BsonSize(v)), 2)
               \o FlattenSeq([i \in DOMAIN parts |-> element(parts[i][1], parts[i][2])])
               \o <<0>>

WriteBson(v) == IF v.kind # "object" \/ ~BsonKeysHold(v) THEN <<Thrown>> ELSE BsonContent(v)

-----------------------------------------------------------------------------
\* binary_reader.  What is read is a value and the place after it, or an error;
\* the end of the input is met as any byte that nothing accepts.

Failed == [ok |-> FALSE, at |-> 0, value |-> Nothing]
Read(value, at) == [ok |-> TRUE, at |-> at, value |-> value]

EndOfInput  == -1
Got(in, at) == IF at <= Len(in) THEN in[at] ELSE EndOfInput
Has(in, at, n)  == at + n - 1 <= Len(in)
Taken(in, at, n) == SubSeq(in, at, at + n - 1)

\* get_number: the 2 ^ c bytes of an unsigned or a signed number, as eight
Wide(s)       == [i \in 1 .. 8 - Len(s) |-> 0] \o s
SignedWide(s) == [i \in 1 .. 8 - Len(s) |-> IF s[1] >= 128 THEN 255 ELSE 0] \o s
Unsigned(in, at, c) == IF Has(in, at, 2 ^ c) THEN Read(Value("unsigned", Wide(Taken(in, at, 2 ^ c))), at + 2 ^ c) ELSE Failed
Integer(in, at, c)  == IF Has(in, at, 2 ^ c) THEN Read(Value("integer", SignedWide(Taken(in, at, 2 ^ c))), at + 2 ^ c) ELSE Failed

\* get_string, and what number of bytes or items a length stands for: more than
\* there can be when it has more than three bytes, none when it is negative.
TooMany == 2 ^ 24
Size(b) == IF Fits(b, 3) THEN b[6] * 65536 + b[7] * 256 + b[8] ELSE TooMany
\* The mutant is content with the bytes that there are.
WhatIsThere(in, r) ==
  LET last == Min({Len(in), r.at + Size(r.value.of) - 1})
  IN  IF r.ok THEN Read(Value("string", SubSeq(in, r.at, last)), last + 1) ELSE Failed
Text(in, r) ==
  LET n == IF r.value.kind = "integer" /\ Negative(r.value.of) THEN 0 ELSE Size(r.value.of)
  IN  IF r.ok /\ Has(in, r.at, n) THEN Read(Value("string", Taken(in, r.at, n)), r.at + n) ELSE Failed

\* A float of fewer bits, as the double that it is: exponent and mantissa of
\* eBits and mBits, that is half precision or single precision.  Any NaN becomes the quiet one.
Double(sign, exponent, mantissa, mBits) ==
  LET bits == mantissa * 2 ^ (24 - mBits)      \* the 24 first of the 52
      high == sign * 32768 + exponent * 16 + bits \div 2 ^ 20
  IN  Value("float", <<high \div 256, high % 256, (bits \div 4096) % 256, (bits \div 16) % 256, (bits % 16) * 16, 0, 0, 0>>)

Widened(sign, exponent, mantissa, eBits, mBits) ==
  LET bias == 1024 - 2 ^ (eBits - 1)
      top  == Max({i \in 0 .. mBits : mantissa >= 2 ^ i \/ i = 0})     \* of a subnormal number
  IN  CASE exponent = 2 ^ eBits - 1 -> Double(sign, 2047, IF mantissa = 0 THEN 0 ELSE 2 ^ (mBits - 1), mBits)
        [] exponent = 0 /\ mantissa = 0 -> Double(sign, 0, 0, mBits)
        [] exponent = 0 /\ mantissa # 0 -> Double(sign, bias + 1 - mBits + top, (mantissa - 2 ^ top) * 2 ^ (mBits - top), mBits)
        [] OTHER -> Double(sign, exponent + bias, mantissa, mBits)

Half(in, at) ==
  IF ~Has(in, at, 2) THEN Failed
  ELSE Read(Widened(in[at] \div 128, (in[at] \div 4) % 32, (in[at] % 4) * 256 + in[at + 1], 5, 10), at + 2)
Single(in, at) ==
  IF ~Has(in, at, 4) THEN Failed
  ELSE Read(Widened(in[at] \div 128, (in[at] % 128) * 2 + in[at + 1] \div 128,
                    (in[at + 1] % 128) * 65536 + in[at + 2] * 256 + in[at + 3], 8, 23), at + 4)
Float(in, at) == IF Has(in, at, 8) THEN Read(Value("float", Taken(in, at, 8)), at + 8) ELSE Failed

\* The object with one more member, as json_sax_dom_parser leaves it: the last of two
\* with one key stays.
RECURSIVE Less(_, _)
Less(s, t) == t # <<>> /\ (s = <<>> \/ s[1] < t[1] \/ (s[1] = t[1] /\ Less(Tail(s), Tail(t))))
With(members, key, value) ==
  SelectSeq(members, LAMBDA m : Less(m[1], key)) \o <<<<key, value>>>> \o SelectSeq(members, LAMBDA m : Less(key, m[1]))

-----------------------------------------------------------------------------
\* The strings of CBOR, MessagePack and UBJSON, and the containers of a format: a head
\* is the byte that says what follows, already read.

Counted(n, at) == Read(Value("unsigned", Bytes(n)), at)

CborCount(head, in, at) ==
  CASE head % 32 < 24        -> Counted(head % 32, at)
    [] head % 32 \in 24 .. 27 -> Unsigned(in, at, (head % 32) - 24)
    [] OTHER                 -> Failed

\* A string of indefinite length is the chunks up to the byte 0xFF.
RECURSIVE CborText(_, _, _), CborChunks(_, _, _)
CborText(head, in, at) ==
  IF head \div 32 # 3 THEN Failed
  ELSE IF head % 32 = 31 THEN CborChunks(in, at, <<>>)
  ELSE Text(in, CborCount(head, in, at))
CborChunks(in, at, all) ==
  LET chunk == CborText(Got(in, at), in, at + 1)
  IN  IF Got(in, at) = 255 THEN Read(Value("string", all), at + 1)
      ELSE IF chunk.ok THEN CborChunks(in, chunk.at, all \o chunk.value.of)
      ELSE Failed

MsgpackText(head, in, at) ==
  CASE head \in \hA0 .. \hBF -> Text(in, Counted(head - \hA0, at))
    [] head \in \hD9 .. \hDB -> Text(in, Unsigned(in, at, head - \hD9))
    [] OTHER                 -> Failed

\* get_ignore_noop
RECURSIVE Skipped(_, _)
Skipped(in, at) == IF Got(in, at) = Mark.N THEN Skipped(in, at + 1) ELSE at

UbjsonCount(head, in, at) ==
  CASE head = Mark.U -> Unsigned(in, at, 0)
    [] head = Mark.i -> Integer(in, at, 0)
    [] head = Mark.I -> Integer(in, at, 1)
    [] head = Mark.l -> Integer(in, at, 2)
    [] head = Mark.L -> Integer(in, at, 3)
    [] OTHER         -> Failed

Key(format, in, at) ==
  CASE format = "cbor"    -> CborText(Got(in, at), in, at + 1)
    [] format = "msgpack" -> MsgpackText(Got(in, at), in, at + 1)
    [] format = "ubjson"  -> Text(in, UbjsonCount(Got(in, at), in, at + 1))

\* The n parts of a container, or, when n is Endless, those up to the byte that closes
\* it.  The type of all the parts of a UBJSON container is 0 when it is not given.
Endless == -1
NoType  == 0
Closing(format, kind) == IF format = "cbor" THEN 255 ELSE IF kind = "array" THEN 93 ELSE 125

\* A part is added to the container it is in: handle_value.
Joined(kind, parts, key, part) ==
  IF kind = "array" THEN Append(parts, part) ELSE With(parts, key, part)

RECURSIVE Part(_, _, _, _), Parts(_, _, _, _, _, _, _), AfterPart(_, _, _, _, _, _, _, _)
AfterPart(format, kind, type, in, key, part, n, parts) ==
  IF key.ok /\ part.ok
    THEN Parts(format, kind, type, in, part.at, n, Joined(kind, parts, key.value.of, part.value))
    ELSE Failed
Parts(format, kind, type, in, at, n, parts) ==
  LET ubjson == format = "ubjson"
      from == IF ubjson /\ n = Endless THEN Skipped(in, at) ELSE at
      key  == IF kind = "object" THEN Key(format, in, from) ELSE Read(Nothing, from)
      head == IF ubjson THEN Skipped(in, key.at) ELSE key.at
      typed == type # NoType
  IN  CASE n = 0 -> Read(Value(kind, parts), at)
        [] n = Endless /\ Got(in, from) = Closing(format, kind) -> Read(Value(kind, parts), from + 1)
        [] OTHER ->
             AfterPart(format, kind, type, in, key,
                       Part(format, IF typed THEN type ELSE Got(in, head), in, IF typed THEN key.at ELSE head + 1),
                       IF n = Endless THEN n ELSE n - 1, parts)

\* A size that was read; the size of all ones is the one that stands for Endless.
Sized(format, kind, in, r) ==
  IF ~r.ok THEN Failed
  ELSE Parts(format, kind, NoType, in, r.at, IF r.value.of = [i \in 1 .. 8 |-> 255] THEN Endless ELSE Size(r.value.of), <<>>)

CborNumber(head, in, at) ==
  LET n == CborCount(head, in, at)
  IN  IF head \div 32 = 0 \/ ~n.ok THEN n ELSE Read(Value("integer", Complement(n.value.of)), n.at)

CborPart(head, in, at) ==
  LET n == CborCount(head, in, at)
      major == head \div 32
      kind == IF major = 4 THEN "array" ELSE "object"
  IN  CASE major \in {0, 1}       -> CborNumber(head, in, at)
        [] major = 3              -> CborText(head, in, at)
        [] major \in {4, 5}       ->
             IF head % 32 = 31 THEN Parts("cbor", kind, NoType, in, at, Endless, <<>>) ELSE Sized("cbor", kind, in, n)
        [] head \in {\hF4, \hF5}  -> Read(Value("boolean", <<head - \hF4>>), at)
        [] head = \hF6            -> Read(Nothing, at)
        [] head = \hF9            -> Half(in, at)
        [] head = \hFA            -> Single(in, at)
        [] head = \hFB            -> Float(in, at)
        [] OTHER                  -> Failed

MsgpackFix(head, in, at) ==
  CASE head \in 0 .. \h7F     -> Counted(head, at)
    [] head \in \h80 .. \h8F  -> Sized("msgpack", "object", in, Counted(head - \h80, at))
    [] head \in \h90 .. \h9F  -> Sized("msgpack", "array", in, Counted(head - \h90, at))

MsgpackPart(head, in, at) ==
  CASE head \in 0 .. \h9F     -> MsgpackFix(head, in, at)
    [] head \in (\hA0 .. \hBF) \union (\hD9 .. \hDB) -> MsgpackText(head, in, at)
    [] head = \hC0            -> Read(Nothing, at)
    [] head \in {\hC2, \hC3}  -> Read(Value("boolean", <<head - \hC2>>), at)
    [] head = \hCA            -> Single(in, at)
    [] head = \hCB            -> Float(in, at)
    [] head \in \hCC .. \hCF  -> Unsigned(in, at, head - \hCC)
    [] head \in \hD0 .. \hD3  -> Integer(in, at, head - \hD0)
    [] head \in {\hDC, \hDD}  -> Sized("msgpack", "array", in, Unsigned(in, at, head - \hDB))
    [] head \in {\hDE, \hDF}  -> Sized("msgpack", "object", in, Unsigned(in, at, head - \hDD))
    [] head \in \hE0 .. \hFF  -> Read(Value("integer", SignedWide(<<head>>)), at)
    [] OTHER                  -> Failed

\* A container may give the type of its parts and, always after one, their number.
\* A negative number throws, or is taken for none and met as a marker itself.
UbjsonParts(kind, in, at) ==
  LET first == Skipped(in, at)
      typed == Got(in, first) = 36
      type  == IF typed THEN Got(in, first + 1) ELSE NoType
      hash  == IF typed THEN Skipped(in, first + 2) ELSE first
      mark  == Skipped(in, hash + 1)
      size  == UbjsonCount(Got(in, mark), in, mark + 1)
  IN  CASE Got(in, hash) # 35 -> IF typed THEN Failed ELSE Parts("ubjson", kind, NoType, in, first, Endless, <<>>)
        [] Got(in, hash) = 35 ->
             IF ~size.ok \/ (size.value.kind = "integer" /\ Negative(size.value.of)) THEN Failed
             ELSE IF kind = "array" /\ type = Mark.N THEN Read(Value("array", <<>>), size.at)
             ELSE Parts("ubjson", kind, type, in, size.at, Size(size.value.of), <<>>)

UbjsonPart(head, in, at) ==
  CASE head \in {Mark.T, Mark.F} -> Read(Value("boolean", IF head = Mark.T THEN <<1>> ELSE <<0>>), at)
    [] head = Mark.Z -> Read(Nothing, at)
    [] head \in {Mark.U, Mark.i, Mark.I, Mark.l, Mark.L} -> UbjsonCount(head, in, at)
    [] head = Mark.d -> Single(in, at)
    [] head = Mark.D -> Float(in, at)
    [] head = Mark.C -> IF Got(in, at) \in 0 .. 127 THEN Read(Value("string", <<in[at]>>), at + 1) ELSE Failed
    [] head = Mark.S -> Key("ubjson", in, at)
    [] head = 91     -> UbjsonParts("array", in, at)
    [] head = 123    -> UbjsonParts("object", in, at)
    [] OTHER         -> Failed

\* get_bson_cstr: the bytes up to a zero, which must come.
Cstr(in, at) ==
  LET end == SelectInSubSeq(in, at, Len(in), LAMBDA b : b = 0)
  IN  IF end = 0 THEN Failed ELSE Read(Value("string", SubSeq(in, at, end - 1)), end + 1)

\* Nobody looks at the size of a document, nor at the names in an array.
RECURSIVE BsonPart(_, _, _), BsonParts(_, _, _, _), AfterElement(_, _, _, _, _)
BsonDocument(kind, in, at) == IF Has(in, at, 4) THEN BsonParts(kind, in, at + 4, <<>>) ELSE Failed
AfterElement(kind, in, name, part, parts) ==
  IF name.ok /\ part.ok THEN BsonParts(kind, in, part.at, Joined(kind, parts, name.value.of, part.value)) ELSE Failed
BsonParts(kind, in, at, parts) ==
  LET name == Cstr(in, at + 1)
  IN  CASE Got(in, at) = 0          -> Read(Value(kind, parts), at + 1)
        [] Got(in, at) = EndOfInput -> Failed
        [] OTHER                    -> AfterElement(kind, in, name, BsonPart(Got(in, at), in, name.at), parts)

LittleInteger(in, at, c) ==
  IF Has(in, at, 2 ^ c) THEN Read(Value("integer", SignedWide(Reverse(Taken(in, at, 2 ^ c)))), at + 2 ^ c) ELSE Failed

BsonText(in, at) ==
  LET n == LittleInteger(in, at, 2)
      length == Size(n.value.of)
  IN  IF n.ok /\ ~Negative(n.value.of) /\ length >= 1 /\ Has(in, n.at, length)
        THEN Read(Value("string", Taken(in, n.at, length - 1)), n.at + length)
        ELSE Failed

BsonPart(type, in, at) ==
  CASE type = \h01 -> IF Has(in, at, 8) THEN Read(Value("float", Reverse(Taken(in, at, 8))), at + 8) ELSE Failed
    [] type = \h02 -> BsonText(in, at)
    [] type = \h03 -> BsonDocument("object", in, at)
    [] type = \h04 -> BsonDocument("array", in, at)
    [] type = \h08 -> Read(Value("boolean", IF Got(in, at) # 0 THEN <<1>> ELSE <<0>>), at + 1)
    [] type = \h0A -> Read(Nothing, at)
    [] type = \h10 -> LittleInteger(in, at, 2)
    [] type = \h12 -> LittleInteger(in, at, 3)
    [] OTHER       -> Failed

Part(format, head, in, at) ==
  CASE format = "cbor"    -> CborPart(head, in, at)
    [] format = "msgpack" -> MsgpackPart(head, in, at)
    [] format = "ubjson"  -> UbjsonPart(head, in, at)

\* Nothing may follow what was read, if strict; no-ops of UBJSON may.
AtItsEnd(format, in, strict, r) ==
  LET last == IF format = "ubjson" THEN Skipped(in, r.at) ELSE r.at
  IN  IF r.ok /\ (strict => last > Len(in)) THEN r ELSE Failed
\* sax_parse, strict or not
ReadBinary(format, in, strict) ==
  LET start == IF format = "ubjson" THEN Skipped(in, 1) ELSE 1
  IN  AtItsEnd(format, in, strict,
            IF format = "bson" THEN BsonDocument("object", in, 1) ELSE Part(format, Got(in, start), in, start + 1))
=============================================================================
