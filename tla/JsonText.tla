------------------------------ MODULE JsonText ------------------------------
(***************************************************************************)
(* nlohmann::detail::serializer and lexer: a value as JSON text, and back. *)
(* Values are those of JsonBinary, but for floats: a float of a text is    *)
(* its decimal, <<sign, exponent, digits...>>, that is the sign times the  *)
(* digits times a power of ten, without zeros at either end of the digits. *)
(* Which decimal a double has (to_chars' grisu2, strtod) is left out.      *)
(***************************************************************************)
EXTENDS JsonBinary, JsonEscape

Infinite == Value("float", <<>>)      \* neither NaN nor infinity has a decimal
Chars    == [quote |-> 34, backslash |-> 92, zero |-> 48, minus |-> 45, plus |-> 43, point |-> 46, e |-> 101]

-----------------------------------------------------------------------------
\* dump_escaped

\* The loop over the bytes of a string; what an exception leaves is marked.
RECURSIVE DumpEscaped(_, _, _)
DumpEscaped(s, b, how) ==
  CASE b.thrown -> Append(b.out, Thrown)
    [] ~b.thrown /\ b.at > Len(s)  -> LET e == Ended(b, how) IN IF e.thrown THEN Append(e.out, Thrown) ELSE e.out
    [] ~b.thrown /\ b.at <= Len(s) -> DumpEscaped(s, Round(b, s[b.at], how), how)

Quoted(s, how) == <<Chars.quote>> \o DumpEscaped(s, NewDump, how) \o <<Chars.quote>>

-----------------------------------------------------------------------------
\* Numbers.  A quotient of eight bytes by a small number, and its remainder.

Divided(b, d) ==
  FoldLeft(LAMBDA n, byte : [quotient  |-> Append(n.quotient, (n.remainder * 256 + byte) \div d),
                             remainder |-> (n.remainder * 256 + byte) % d],
           [quotient |-> <<>>, remainder |-> 0], b)
Below(b, n)  == Fits(b, 2) /\ b[7] * 256 + b[8] < n
Increment(b) == [i \in 1 .. 8 |-> IF \A j \in i + 1 .. 8 : b[j] = 255 THEN (b[i] + 1) % 256 ELSE b[i]]

RECURSIVE CountDigits(_)
CountDigits(b) ==
  CASE Below(b, 10)    -> 1
    [] ~Below(b, 10)    /\ Below(b, 100)   -> 2
    [] ~Below(b, 100)   /\ Below(b, 1000)  -> 3
    [] ~Below(b, 1000)  /\ Below(b, 10000) -> 4
    [] ~Below(b, 10000) -> 4 + CountDigits(Divided(b, 10000).quotient)

Pair(n) == <<48 + n \div 10, 48 + (n % 10)>>
RECURSIVE TwoByTwo(_)
TwoByTwo(b) ==
  CASE Below(b, 10)   -> <<48 + b[8]>>
    [] ~Below(b, 10) /\ Below(b, 100) -> Pair(b[8])
    [] ~Below(b, 100) -> TwoByTwo(Divided(b, 100).quotient) \o Pair(Divided(b, 100).remainder)

\* The digits are written from the end of as many places as were counted.
DumpInteger(b, signed) ==
  LET minus  == signed /\ Negative(b)
      abs    == IF minus THEN Increment(Complement(b)) ELSE b      \* remove_sign
      digits == TwoByTwo(abs)
      n      == CountDigits(abs) + (IF minus THEN 1 ELSE 0)
  IN  [i \in 1 .. n |-> IF i > n - Len(digits) THEN digits[i - n + Len(digits)] ELSE Chars.minus]

\* to_chars, from the digits and the exponent on
MinExp == -4
MaxExp == 15
Zeros(n) == [i \in 1 .. n |-> Chars.zero]
AppendExponent(n) ==
  LET k == IF n < 0 THEN -n ELSE n
  IN  <<IF n < 0 THEN Chars.minus ELSE Chars.plus>> \o (IF k < 100 THEN Pair(k) ELSE <<48 + k \div 100>> \o Pair(k % 100))
FormatBuffer(digits, exponent) ==
  LET k == Len(digits)
      n == k + exponent
  IN  CASE k <= n /\ n <= MaxExp          -> digits \o Zeros(n - k) \o <<Chars.point, Chars.zero>>
        [] 0 < n /\ n < k /\ n <= MaxExp  -> SubSeq(digits, 1, n) \o <<Chars.point>> \o SubSeq(digits, n + 1, k)
        [] MinExp < n /\ n <= 0           -> <<Chars.zero, Chars.point>> \o Zeros(-n) \o digits
        [] OTHER ->
             <<digits[1]>> \o (IF k = 1 THEN <<>> ELSE <<Chars.point>> \o Tail(digits)) \o <<Chars.e>> \o AppendExponent(n - 1)

DumpFloat(f) ==
  LET digits == [i \in 1 .. Len(f) - 2 |-> 48 + f[i + 2]]
  IN  IF f = <<>> THEN <<110, 117, 108, 108>>
      ELSE (IF f[1] < 0 THEN <<Chars.minus>> ELSE <<>>)
             \o (IF digits = <<>> THEN <<Chars.zero, Chars.point, Chars.zero>> ELSE FormatBuffer(digits, f[2]))

-----------------------------------------------------------------------------
\* dump: how says [pretty, step, fill, indents, ascii, errors, room].  The indentation
\* is cut from one string of the character given, fill, that has indents of them (512 in
\* the code).  It lives as long as the serializer and is doubled, with spaces, once for a
\* container that it is too short for; of what the container asks for beyond that, the
\* first is the string's closing zero, and the rest is not the string's any more.

Beyond == -2
Indentation(n, size, how) ==
  [i \in 1 .. n |-> CASE i <= how.indents              -> how.fill
                      [] how.indents < i /\ i <= size  -> 32
                      [] i = size + 1                  -> 0
                      [] i > size + 1                  -> Beyond]

True  == <<116, 114, 117, 101>>
False == <<102, 97, 108, 115, 101>>
Null  == <<110, 117, 108, 108>>

DumpScalar(v, how) ==
  CASE v.kind = "null"     -> Null
    [] v.kind = "boolean"  -> IF v.of = <<1>> THEN True ELSE False
    [] v.kind = "integer"  -> DumpInteger(v.of, TRUE)
    [] v.kind = "unsigned" -> DumpInteger(v.of, FALSE)
    [] v.kind = "float"    -> DumpFloat(v.of)
    [] v.kind = "string"   -> Quoted(v.of, how)

\* What a container makes of the size of the string of the indentation.
Resized(size, inner, how) == IF how.pretty /\ size < inner THEN 2 * size ELSE size

\* The text of a value, and the size of the string of the indentation behind it.
RECURSIVE DumpOnward(_, _, _, _)
DumpOnward(v, how, indent, size) ==
  LET array      == v.kind = "array"
      inner      == indent + how.step
      line(n, k) == IF how.pretty THEN <<10>> \o Indentation(n, k, how) ELSE <<>>
      name(i)    == IF array THEN <<>> ELSE Quoted(v.of[i][1], how) \o (IF how.pretty THEN <<58, 32>> ELSE <<58>>)
      Onward(d, i) == LET p == DumpOnward(IF array THEN v.of[i] ELSE v.of[i][2], how, inner, d.size)
                      IN  [text |-> d.text \o (IF i = 1 THEN <<>> ELSE <<44>>) \o line(inner, d.size) \o name(i) \o p.text,
                           size |-> p.size]
      parts      == FoldLeft(Onward, [text |-> <<>>, size |-> Resized(size, inner, how)], [i \in DOMAIN v.of |-> i])
      inside     == IF v.of = <<>> THEN <<>> ELSE parts.text \o line(indent, parts.size)
  IN  CASE v.kind \notin {"array", "object"} -> [text |-> DumpScalar(v, how), size |-> size]
        [] v.kind = "array"  -> [text |-> <<91>> \o inside \o <<93>>, size |-> IF v.of = <<>> THEN size ELSE parts.size]
        [] v.kind = "object" -> [text |-> <<123>> \o inside \o <<125>>, size |-> IF v.of = <<>> THEN size ELSE parts.size]

Dump(v, how) == DumpOnward(v, how, 0, how.indents).text

-----------------------------------------------------------------------------
\* lexer: scan_string

Unescape == (34 :> 34) @@ (92 :> 92) @@ (47 :> 47) @@ (98 :> 8) @@ (102 :> 12) @@ (110 :> 10) @@ (114 :> 13) @@ (116 :> 9)

\* get_codepoint
HexDigit(c) ==
  CASE c \in 48 .. 57  -> c - 48
    [] c \in 65 .. 70  -> c - 55
    [] c \in 97 .. 102 -> c - 87
    [] OTHER           -> -1
Codepoint(in, at) ==
  LET d(k) == HexDigit(Got(in, at + k))
  IN  IF \E k \in 0 .. 3 : d(k) = -1 THEN -1 ELSE d(0) * 4096 + d(1) * 256 + d(2) * 16 + d(3)

Utf8(code) ==
  CASE code < 128                      -> <<code>>
    [] code \in 128 .. \h7FF           -> <<\hC0 + code \div 64, 128 + (code % 64)>>
    [] code \in \h800 .. \hFFFF        -> <<\hE0 + code \div 4096, 128 + ((code \div 64) % 64), 128 + (code % 64)>>
    [] OTHER                           -> <<\hF0 + code \div 262144, 128 + ((code \div 4096) % 64),
                                            128 + ((code \div 64) % 64), 128 + (code % 64)>>

\* The bytes that may follow a first byte: what next_byte_in_range is called with.
Trail == \h80 .. \hBF
Following(byte) ==
  CASE byte \in \hC2 .. \hDF            -> <<Trail>>
    [] byte = \hE0                      -> <<\hA0 .. \hBF, Trail>>
    [] byte \in (\hE1 .. \hEF) \ {\hED} -> <<Trail, Trail>>
    [] byte = \hED                      -> <<\h80 .. \h9F, Trail>>
    [] byte = \hF0                      -> <<\h90 .. \hBF, Trail, Trail>>
    [] byte \in \hF1 .. \hF3            -> <<Trail, Trail, Trail>>
    [] byte = \hF4                      -> <<\h80 .. \h8F, Trail, Trail>>
    [] OTHER                            -> <<{}>>

\* What must be escaped, and what is taken as it is.
Control == 0 .. \h1F
Plain   == (\h20 .. \h7F) \ {Chars.quote, Chars.backslash}

High == \hD800 .. \hDBFF
Lower == \hDC00 .. \hDFFF
RECURSIVE ScanString(_, _, _)
ScanString(in, at, s) ==
  LET c     == Got(in, at)
      first == Codepoint(in, at + 2)
      pair  == Got(in, at + 6) = Chars.backslash /\ Got(in, at + 7) = 117
      low   == Codepoint(in, at + 8)
      next  == Following(c)
  IN  CASE c = Chars.quote -> Read(Value("string", s), at + 1)
        [] c = Chars.backslash /\ Got(in, at + 1) \in DOMAIN Unescape ->
             ScanString(in, at + 2, Append(s, Unescape[in[at + 1]]))
        [] c = Chars.backslash /\ Got(in, at + 1) = 117 ->
             IF first \in High
               THEN IF pair /\ low \in Lower
                      THEN ScanString(in, at + 12, s \o Utf8((first - \hD800) * 1024 + low - \hDC00 + \h10000))
                      ELSE Failed
               ELSE IF first = -1 \/ first \in Lower THEN Failed
               ELSE ScanString(in, at + 6, s \o Utf8(first))
        [] c \in Control -> Failed
        [] c \in Plain -> ScanString(in, at + 1, Append(s, c))
        [] c >= \h80 ->
             IF \A k \in DOMAIN next : Got(in, at + k) \in next[k]
               THEN ScanString(in, at + 1 + Len(next), s \o SubSeq(in, at, at + Len(next)))
               ELSE Failed
        [] OTHER -> Failed

-----------------------------------------------------------------------------
\* lexer: scan_number, its states being the labels of the source

Digit == 48 .. 57
Whole == {"init", "minus", "zero", "any1"}
AfterWhole(state, c) ==
  CASE state \in {"init", "minus"} /\ c = Chars.zero -> "zero"
    [] state \in {"init", "minus"} /\ c \in 49 .. 57 -> "any1"
    [] state = "init" /\ c = Chars.minus             -> "minus"
    [] state = "any1" /\ c \in Digit                 -> "any1"
    [] state \in {"zero", "any1"} /\ c = Chars.point -> "decimal1"
    [] state \in {"zero", "any1"} /\ c \in {Chars.e, 69} -> "exponent"
    [] OTHER -> IF state \in {"zero", "any1"} THEN "done" ELSE "error"
AfterPoint(state, c) ==
  CASE state \in {"decimal1", "decimal2"} /\ c \in Digit -> "decimal2"
    [] state = "decimal2" /\ c \in {Chars.e, 69} -> "exponent"
    [] state = "exponent" /\ c \in {Chars.plus, Chars.minus} -> "sign"
    [] state \in {"exponent", "sign", "any2"} /\ c \in Digit -> "any2"
    [] OTHER -> IF state \in {"decimal2", "any2"} THEN "done" ELSE "error"

\* The place of the first character after a number, or 0; the states that were passed.
RECURSIVE NumberEnd(_, _, _, _)
NumberEnd(in, at, state, passed) ==
  LET next == IF state \in Whole THEN AfterWhole(state, Got(in, at)) ELSE AfterPoint(state, Got(in, at))
  IN  CASE next = "done"  -> [at |-> at, passed |-> passed]
        [] next = "error" -> [at |-> 0, passed |-> passed]
        [] OTHER          -> NumberEnd(in, at + 1, next, passed \union {next})

\* strtoull: eight bytes, and whether the digits fit in them
TimesTen(n, digit) ==
  LET up == FoldRight(LAMBDA byte, m : [bytes |-> <<(byte * 10 + m.carry) % 256>> \o m.bytes,
                                        carry |-> (byte * 10 + m.carry) \div 256],
                      n.bytes, [bytes |-> <<>>, carry |-> digit])
  IN  [bytes |-> up.bytes, fits |-> n.fits /\ up.carry = 0]
Number(digits) ==
  FoldLeft(LAMBDA n, d : TimesTen(n, d - 48), [bytes |-> Bytes(0), fits |-> TRUE], digits)

\* strtod: the decimal of a float; beyond the powers of ten of a double it is infinite
\* or zero.
Trimmed(digits) ==
  LET some == {i \in DOMAIN digits : digits[i] # 48}
  IN  IF some = {} THEN <<>> ELSE SubSeq(digits, Min(some), Max(some))
Decimal(token) ==
  LET minus  == token[1] = Chars.minus
      e      == SelectInSeq(token, LAMBDA c : c \in {Chars.e, 69})
      whole  == SelectSeq(SubSeq(token, 1, IF e = 0 THEN Len(token) ELSE e - 1), LAMBDA c : c \in Digit \union {Chars.point})
      point  == SelectInSeq(whole, LAMBDA c : c = Chars.point)
      digits == SelectSeq(whole, LAMBDA c : c \in Digit)
      power  == IF e = 0 THEN 0
                ELSE FoldLeft(LAMBDA n, d : Min({9999, n * 10 + d - 48}), 0, SelectSeq(SubSeq(token, e, Len(token)), LAMBDA c : c \in Digit))
                       * (IF token[e + 1] = Chars.minus THEN -1 ELSE 1)
      last   == Len(digits) - Max({i \in DOMAIN digits : digits[i] # 48} \union {0})
      exponent == power + last - (IF point = 0 THEN 0 ELSE Len(whole) - point)
      kept   == Trimmed(digits)
  IN  IF kept = <<>> \/ Len(kept) + exponent < -323 THEN <<IF minus THEN -1 ELSE 1, 0>>
      ELSE IF Len(kept) + exponent > 309 THEN <<>>
      ELSE <<IF minus THEN -1 ELSE 1, exponent>> \o [i \in DOMAIN kept |-> kept[i] - 48]

\* An integer that does not fit is read as a float; the parser refuses a float that is
\* infinite.
ScanNumber(in, at) ==
  LET end   == NumberEnd(in, at, "init", {})
      token == SubSeq(in, at, end.at - 1)
      n     == Number(SelectSeq(token, LAMBDA c : c \in Digit))
      value == CASE end.passed \cap {"decimal1", "exponent"} # {} -> Value("float", Decimal(token))
                 [] "minus" \notin end.passed /\ n.fits -> Value("unsigned", n.bytes)
                 [] "minus" \in end.passed /\ n.fits /\ (n.bytes = Bytes(0) \/ Negative(Increment(Complement(n.bytes)))) ->
                      Value("integer", Increment(Complement(n.bytes)))
                 [] OTHER -> Value("float", Decimal(token))
  IN  IF end.at = 0 \/ value = Infinite THEN Failed ELSE Read(value, end.at)

-----------------------------------------------------------------------------
\* scan and sax_parse_internal, as one descent of a text; JsonParser has the parser's
\* own stack and what is built from its tokens.

Space == {32, 9, 10, 13}
RECURSIVE Blank(_, _)
Blank(in, at) == IF Got(in, at) \in Space THEN Blank(in, at + 1) ELSE at

Literal(in, at, text, value) == IF Has(in, at, Len(text)) /\ Taken(in, at, Len(text)) = text THEN Read(value, at + Len(text)) ELSE Failed

RECURSIVE TextValue(_, _), TextParts(_, _, _, _), AfterValue(_, _, _, _, _)
AfterValue(kind, in, key, part, parts) ==
  LET all  == Joined(kind, parts, key.value.of, part.value)
      next == Blank(in, part.at)
  IN  IF ~part.ok THEN Failed
      ELSE IF Got(in, next) = 44 THEN TextParts(kind, in, next + 1, all)
      ELSE IF Got(in, next) = Closing("text", kind) THEN Read(Value(kind, all), next + 1)
      ELSE Failed
\* The parts of a container from the one at this place on.
TextParts(kind, in, from, parts) ==
  LET at    == Blank(in, from)
      key   == IF kind = "array" THEN Read(Nothing, at)
               ELSE IF Got(in, at) = Chars.quote THEN ScanString(in, at + 1, <<>>) ELSE Failed
      colon == Blank(in, key.at)
      named == kind = "array" \/ Got(in, colon) = 58
  IN  IF ~key.ok \/ ~named THEN Failed
      ELSE AfterValue(kind, in, key, TextValue(in, IF kind = "array" THEN at ELSE Blank(in, colon + 1)), parts)

TextValue(in, at) ==
  LET c    == Got(in, at)
      kind == IF c = 91 THEN "array" ELSE "object"
      next == Blank(in, at + 1)
  IN  CASE c \in {91, 123} -> IF Got(in, next) = Closing("text", kind) THEN Read(Value(kind, <<>>), next + 1)
                              ELSE TextParts(kind, in, next, <<>>)
        [] c = 116 -> Literal(in, at, True, Value("boolean", <<1>>))
        [] c = 102 -> Literal(in, at, False, Value("boolean", <<0>>))
        [] c = 110 -> Literal(in, at, Null, Nothing)
        [] c = Chars.quote -> ScanString(in, at + 1, <<>>)
        [] c \in Digit \union {Chars.minus} -> ScanNumber(in, at)
        [] OTHER   -> Failed

\* A byte order mark is skipped, and must be whole; the end of the input is also a zero.
TextAtItsEnd(in, strict, r) ==
  IF r.ok /\ (strict => Got(in, Blank(in, r.at)) \in {EndOfInput, 0}) THEN r ELSE Failed
ReadText(in, strict) ==
  LET bom == Got(in, 1) = \hEF
  IN  IF bom /\ (Got(in, 2) # \hBB \/ Got(in, 3) # \hBF) THEN Failed
      ELSE TextAtItsEnd(in, strict, TextValue(in, Blank(in, IF bom THEN 4 ELSE 1)))

-----------------------------------------------------------------------------
\* wide_string_input_adapter: what the lexer gets of a string of wide units.  A unit that
\* is no code point is passed on, and no byte for the lexer; an adapter that was asked for
\* more after a surrogate at the end would read beyond it.

Surrogate == High \union Lower
FromUtf32(units) == FlattenSeq([i \in DOMAIN units |-> IF units[i] \in 0 .. \h10FFFF THEN Utf8(units[i]) ELSE <<units[i]>>])

\* Whatever follows a surrogate is taken for its second half.
RECURSIVE FromUtf16(_)
FromUtf16(units) ==
  IF units = <<>> THEN <<>>
  ELSE IF units[1] \notin Surrogate THEN Utf8(units[1]) \o FromUtf16(Tail(units))
  ELSE IF Len(units) = 1 THEN units
  ELSE Utf8(\h10000 + (units[1] % 1024) * 1024 + (units[2] % 1024)) \o FromUtf16(SubSeq(units, 3, Len(units)))

GetCharacters(width, units) ==
  CASE width = 8  -> units
    [] width = 16 -> FromUtf16(units)
    [] width = 32 -> FromUtf32(units)
=============================================================================
