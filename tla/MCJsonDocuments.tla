-------------------------- MODULE MCJsonDocuments --------------------------
EXTENDS JsonDocuments, StringDump

\* The numbers around every boundary of a width, of a type or of a count of digits.
Small == {0, 9, 10, 23, 24, 31, 32, 99, 100, 127, 128, 255, 256, 999, 1000, 9999, 10000, 32767, 32768,
          65535, 65536, 99999, 2147483647}
Positive ==
  {Bytes(n) : n \in Small} \union
  {<<0, 0, 0, 0, 128, 0, 0, 0>>, <<0, 0, 0, 0, 255, 255, 255, 255>>, <<0, 0, 0, 1, 0, 0, 0, 0>>,
   <<127, 255, 255, 255, 255, 255, 255, 255>>}
Great == {<<128, 0, 0, 0, 0, 0, 0, 0>>, <<255, 255, 255, 255, 255, 255, 255, 255>>}
Numbers ==
  {Value("unsigned", b) : b \in Positive \union Great} \union
  {Value("integer", b) : b \in Positive} \union {Value("integer", Complement(b)) : b \in Positive}

Repeated(n) == Value("string", [i \in 1 .. n |-> 97])
Simple == {Nothing, Value("boolean", <<0>>), Value("boolean", <<1>>)}
Doubles == {Value("float", <<63, 240, 0, 0, 0, 0, 0, 0>>), Value("float", <<255, 240, 0, 0, 0, 0, 0, 0>>)}
Decimals ==
  {Value("float", f) : f \in {<<>>, <<1, 0>>, <<-1, 0>>, <<1, 0, 5>>, <<-1, 14, 5>>, <<1, 15, 5>>, <<1, -1, 1, 5>>, <<1, -4, 2>>,
                              <<1, -5, 2>>, <<1, -4, 1, 2>>, <<-1, 99, 1>>, <<1, 98, 1, 2>>, <<1, -323, 5>>, <<1, 307, 1, 7>>}}

List(parts)  == Value("array", parts)
Map(members) == Value("object", members)
K == <<107>>
Inside(vs) ==
  vs \union {List(<<v>>) : v \in vs} \union {Map(<<<<K, v>>>>) : v \in vs}
    \union {List(<<v, List(<<v>>)>>) : v \in vs} \union {Map(<<<<K, v>>, <<<<107, 107>>, Map(<<<<<<>>, v>>>>)>>>>) : v \in vs}
    \union {Map(<<<<K, List(<<v, v>>)>>>>) : v \in vs}
Few == Simple \union {Repeated(1), List(<<>>), Map(<<>>), List(<<Nothing>>), Map(<<<<K, Nothing>>>>)} \union
  {Value("unsigned", Bytes(n)) : n \in {0, 127, 128, 256}} \union {Value("integer", Complement(Bytes(n))) : n \in {0, 128}}
  \union {Value("unsigned", <<128, 0, 0, 0, 0, 0, 0, 0>>)}
Pairs == {List(<<v, w>>) : v \in Few, w \in Few} \union {Map(<<<<K, v>>, <<<<109>>, w>>>>) : v \in Few, w \in Few}
Long(n) == {Map(<<<<K, List([i \in 1 .. n |-> Nothing])>>>>), List([i \in 1 .. n |-> Value("unsigned", Bytes(i))]),
            Map([i \in 1 .. n |-> <<<<48 + i \div 100, 48 + ((i \div 10) % 10), 48 + (i % 10)>>, Value("boolean", <<i % 2>>)>>])}

Binaries ==
  Inside(Numbers \union Simple \union Doubles \union {Repeated(n) : n \in {0, 1, 23, 24, 31, 32, 127, 128, 255, 256}})
    \union Pairs \union UNION {Long(n) : n \in {10, 11, 15, 16, 23, 24, 100}}
    \union {Map(<<<<K, Repeated(n)>>>>) : n \in {65535, 65536}}
    \union {Map(<<<<<<107, 0>>, Nothing>>>>)}

Binary(name, count, type) == [name |-> name, strict |-> TRUE, count |-> count, type |-> type]
BinaryFormats == {Binary("cbor", FALSE, FALSE), Binary("msgpack", FALSE, FALSE), Binary("bson", FALSE, FALSE),
                  Binary("ubjson", FALSE, FALSE), Binary("ubjson", TRUE, FALSE), Binary("ubjson", TRUE, TRUE)}

-----------------------------------------------------------------------------
\* Text: the bytes at which utf8d changes class, and the longest code points behind
\* every fill of a buffer of sixteen bytes.
Boundary == {\h09, \h1F, \h22, \h5C, \h61, \h7F, \h80, \h8F, \h90, \h9F, \hA0, \hBF, \hC1, \hC2, \hE0, \hE1, \hED, \hEF,
             \hF0, \hF1, \hF4, \hF5, \hFF}
Firsts == {\h61, \h80, \h90, \hA0, \hC2, \hE0, \hED, \hF0, \hF4}
Fills  == UNION {[1 .. k -> {\h61, \h1F}] : k \in 0 .. 4}
Ends   == {<<\hF0, \h9F, \h98, \h80>>, <<\hE2, \h82, \hAC>>, <<\hF0, \h9F, \h98>>, <<\h1F>>, <<\hE2, \h82, \h61>>}
Strings ==
  UNION {[1 .. k -> Boundary] : k \in 0 .. 2} \union [1 .. 3 -> Firsts]
    \union ((Firsts \ {\h61}) \X {\h8F, \h90, \hBF} \X {\h80, \h61} \X {\h80, \hC2, \h61})
    \union {f \o e : f \in Fills, e \in Ends}
TextValues ==
  {Value("string", s) : s \in Strings}
    \union {Map(<<<<K, Nothing>>, <<s, Value("string", s)>>>>) : s \in {<<108, \h80>>, <<\hE2>>, <<\hC3, \hA9>>}}
    \union Inside(Numbers \union Decimals \union Simple)
    \union {List(<<v, w>>) : v \in Few, w \in Few} \union {Map(<<<<<<>>, v>>, <<K, w>>>>) : v \in Few, w \in Decimals}

AsText(pretty, ascii, errors) ==
  [name |-> "text", strict |-> TRUE, pretty |-> pretty, step |-> 2, fill |-> 32, indents |-> 4, ascii |-> ascii,
   errors |-> errors, room |-> 16, width |-> 8]
TextFormats == {AsText(~ascii, ascii, errors) : ascii \in BOOLEAN, errors \in {"strict", "ignore", "replace"}}

\* Wide strings: the code points at which the units of either width change their form.
WideFormats == {[AsText(pretty, FALSE, "strict") EXCEPT !.width = width] : pretty \in BOOLEAN, width \in {16, 32}}
Points == {\h7F, \h80, \h7FF, \h800, \hD7FF, \hE000, \hFFFF, \h10000, \h103FF, \h10400, \h10FFFF}
Wides  == {List(<<Value("string", Utf8(p) \o Utf8(q))>>) : p \in Points, q \in Points}
Units16 == {34, \h61, \h7F, \h80, \h7FF, \h800, \hD7FF, \hD800, \hDBFF, \hDC00, \hDFFF, \hE000, \hFFFF}
Units32 == Units16 \union {\h10000, \h10FFFF, \h110000, EndOfInput}
\* Indentation: steps on both sides of the four characters of the string and of their
\* double, with what is a blank and what is not, of containers beside and in each other.
IndentFormats ==
  {[AsText(TRUE, FALSE, "strict") EXCEPT !.step = step, !.fill = fill, !.width = width] :
     step \in {0, 1, 3, 4, 5, 7, 8, 9, 10}, fill \in {32, 9, 45, 49}, width \in {8, 16}}
One == Value("unsigned", Bytes(1))
Nested ==
  Inside({One, List(<<>>), List(<<One>>), Map(<<<<K, Nothing>>>>)})
    \union {List(<<List(<<One, List(<<List(<<List(<<One>>)>>), List(<<>>)>>)>>), Map(<<<<K, List(<<Nothing>>)>>>>), One>>)}
MCMemory == {0, 32, 97}
MCDocuments ==
  (BinaryFormats \X Binaries) \union (TextFormats \X TextValues) \union (WideFormats \X Wides) \union (IndentFormats \X Nested)

\* What comes from elsewhere: the heads of every format in every order, and the
\* characters of every token.
UpTo(n, S) == UNION {[1 .. k -> S] : k \in 0 .. n}
Heads(name) ==
  CASE name = "cbor"    -> {\h00, \h18, \h20, \h38, \h61, \h7F, \h81, \h9F, \hA1, \hBF, \hF4, \hF9, \hFF}
    [] name = "msgpack" -> {\h00, \h81, \h91, \hA1, \hC0, \hC2, \hC4, \hCC, \hD0, \hD1, \hD9, \hDC, \hDE, \hFF}
    [] name = "ubjson"  -> {91, 93, 123, 125, 36, 35, 0, 1, 255, Mark.i, Mark.U, Mark.C, Mark.N, Mark.Z}
Singles ==
  {<<\hFA, a, b, c, 0>> : a \in {0, 63, 127, 128, 255}, b \in {0, 1, 64, 127, 128, 255}, c \in {0, 1, 192}}
Halves  == {<<\hF9, a, b>> : a \in {0, 1, 2, 3, 4, 60, 123, 124, 125, 128, 131, 252, 254}, b \in {0, 1, 2, 127, 128, 255}}
Typed ==
  {<<91, 36>> \o s : s \in [1 .. 4 -> {35, 0, 1, Mark.i, Mark.N, Mark.Z, Mark.T}]}
    \union {<<123, 36, Mark.Z, 35, Mark.i, 2>> \o s : s \in UpTo(4, {0, 1, Mark.i})}
Bsons ==
  {<<0, 0, 0, 0>> \o s : s \in UpTo(4, {0, 1, 3, 4, 8, 10, 16})}
    \union {<<9, 9, 9, 9, t, 107, 0, 6, 0, 0, 0>> \o s : t \in {2, 3, 4, 16}, s \in UpTo(4, {0, 8, 10})}

Word(a) == CASE a = "u" -> <<\h5C, 117>> [] a = "d83d" -> <<68, 56, 51, 100>> [] a = "dc00" -> <<100, 67, 48, 48>>
             [] a = "00e9" -> <<48, 48, 101, 57>> [] a = "20ac" -> <<50, 48, 97, 67>> [] a = "001f" -> <<48, 48, 49, 102>>
             [] a = "q" -> <<34>> [] a = "n" -> <<\h5C, 110>>
Words(s) == FlattenSeq([i \in DOMAIN s |-> Word(s[i])])
Characters ==
  UpTo(5, {48, 49, Chars.minus, Chars.point, Chars.e, Chars.plus})
    \union UpTo(4, {91, 93, 123, 125, 44, 58, 34, 32, 49})
    \union {<<123, 34, 34, 58>> \o s : s \in UpTo(3, {49, 44, 34, 58, 125, 93, 91})}
    \union {<<34>> \o Words(s) : s \in UpTo(4, {"u", "d83d", "dc00", "00e9", "20ac", "001f", "q", "n"})}
    \union {<<34>> \o s \o <<34>> : s \in UpTo(2, Boundary \union {0, 47, 117})}
    \union {<<\hEF, \hBB, \hBF>> \o s : s \in UpTo(2, {32, 49, 0})}
    \union {<<b>> \o Dump(v, AsText(FALSE, FALSE, "strict")) : b \in {32, 45, 49}, v \in Numbers}

Lax(f) == {[f EXCEPT !.strict = b] : b \in BOOLEAN}
MCInputs ==
  UNION {Lax(Binary(name, FALSE, FALSE)) \X UpTo(3, Heads(name)) : name \in {"cbor", "msgpack", "ubjson"}}
    \union ({Binary("cbor", FALSE, FALSE)} \X (Singles \union Halves \union [1 .. 4 -> {\h61, \h7F, \h9F, \hBF, \hFF, \h81, \hA1}]))
    \union ({Binary("msgpack", FALSE, FALSE)} \X {<<\hCA>> \o Tail(s) : s \in Singles})
    \union ({Binary("ubjson", TRUE, TRUE)} \X Typed)
    \union ({Binary("bson", FALSE, FALSE)} \X Bsons)
    \union (Lax(AsText(FALSE, FALSE, "strict")) \X Characters)
    \union UNION {Lax(f) \X {<<34>> \o s : s \in UpTo(3, IF f.width = 16 THEN Units16 ELSE Units32)} : f \in WideFormats}

-----------------------------------------------------------------------------
\* Strings on their way through the serializer: of up to four bytes, of every class and
\* with what is escaped, and longer ones that end in a code point of four bytes.
Representatives == {97, 10, 34, \h7F, \h80, \h90, \hA0, \hC3, \hE0, \hE1, \hED, \hF0, \hF1, \hF4, \hFF}
MCTexts ==
  UpTo(4, Representatives) \union
  {<<a, b, \hF0, \h90, c, \h80, d>> : a \in {34, \hC3}, b \in {97, \h80}, c \in {\h80, \hFF}, d \in Representatives}

\* One run for both: a document, or a string.
NoDocument == format = AsText(FALSE, FALSE, "strict") /\ value = Nothing /\ bytes = <<>> /\ phase = "refused" /\ read = Failed
NoString   == text = <<>> /\ how = [ascii |-> FALSE, errors |-> "strict", room |-> Room] /\ dump = NewDump /\ pc = "end"
MCInit == (Init /\ NoString) \/ (DumpInit /\ NoDocument)
MCNext == (Next /\ UNCHANGED dumpVars) \/ (DumpNext /\ UNCHANGED vars)
MCSpec == MCInit /\ [][MCNext]_<<vars, dumpVars>>

-----------------------------------------------------------------------------
\* What a string is when the bytes that are not UTF-8 are replaced: every longest
\* beginning of a code point that is not one, and every byte that begins none.
RECURSIVE Repaired(_, _)
Repaired(s, by) ==
  IF s = <<>> THEN s
  ELSE LET rest  == IF s[1] < 128 THEN <<>> ELSE Following(s[1])
           found == Max({k \in 0 .. Len(rest) : \A j \in 1 .. k : Got(s, 1 + j) \in rest[j]})
           kept  == SubSeq(s, found + 2, Len(s))
       IN  (IF found = Len(rest) THEN SubSeq(s, 1, found + 1) ELSE by) \o Repaired(kept, by)

\* The document as the format keeps it: a number that is not negative has one kind, a
\* float that has no decimal is null, and a string is repaired as the options say.
Kept(f, s) ==
  IF f.name = "text" /\ f.errors = "replace" THEN Repaired(s, <<\hEF, \hBF, \hBD>>)
  ELSE IF f.name = "text" /\ f.errors = "ignore" THEN Repaired(s, <<>>)
  ELSE s
RECURSIVE Normal(_, _)
Normal(f, v) ==
  CASE v.kind = "integer" -> Value(IF Negative(v.of) THEN "integer" ELSE "unsigned", v.of)
    [] v = Infinite       -> Nothing
    [] v.kind = "string"  -> Value("string", Kept(f, v.of))
    [] v.kind = "array"   -> Value("array", [i \in DOMAIN v.of |-> Normal(f, v.of[i])])
    [] v.kind = "object"  ->
         Value("object", FoldLeft(LAMBDA ms, m : With(ms, Kept(f, m[1]), Normal(f, m[2])), <<>>, v.of))
    [] OTHER              -> v

RECURSIVE Everything(_)
Everything(v) ==
  {v} \union (CASE v.kind = "array"  -> UNION {Everything(v.of[i]) : i \in DOMAIN v.of}
                [] v.kind = "object" -> UNION {{Value("string", v.of[i][1])} \union Everything(v.of[i][2]) : i \in DOMAIN v.of}
                [] OTHER             -> {})
Keys(v) == UNION {{w.of[i][1] : i \in DOMAIN w.of} : w \in {w \in Everything(v) : w.kind = "object"}}

\* What a format cannot hold: BSON nothing but an object at the top and no zero in a
\* key, BSON and UBJSON no number above 2^63 - 1, text no string that is not UTF-8.
CanBeWritten(f, v) ==
  /\ f.name = "bson" => v.kind = "object" /\ \A k \in Keys(v) : 0 \notin Range(k)
  /\ f.name \in {"bson", "ubjson"} => \A w \in Everything(v) : ~(w.kind = "unsigned" /\ Negative(w.of))
  /\ f.name = "text" /\ f.errors = "strict" =>
       \A w \in Everything(v) : w.kind = "string" => Repaired(w.of, <<>>) = w.of

\* What the indentation must be for the text to be one of JSON: of blanks, and a step of
\* no more than twice the string that the serializer starts with, which is 1024 in the
\* code.  However deep the containers are, their number does not matter.
CanBeIndented(f, v) ==
  f.name = "text" /\ f.pretty /\ v.kind \in {"array", "object"} /\ v.of # <<>> /\ f.step > 0 =>
    f.fill \in Space /\ f.step <= 2 * f.indents

\* What is written is read back as the same document, whatever the format and its
\* options, but for an indentation that cannot be (CanBeIndented); and an exception says
\* that the format cannot hold the document: json.hpp:6826 and the like say that any
\* output created can be successfully parsed.  With an indentation that can be, nothing
\* beyond the string of the indentation is read (serializer.hpp:113), however deep the
\* containers are and in whatever order it grows for them.
ReadBack ==
  /\ phase = "thrown" => ~CanBeWritten(format, value)
  /\ phase = "crashed" => ~CanBeIndented(format, value)
  /\ phase = "read" /\ CanBeIndented(format, value) => CanBeWritten(format, value) /\ read.ok
       /\ LET one == Normal(format, read.value)  two == Normal(format, value)
          IN  one.kind = two.kind /\ one = two

\* A document whose end was lost is never taken for another: the reader refuses it.  (Of
\* the text of a number the beginning is a number.)
CutIsRefused ==
  phase = "read_cut" =>
    ~read.ok \/ (format.name = "text" /\ value.kind \in {"unsigned", "integer", "float"})

\* The sizes that stand before the documents and arrays of BSON, which are counted
\* before anything is written, are the numbers of bytes that are written.
SizesAreTrue ==
  phase = "written" /\ format.name = "bson" =>
    \A v \in Everything(value) : v.kind \in {"array", "object"} => BsonSize(v) = Len(BsonContent(v))
=============================================================================
