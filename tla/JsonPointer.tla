---------------------------- MODULE JsonPointer ----------------------------
(***************************************************************************)
(* nlohmann::json_pointer: the tokens of a pointer and the place in a      *)
(* value that they lead to, and a value as a flat object of pointers.      *)
(* Values are those of JsonBinary; what may throw is [ok, value].          *)
(***************************************************************************)
EXTENDS JsonBinary

Refused   == [ok |-> FALSE, value |-> Nothing]
Undefined == [ok |-> FALSE, value |-> Value("undefined", <<>>)]   \* a reference to no element
Done(v) == [ok |-> TRUE, value |-> v]

Slash == 47
Tilde == 126
Zero  == 48
Dash  == <<45>>

\* replace_substring
RECURSIVE Replaced(_, _, _)
Replaced(s, from, to) ==
  IF Len(s) < Len(from) THEN s
  ELSE IF SubSeq(s, 1, Len(from)) = from THEN to \o Replaced(SubSeq(s, Len(from) + 1, Len(s)), from, to)
  ELSE <<s[1]>> \o Replaced(Tail(s), from, to)

EscapeToken(s)   == Replaced(Replaced(s, <<Tilde>>, <<Tilde, Zero>>), <<Slash>>, <<Tilde, Zero + 1>>)
\* The mutant takes the two in the other order.
TildeFirst(s)    == Replaced(Replaced(s, <<Tilde, Zero>>, <<Tilde>>), <<Tilde, Zero + 1>>, <<Slash>>)
UnescapeToken(s) == Replaced(Replaced(s, <<Tilde, Zero + 1>>, <<Slash>>), <<Tilde, Zero>>, <<Tilde>>)

\* Every tilde of a token is followed by 0 or by 1.
WellEscaped(t) == \A i \in DOMAIN t : t[i] = Tilde => i < Len(t) /\ t[i + 1] \in {Zero, Zero + 1}
Split(s) ==
  LET raw == FoldLeft(LAMBDA ts, c : IF c = Slash THEN Append(ts, <<>>) ELSE Append(Front(ts), Append(Last(ts), c)),
                      <<>>, s)
  IN  CASE s = <<>> -> Done(<<>>)
        [] s # <<>> /\ s[1] # Slash -> Refused
        [] OTHER -> IF \E i \in DOMAIN raw : ~WellEscaped(raw[i]) THEN Refused
                    ELSE Done([i \in DOMAIN raw |-> UnescapeToken(raw[i])])

\* json_value: the value that a kind starts with.
Default(kind) ==
  Value(kind, CASE kind = "boolean" -> <<0>>
                [] kind \in {"integer", "unsigned", "float"} -> Bytes(0)
                [] OTHER -> <<>>)

-----------------------------------------------------------------------------
\* The members of an object, and the element of an array that a token names.

HasKey(v, key)    == \E i \in DOMAIN v.of : v.of[i][1] = key
Member(v, key)  == v.of[CHOOSE i \in DOMAIN v.of : v.of[i][1] = key][2]
Entry(v, key)   == IF HasKey(v, key) THEN Member(v, key) ELSE Nothing      \* operator[], which adds a null

\* array_index: stoi takes blanks and a sign before the digits, which must be the end of
\* the token, and no more than an int holds: up to 2147483647, down to one below that.
AllDigits(t) == \A i \in DOMAIN t : t[i] \in Zero .. Zero + 9
IsBlank(c)   == c \in (9 .. 13) \union {32}
WithoutBlanks(t) == LET i == SelectInSeq(t, LAMBDA c : ~IsBlank(c)) IN IF i = 0 THEN <<>> ELSE SubSeq(t, i, Len(t))
Stoi(sign, digits) ==
  FoldLeft(LAMBDA n, c : IF /\ n.ok /\ c \in Zero .. Zero + 9
                            /\ \/ sign * n.value < 214748364
                               \/ sign * n.value = 214748364 /\ c - Zero <= IF sign = 1 THEN 7 ELSE 8
                           THEN Done(n.value * 10 + sign * (c - Zero))
                           ELSE Refused,
           IF digits = <<>> THEN Refused ELSE Done(0), digits)
Signed(number) ==
  IF number # <<>> /\ number[1] \in {43, 45} THEN Stoi(44 - number[1], Tail(number)) ELSE Stoi(1, number)
ArrayIndex(t) == Signed(WithoutBlanks(t))

\* A negative index becomes one of nearly 2^64, which is out of every range.
InRange(i, parts) == i.ok /\ i.value \in 0 .. Len(parts) - 1

\* The index as the accesses by pointer take it: no zero stands before another digit.
PointerIndex(t) == IF Len(t) > 1 /\ t[1] = Zero THEN Refused ELSE ArrayIndex(t)

\* get_checked: nothing is added on the way.
RECURSIVE At(_, _)
At(v, tokens) ==
  IF tokens = <<>> THEN Done(v)
  ELSE LET t == Head(tokens)
           i == PointerIndex(t)
       IN  CASE v.kind = "object" -> IF HasKey(v, t) THEN At(Member(v, t), Tail(tokens)) ELSE Refused
             [] v.kind = "array"  -> IF InRange(i, v.of) THEN At(v.of[i.value + 1], Tail(tokens)) ELSE Refused
             [] OTHER -> Refused

\* contains, which throws only for an index that is none
RECURSIVE IsThere(_, _)
IsThere(v, tokens) ==
  IF tokens = <<>> THEN Done(TRUE)
  ELSE LET t == Head(tokens)
           i == PointerIndex(t)
       IN  CASE v.kind = "object" -> IF HasKey(v, t) THEN IsThere(Member(v, t), Tail(tokens)) ELSE Done(FALSE)
             [] v.kind = "array" ->
                  IF t = Dash THEN Done(FALSE)
                  ELSE IF ~i.ok THEN Refused
                  ELSE IF ~InRange(i, v.of) THEN Done(FALSE)
                  ELSE IsThere(v.of[i.value + 1], Tail(tokens))
             [] OTHER -> Done(FALSE)

\* The accesses that add what is missing: get_unchecked, of operator[], and
\* get_and_create, of unflatten.  A null becomes a container, by its token.
Turned(v, t, how) ==
  IF v.kind # "null" THEN v
  ELSE IF (how = "create" /\ t = <<Zero>>) \/ (how = "unchecked" /\ (AllDigits(t) \/ t = Dash)) THEN Default("array")
  ELSE Default("object")
\* operator[] adds as many nulls as are missing: of a negative index more than an array
\* can have, but for -1 and an empty array, of which none is missing: 2^64 of them.
Nonnegative(i, parts) ==
  IF ~i.ok \/ i.value >= 0 THEN i ELSE IF i.value = -1 /\ parts = <<>> THEN Undefined ELSE Refused
Index(v, t, how) ==
  IF how = "unchecked" /\ t = Dash THEN Done(Len(v.of))
  ELSE Nonnegative(IF how = "create" THEN ArrayIndex(t) ELSE PointerIndex(t), v.of)

\* The value at a place, which is null when it was not there.
RECURSIVE Reached(_, _, _)
Reached(v, tokens, how) ==
  IF tokens = <<>> THEN Done(v)
  ELSE LET t == Head(tokens)
           u == Turned(v, t, how)
       IN  CASE u.kind = "object" -> Reached(Entry(u, t), Tail(tokens), how)
             [] u.kind = "array"  ->
                  LET i == Index(u, t, how)
                  IN  IF ~i.ok THEN i
                      ELSE Reached(IF i.value < Len(u.of) THEN u.of[i.value + 1] ELSE Nothing, Tail(tokens), how)
             [] OTHER -> Refused

\* The whole value once another is put at a place that was reached: an array is filled
\* with nulls up to the index.  What was added on the way to a token that is refused
\* stays.
RECURSIVE Put(_, _, _, _)
Put(v, tokens, new, how) ==
  IF tokens = <<>> THEN new
  ELSE LET t == Head(tokens)
           u == Turned(v, t, how)
           i == Index(u, t, how)
       IN  CASE u.kind = "object" -> Value("object", With(u.of, t, Put(Entry(u, t), Tail(tokens), new, how)))
             [] u.kind = "array" ->
                  LET old == [k \in 1 .. Max({Len(u.of), i.value + 1}) |-> IF k <= Len(u.of) THEN u.of[k] ELSE Nothing]
                  IN  IF i.ok THEN Value("array", [old EXCEPT ![i.value + 1] = Put(@, Tail(tokens), new, how)]) ELSE u
             [] OTHER -> v

-----------------------------------------------------------------------------
\* flatten and unflatten: an empty container is a null.

Primitive(v) == v.kind \notin {"array", "object"}

RECURSIVE FlattenInto(_, _, _)
FlattenInto(members, path, v) ==
  IF Primitive(v) THEN With(members, path, v)
  ELSE IF v.of = <<>> THEN With(members, path, Nothing)
  ELSE LET name(i) == IF v.kind = "array" THEN Digits(i - 1) ELSE EscapeToken(v.of[i][1])
           part(i) == IF v.kind = "array" THEN v.of[i] ELSE v.of[i][2]
       IN  FoldLeft(LAMBDA ms, i : FlattenInto(ms, path \o <<Slash>> \o name(i), part(i)), members,
                    [i \in DOMAIN v.of |-> i])
Flatten(v) == Value("object", FlattenInto(<<>>, <<>>, v))

Unflatten(v) ==
  LET put(r, key, part) ==
        LET p == Split(key)
        IN  IF r.ok /\ Primitive(part) /\ p.ok /\ Reached(r.value, p.value, "create").ok
              THEN Done(Put(r.value, p.value, part, "create"))
              ELSE Refused
  IN  IF v.kind # "object" THEN Refused
      ELSE FoldLeft(LAMBDA r, m : put(r, m[1], m[2]), Done(Nothing), v.of)
=============================================================================
