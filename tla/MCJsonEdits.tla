---------------------------- MODULE MCJsonEdits ----------------------------
EXTENDS JsonEdits

MCKeys == {<<97>>, <<Zero>>, <<Tilde, Zero + 1>>}
T == Value("boolean", <<1>>)
S == Value("string", <<97>>)
Leaves == {Nothing, S}
Small == {Object(<<>>), Array(<<Nothing, S>>), Array(<<T, S, T>>), Object(<<<<<<Zero>>, S>>>>),
          Object(<<<<<<Zero>>, Nothing>>, <<<<97>>, T>>>>), Object(<<<<<<97>>, S>>, <<<<Tilde, Zero + 1>>, T>>>>)}
Deep == {Object(<<<<<<97>>, Array(<<>>)>>>>), Array(<<Array(<<T, S>>), Nothing>>), Object(<<<<<<97>>, Array(<<T, T>>)>>>>), Array(<<Object(<<<<<<97>>, S>>>>)>>),
         Object(<<<<<<97>>, Object(<<<<<<Zero>>, T>>, <<<<97>>, Nothing>>>>)>>, <<<<Tilde, Zero + 1>>, Object(<<<<<<Slash>>, T>>>>)>>>>)}
MCValues == {Nothing, S, Array(<<T>>), Object(<<<<<<Zero>>, Nothing>>, <<<<97>>, T>>>>)}
MCLists == {<<S, T>>, <<Array(<<S, T>>), Array(<<S, Nothing>>)>>, <<Array(<<T, S>>), Nothing>>}
MCDocuments == Leaves \union Small \union Deep

\* The pointers, as texts: of no token, of one and of two, and those that are none.
Tokens == {<<97>>, <<Zero>>, <<Zero + 1>>, Dash, <<Tilde, Zero, Zero + 1>>, <<Zero, Zero>>, <<>>,
           <<45, Zero + 1>>, <<45, Zero + 2>>, <<32, Zero>>}
Paths == {<<>>, <<97>>, <<Slash, Tilde>>} \union {<<Slash>> \o t : t \in Tokens}
           \union {<<Slash, 97, Slash>> \o t : t \in {<<97>>, <<Zero>>, Dash, <<Zero, Zero + 1>>, <<45, Zero + 1, Slash, 97>>}}
           \union {<<Slash, Zero, Slash, 97>>}
Froms == {<<Slash>> \o t : t \in {<<97>>, <<Zero>>, <<Zero + 1>>, <<Tilde, Zero, Zero + 1>>}} \union {<<>>, <<Slash, 97, Slash, Zero>>}
MCOperations ==
  {[op |-> op, path |-> p, value |-> v] : op \in {"add", "replace", "test"}, p \in Paths, v \in {T, Array(<<S>>)}}
    \union {[op |-> "remove", path |-> p] : p \in Paths}
    \union {[op |-> op, path |-> p, from |-> f] : op \in {"move", "copy"}, p \in Froms \union {<<Slash, 45>>}, f \in Froms}
    \union {[op |-> op, path |-> <<>>] : op \in {"add", "move", "invalid"}}
MCMerges ==
  {T, Object(<<<<<<97>>, Nothing>>>>), Object(<<<<<<97>>, Object(<<<<<<97>>, Nothing>>, <<<<98>>, T>>>>)>>>>),
   Object(<<<<<<Zero>>, Object(<<<<<<Zero>>, Nothing>>>>)>>, <<<<97>>, Array(<<Nothing>>)>>>>)}

-----------------------------------------------------------------------------
\* json.hpp:7838 of diff: source.patch(diff(source, target)) == target is always true;
\* here of any two values between which the modifiers lead, both ways.
DiffPatches ==
  \A ends \in {<<before, document>>, <<document, before>>} :
    LET r == Patched(ends[1], Diff(ends[1], ends[2], <<>>)) IN r.ok /\ Same(r.value, ends[2])

\* json.hpp:7491 of unflatten: j == j.flatten().unflatten(), but for empty containers,
\* and but for an object whose first key is 0, which comes back as an array or not at all.
RECURSIVE Restorable(_)
Restorable(v) ==
  \/ Primitive(v)
  \/ /\ v.kind \in {"array", "object"} /\ v.of # <<>>
     /\ v.kind = "array" => \A i \in DOMAIN v.of : Restorable(v.of[i])
     /\ v.kind = "object" =>
          /\ \A i \in DOMAIN v.of : Restorable(v.of[i][2])
          /\ HasKey(v, <<Zero>>) => \E i \in DOMAIN v.of : Less(EscapeToken(v.of[i][1]), <<Zero>>)
FlattenRestores ==
  Restorable(document) => LET r == Unflatten(Flatten(document)) IN r.ok /\ Same(r.value, document)

\* Where a pointer has led that was added at: - is then the last element of its array.
\* Only the last token of add may have zeros before its digits: get_unchecked, which goes
\* to the parent, refuses them.
RECURSIVE WhereAdded(_, _)
WhereAdded(v, tokens) ==
  IF tokens = <<>> THEN tokens
  ELSE LET t == Head(tokens)
           plain == CASE v.kind = "array" /\ t = Dash -> Digits(Len(v.of) - 1)
                      [] v.kind = "array" /\ t # Dash /\ t[1] = Zero /\ Len(tokens) = 1 -> Digits(ArrayIndex(t).value)
                      [] OTHER -> t
           next  == At(v, <<plain>>)
       IN  <<plain>> \o (IF next.ok THEN WhereAdded(next.value, Tail(tokens)) ELSE Tail(tokens))

\* What a patch or an assignment has put somewhere is there afterwards: with add, replace,
\* move, copy and operator[] of a pointer, the value given or, of move and copy, the one
\* that stood at from.  The accesses that check find it, at and contains alike, by the
\* same pointer; the exceptions are -, which is no element for them and was the end for
\* those that add, and an index like 00, which the last token of an add may be and which
\* at and contains refuse (json_pointer.hpp:545): there it is at the index it stands for.
Adding == {"add", "replace", "move", "copy"}
FindsIt(v, tokens) == LET r == IsThere(v, tokens) IN r.ok /\ r.value
AddedIsThere ==
  outcome = "done" /\ (last.op \in Adding \/ (last.op = "assign" /\ "path" \in DOMAIN last)) =>
    LET ptr   == Split(last.path).value
        place == WhereAdded(document, ptr)
        given == IF last.op \in {"move", "copy"} THEN At(before, Split(last.from).value).value ELSE last.value
        r     == At(document, place)
    IN  /\ r.ok /\ Same(r.value, given) /\ FindsIt(document, place)
        /\ place # ptr => ~At(document, ptr).ok /\ ~FindsIt(document, ptr)
=============================================================================
