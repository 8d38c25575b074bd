---------------------------- MODULE MCJsonParser ----------------------------
(***************************************************************************)
(* The parser on every text of at most MaxTokens tokens, beside the texts  *)
(* that the grammar of RFC 8259 derives, each with the value it stands for.*)
(***************************************************************************)
EXTENDS JsonParser

KeyOrder == <<"a", "b">>

\* The derivations: of a value, of the items of an array, of the members of an
\* object, in n tokens.  Of two members with one key the later counts.
RECURSIVE Derived(_), DerivedItems(_), DerivedMembers(_)

Derived(n) ==
  IF n <= 0 THEN {}
  ELSE IF n = 1 THEN {[text |-> <<t>>, doc |-> <<"scalar", t>>] : t \in Strings \union Scalars}
  ELSE {[text |-> <<"[">> \o r.text \o <<"]">>, doc |-> <<"array", r.doc>>] : r \in DerivedItems(n - 2)}
       \union
       {[text |-> <<"{">> \o r.text \o <<"}">>, doc |-> <<"object", r.doc>>] : r \in DerivedMembers(n - 2)}

DerivedItems(n) ==
  IF n = 0 THEN {[text |-> <<>>, doc |-> <<>>]}
  ELSE {[v EXCEPT !.doc = <<@>>] : v \in Derived(n)}
       \union UNION {{[text |-> v.text \o <<",">> \o r.text, doc |-> <<v.doc>> \o r.doc] :
                         v \in Derived(k), r \in DerivedItems(n - k - 1)} : k \in 1 .. n - 2}

DerivedMembers(n) ==
  IF n = 0 THEN {[text |-> <<>>, doc |-> {}]}
  ELSE LET Member(k) == {[text |-> <<s, ":">> \o v.text, key |-> s, doc |-> v.doc] :
                           s \in Strings, v \in Derived(k - 2)}
       IN  {[text |-> m.text, doc |-> {<<m.key, m.doc>>}] : m \in Member(n)}
           \union UNION {{[text |-> m.text \o <<",">> \o r.text,
                            doc |-> r.doc \union {x \in {<<m.key, m.doc>>} : \A y \in r.doc : y[1] # m.key}] :
                              m \in Member(k), r \in DerivedMembers(n - k - 1)} : k \in 3 .. n - 4}

Texts    == UNION {Derived(n) : n \in 1 .. MaxTokens}
Bodies   == {r.text : r \in Texts}
Prefixes == UNION {{SubSeq(t, 1, n) : t \in {u \in Bodies : Len(u) >= n}} : n \in 1 .. MaxTokens}

RECURSIVE Doc(_, _)
Doc(d, p) ==
  CASE d.kind[p] = "scalar" -> <<"scalar", tokens[p]>>
    [] d.kind[p] = "array"  -> <<"array", [i \in DOMAIN d.items[p] |-> Doc(d, d.items[p][i])]>>
    [] d.kind[p] = "object" -> <<"object", {<<s, Doc(d, d.members[p][s])>> :
                                               s \in {t \in Strings : d.members[p][t] # Absent}}>>

\* The parser accepts what the grammar derives and returns the value it derives,
\* and it rejects at the first token that no text of the grammar has there.
ParsesTheText ==
  LET read == SelectSeq(tokens, LAMBDA t : t # "end_of_input")
  IN  /\ want = "accepted" => [text |-> read, doc |-> Doc(plain, plain.root)] \in Texts
      /\ want = "rejected" => IF Top(tokens) = "end_of_input" THEN read \notin Bodies
                                                             ELSE tokens \notin Prefixes
=============================================================================
