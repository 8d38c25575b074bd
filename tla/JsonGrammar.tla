---------------------------- MODULE JsonGrammar ----------------------------
(***************************************************************************)
(* The grammar of RFC 8259, over the tokens of a text.  What n tokens from *)
(* a place on can be, a value or the rest of a container of some kind, is  *)
(* a matter of fewer tokens.                                               *)
(***************************************************************************)
EXTENDS Integers, Sequences

CONSTANTS Strings, Scalars

Containers    == {"array", "object"}
Opening(kind) == IF kind = "array" THEN "[" ELSE "{"
Closing(kind) == IF kind = "array" THEN "]" ELSE "}"

\* parts[n] has <<"value", i>> if the n tokens from i on are a value, and
\* <<kind, i>> if they are items or members, and the end of their container.

ItemOf(text, parts, kind, i, n) ==
  IF kind = "array" THEN <<"value", i>> \in parts[n]
  ELSE n > 2 /\ text[i] \in Strings /\ text[i + 1] = ":" /\ <<"value", i + 2>> \in parts[n - 2]

ListOf(text, parts, kind, i, n) ==
  \E m \in 1 .. n - 1 :
    /\ ItemOf(text, parts, kind, i, m)
    /\ \/ m = n - 1 /\ text[i + m] = Closing(kind)
       \/ m < n - 1 /\ text[i + m] = "," /\ <<kind, i + m + 1>> \in parts[n - m - 1]

ValueOf(text, parts, i, n) ==
  \/ n = 1 /\ text[i] \in Strings \union Scalars
  \/ \E kind \in Containers :
       /\ n > 1 /\ text[i] = Opening(kind)
       /\ (n = 2 /\ text[i + 1] = Closing(kind)) \/ <<kind, i + 1>> \in parts[n - 1]

PartsOf(text, parts, n) ==
  {x \in (Containers \union {"value"}) \X (1 .. Len(text)) :
     /\ x[2] + n <= Len(text) + 1
     /\ IF x[1] = "value" THEN ValueOf(text, parts, x[2], n)
                          ELSE ListOf(text, parts, x[1], x[2], n)}

Parts(text) ==
  LET parts[n \in 0 .. Len(text)] == PartsOf(text, parts, n) IN parts

\* A whole input: one value, and then nothing, or whatever ends there.
IsText(text, ends) ==
  \E n \in 1 .. Len(text) :
    /\ SubSeq(text, n + 1, Len(text)) = ends
    /\ <<"value", 1>> \in Parts(text)[n]
=============================================================================
