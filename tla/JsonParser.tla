----------------------------- MODULE JsonParser -----------------------------
(***************************************************************************)
(* nlohmann::detail::parser and its SAX consumers: one text, read token by *)
(* token, and the two documents that are put together meanwhile: the one   *)
(* of json_sax_dom_parser, and the one of json_sax_dom_callback_parser,    *)
(* whose callback keeps or refuses what it is shown.  A value is known by  *)
(* the position of its first token: that is what a pointer to it holds.    *)
(***************************************************************************)
EXTENDS Integers, Sequences, FiniteSetsExt

CONSTANTS
  Order,      \* the strings of the text, as std::map orders them
  Scalars,    \* every other token that is a value by itself
  MaxTokens,  \* bound: no token is read after this many
  MaxRefused  \* bound: the callback refuses no more values than this

Strings     == {Order[i] : i \in DOMAIN Order}
Punctuation == {"[", "]", "{", "}", ":", ",", "end_of_input"}
Errors      == {"parse_error", "number_overflow"}   \* what the lexer refuses, floats that are not finite
Tokens      == Strings \union Scalars \union Punctuation \union Errors

ASSUME StringsAssumption == Order \in Seq(Strings) /\ \A s \in Strings : s \notin Scalars
ASSUME TokensAssumption ==
  \A s \in Strings \union Scalars : s \notin Punctuation /\ s \notin Errors
ASSUME LengthAssumption == MaxTokens \in Nat

VARIABLES
  strict,    \* whether the end of the input must follow the value
  tokens,    \* what was read, last_token being the last
  want,      \* what the next token is compared with, or how the call ended
  states,    \* of sax_parse_internal: the kinds of the containers it is in
  plain,     \* the json_sax_dom_parser
  kept,      \* the json_sax_dom_callback_parser
  refused    \* history: the values the callback refused, itself or their key

vars == <<strict, tokens, want, states, plain, kept, refused>>

Null   == 0       \* a null pointer, or the value null
Gone   == -1      \* the value discarded, as key() leaves it
Absent == -2      \* no such key
Places == 1 .. MaxTokens
Kinds  == {"scalar", "array", "object", "discarded"}

\* A consumer: the values by their places, and the pointers and stacks it keeps.
NewDom ==
  [root    |-> Null,
   refs    |-> <<>>,           \* ref_stack
   element |-> <<Null, Null>>, \* object_element: an object and a key in it
   keep    |-> <<TRUE>>,       \* keep_stack, of the second only
   keys    |-> <<>>,           \* key_keep_stack, of the second only
   made    |-> Null,           \* what handle_value returned
   kind    |-> [p \in Places |-> "scalar"],
   items   |-> [p \in Places |-> <<>>],
   members |-> [p \in Places |-> [s \in Strings |-> Absent]]]

Init ==
  /\ strict \in BOOLEAN
  /\ tokens = <<>>
  /\ want = "value"
  /\ states = <<>>
  /\ plain = NewDom
  /\ kept = NewDom
  /\ refused = {}

Top(s)  == s[Len(s)]
Rest(s) == SubSeq(s, 1, Len(s) - 1)
Here    == Len(tokens) + 1     \* the place of the token that is read next

-----------------------------------------------------------------------------
\* json_sax_dom_parser

\* A key that comes twice has the later value.  The mutant keeps the earlier.
KeepsEarlier(old, p) == IF old \in Places THEN old ELSE p
Replaced(old, p)     == p

\* handle_value: the root, the next item of an array, or what object_element points to
Handled(d, p, kind) ==
  LET e == [d EXCEPT !.kind[p] = kind, !.made = p]
  IN  IF d.refs = <<>> THEN [e EXCEPT !.root = p]
      ELSE IF d.kind[Top(d.refs)] = "array" THEN [e EXCEPT !.items[Top(d.refs)] = Append(@, p)]
      ELSE [e EXCEPT !.members[d.element[1]][d.element[2]] = Replaced(@, p)]

Started(d, p, kind) == [Handled(d, p, kind) EXCEPT !.refs = Append(@, p)]

\* operator[] leaves the value of a key that is there already.  The mutant
\* keeps the pointer to the element before.
StaleKey(d, s) ==
  [d EXCEPT !.members[Top(d.refs)][s] = IF @ = Absent THEN Null ELSE @,
            !.element = IF @[1] = Top(d.refs) THEN @ ELSE <<Top(d.refs), s>>]
Keyed(d, s) ==
  [d EXCEPT !.members[Top(d.refs)][s] = IF @ = Absent THEN Null ELSE @,
            !.element = <<Top(d.refs), s>>]

Ended(d) == [d EXCEPT !.refs = Rest(@)]

-----------------------------------------------------------------------------
\* json_sax_dom_callback_parser; yes is what the callback answers

\* Whether a value goes into the object it is in: what was said of the latest key.
\* The mutant asks what was said of the first.
FirstKeyKept(d) == d.keys[1]
StoreElement(d) == Top(d.keys)

\* Nothing is placed in a container that is not kept, nor in one whose own parent
\* is not; only then is the key's answer looked at, and taken off its stack.
HandledIf(d, p, kind, yes) ==
  LET no == [d EXCEPT !.made = Null]
  IN  IF ~Top(d.keep) \/ ~yes \/ (d.refs # <<>> /\ Top(d.refs) = Null) THEN no
      ELSE IF d.refs = <<>> \/ d.kind[Top(d.refs)] = "array" THEN Handled(d, p, kind)
      ELSE IF StoreElement(d) THEN [Handled(d, p, kind) EXCEPT !.keys = Rest(@)]
      ELSE [no EXCEPT !.keys = Rest(@)]

StartedIf(d, p, kind, yes) ==
  LET e == HandledIf([d EXCEPT !.keep = Append(@, yes)], p, kind, TRUE)
  IN  [e EXCEPT !.refs = Append(@, e.made)]

KeyedIf(d, s, yes) ==
  LET e == [d EXCEPT !.keys = Append(@, yes)]
  IN  IF yes /\ Top(d.refs) # Null
        THEN [e EXCEPT !.members[Top(d.refs)][s] = Gone, !.element = <<Top(d.refs), s>>]
        ELSE e

\* A container refused at its end stays where it is, as a discarded value ...
Closed(d, yes) ==
  [d EXCEPT !.kind = IF Top(d.refs) # Null /\ ~yes THEN [@ EXCEPT ![Top(d.refs)] = "discarded"] ELSE @,
            !.refs = Rest(@),
            !.keep = Rest(@)]

Discarded(d, p) == p = Gone \/ (p \in Places /\ d.kind[p] = "discarded")

\* ... until the end of an object makes the object around it erase its first
\* discarded member, ...
Erased(d, o) ==
  LET gone == {i \in DOMAIN Order : Discarded(d, d.members[o][Order[i]])}
  IN  IF gone = {} THEN d ELSE [d EXCEPT !.members[o][Order[Min(gone)]] = Absent]

Inside(d, kind) == d.refs # <<>> /\ Top(d.refs) # Null /\ d.kind[Top(d.refs)] = kind

ObjectEndedIf(d, yes) ==
  LET e == Closed(d, yes) IN IF Inside(e, "object") THEN Erased(e, Top(e.refs)) ELSE e

\* ... or, for an array that was refused, the array around it drop its last item.
ArrayEndedIf(d, yes) ==
  LET e == Closed(d, yes)
  IN  IF Top(d.refs) # Null /\ ~yes /\ Inside(e, "array")
        THEN [e EXCEPT !.items[Top(e.refs)] = Rest(@)]
        ELSE e

-----------------------------------------------------------------------------
\* sax_parse_internal: one action for each kind of token it gets, up to the next
\* get_token.

Read(t) == Len(tokens) < MaxTokens /\ tokens' = Append(tokens, t)

\* What follows a value: an item or member of the innermost container, or the end.
\* The mutant leaves what follows the text unread.
AfterUnread(s) == IF s # <<>> THEN "separator" ELSE "accepted"
After(s)       == IF s # <<>> THEN "separator" ELSE IF strict THEN "end" ELSE "accepted"

Refuse(p, yes) ==
  /\ yes \/ Cardinality(refused) < MaxRefused
  /\ refused' = IF yes THEN refused ELSE refused \union {p}

\* The callback is asked of a value unless the container it is in is refused.
Value(t) ==
  \E yes \in BOOLEAN :
    /\ want \in {"value", "first_item"}
    /\ t \in Strings \union Scalars
    /\ Top(kept.keep) \/ yes
    /\ Read(t)
    /\ states' = IF want = "first_item" THEN Append(states, "array") ELSE states
    /\ want' = After(states')
    /\ plain' = Handled(plain, Here, "scalar")
    /\ kept' = HandledIf(kept, Here, "scalar", yes)
    /\ Refuse(Here, yes)
    /\ UNCHANGED strict

Begin(t, kind, next) ==
  \E yes \in BOOLEAN :
    /\ want \in {"value", "first_item"}
    /\ Read(t)
    /\ states' = IF want = "first_item" THEN Append(states, "array") ELSE states
    /\ want' = next
    /\ plain' = Started(plain, Here, kind)
    /\ kept' = StartedIf(kept, Here, kind, yes)
    /\ Refuse(Here, yes)
    /\ UNCHANGED strict

BeginArray  == Begin("[", "array", "first_item")
BeginObject == Begin("{", "object", "first_key")

\* A container is on the stack of states from its first item or member on.
Inner == IF want = "separator" THEN Rest(states) ELSE states

EndArray ==
  \E yes \in BOOLEAN :
    /\ want = "first_item" \/ (want = "separator" /\ Top(states) = "array")
    /\ Top(kept.refs) # Null \/ yes
    /\ Read("]")
    /\ states' = Inner
    /\ want' = After(Inner)
    /\ plain' = Ended(plain)
    /\ kept' = ArrayEndedIf(kept, yes)
    /\ Refuse(Top(plain.refs), yes)
    /\ UNCHANGED strict

EndObject ==
  \E yes \in BOOLEAN :
    /\ want = "first_key" \/ (want = "separator" /\ Top(states) = "object")
    /\ Top(kept.refs) # Null \/ yes
    /\ Read("}")
    /\ states' = Inner
    /\ want' = After(Inner)
    /\ plain' = Ended(plain)
    /\ kept' = ObjectEndedIf(kept, yes)
    /\ Refuse(Top(plain.refs), yes)
    /\ UNCHANGED strict

\* The value of a key comes two tokens after it.
Key(s) ==
  \E yes \in BOOLEAN :
    /\ want \in {"first_key", "key"}
    /\ Read(s)
    /\ want' = IF want = "key" THEN "name_separator" ELSE "first_name_separator"
    /\ plain' = Keyed(plain, s)
    /\ kept' = KeyedIf(kept, s, yes)
    /\ Refuse(Here + 2, yes)
    /\ UNCHANGED <<strict, states>>

NameSeparator ==
  /\ want \in {"name_separator", "first_name_separator"}
  /\ Read(":")
  /\ states' = IF want = "first_name_separator" THEN Append(states, "object") ELSE states
  /\ want' = "value"
  /\ UNCHANGED <<strict, plain, kept, refused>>

AfterComma(kind) == IF kind = "array" THEN "value" ELSE "key"

ValueSeparator ==
  /\ want = "separator"
  /\ Read(",")
  /\ want' = AfterComma(Top(states))
  /\ UNCHANGED <<strict, states, plain, kept, refused>>

EndOfInput ==
  /\ want = "end"
  /\ Read("end_of_input")
  /\ want' = "accepted"
  /\ UNCHANGED <<strict, states, plain, kept, refused>>

\* Anything else is an error, and the call returns or throws.
Expected ==
  CASE want = "value"      -> Strings \union Scalars \union {"[", "{"}
    [] want = "first_item" -> Strings \union Scalars \union {"[", "{", "]"}
    [] want = "first_key"  -> Strings \union {"}"}
    [] want = "key"        -> Strings
    [] want \in {"name_separator", "first_name_separator"} -> {":"}
    [] want = "separator"  -> {",", IF Top(states) = "array" THEN "]" ELSE "}"}
    [] want = "end"        -> {"end_of_input"}

ParseError(t) ==
  /\ want \notin {"accepted", "rejected"}
  /\ t \notin Expected
  /\ Read(t)
  /\ want' = "rejected"
  /\ UNCHANGED <<strict, states, plain, kept, refused>>

Next ==
  \/ \E t \in Strings \union Scalars : Value(t)
  \/ BeginArray \/ BeginObject
  \/ EndArray \/ EndObject
  \/ \E s \in Strings : Key(s)
  \/ NameSeparator \/ ValueSeparator \/ EndOfInput
  \/ \E t \in Tokens : ParseError(t)

Spec == Init /\ [][Next]_vars

-----------------------------------------------------------------------------
\* Properties

Running == want \notin {"accepted", "rejected"}

\* The containers that were begun and not ended.
Opened == IF want \in {"first_item", "first_key", "first_name_separator"}
            THEN Len(states) + 1 ELSE Len(states)

Kind(i) == IF i <= Len(states) THEN states[i] ELSE IF want = "first_item" THEN "array" ELSE "object"

\* A value comes next, and it is a member of the innermost container.
MemberNext ==
  \/ want \in {"first_name_separator", "name_separator"}
  \/ want = "value" /\ states # <<>> /\ Top(states) = "object"

Depths ==
  Len(plain.refs) = Opened /\ Len(kept.refs) = Opened /\ Len(kept.keep) = Opened + 1

KindsAgree ==
  \A i \in 1 .. Opened :
    /\ plain.kind[plain.refs[i]] = Kind(i)
    /\ kept.refs[i] # Null => kept.refs[i] = plain.refs[i] /\ kept.kind[kept.refs[i]] = Kind(i)

NullsNested == \A i, j \in 1 .. Opened : i < j /\ kept.refs[i] = Null => kept.refs[j] = Null

ElementAgrees ==
  MemberNext => /\ plain.element[1] = Top(plain.refs)
                /\ kept.keys # <<>>
                /\ Top(kept.keys) /\ Top(kept.refs) # Null => kept.element = plain.element

\* The stack of the parser says of each container what the pointers of the two
\* consumers say: no pointer is followed that is null, none leads to a value that
\* cannot take what is added, and the key that was read last is one of the
\* innermost object.  Every assert in json_sax.hpp and parser.hpp holds then.
StacksAgree == Running => Depths /\ KindsAgree /\ NullsNested /\ ElementAgrees

\* What was read is a text of the grammar just when it is accepted: one value, and
\* with strict the end of the input after it.  basic_json::accept returns that.
Grammar  == INSTANCE JsonGrammar
EndsWith == IF strict THEN <<"end_of_input">> ELSE <<>>

AcceptsTheGrammar == want = "accepted" <=> Grammar!IsText(tokens, EndsWith)

Holds(d, p, q) == (\E i \in DOMAIN d.items[p] : d.items[p][i] = q) \/ (\E s \in Strings : d.members[p][s] = q)

\* The values that can be reached in a document, through values that are there,
\* and those that neither were refused nor are inside one that was.
In(d) ==
  LET in[p \in Places] == /\ d.kind[p] # "discarded"
                          /\ p = d.root \/ \E q \in 1 .. p - 1 : Holds(d, q, p) /\ in[q]
  IN  {p \in Places : in[p]}
Wanted ==
  LET wanted[p \in Places] == /\ p \notin refused
                              /\ p = plain.root \/ \E q \in 1 .. p - 1 : Holds(plain, q, p) /\ wanted[q]
  IN  {p \in Places : wanted[p]}

\* What is left of a value that was refused: an array holds an object that was,
\* an object the discarded value that a key has been given, or that an end has made.
Leftover(p) ==
  /\ \A i \in DOMAIN kept.items[p] :
       Discarded(kept, kept.items[p][i]) => plain.kind[kept.items[p][i]] = "object"
  /\ \A s \in Strings :
       Discarded(kept, kept.members[p][s]) => plain.members[p][s] \in refused

\* No value the callback refused is in the result, and of what the parser without
\* a callback returns nothing else is missing.  It is not gone without a trace, as
\* the library says: discarded values stay in an array for objects refused at
\* their end, and in an object for keys whose value was refused, and nowhere else.
KeptIsWanted ==
  want = "accepted" =>
    /\ In(kept) \intersect refused = {}
    /\ In(kept) \intersect In(plain) = Wanted
    /\ \A p \in In(kept) : Leftover(p)
=============================================================================
