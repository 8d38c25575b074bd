-------------------------- MODULE JsonParserProofs --------------------------
(***************************************************************************)
(* The stacks of the JSON parser and of its two consumers agree, what the  *)
(* callback refused is all that one document is without, and the texts     *)
(* accepted are those of the grammar, for every set of strings and texts   *)
(* of every length.                                                        *)
(***************************************************************************)
EXTENDS JsonParser, SequenceTheorems, WellFoundedInduction, TLAPS

Fields   == {"root", "refs", "element", "keep", "keys", "made", "kind", "items", "members"}
Shape(d) == DOMAIN d = Fields

\* What differs in nothing the argument is about.
SameStacks(d, e) ==
  d.refs = e.refs /\ d.keep = e.keep /\ d.keys = e.keys /\ d.element = e.element

WasHandled(d, p, k, h) ==
  Shape(h) /\ SameStacks(h, d) /\ h.kind = [d.kind EXCEPT ![p] = k] /\ h.made = p

WasHandledIf(d, p, k, h) ==
  /\ Shape(h)
  /\ h.refs = d.refs /\ h.keep = d.keep /\ h.element = d.element
  /\ h.keys = d.keys \/ h.keys = Rest(d.keys)
  /\ \/ h.made = Null /\ h.kind = d.kind
     \/ h.made = p /\ h.kind = [d.kind EXCEPT ![p] = k]
  /\ d.refs # <<>> /\ Top(d.refs) = Null => h.made = Null

-----------------------------------------------------------------------------
\* What the operations of the consumers do to the stacks

\* Placing a value gives it its kind, and moves no stack.
LEMMA HandledFacts ==
  ASSUME NEW d, Shape(d), NEW p, NEW k
  PROVE  WasHandled(d, p, k, Handled(d, p, k))
<1> DEFINE e == [d EXCEPT !.kind[p] = k, !.made = p]
<1>1. Shape(e) /\ SameStacks(e, d) /\ e.kind = [d.kind EXCEPT ![p] = k] /\ e.made = p
  BY DEF Shape, Fields, SameStacks
<1>2. \/ \E x : Handled(d, p, k) = [e EXCEPT !.root = x]
      \/ \E x : Handled(d, p, k) = [e EXCEPT !.items = x]
      \/ \E x : Handled(d, p, k) = [e EXCEPT !.members = x]
  BY DEF Handled
<1> HIDE DEF e
<1>3. CASE \E x : Handled(d, p, k) = [e EXCEPT !.root = x]
  BY <1>1, <1>3 DEF Shape, Fields, SameStacks, WasHandled
<1>4. CASE \E x : Handled(d, p, k) = [e EXCEPT !.items = x]
  BY <1>1, <1>4 DEF Shape, Fields, SameStacks, WasHandled
<1>5. CASE \E x : Handled(d, p, k) = [e EXCEPT !.members = x]
  BY <1>1, <1>5 DEF Shape, Fields, SameStacks, WasHandled
<1>6. QED
  BY <1>2, <1>3, <1>4, <1>5

\* With a callback, a value is placed or it is not; its answer about the key is
\* all that may be taken off a stack.
LEMMA HandledIfFacts ==
  ASSUME NEW d, Shape(d), NEW p, NEW k, NEW yes \in BOOLEAN
  PROVE  WasHandledIf(d, p, k, HandledIf(d, p, k, yes))
<1> DEFINE no == [d EXCEPT !.made = Null]
<1>1. Shape(no) /\ SameStacks(no, d) /\ no.kind = d.kind /\ no.made = Null
  BY DEF Shape, Fields, SameStacks
<1>2. \A g : Shape(g) => LET f == [g EXCEPT !.keys = Rest(@)]
                         IN  /\ Shape(f) /\ f.refs = g.refs /\ f.keep = g.keep /\ f.element = g.element
                             /\ f.keys = Rest(g.keys) /\ f.kind = g.kind /\ f.made = g.made
  BY DEF Shape, Fields
<1> DEFINE g == Handled(d, p, k)
           h == HandledIf(d, p, k, yes)
<1>0. /\ Shape(g) /\ g.refs = d.refs /\ g.keep = d.keep /\ g.keys = d.keys /\ g.element = d.element
      /\ g.kind = [d.kind EXCEPT ![p] = k] /\ g.made = p
  <2>1. WasHandled(d, p, k, g)
    BY HandledFacts, Zenon
  <2> HIDE DEF g
  <2>2. QED
    BY <2>1 DEF WasHandled, SameStacks
<1>3. \/ h = no
      \/ (d.refs # <<>> => Top(d.refs) # Null) /\ h = g
      \/ (d.refs # <<>> => Top(d.refs) # Null) /\ h = [g EXCEPT !.keys = Rest(@)]
      \/ h = [no EXCEPT !.keys = Rest(@)]
  BY Zenon DEF HandledIf
<1> HIDE DEF no, g, h
<1>4. CASE h = no
  BY <1>1, <1>4 DEF SameStacks, h, WasHandledIf
<1>5. CASE (d.refs # <<>> => Top(d.refs) # Null) /\ h = g
  BY <1>0, <1>5 DEF h, WasHandledIf
<1>6. CASE (d.refs # <<>> => Top(d.refs) # Null) /\ h = [g EXCEPT !.keys = Rest(@)]
  BY <1>0, <1>2, <1>6 DEF h, WasHandledIf
<1>7. CASE h = [no EXCEPT !.keys = Rest(@)]
  BY <1>1, <1>2, <1>7 DEF SameStacks, h, WasHandledIf
<1>8. QED
  BY <1>3, <1>4, <1>5, <1>6, <1>7

WasStarted(d, p, k, s) ==
  /\ Shape(s) /\ s.refs = Append(d.refs, p) /\ s.element = d.element
  /\ s.kind = [d.kind EXCEPT ![p] = k]

WasStartedIf(d, p, k, yes, s) ==
  /\ Shape(s) /\ s.keep = Append(d.keep, yes) /\ s.element = d.element
  /\ s.keys = d.keys \/ s.keys = Rest(d.keys)
  /\ \/ s.refs = Append(d.refs, Null) /\ s.kind = d.kind
     \/ /\ s.refs = Append(d.refs, p) /\ s.kind = [d.kind EXCEPT ![p] = k]
        /\ d.refs # <<>> => p = Null \/ Top(d.refs) # Null

LEMMA StartedFacts ==
  ASSUME NEW d, Shape(d), NEW p, NEW k
  PROVE  WasStarted(d, p, k, Started(d, p, k))
<1> DEFINE g == Handled(d, p, k)
<1>1. Shape(g) /\ g.refs = d.refs /\ g.element = d.element /\ g.kind = [d.kind EXCEPT ![p] = k]
  <2>1. WasHandled(d, p, k, g)
    BY HandledFacts, Zenon
  <2> HIDE DEF g
  <2>2. QED
    BY <2>1 DEF WasHandled, SameStacks
<1>2. Started(d, p, k) = [g EXCEPT !.refs = Append(@, p)]
  BY Zenon DEF Started
<1> HIDE DEF g
<1>3. QED
  BY <1>1, <1>2 DEF Shape, Fields, WasStarted

LEMMA StartedIfFacts ==
  ASSUME NEW d, Shape(d), NEW p, NEW k, NEW yes \in BOOLEAN
  PROVE  WasStartedIf(d, p, k, yes, StartedIf(d, p, k, yes))
<1> DEFINE f == [d EXCEPT !.keep = Append(@, yes)]
           e == HandledIf(f, p, k, TRUE)
<1>1. /\ Shape(f) /\ f.refs = d.refs /\ f.keep = Append(d.keep, yes) /\ f.keys = d.keys
      /\ f.element = d.element /\ f.kind = d.kind
  BY DEF Shape, Fields
<1> HIDE DEF f
<1>2. /\ Shape(e)
      /\ e.refs = d.refs /\ e.keep = Append(d.keep, yes) /\ e.element = d.element
      /\ e.keys = d.keys \/ e.keys = Rest(d.keys)
      /\ \/ e.made = Null /\ e.kind = d.kind
         \/ e.made = p /\ e.kind = [d.kind EXCEPT ![p] = k]
      /\ d.refs # <<>> /\ Top(d.refs) = Null => e.made = Null
  <2>1. WasHandledIf(f, p, k, e)
    BY <1>1, HandledIfFacts, Zenon
  <2> HIDE DEF e
  <2>2. QED
    BY <1>1, <2>1 DEF WasHandledIf
<1>3. StartedIf(d, p, k, yes) = [e EXCEPT !.refs = Append(@, e.made)]
  BY Zenon DEF StartedIf, f
<1> HIDE DEF e
<1>4. QED
  BY <1>2, <1>3 DEF Shape, Fields, WasStartedIf

LEMMA KeyedFacts ==
  ASSUME NEW d, Shape(d), NEW s
  PROVE  LET e == Keyed(d, s)
         IN  Shape(e) /\ e.refs = d.refs /\ e.kind = d.kind /\ e.element = <<Top(d.refs), s>>
BY DEF Keyed, Shape, Fields

LEMMA KeyedIfFacts ==
  ASSUME NEW d, Shape(d), NEW s, NEW yes \in BOOLEAN
  PROVE  LET e == KeyedIf(d, s, yes)
         IN  /\ Shape(e) /\ e.refs = d.refs /\ e.kind = d.kind /\ e.keep = d.keep
             /\ e.keys = Append(d.keys, yes)
             /\ yes /\ Top(d.refs) # Null => e.element = <<Top(d.refs), s>>
BY DEF KeyedIf, Shape, Fields

\* What the end of a container leaves behind, whatever is erased or dropped.
WasEnded(d, e) ==
  /\ Shape(e) /\ e.refs = Rest(d.refs) /\ e.keep = Rest(d.keep)
  /\ e.keys = d.keys /\ e.element = d.element
  /\ \/ e.kind = d.kind
     \/ Top(d.refs) # Null /\ e.kind = [d.kind EXCEPT ![Top(d.refs)] = "discarded"]

LEMMA EndedFacts ==
  ASSUME NEW d, Shape(d)
  PROVE  LET e == Ended(d) IN Shape(e) /\ e.refs = Rest(d.refs) /\ e.kind = d.kind /\ e.element = d.element
BY DEF Ended, Shape, Fields

LEMMA ClosedFacts ==
  ASSUME NEW d, Shape(d), NEW yes \in BOOLEAN
  PROVE  WasEnded(d, Closed(d, yes))
BY DEF Closed, WasEnded, Shape, Fields

LEMMA ObjectEndedFacts ==
  ASSUME NEW d, Shape(d), NEW yes \in BOOLEAN
  PROVE  WasEnded(d, ObjectEndedIf(d, yes))
<1> DEFINE e == Closed(d, yes)
<1>1. WasEnded(d, e)
  BY ClosedFacts, Zenon
<1>2. \/ ObjectEndedIf(d, yes) = e
      \/ \E o, s : ObjectEndedIf(d, yes) = [e EXCEPT !.members[o][s] = Absent]
  BY DEF ObjectEndedIf, Erased
<1> HIDE DEF e
<1>3. QED
  BY <1>1, <1>2 DEF WasEnded, Shape, Fields

LEMMA ArrayEndedFacts ==
  ASSUME NEW d, Shape(d), NEW yes \in BOOLEAN
  PROVE  WasEnded(d, ArrayEndedIf(d, yes))
<1> DEFINE e == Closed(d, yes)
<1>1. WasEnded(d, e)
  BY ClosedFacts, Zenon
<1>2. \/ ArrayEndedIf(d, yes) = e
      \/ ArrayEndedIf(d, yes) = [e EXCEPT !.items[Top(e.refs)] = Rest(@)]
  BY DEF ArrayEndedIf
<1> HIDE DEF e
<1>3. QED
  BY <1>1, <1>2 DEF WasEnded, Shape, Fields

-----------------------------------------------------------------------------
\* The inductive invariant: besides StacksAgree, the containers that are open
\* were begun one after another, and the stack of the parser is not empty when
\* the code pops it.

Wants == {"value", "first_item", "first_key", "key", "name_separator", "first_name_separator",
          "separator", "end", "accepted", "rejected"}

Control ==
  /\ tokens \in Seq(Tokens)
  /\ states \in Seq({"array", "object"})
  /\ want \in Wants
  /\ want \in {"separator", "key", "name_separator"} => states # <<>>
  /\ want \in {"key", "name_separator"} => Top(states) = "object"

PlainStacks == Shape(plain) /\ plain.refs \in Seq(Places) /\ plain.kind \in [Places -> Kinds]

KeptStacks ==
  /\ Shape(kept) /\ kept.refs \in Seq(Places \union {Null}) /\ kept.kind \in [Places -> Kinds]
  /\ kept.keep \in Seq(BOOLEAN) /\ kept.keys \in Seq(BOOLEAN)

Begun ==
  /\ \A i \in 1 .. Len(plain.refs) : plain.refs[i] <= Len(tokens)
  /\ \A i, j \in 1 .. Len(plain.refs) : i < j => plain.refs[i] < plain.refs[j]

IInv == Control /\ PlainStacks /\ KeptStacks /\ Begun /\ StacksAgree

\* Sequences, as the parser uses them.
LEMMA Stacks ==
  ASSUME NEW S, NEW s \in Seq(S)
  PROVE  /\ Len(s) \in Nat
         /\ \A i \in 1 .. Len(s) : s[i] \in S
         /\ s # <<>> <=> Len(s) > 0
         /\ Rest(s) \in Seq(S)
         /\ s # <<>> => Len(Rest(s)) = Len(s) - 1
         /\ s = <<>> => Rest(s) = <<>>
         /\ \A i \in 1 .. Len(s) - 1 : Rest(s)[i] = s[i]
         /\ \A e \in S : /\ Append(s, e) \in Seq(S)
                         /\ Len(Append(s, e)) = Len(s) + 1
                         /\ Top(Append(s, e)) = e
                         /\ Append(s, e)[Len(s) + 1] = e
                         /\ \A i \in 1 .. Len(s) : Append(s, e)[i] = s[i]
<1>1. Len(s) \in Nat /\ (\A i \in 1 .. Len(s) : s[i] \in S) /\ (s # <<>> <=> Len(s) > 0)
  OBVIOUS
<1>2. CASE s = <<>>
  BY <1>2 DEF Rest, Top
<1>3. CASE s # <<>>
  <2>1. /\ Rest(s) \in Seq(S) /\ Len(Rest(s)) = Len(s) - 1
        /\ \A i \in 1 .. Len(s) - 1 : Rest(s)[i] = s[i]
    <3> DEFINE n == Len(s) - 1
    <3>1. n \in Int /\ n >= 0 /\ 1 \in Int /\ \A i \in 1 .. n : s[i] \in S
      BY <1>1, <1>3
    <3>2. /\ SubSeq(s, 1, n) \in Seq(S)
          /\ Len(SubSeq(s, 1, n)) = IF 1 <= n THEN n - 1 + 1 ELSE 0
          /\ \A i \in 1 .. n - 1 + 1 : SubSeq(s, 1, n)[i] = s[1 + i - 1]
      <4> HIDE DEF n
      <4> QED BY <3>1, SubSeqProperties
    <3>3. Rest(s) = SubSeq(s, 1, n)
      BY DEF Rest
    <3> HIDE DEF n
    <3>4. Rest(s) \in Seq(S) /\ Len(Rest(s)) = n /\ \A i \in 1 .. n : Rest(s)[i] = s[i]
      BY <3>1, <3>2, <3>3
    <3>5. QED
      BY <3>4 DEF n
  <2>2. \A e \in S : /\ Append(s, e) \in Seq(S)
                      /\ Len(Append(s, e)) = Len(s) + 1
                      /\ Append(s, e)[Len(s) + 1] = e
                      /\ \A i \in 1 .. Len(s) : Append(s, e)[i] = s[i]
    BY <1>1
  <2>3. QED
    BY <1>1, <1>3, <2>1, <2>2 DEF Top
<1>4. QED
  BY <1>2, <1>3

LEMMA InitInv == Init => IInv
<1> SUFFICES ASSUME Init PROVE IInv
  OBVIOUS
<1>1. /\ Shape(NewDom) /\ NewDom.refs = <<>> /\ NewDom.keep = <<TRUE>> /\ NewDom.keys = <<>>
      /\ NewDom.kind \in [Places -> Kinds]
  BY DEF NewDom, Shape, Fields, Kinds
<1>2. Control
  BY DEF Init, Control, Wants
<1>3. PlainStacks /\ KeptStacks
  BY <1>1 DEF Init, PlainStacks, KeptStacks
<1>4. Begun
  BY <1>1 DEF Init, Begun
<1>5. Opened = 0 /\ ~MemberNext
  BY DEF Init, Opened, MemberNext
<1>6. StacksAgree
  BY <1>1, <1>5 DEF Init, StacksAgree, Depths, KindsAgree, NullsNested, ElementAgrees
<1>7. QED
  BY <1>2, <1>3, <1>4, <1>6 DEF IInv

\* What a token that is read leaves to show.
LEMMA ReadFacts ==
  ASSUME NEW t \in Tokens, Control, Read(t)
  PROVE  /\ Here \in Places /\ Here # Null /\ Len(tokens) \in Nat /\ Here = Len(tokens) + 1
         /\ tokens' \in Seq(Tokens) /\ Len(tokens') = Here
BY LengthAssumption DEF Control, Read, Here, Places, Null

\* The containers that are open were begun before what is read next.
LEMMA BegunBefore ==
  ASSUME Begun, plain.refs \in Seq(Places), Len(tokens) \in Nat, Here = Len(tokens) + 1
  PROVE  \A i \in 1 .. Len(plain.refs) : plain.refs[i] \in Int /\ plain.refs[i] < Here
<1> TAKE i \in 1 .. Len(plain.refs)
<1>1. plain.refs[i] \in Int
  BY Stacks, LengthAssumption DEF Places
<1>2. plain.refs[i] <= Len(tokens)
  BY DEF Begun
<1> QED
  BY <1>1, <1>2

LEMMA BegunStill ==
  ASSUME Begun, plain.refs \in Seq(Places), Len(tokens) \in Nat, Here = Len(tokens) + 1,
         Len(tokens') = Here, plain'.refs = plain.refs
  PROVE  Begun'
<1>1. \A i \in 1 .. Len(plain.refs) : plain.refs[i] <= Len(tokens')
  <2> TAKE i \in 1 .. Len(plain.refs)
  <2>1. plain.refs[i] \in Int /\ plain.refs[i] < Here
    BY BegunBefore
  <2>2. Here \in Int
    OBVIOUS
  <2> QED
    BY <2>1, <2>2
<1> QED
  BY <1>1, Zenon DEF Begun

-----------------------------------------------------------------------------
\* The steps

\* Once its first item is read, an array is on the stack of states.
LEMMA OpenedStates ==
  ASSUME Control, want \in {"value", "first_item"},
         NEW s, s = IF want = "first_item" THEN Append(states, "array") ELSE states
  PROVE  /\ s \in Seq({"array", "object"}) /\ Len(s) = Opened
         /\ \A i \in 1 .. Opened : s[i] = Kind(i)
<1>1. states \in Seq({"array", "object"}) /\ "array" \in {"array", "object"}
  BY DEF Control
<1>2. CASE want = "value"
  BY <1>1, <1>2, Stacks DEF Opened, Kind
<1>3. CASE want = "first_item"
  <2>1. s = Append(states, "array") /\ Opened = Len(states) + 1
    BY <1>3 DEF Opened
  <2>2. /\ s \in Seq({"array", "object"}) /\ Len(s) = Len(states) + 1 /\ s[Len(states) + 1] = "array"
        /\ \A i \in 1 .. Len(states) : s[i] = states[i]
    BY <1>1, <2>1, Stacks
  <2>3. Len(states) \in Nat
    BY <1>1
  <2>4. \A i \in 1 .. Opened : s[i] = Kind(i)
    <3> TAKE i \in 1 .. Opened
    <3>1. CASE i <= Len(states)
      BY <2>1, <2>2, <2>3, <3>1 DEF Kind
    <3>2. CASE i = Len(states) + 1
      BY <1>3, <2>2, <2>3, <3>2 DEF Kind
    <3>3. QED
      BY <2>1, <2>3, <3>1, <3>2
  <2>5. QED
    BY <2>1, <2>2, <2>4
<1>4. QED
  BY <1>2, <1>3

\* A value is one of the containers' items or members, and opens none.
LEMMA ValueStep ==
  ASSUME IInv, NEW t \in Strings \union Scalars, Value(t)
  PROVE  IInv'
<1> PICK yes \in BOOLEAN :
      /\ want \in {"value", "first_item"}
      /\ Read(t)
      /\ states' = IF want = "first_item" THEN Append(states, "array") ELSE states
      /\ want' = After(states')
      /\ plain' = Handled(plain, Here, "scalar")
      /\ kept' = HandledIf(kept, Here, "scalar", yes)
      /\ UNCHANGED strict
  BY Zenon DEF Value
<1> USE DEF IInv
<1>1. t \in Tokens
  BY DEF Tokens
<1>2. /\ Here \in Places /\ Here # Null /\ Len(tokens) \in Nat /\ Here = Len(tokens) + 1
      /\ tokens' \in Seq(Tokens) /\ Len(tokens') = Here
  BY <1>1, ReadFacts
<1>3. WasHandled(plain, Here, "scalar", plain')
  BY HandledFacts, Zenon DEF PlainStacks
<1>4. WasHandledIf(kept, Here, "scalar", kept')
  BY HandledIfFacts, Zenon DEF KeptStacks
<1>5. /\ states' \in Seq({"array", "object"}) /\ Len(states') = Opened
      /\ \A i \in 1 .. Opened : states'[i] = Kind(i)
  BY OpenedStates
<1>6. Control'
  BY <1>2, <1>5 DEF Control, After, Wants
<1>7. PlainStacks' /\ plain'.refs = plain.refs /\ \A p \in Places : p # Here => plain'.kind[p] = plain.kind[p]
  BY <1>2, <1>3 DEF PlainStacks, WasHandled, SameStacks, Kinds
<1>8. /\ KeptStacks' /\ kept'.refs = kept.refs /\ kept'.keep = kept.keep
      /\ \A p \in Places : p # Here => kept'.kind[p] = kept.kind[p]
  <2>1. kept'.keys \in Seq(BOOLEAN)
    BY <1>4, Stacks DEF KeptStacks, WasHandledIf
  <2>2. kept'.kind \in [Places -> Kinds] /\ \A p \in Places : p # Here => kept'.kind[p] = kept.kind[p]
    BY <1>2, <1>4 DEF KeptStacks, WasHandledIf, Kinds
  <2>3. QED
    BY <1>4, <2>1, <2>2 DEF KeptStacks, WasHandledIf
<1>9. Begun'
  BY <1>2, <1>7, BegunStill DEF PlainStacks
<1>10. StacksAgree'
  <2> SUFFICES ASSUME Running' PROVE (Depths /\ KindsAgree /\ NullsNested /\ ElementAgrees)'
    BY DEF StacksAgree
  <2>1. Depths /\ KindsAgree /\ NullsNested
    BY DEF StacksAgree, Running
  <2>2. Opened' = Opened /\ ~MemberNext' /\ \A i \in 1 .. Opened : Kind(i)' = Kind(i)
    <3>1. want' \in {"separator", "end"} /\ (want' = "end" => states' = <<>>)
      BY DEF Running, After
    <3>2. Opened' = Len(states') /\ ~MemberNext'
      BY <3>1 DEF Opened, MemberNext
    <3>3. \A i \in 1 .. Opened : Kind(i)' = states'[i]
      BY <1>5 DEF Kind
    <3>4. QED
      BY <1>5, <3>2, <3>3
  <2>3. \A i \in 1 .. Opened : plain.refs[i] \in Places /\ plain.refs[i] # Here
    BY <1>2, <2>1 DEF Begun, PlainStacks, Depths
  <2>4. Depths'
    BY <1>7, <1>8, <2>1, <2>2 DEF Depths
  <2>5. KindsAgree'
    BY <1>7, <1>8, <2>1, <2>2, <2>3 DEF KindsAgree
  <2>6. NullsNested'
    BY <1>8, <2>1, <2>2 DEF NullsNested
  <2>7. QED
    BY <2>2, <2>4, <2>5, <2>6 DEF ElementAgrees
<1>11. QED
  BY <1>6, <1>7, <1>8, <1>9, <1>10

\* A container that begins is put on the stacks of the consumers at once.
LEMMA BeginStep ==
  ASSUME IInv,
         NEW t \in Tokens, NEW kind, NEW next,
         \/ kind = "array" /\ next = "first_item"
         \/ kind = "object" /\ next = "first_key",
         Begin(t, kind, next)
  PROVE  IInv'
<1> PICK yes \in BOOLEAN :
      /\ want \in {"value", "first_item"}
      /\ Read(t)
      /\ states' = IF want = "first_item" THEN Append(states, "array") ELSE states
      /\ want' = next
      /\ plain' = Started(plain, Here, kind)
      /\ kept' = StartedIf(kept, Here, kind, yes)
      /\ UNCHANGED strict
  BY Zenon DEF Begin
<1> USE DEF IInv
<1>1. /\ Here \in Places /\ Here # Null /\ Len(tokens) \in Nat /\ Here = Len(tokens) + 1
      /\ tokens' \in Seq(Tokens) /\ Len(tokens') = Here
  BY ReadFacts
<1>2. /\ Shape(plain') /\ plain'.refs = Append(plain.refs, Here)
      /\ plain'.kind = [plain.kind EXCEPT ![Here] = kind]
  <2>1. WasStarted(plain, Here, kind, plain')
    BY StartedFacts, Zenon DEF PlainStacks
  <2>2. QED
    BY <2>1 DEF WasStarted
<1>3. /\ Shape(kept') /\ kept'.keep = Append(kept.keep, yes)
      /\ kept'.keys = kept.keys \/ kept'.keys = Rest(kept.keys)
      /\ \/ kept'.refs = Append(kept.refs, Null) /\ kept'.kind = kept.kind
         \/ /\ kept'.refs = Append(kept.refs, Here) /\ kept'.kind = [kept.kind EXCEPT ![Here] = kind]
            /\ kept.refs # <<>> => Here = Null \/ Top(kept.refs) # Null
  <2>1. WasStartedIf(kept, Here, kind, yes, kept')
    BY StartedIfFacts, Zenon DEF KeptStacks
  <2>2. QED
    BY <2>1 DEF WasStartedIf
<1>4. /\ states' \in Seq({"array", "object"}) /\ Len(states') = Opened
      /\ \A i \in 1 .. Opened : states'[i] = Kind(i)
  BY OpenedStates
<1>5. Control'
  BY <1>1, <1>4 DEF Control, Wants
<1>6. kind \in Kinds
  BY DEF Kinds
<1>7. /\ PlainStacks' /\ Len(plain'.refs) = Len(plain.refs) + 1 /\ plain'.refs[Len(plain.refs) + 1] = Here
      /\ \A i \in 1 .. Len(plain.refs) : plain'.refs[i] = plain.refs[i] /\ plain.refs[i] \in Places
      /\ plain'.kind[Here] = kind
      /\ \A p \in Places : p # Here => plain'.kind[p] = plain.kind[p]
  <2>1. /\ plain'.refs \in Seq(Places) /\ Len(plain'.refs) = Len(plain.refs) + 1
        /\ plain'.refs[Len(plain.refs) + 1] = Here
        /\ \A i \in 1 .. Len(plain.refs) : plain'.refs[i] = plain.refs[i] /\ plain.refs[i] \in Places
    <3>1. plain.refs \in Seq(Places) /\ plain'.refs = Append(plain.refs, Here) /\ Here \in Places
      BY <1>1, <1>2 DEF PlainStacks
    <3>2. QED
      BY <3>1, Stacks
  <2>2. /\ plain'.kind \in [Places -> Kinds] /\ plain'.kind[Here] = kind
        /\ \A p \in Places : p # Here => plain'.kind[p] = plain.kind[p]
    BY <1>1, <1>2, <1>6 DEF PlainStacks
  <2>3. QED
    BY <1>2, <2>1, <2>2 DEF PlainStacks
<1>8. /\ kept'.refs \in Seq(Places \union {Null}) /\ Len(kept'.refs) = Len(kept.refs) + 1
      /\ \A i \in 1 .. Len(kept.refs) : kept'.refs[i] = kept.refs[i] /\ kept.refs[i] \in Places \union {Null}
      /\ \/ kept'.refs[Len(kept.refs) + 1] = Null
         \/ /\ kept'.refs[Len(kept.refs) + 1] = Here /\ kept'.kind[Here] = kind
            /\ kept.refs # <<>> => Top(kept.refs) # Null
      /\ kept'.kind \in [Places -> Kinds]
      /\ \A p \in Places : p # Here => kept'.kind[p] = kept.kind[p]
  <2>0. kept.refs \in Seq(Places \union {Null}) /\ Null \in Places \union {Null} /\ Here \in Places \union {Null}
    BY <1>1 DEF KeptStacks
  <2>1. CASE kept'.refs = Append(kept.refs, Null) /\ kept'.kind = kept.kind
    BY <2>0, <2>1, Stacks DEF KeptStacks
  <2>2. CASE /\ kept'.refs = Append(kept.refs, Here) /\ kept'.kind = [kept.kind EXCEPT ![Here] = kind]
             /\ kept.refs # <<>> => Here = Null \/ Top(kept.refs) # Null
    <3>1. /\ kept'.refs \in Seq(Places \union {Null}) /\ Len(kept'.refs) = Len(kept.refs) + 1
          /\ kept'.refs[Len(kept.refs) + 1] = Here
          /\ \A i \in 1 .. Len(kept.refs) : kept'.refs[i] = kept.refs[i] /\ kept.refs[i] \in Places \union {Null}
      BY <2>0, <2>2, Stacks
    <3>2. /\ kept'.kind \in [Places -> Kinds] /\ kept'.kind[Here] = kind
          /\ \A p \in Places : p # Here => kept'.kind[p] = kept.kind[p]
      BY <1>1, <1>6, <2>2 DEF KeptStacks
    <3>3. QED
      BY <1>1, <2>2, <3>1, <3>2
  <2>3. QED
    BY <1>3, <2>1, <2>2
<1>9. KeptStacks' /\ Len(kept'.keep) = Len(kept.keep) + 1
  <2>1. kept'.keys \in Seq(BOOLEAN)
    BY <1>3, Stacks DEF KeptStacks
  <2>2. kept'.keep \in Seq(BOOLEAN) /\ Len(kept'.keep) = Len(kept.keep) + 1
    BY <1>3, Stacks DEF KeptStacks
  <2>3. QED
    BY <1>3, <1>8, <2>1, <2>2 DEF KeptStacks
<1>10. Len(plain.refs) \in Nat
  BY Stacks DEF PlainStacks
<1>11. Begun'
  <2>1. \A i \in 1 .. Len(plain'.refs) : i \in 1 .. Len(plain.refs) \/ i = Len(plain.refs) + 1
    BY <1>7, <1>10
  <2>2. \A i \in 1 .. Len(plain.refs) : plain'.refs[i] < Here
    BY <1>1, <1>7, BegunBefore DEF PlainStacks
  <2>3. \A i \in 1 .. Len(plain'.refs) : plain'.refs[i] <= Len(tokens')
    <3> TAKE i \in 1 .. Len(plain'.refs)
    <3>1. CASE i \in 1 .. Len(plain.refs)
      <4>1. plain'.refs[i] \in Int /\ plain'.refs[i] < Here
        BY <1>7, <2>2, <3>1 DEF Places
      <4>2. QED
        BY <1>1, <4>1
    <3>2. CASE i = Len(plain.refs) + 1
      BY <1>1, <1>7, <3>2
    <3>3. QED
      BY <2>1, <3>1, <3>2
  <2>4. \A i, j \in 1 .. Len(plain'.refs) : i < j => plain'.refs[i] < plain'.refs[j]
    <3> TAKE i, j \in 1 .. Len(plain'.refs)
    <3> HAVE i < j
    <3>1. i \in 1 .. Len(plain.refs)
      BY <1>7, <1>10
    <3>2. CASE j \in 1 .. Len(plain.refs)
      BY <1>7, <3>1, <3>2 DEF Begun
    <3>3. CASE j = Len(plain.refs) + 1
      BY <1>7, <2>2, <3>1, <3>3
    <3>4. QED
      BY <2>1, <3>2, <3>3
  <2>5. QED
    BY <2>3, <2>4 DEF Begun
<1>12. StacksAgree'
  <2>1. Depths /\ KindsAgree /\ NullsNested
    BY DEF StacksAgree, Running
  <2> PICK n \in Nat : n = Opened
    BY <1>10, <2>1 DEF Depths
  <2>2. Opened' = n + 1 /\ ~MemberNext'
    BY <1>4 DEF Opened, MemberNext
  <2>3. Kind(n + 1)' = kind /\ \A i \in 1 .. n : Kind(i)' = Kind(i)
    BY <1>4 DEF Kind
  <2>4. \A i \in 1 .. n : plain.refs[i] \in Places /\ plain.refs[i] # Here
    BY <1>1, <1>7, <2>1 DEF Begun, Places, Depths
  <2>5. Depths'
    BY <1>7, <1>8, <1>9, <2>1, <2>2 DEF Depths
  <2>6. KindsAgree'
    <3> DEFINE agree(i) == /\ plain'.kind[plain'.refs[i]] = Kind(i)'
                           /\ kept'.refs[i] # Null => /\ kept'.refs[i] = plain'.refs[i]
                                                      /\ kept'.kind[kept'.refs[i]] = Kind(i)'
    <3>1. \A i \in 1 .. n : agree(i)
      <4> TAKE i \in 1 .. n
      <4>1. plain'.refs[i] = plain.refs[i] /\ kept'.refs[i] = kept.refs[i] /\ Kind(i)' = Kind(i)
        BY <1>7, <1>8, <2>1, <2>3 DEF Depths
      <4>2. /\ plain.kind[plain.refs[i]] = Kind(i)
            /\ kept.refs[i] # Null => kept.refs[i] = plain.refs[i] /\ kept.kind[kept.refs[i]] = Kind(i)
        BY <2>1 DEF KindsAgree
      <4>3. /\ plain'.kind[plain.refs[i]] = plain.kind[plain.refs[i]]
            /\ kept'.kind[plain.refs[i]] = kept.kind[plain.refs[i]]
        BY <1>7, <1>8, <2>4
      <4>4. QED
        BY <4>1, <4>2, <4>3
    <3>2. agree(n + 1)
      BY <1>7, <1>8, <2>1, <2>3 DEF Depths
    <3>3. \A i \in 1 .. n + 1 : agree(i)
      <4> HIDE DEF agree
      <4> TAKE i \in 1 .. n + 1
      <4>1. i \in 1 .. n \/ i = n + 1
        OBVIOUS
      <4>2. QED
        BY <3>1, <3>2, <4>1
    <3>4. QED
      BY <2>2, <3>3 DEF KindsAgree
  <2>7. NullsNested'
    <3>1. \A i \in 1 .. n : kept'.refs[i] = Null => kept.refs[Len(kept.refs)] = Null
      BY <1>8, <2>1, <2>2 DEF NullsNested, Depths
    <3>2. \A i \in 1 .. n : kept'.refs[i] = Null => kept'.refs[n + 1] = Null
      BY <1>8, <2>1, <2>2, <3>1 DEF Depths, Top
    <3>3. QED
      BY <1>8, <2>1, <2>2, <3>2 DEF NullsNested, Depths
  <2>8. QED
    BY <2>2, <2>5, <2>6, <2>7 DEF StacksAgree, ElementAgrees
<1>13. QED
  BY <1>5, <1>7, <1>9, <1>11, <1>12

\* Containers that are open are different, so that the kind of one that ends may
\* change without the others'.
LEMMA EndStep ==
  ASSUME IInv, NEW t \in Tokens, Read(t),
         \/ want \in {"first_item", "first_key"}
         \/ want = "separator",
         states' = Inner, want' = After(Inner),
         plain' = Ended(plain), WasEnded(kept, kept')
  PROVE  IInv'
<1> USE DEF IInv
<1>1. /\ Len(tokens) \in Nat /\ Here = Len(tokens) + 1
      /\ tokens' \in Seq(Tokens) /\ Len(tokens') = Here
  BY ReadFacts
<1>2. Shape(plain') /\ plain'.refs = Rest(plain.refs) /\ plain'.kind = plain.kind
  BY EndedFacts DEF PlainStacks
<1>3. Depths /\ KindsAgree /\ NullsNested
  BY DEF StacksAgree, Running
<1> PICK n \in Nat : n = Opened
  BY <1>3, Stacks DEF Depths, PlainStacks
<1>4. /\ states' \in Seq({"array", "object"}) /\ Len(states') = n - 1 /\ n > 0
      /\ \A i \in 1 .. n - 1 : states'[i] = Kind(i)
  <2>1. states \in Seq({"array", "object"}) /\ Len(states) \in Nat
    BY DEF Control
  <2>2. CASE want = "separator"
    BY <2>1, <2>2, Stacks DEF Inner, Opened, Kind, Control
  <2>3. CASE want # "separator"
    BY <2>1, <2>3 DEF Inner, Opened, Kind
  <2>4. QED
    BY <2>2, <2>3
<1>5. Control'
  BY <1>1, <1>4 DEF Control, After, Wants
<1>6. /\ PlainStacks' /\ Len(plain'.refs) = n - 1
      /\ \A i \in 1 .. n - 1 : plain'.refs[i] = plain.refs[i] /\ plain.refs[i] \in Places
  <2>1. plain.refs \in Seq(Places) /\ Len(plain.refs) = n /\ plain.refs # <<>>
    BY <1>3, <1>4 DEF PlainStacks, Depths
  <2>2. /\ Rest(plain.refs) \in Seq(Places) /\ Len(Rest(plain.refs)) = n - 1
        /\ \A i \in 1 .. n - 1 : Rest(plain.refs)[i] = plain.refs[i] /\ plain.refs[i] \in Places
    BY <2>1, Stacks
  <2>3. QED
    BY <1>2, <2>2 DEF PlainStacks
<1>7. /\ KeptStacks' /\ Len(kept'.refs) = n - 1 /\ Len(kept'.keep) = n
      /\ \A i \in 1 .. n - 1 : kept'.refs[i] = kept.refs[i]
  <2>1. kept.refs \in Seq(Places \union {Null}) /\ Len(kept.refs) = n /\ kept.refs # <<>>
    BY <1>3, <1>4 DEF KeptStacks, Depths
  <2>2. /\ Rest(kept.refs) \in Seq(Places \union {Null}) /\ Len(Rest(kept.refs)) = n - 1
        /\ \A i \in 1 .. n - 1 : Rest(kept.refs)[i] = kept.refs[i]
    BY <2>1, Stacks
  <2>3. Rest(kept.keep) \in Seq(BOOLEAN) /\ Len(Rest(kept.keep)) = n
    BY <1>3, <1>4, Stacks DEF KeptStacks, Depths
  <2>4. kept'.kind \in [Places -> Kinds]
    BY DEF KeptStacks, WasEnded, Kinds
  <2>5. QED
    BY <2>2, <2>3, <2>4 DEF KeptStacks, WasEnded
<1>8. Begun'
  <2>1. Len(plain.refs) = n
    BY <1>3 DEF Depths
  <2>2. \A i \in 1 .. n - 1 : plain'.refs[i] \in Places /\ plain'.refs[i] <= Len(tokens)
    BY <1>6, <2>1 DEF Begun
  <2>3. \A i \in 1 .. n - 1 : plain'.refs[i] <= Len(tokens')
    BY <1>1, <2>2 DEF Places
  <2>4. \A i, j \in 1 .. n - 1 : i < j => plain'.refs[i] < plain'.refs[j]
    BY <1>6, <2>1 DEF Begun
  <2>5. QED
    BY <1>6, <2>3, <2>4 DEF Begun
<1>9. StacksAgree'
  <2> SUFFICES ASSUME Running' PROVE (Depths /\ KindsAgree /\ NullsNested /\ ElementAgrees)'
    BY DEF StacksAgree
  <2>1. want' \in {"separator", "end"}
    BY DEF Running, After
  <2>2. Opened' = n - 1 /\ ~MemberNext'
    BY <1>4, <2>1 DEF Opened, MemberNext
  <2>3. \A i \in 1 .. n - 1 : Kind(i)' = Kind(i)
    BY <1>4 DEF Kind
  <2>4. Depths'
    BY <1>6, <1>7, <2>2 DEF Depths
  <2>5. \A i \in 1 .. n - 1 : kept.refs[i] # Null => kept'.kind[kept.refs[i]] = kept.kind[kept.refs[i]]
    <3> TAKE i \in 1 .. n - 1
    <3> HAVE kept.refs[i] # Null
    <3>1. kept.refs[i] = plain.refs[i] /\ plain.refs[i] \in Places
      BY <1>3, <1>6 DEF KindsAgree
    <3>2. plain.refs[i] # plain.refs[n] /\ Top(kept.refs) = kept.refs[n]
      BY <1>3, <1>4, <1>6 DEF Begun, Depths, Top, Places
    <3>3. Top(kept.refs) # Null => Top(kept.refs) = plain.refs[n]
      BY <1>3, <1>4, <3>2 DEF KindsAgree
    <3>4. QED
      BY <3>1, <3>2, <3>3 DEF WasEnded, KeptStacks
  <2>6. KindsAgree'
    <3>1. \A i \in 1 .. n - 1 : /\ plain'.kind[plain'.refs[i]] = Kind(i)'
                                /\ kept'.refs[i] # Null => /\ kept'.refs[i] = plain'.refs[i]
                                                           /\ kept'.kind[kept'.refs[i]] = Kind(i)'
      <4> TAKE i \in 1 .. n - 1
      <4>1. /\ plain.kind[plain.refs[i]] = Kind(i)
            /\ kept.refs[i] # Null => kept.refs[i] = plain.refs[i] /\ kept.kind[kept.refs[i]] = Kind(i)
        BY <1>3 DEF KindsAgree
      <4>2. QED
        BY <1>2, <1>6, <1>7, <2>3, <2>5, <4>1
    <3>2. QED
      BY <2>2, <3>1 DEF KindsAgree
  <2>7. NullsNested'
    BY <1>3, <1>7, <2>2 DEF NullsNested
  <2>8. QED
    BY <2>2, <2>4, <2>6, <2>7 DEF ElementAgrees
<1>10. QED
  BY <1>5, <1>6, <1>7, <1>8, <1>9

LEMMA AppendedLast ==
  ASSUME NEW S, NEW s \in Seq(S), NEW e \in S
  PROVE  Append(s, e) \in Seq(S) /\ Len(Append(s, e)) = Len(s) + 1 /\ Top(Append(s, e)) = e
<1>1. Append(s, e) \in Seq(S) /\ Len(Append(s, e)) = Len(s) + 1 /\ Append(s, e)[Len(s) + 1] = e
  OBVIOUS
<1>2. QED
  BY <1>1, Zenon DEF Top

\* A key makes both consumers point into the innermost object, unless the callback
\* is not to see it there.
LEMMA KeyStep ==
  ASSUME IInv, NEW s \in Strings, Key(s)
  PROVE  IInv'
<1> PICK yes \in BOOLEAN :
      /\ want \in {"first_key", "key"}
      /\ Read(s)
      /\ want' = IF want = "key" THEN "name_separator" ELSE "first_name_separator"
      /\ plain' = Keyed(plain, s)
      /\ kept' = KeyedIf(kept, s, yes)
      /\ UNCHANGED <<strict, states>>
  BY Zenon DEF Key
<1> USE DEF IInv
<1>1. s \in Tokens
  BY DEF Tokens
<1>2. Len(tokens) \in Nat /\ Here = Len(tokens) + 1 /\ tokens' \in Seq(Tokens) /\ Len(tokens') = Here
  BY <1>1, ReadFacts
<1>3. Depths /\ KindsAgree /\ NullsNested
  BY DEF StacksAgree, Running
<1>4. /\ Shape(plain') /\ plain'.refs = plain.refs /\ plain'.kind = plain.kind
      /\ plain'.element = <<Top(plain.refs), s>>
  BY KeyedFacts DEF PlainStacks
<1>5. /\ Shape(kept') /\ kept'.refs = kept.refs /\ kept'.kind = kept.kind /\ kept'.keep = kept.keep
      /\ kept'.keys = Append(kept.keys, yes)
      /\ yes /\ Top(kept.refs) # Null => kept'.element = <<Top(kept.refs), s>>
  BY KeyedIfFacts DEF KeptStacks
<1>6. want = "key" => states # <<>> /\ Top(states) = "object"
  BY DEF Control
<1>7. Control'
  BY <1>2, <1>6 DEF Control, Wants
<1>8. PlainStacks'
  BY <1>4 DEF PlainStacks
<1>9. KeptStacks' /\ kept'.keys # <<>> /\ Top(kept'.keys) = yes
  <2>1. kept.keys \in Seq(BOOLEAN)
    BY DEF KeptStacks
  <2>2. kept'.keys \in Seq(BOOLEAN) /\ Len(kept'.keys) > 0 /\ Top(kept'.keys) = yes
    <3>1. /\ Append(kept.keys, yes) \in Seq(BOOLEAN)
          /\ Len(Append(kept.keys, yes)) = Len(kept.keys) + 1
          /\ Top(Append(kept.keys, yes)) = yes
      BY <2>1, AppendedLast, Zenon
    <3>2. Len(kept.keys) \in Nat
      BY <2>1, Stacks
    <3>3. Len(kept.keys) + 1 > 0
      BY <3>2
    <3>4. QED
      BY <1>5, <3>1, <3>3, Zenon
  <2>3. QED
    BY <1>5, <2>2, Stacks DEF KeptStacks
<1>10. Begun'
  BY <1>2, <1>4, BegunStill DEF PlainStacks
<1>11. Opened' = Opened /\ Opened \in Nat /\ Opened > 0
  <2>1. Len(states) \in Nat /\ (states # <<>> => Len(states) > 0)
    BY Stacks DEF Control
  <2>2. QED
    BY <1>6, <2>1 DEF Opened
<1>12. \A i \in 1 .. Opened : Kind(i)' = Kind(i)
  BY <1>11 DEF Kind, Opened
<1>13. Top(kept.refs) # Null => Top(kept.refs) = Top(plain.refs)
  BY <1>3, <1>11 DEF Depths, KindsAgree, Top
<1>14. ElementAgrees'
  <2>1. plain'.element[1] = Top(plain'.refs)
    BY <1>4
  <2>2. Top(kept'.keys) /\ Top(kept'.refs) # Null => kept'.element = plain'.element
    BY <1>4, <1>5, <1>9, <1>13
  <2>3. QED
    BY <1>9, <2>1, <2>2 DEF ElementAgrees
<1>15. StacksAgree'
  <2>1. Depths'
    BY <1>3, <1>4, <1>5, <1>11 DEF Depths
  <2>2. KindsAgree'
    BY <1>3, <1>4, <1>5, <1>11, <1>12 DEF KindsAgree
  <2>3. NullsNested'
    BY <1>3, <1>5, <1>11 DEF NullsNested
  <2>4. QED
    BY <1>14, <2>1, <2>2, <2>3 DEF StacksAgree
<1>16. QED
  BY <1>7, <1>8, <1>9, <1>10, <1>15

\* The other tokens, and the end of the call, change nothing of the consumers.
LEMMA QuietStep ==
  ASSUME IInv, NEW t \in Tokens, Read(t), UNCHANGED <<plain, kept>>, Control',
         Running' => /\ Running /\ Opened' = Opened /\ \A i \in 1 .. Opened : Kind(i)' = Kind(i)
                     /\ MemberNext' => MemberNext
  PROVE  IInv'
<1> USE DEF IInv
<1>1. Len(tokens) \in Nat /\ Here = Len(tokens) + 1 /\ Len(tokens') = Here
  BY ReadFacts
<1>2. PlainStacks' /\ KeptStacks'
  BY DEF PlainStacks, KeptStacks
<1>3. Begun'
  BY <1>1, BegunStill DEF PlainStacks
<1>4. StacksAgree'
  <2> SUFFICES ASSUME Running' PROVE (Depths /\ KindsAgree /\ NullsNested /\ ElementAgrees)'
    BY DEF StacksAgree
  <2>1. Depths /\ KindsAgree /\ NullsNested /\ ElementAgrees
    BY DEF StacksAgree
  <2>2. Depths'
    BY <2>1 DEF Depths
  <2>3. KindsAgree'
    BY <2>1 DEF KindsAgree
  <2>4. NullsNested'
    BY <2>1 DEF NullsNested
  <2>5. ElementAgrees'
    BY <2>1 DEF ElementAgrees
  <2>6. QED
    BY <2>2, <2>3, <2>4, <2>5
<1>5. QED
  BY <1>2, <1>3, <1>4

LEMMA NextKeepsInv == IInv /\ [Next]_vars => IInv'
<1> SUFFICES ASSUME IInv, [Next]_vars PROVE IInv'
  OBVIOUS
<1>1. ASSUME NEW t \in Strings \union Scalars, Value(t) PROVE IInv'
  BY <1>1, ValueStep
<1>2. CASE BeginArray
  <2>1. "[" \in Tokens
    BY DEF Tokens, Punctuation
  <2>2. QED
    BY <1>2, <2>1, BeginStep DEF BeginArray
<1>3. CASE BeginObject
  <2>1. "{" \in Tokens
    BY DEF Tokens, Punctuation
  <2>2. QED
    BY <1>3, <2>1, BeginStep DEF BeginObject
<1>4. CASE EndArray
  <2>1. "]" \in Tokens
    BY DEF Tokens, Punctuation
  <2>2. PICK yes \in BOOLEAN : kept' = ArrayEndedIf(kept, yes)
    BY <1>4, Zenon DEF EndArray
  <2>3. WasEnded(kept, kept')
    BY <2>2, ArrayEndedFacts DEF IInv, KeptStacks
  <2>4. QED
    BY <1>4, <2>1, <2>3, EndStep DEF EndArray
<1>5. CASE EndObject
  <2>1. "}" \in Tokens
    BY DEF Tokens, Punctuation
  <2>2. PICK yes \in BOOLEAN : kept' = ObjectEndedIf(kept, yes)
    BY <1>5, Zenon DEF EndObject
  <2>3. WasEnded(kept, kept')
    BY <2>2, ObjectEndedFacts DEF IInv, KeptStacks
  <2>4. QED
    BY <1>5, <2>1, <2>3, EndStep DEF EndObject
<1>6. ASSUME NEW s \in Strings, Key(s) PROVE IInv'
  BY <1>6, KeyStep
<1>7. CASE NameSeparator
  <2>1. ":" \in Tokens /\ Read(":") /\ UNCHANGED <<plain, kept>>
    BY <1>7 DEF NameSeparator, Tokens, Punctuation
  <2>2. tokens' \in Seq(Tokens) /\ states \in Seq({"array", "object"}) /\ Len(states) \in Nat
    BY <2>1, ReadFacts DEF IInv, Control
  <2>3. CASE want = "name_separator"
    <3>1. Control'
      BY <1>7, <2>2, <2>3 DEF NameSeparator, IInv, Control, Wants
    <3>2. Running /\ Opened' = Opened /\ MemberNext /\ \A i \in 1 .. Opened : Kind(i)' = Kind(i)
      BY <1>7, <2>3 DEF NameSeparator, Running, Opened, MemberNext, Kind
    <3>3. QED
      BY <2>1, <3>1, <3>2, QuietStep
  <2>4. CASE want = "first_name_separator"
    <3>1. /\ states' = Append(states, "object") /\ want' = "value"
          /\ states' \in Seq({"array", "object"}) /\ Len(states') = Len(states) + 1
          /\ states'[Len(states) + 1] = "object" /\ \A i \in 1 .. Len(states) : states'[i] = states[i]
      BY <1>7, <2>2, <2>4, Stacks DEF NameSeparator
    <3>2. Control'
      BY <2>2, <3>1 DEF Control, Wants
    <3>3. Running /\ Opened' = Opened /\ MemberNext
      BY <2>4, <3>1 DEF Running, Opened, MemberNext
    <3>4. \A i \in 1 .. Opened : Kind(i)' = Kind(i)
      <4> TAKE i \in 1 .. Opened
      <4>1. CASE i <= Len(states)
        BY <2>2, <3>1, <4>1 DEF Kind
      <4>2. CASE i = Len(states) + 1
        BY <2>2, <2>4, <3>1, <4>2 DEF Kind
      <4>3. QED
        BY <2>2, <2>4, <4>1, <4>2 DEF Opened
    <3>5. QED
      BY <2>1, <3>2, <3>3, <3>4, QuietStep
  <2>5. QED
    BY <1>7, <2>3, <2>4 DEF NameSeparator
<1>8. CASE ValueSeparator
  <2>1. "," \in Tokens /\ Read(",") /\ UNCHANGED <<plain, kept, states>> /\ want = "separator"
    BY <1>8 DEF ValueSeparator, Tokens, Punctuation
  <2>2. tokens' \in Seq(Tokens) /\ states \in Seq({"array", "object"}) /\ states # <<>>
    BY <2>1, ReadFacts DEF IInv, Control
  <2>3. Top(states) \in {"array", "object"}
    BY <2>2, Stacks DEF Top
  <2>4. want' = IF Top(states) = "array" THEN "value" ELSE "key"
    BY <1>8 DEF ValueSeparator, AfterComma
  <2>5. Control'
    BY <2>1, <2>2, <2>3, <2>4 DEF Control, Wants
  <2>6. Running /\ Opened' = Opened /\ ~MemberNext' /\ \A i \in 1 .. Opened : Kind(i)' = Kind(i)
    BY <2>1, <2>3, <2>4 DEF Running, Opened, MemberNext, Kind
  <2>7. QED
    BY <2>1, <2>5, <2>6, QuietStep
<1>9. CASE EndOfInput
  <2>1. "end_of_input" \in Tokens /\ Read("end_of_input") /\ UNCHANGED <<plain, kept, states>> /\ want' = "accepted"
    BY <1>9 DEF EndOfInput, Tokens, Punctuation
  <2>2. Control' /\ ~Running'
    BY <2>1, ReadFacts DEF IInv, Control, Wants, Running
  <2>3. QED
    BY <2>1, <2>2, QuietStep
<1>10. ASSUME NEW t \in Tokens, ParseError(t) PROVE IInv'
  <2>1. Read(t) /\ UNCHANGED <<plain, kept, states>> /\ want' = "rejected"
    BY <1>10 DEF ParseError
  <2>2. Control' /\ ~Running'
    BY <2>1, ReadFacts DEF IInv, Control, Wants, Running
  <2>3. QED
    BY <2>1, <2>2, QuietStep
<1>11. CASE UNCHANGED vars
  BY <1>11 DEF vars, IInv, Control, PlainStacks, KeptStacks, Begun, StacksAgree, Running, Opened, Kind,
               MemberNext, Depths, KindsAgree, NullsNested, ElementAgrees
<1>12. QED
  BY <1>1, <1>2, <1>3, <1>4, <1>5, <1>6, <1>7, <1>8, <1>9, <1>10, <1>11 DEF Next

\* json_sax.hpp and parser.hpp keep four stacks and a pointer of one nesting.  Of
\* whatever text, and whatever the callback answers, they never disagree: the
\* asserts of both files hold, and no null pointer is followed.
THEOREM StacksAlwaysAgree == Spec => []StacksAgree
<1>1. IInv => StacksAgree
  BY DEF IInv
<1>2. QED
  BY <1>1, InitInv, NextKeepsInv, PTL DEF Spec

-----------------------------------------------------------------------------
(***************************************************************************)
(* What the callback refused is missing, and nothing else.  That a         *)
(* document is right when the text ends says nothing of what it was like   *)
(* before: KInv says what the two documents have in common all the while,  *)
(* a key being read whose value is not, a container being open that will   *)
(* be refused, and one refused already that is still where it was.         *)
(***************************************************************************)

Marks == {Null, Gone, Absent}

\* The values of a document, and what one of them holds.
ValuesOK(d) ==
  /\ d.root \in Places \union {Null}
  /\ d.items \in [Places -> Seq(Places)]
  /\ d.members \in [Places -> [Strings -> Places \union Marks]]

Among(x, s)     == \E i \in DOMAIN s : s[i] = x
Item(d, q, x)   == Among(x, d.items[q])
Member(d, q, x) == \E s \in Strings : d.members[q][s] = x
Held(d, x)      == d.root = x \/ \E q \in Places : Holds(d, q, x)

\* Nothing is known of a place that has not been read, ...
Fresh ==
  \A p \in Places : p > Len(tokens) =>
    /\ ~Held(plain, p) /\ ~Held(kept, p)
    /\ plain.kind[p] = "scalar" /\ kept.kind[p] = "scalar"

\* ... and what is no container holds nothing.
ScalarsEmpty ==
  \A p \in Places : plain.kind[p] = "scalar" =>
    plain.items[p] = <<>> /\ \A s \in Strings : plain.members[p][s] = Absent

\* What was refused, and nothing else, is discarded as long as it is there at all.
Sound ==
  \A p \in Places :
    /\ plain.kind[p] # "discarded"
    /\ kept.kind[p] = "discarded" => p \in refused
    /\ Held(kept, p) => /\ p \in refused => kept.kind[p] = "discarded"
                        /\ kept.kind[p] \in {plain.kind[p], "discarded"}

\* The key s of q has been read, and its value has not.
Building(q, s) == MemberNext /\ plain.element[1] = q /\ plain.element[2] = s

\* What was not refused is where it is without a callback, in each container that
\* is there.
RootKept == plain.root \in Places \ refused => kept.root = plain.root
ItemsKept ==
  \A q, x \in Places :
    kept.kind[q] # "scalar" /\ Item(plain, q, x) /\ x \notin refused => Item(kept, q, x)
MembersKept ==
  \A q \in Places : \A s \in Strings :
    /\ kept.kind[q] # "scalar"
    /\ plain.members[q][s] \in Places \ refused
    /\ ~Building(q, s)
    => kept.members[q][s] = plain.members[q][s]

\* No value is in two places.
OneParent ==
  \A p, q \in Places : Holds(plain, q, p) =>
    p # kept.root /\ \A r \in Places : Holds(kept, r, p) => q = r

Contents ==
  /\ ValuesOK(plain) /\ ValuesOK(kept)
  /\ Fresh /\ ScalarsEmpty /\ Sound
  /\ RootKept /\ ItemsKept /\ MembersKept /\ OneParent

\* The place of the value of the key that was read last.
ValuePlace == IF want = "value" THEN Here ELSE Here + 1

\* The callback has answered for what was read, and for that value.
RefusedOK   == \A p \in refused : p \in 1 .. Len(tokens) \/ (MemberNext /\ p = ValuePlace)
KeyAnswered == MemberNext => (Top(kept.keys) <=> ValuePlace \notin refused)

\* The containers that are open: one that is not kept is not there, and one that
\* is in an array is the last item of it.
NullsUnmade ==
  \A i \in 1 .. Opened : /\ kept.refs[i] = Null => kept.kind[plain.refs[i]] = "scalar"
                         /\ ~kept.keep[i + 1] => kept.refs[i] = Null
LastItem ==
  \A i \in 1 .. Opened - 1 :
    kept.refs[i + 1] # Null /\ Kind(i) = "array" =>
      kept.items[kept.refs[i]] # <<>> /\ Top(kept.items[kept.refs[i]]) = kept.refs[i + 1]

Answers == RefusedOK /\ KeyAnswered
Open    == NullsUnmade /\ LastItem /\ kept.keep[1]

KInv == want # "rejected" => Contents /\ (Running => Answers /\ Open)

-----------------------------------------------------------------------------
\* What the operations of the consumers do to the values

SameValues(d, e) ==
  e.root = d.root /\ e.kind = d.kind /\ e.items = d.items /\ e.members = d.members

\* p has become the root, an item, or what object_element points to.
Placed(d, e, p, k) ==
  /\ e.kind = [d.kind EXCEPT ![p] = k]
  /\ IF d.refs = <<>> THEN e.root = p /\ e.items = d.items /\ e.members = d.members
     ELSE /\ e.root = d.root
          /\ IF d.kind[Top(d.refs)] = "array"
               THEN /\ e.items = [d.items EXCEPT ![Top(d.refs)] = Append(@, p)]
                    /\ e.members = d.members
               ELSE /\ e.items = d.items
                    /\ e.members = [d.members EXCEPT ![d.element[1]] = [@ EXCEPT ![d.element[2]] = p]]

\* The container, or the answer about the key, keeps a value out.
Refuses(d) ==
  /\ d.refs # <<>>
  /\ Top(d.refs) = Null \/ (d.kind[Top(d.refs)] # "array" /\ ~Top(d.keys))

Taken(d, e, p, k, ok) == IF ok /\ ~Refuses(d) THEN Placed(d, e, p, k) ELSE SameValues(d, e)

LEMMA HandledPlaces ==
  ASSUME NEW d, Shape(d), NEW p, NEW k
  PROVE  Placed(d, Handled(d, p, k), p, k)
<1> DEFINE e == [d EXCEPT !.kind[p] = k, !.made = p]
<1>1. /\ Shape(e) /\ e.kind = [d.kind EXCEPT ![p] = k] /\ e.root = d.root /\ e.items = d.items
      /\ e.members = d.members /\ e.refs = d.refs /\ e.element = d.element
  BY DEF Shape, Fields
<1>2. CASE d.refs = <<>>
  <2>1. Handled(d, p, k) = [e EXCEPT !.root = p]
    BY <1>2 DEF Handled
  <2> HIDE DEF e
  <2> QED
    BY <1>1, <1>2, <2>1 DEF Placed, Shape, Fields
<1>3. CASE d.refs # <<>> /\ d.kind[Top(d.refs)] = "array"
  <2>1. Handled(d, p, k) = [e EXCEPT !.items[Top(d.refs)] = Append(@, p)]
    BY <1>3 DEF Handled
  <2> HIDE DEF e
  <2> QED
    BY <1>1, <1>3, <2>1 DEF Placed, Shape, Fields
<1>4. CASE d.refs # <<>> /\ d.kind[Top(d.refs)] # "array"
  <2>1. Handled(d, p, k) = [e EXCEPT !.members[d.element[1]][d.element[2]] = p]
    BY <1>4 DEF Handled, Replaced
  <2> HIDE DEF e
  <2> QED
    BY <1>1, <1>4, <2>1 DEF Placed, Shape, Fields
<1> QED
  BY <1>2, <1>3, <1>4

LEMMA HandledIfTakes ==
  ASSUME NEW d, Shape(d), NEW p, NEW k, NEW yes \in BOOLEAN
  PROVE  LET h  == HandledIf(d, p, k, yes)
             ok == Top(d.keep) /\ yes
         IN  Taken(d, h, p, k, ok) /\ h.made = IF ok /\ ~Refuses(d) THEN p ELSE Null
<1> DEFINE no == [d EXCEPT !.made = Null]
           g  == Handled(d, p, k)
           h  == HandledIf(d, p, k, yes)
           ok == Top(d.keep) /\ yes
<1>1. Shape(no) /\ SameValues(d, no) /\ no.made = Null
  BY DEF Shape, Fields, SameValues
<1>2. Shape(g) /\ Placed(d, g, p, k) /\ g.made = p
  <2>1. WasHandled(d, p, k, g) /\ Placed(d, g, p, k)
    BY HandledFacts, HandledPlaces, Zenon
  <2> HIDE DEF g
  <2> QED
    BY <2>1 DEF WasHandled
<1>3. \/ ~(ok /\ ~Refuses(d)) /\ (h = no \/ h = [no EXCEPT !.keys = Rest(@)])
      \/ (ok /\ ~Refuses(d)) /\ (h = g \/ h = [g EXCEPT !.keys = Rest(@)])
  BY Zenon DEF HandledIf, Refuses, StoreElement
<1>4. \A f : Shape(f) => LET e == [f EXCEPT !.keys = Rest(@)] IN SameValues(f, e) /\ e.made = f.made
  BY DEF Shape, Fields, SameValues
<1> HIDE DEF no, g, h, ok
<1>5. CASE ~(ok /\ ~Refuses(d)) /\ (h = no \/ h = [no EXCEPT !.keys = Rest(@)])
  <2>1. SameValues(no, h) /\ h.made = no.made
    BY <1>1, <1>4, <1>5 DEF SameValues
  <2>2. SameValues(d, h) /\ h.made = Null
    BY <1>1, <2>1 DEF SameValues
  <2> QED
    BY <1>5, <2>2 DEF Taken, h, ok
<1>6. CASE (ok /\ ~Refuses(d)) /\ (h = g \/ h = [g EXCEPT !.keys = Rest(@)])
  <2>1. SameValues(g, h) /\ h.made = g.made
    BY <1>2, <1>4, <1>6 DEF SameValues
  <2>2. Placed(d, h, p, k) /\ h.made = p
    BY <1>2, <2>1 DEF SameValues, Placed
  <2> QED
    BY <1>6, <2>2 DEF Taken, h, ok
<1> QED
  BY <1>3, <1>5, <1>6

LEMMA StartedPlaces ==
  ASSUME NEW d, Shape(d), NEW p, NEW k
  PROVE  Placed(d, Started(d, p, k), p, k)
<1> DEFINE g == Handled(d, p, k)
<1>1. Shape(g) /\ Placed(d, g, p, k)
  <2>1. WasHandled(d, p, k, g) /\ Placed(d, g, p, k)
    BY HandledFacts, HandledPlaces, Zenon
  <2> HIDE DEF g
  <2> QED
    BY <2>1 DEF WasHandled
<1>2. Started(d, p, k) = [g EXCEPT !.refs = Append(@, p)]
  BY Zenon DEF Started
<1> HIDE DEF g
<1>3. SameValues(g, Started(d, p, k))
  BY <1>1, <1>2 DEF Shape, Fields, SameValues
<1> QED
  BY <1>1, <1>3 DEF SameValues, Placed

\* A container's own answer is on the stack when it is placed.
LEMMA StartedIfTakes ==
  ASSUME NEW d, Shape(d), d.keep \in Seq(BOOLEAN), NEW p, NEW k, NEW yes \in BOOLEAN
  PROVE  LET s == StartedIf(d, p, k, yes)
         IN  /\ Taken(d, s, p, k, yes)
             /\ s.refs = Append(d.refs, IF yes /\ ~Refuses(d) THEN p ELSE Null)
<1> DEFINE f == [d EXCEPT !.keep = Append(@, yes)]
           e == HandledIf(f, p, k, TRUE)
           s == StartedIf(d, p, k, yes)
<1>1. Shape(f) /\ f.refs = d.refs /\ f.keep = Append(d.keep, yes) /\ f.keys = d.keys /\ SameValues(d, f)
      /\ f.element = d.element
  BY DEF Shape, Fields, SameValues
<1>2. Top(f.keep) = yes
  <2>1. Top(Append(d.keep, yes)) = yes
    BY AppendedLast, Zenon
  <2> HIDE DEF f
  <2> QED
    BY <1>1, <2>1
<1> HIDE DEF f
<1>3. WasHandledIf(f, p, k, e)
  BY <1>1, HandledIfFacts, Zenon
<1>4. LET ok == Top(f.keep) /\ TRUE
      IN  Taken(f, e, p, k, ok) /\ e.made = IF ok /\ ~Refuses(f) THEN p ELSE Null
  BY <1>1, HandledIfTakes, Zenon
<1>5. s = [e EXCEPT !.refs = Append(@, e.made)]
  BY Zenon DEF StartedIf, f
<1> HIDE DEF e, s
<1>6. Refuses(f) <=> Refuses(d)
  BY <1>1 DEF Refuses, SameValues
<1>7. /\ Taken(f, e, p, k, yes) /\ e.made = IF yes /\ ~Refuses(d) THEN p ELSE Null
      /\ Shape(e) /\ e.refs = d.refs
  BY <1>1, <1>2, <1>3, <1>4, <1>6, Zenon DEF WasHandledIf
<1>8. s.refs = Append(d.refs, IF yes /\ ~Refuses(d) THEN p ELSE Null) /\ SameValues(e, s)
  BY <1>5, <1>7 DEF Shape, Fields, SameValues
<1>9. Taken(d, s, p, k, yes)
  <2>1. CASE yes /\ ~Refuses(d)
    BY <1>1, <1>6, <1>7, <1>8, <2>1 DEF Taken, Placed, SameValues
  <2>2. CASE ~(yes /\ ~Refuses(d))
    BY <1>1, <1>6, <1>7, <1>8, <2>2 DEF Taken, SameValues
  <2> QED
    BY <2>1, <2>2
<1> QED
  BY <1>8, <1>9 DEF s

WasKeyed(d, s, e) ==
  LET v == IF d.members[Top(d.refs)][s] = Absent THEN Null ELSE d.members[Top(d.refs)][s]
  IN  /\ e.root = d.root /\ e.kind = d.kind /\ e.items = d.items
      /\ e.members = [d.members EXCEPT ![Top(d.refs)] = [@ EXCEPT ![s] = v]]

LEMMA KeyedValues ==
  ASSUME NEW d, Shape(d), NEW s
  PROVE  WasKeyed(d, s, Keyed(d, s))
BY DEF WasKeyed, Keyed, Shape, Fields

WasKeyedIf(d, s, e) ==
  /\ e.root = d.root /\ e.kind = d.kind /\ e.items = d.items
  /\ \/ e.members = d.members
     \/ Top(d.refs) # Null /\ e.members = [d.members EXCEPT ![Top(d.refs)] = [@ EXCEPT ![s] = Gone]]

LEMMA KeyedIfValues ==
  ASSUME NEW d, Shape(d), NEW s, NEW yes \in BOOLEAN
  PROVE  WasKeyedIf(d, s, KeyedIf(d, s, yes))
<1> DEFINE f == [d EXCEPT !.keys = Append(@, yes)]
<1>1. Shape(f) /\ SameValues(d, f)
  BY DEF Shape, Fields, SameValues
<1>2. \/ KeyedIf(d, s, yes) = f
      \/ /\ Top(d.refs) # Null
         /\ KeyedIf(d, s, yes) = [f EXCEPT !.members[Top(d.refs)][s] = Gone, !.element = <<Top(d.refs), s>>]
  BY DEF KeyedIf
<1> HIDE DEF f
<1> USE DEF WasKeyedIf
<1>3. CASE KeyedIf(d, s, yes) = f
  BY <1>1, <1>3 DEF SameValues
<1>4. CASE /\ Top(d.refs) # Null
           /\ KeyedIf(d, s, yes) = [f EXCEPT !.members[Top(d.refs)][s] = Gone, !.element = <<Top(d.refs), s>>]
  BY <1>1, <1>4 DEF Shape, Fields, SameValues
<1> QED
  BY <1>2, <1>3, <1>4

LEMMA EndedValues ==
  ASSUME NEW d, Shape(d)
  PROVE  SameValues(d, Ended(d))
BY DEF Ended, Shape, Fields, SameValues

\* What is refused at its end is discarded.
EndedKind(d, e, yes) ==
  e.kind = IF Top(d.refs) # Null /\ ~yes THEN [d.kind EXCEPT ![Top(d.refs)] = "discarded"] ELSE d.kind

LEMMA ClosedValues ==
  ASSUME NEW d, Shape(d), NEW yes \in BOOLEAN
  PROVE  LET e == Closed(d, yes)
         IN  /\ Shape(e) /\ e.refs = Rest(d.refs) /\ EndedKind(d, e, yes)
             /\ e.root = d.root /\ e.items = d.items /\ e.members = d.members
BY DEF Closed, Shape, Fields, EndedKind

Dropped(d, e, yes) ==
  LET o == Top(Rest(d.refs))
  IN  /\ EndedKind(d, e, yes) /\ e.root = d.root /\ e.members = d.members
      /\ \/ e.items = d.items
         \/ /\ Top(d.refs) # Null /\ ~yes /\ Rest(d.refs) # <<>> /\ o # Null /\ e.kind[o] = "array"
            /\ e.items = [d.items EXCEPT ![o] = Rest(@)]

LEMMA ArrayEndedValues ==
  ASSUME NEW d, Shape(d), NEW yes \in BOOLEAN
  PROVE  Dropped(d, ArrayEndedIf(d, yes), yes)
<1> USE DEF Dropped
<1> DEFINE c == Closed(d, yes)
           o == Top(Rest(d.refs))
<1>1. /\ Shape(c) /\ c.refs = Rest(d.refs) /\ EndedKind(d, c, yes)
      /\ c.root = d.root /\ c.items = d.items /\ c.members = d.members
  BY ClosedValues, Zenon
<1>2. \/ ArrayEndedIf(d, yes) = c
      \/ /\ Top(d.refs) # Null /\ ~yes /\ Inside(c, "array")
         /\ ArrayEndedIf(d, yes) = [c EXCEPT !.items[Top(c.refs)] = Rest(@)]
  BY Zenon DEF ArrayEndedIf
<1> HIDE DEF c
<1>3. CASE ArrayEndedIf(d, yes) = c
  BY <1>1, <1>3 DEF EndedKind
<1>4. CASE /\ Top(d.refs) # Null /\ ~yes /\ Inside(c, "array")
           /\ ArrayEndedIf(d, yes) = [c EXCEPT !.items[Top(c.refs)] = Rest(@)]
  <2>1. Rest(d.refs) # <<>> /\ o # Null /\ c.kind[o] = "array"
    BY <1>1, <1>4 DEF Inside
  <2> DEFINE e == ArrayEndedIf(d, yes)
  <2>2. e.kind = c.kind /\ e.root = c.root /\ e.members = c.members /\ e.items = [c.items EXCEPT ![o] = Rest(@)]
    BY <1>1, <1>4 DEF Shape, Fields
  <2> HIDE DEF e, o
  <2>3. EndedKind(d, e, yes) /\ e.root = d.root /\ e.members = d.members
        /\ e.items = [d.items EXCEPT ![o] = Rest(@)] /\ e.kind[o] = "array"
    BY <1>1, <2>1, <2>2 DEF EndedKind
  <2> QED
    BY <1>4, <2>1, <2>3 DEF e, o
<1> QED
  BY <1>2, <1>3, <1>4

LEMMA LeastExists ==
  ASSUME NEW T \in SUBSET Nat, T # {}
  PROVE  \E m \in T : \A n \in T : m <= n
<1>1. PICK m \in T : \A n \in T : ~(<<n, m>> \in OpToRel(<, Nat))
  BY NatLessThanWellFounded, WFMin
<1>2. \A x, y \in Nat : x < y => <<x, y>> \in OpToRel(<, Nat)
  BY DEF OpToRel
<1>3. \A n \in T : ~(n < m)
  BY <1>1, <1>2, Zenon
<1> QED
  BY <1>3

ErasedOne(d, e, yes) ==
  LET o == Top(Rest(d.refs))
  IN  /\ EndedKind(d, e, yes) /\ e.root = d.root /\ e.items = d.items
      /\ \/ e.members = d.members
         \/ /\ Rest(d.refs) # <<>> /\ o # Null
            /\ \E s \in Strings : /\ Discarded(e, d.members[o][s])
                                  /\ e.members = [d.members EXCEPT ![o] = [@ EXCEPT ![s] = Absent]]

LEMMA ObjectEndedValues ==
  ASSUME NEW d, Shape(d), NEW yes \in BOOLEAN
  PROVE  ErasedOne(d, ObjectEndedIf(d, yes), yes)
<1> USE DEF ErasedOne
<1> DEFINE c == Closed(d, yes)
           e == ObjectEndedIf(d, yes)
           o == Top(Rest(d.refs))
<1>1. /\ Shape(c) /\ c.refs = Rest(d.refs) /\ EndedKind(d, c, yes)
      /\ c.root = d.root /\ c.items = d.items /\ c.members = d.members
  BY ClosedValues, Zenon
<1> DEFINE gone == {i \in DOMAIN Order : Discarded(c, c.members[Top(c.refs)][Order[i]])}
<1>2. \/ e = c
      \/ /\ Inside(c, "object") /\ gone # {}
         /\ e = [c EXCEPT !.members[Top(c.refs)][Order[Min(gone)]] = Absent]
  BY Zenon DEF ObjectEndedIf, Erased
<1> HIDE DEF c, e
<1>3. CASE e = c
  BY <1>1, <1>3 DEF EndedKind, e
<1>4. CASE /\ Inside(c, "object") /\ gone # {}
           /\ e = [c EXCEPT !.members[Top(c.refs)][Order[Min(gone)]] = Absent]
  <2>1. Rest(d.refs) # <<>> /\ o # Null /\ Top(c.refs) = o
    BY <1>1, <1>4 DEF Inside
  <2>2. gone \in SUBSET Nat
    <3>1. DOMAIN Order \subseteq Nat
      BY StringsAssumption
    <3> QED
      BY <3>1
  <2>3. Min(gone) \in gone
    BY <1>4, <2>2, LeastExists DEF Min
  <2> DEFINE s == Order[Min(gone)]
  <2>4. s \in Strings /\ Discarded(c, d.members[o][s])
    BY <1>1, <2>1, <2>3 DEF Strings
  <2>5. e = [c EXCEPT !.members[o][s] = Absent]
    BY <1>4, <2>1
  <2> HIDE DEF s, o
  <2>6. /\ e.kind = c.kind /\ e.root = c.root /\ e.items = c.items
        /\ e.members = [c.members EXCEPT ![o] = [@ EXCEPT ![s] = Absent]]
    BY <1>1, <2>5 DEF Shape, Fields
  <2>7. Discarded(e, d.members[o][s])
    BY <2>4, <2>6 DEF Discarded
  <2>8. EndedKind(d, e, yes)
    BY <1>1, <2>6 DEF EndedKind
  <2> QED
    BY <1>1, <2>1, <2>4, <2>6, <2>7, <2>8 DEF e, o
<1> QED
  BY <1>2, <1>3, <1>4

-----------------------------------------------------------------------------
\* What a step may hold that was not held before

LEMMA AmongAppended ==
  ASSUME NEW S, NEW s \in Seq(S), NEW e \in S
  PROVE  \A x : Among(x, Append(s, e)) <=> x = e \/ Among(x, s)
<1>1. /\ Len(s) \in Nat /\ Append(s, e) \in Seq(S) /\ Len(Append(s, e)) = Len(s) + 1
      /\ Append(s, e)[Len(s) + 1] = e /\ \A i \in 1 .. Len(s) : Append(s, e)[i] = s[i]
  BY Stacks
<1>2. DOMAIN s = 1 .. Len(s) /\ DOMAIN Append(s, e) = 1 .. Len(s) + 1
  BY <1>1
<1> DEFINE a == Append(s, e)
<1>3. a[Len(s) + 1] = e /\ (\A i \in 1 .. Len(s) : a[i] = s[i]) /\ DOMAIN a = 1 .. Len(s) + 1
  BY <1>1, <1>2
<1> HIDE DEF a
<1>4. \A x : Among(x, a) <=> x = e \/ Among(x, s)
  BY <1>1, <1>2, <1>3 DEF Among
<1> QED
  BY <1>4 DEF a

LEMMA AmongRest ==
  ASSUME NEW S, NEW s \in Seq(S)
  PROVE  \A x : /\ Among(x, Rest(s)) => Among(x, s)
                /\ Among(x, s) => x = Top(s) \/ Among(x, Rest(s))
<1>1. CASE s = <<>>
  <2>1. Rest(s) = <<>>
    BY <1>1, Stacks
  <2> QED
    BY <1>1, <2>1 DEF Among
<1>2. CASE s # <<>>
  <2>1. /\ Len(s) \in Nat \ {0} /\ Rest(s) \in Seq(S) /\ Len(Rest(s)) = Len(s) - 1
        /\ \A i \in 1 .. Len(s) - 1 : Rest(s)[i] = s[i]
    BY <1>2, Stacks
  <2>2. DOMAIN s = 1 .. Len(s) /\ DOMAIN Rest(s) = 1 .. Len(s) - 1
    BY <2>1
  <2>3. \A i \in 1 .. Len(s) : i \in 1 .. Len(s) - 1 \/ i = Len(s)
    BY <2>1
  <2>4. \A i \in 1 .. Len(s) - 1 : i \in 1 .. Len(s)
    BY <2>1
  <2> DEFINE r == Rest(s)
  <2> HIDE DEF r
  <2>5. (\A i \in 1 .. Len(s) - 1 : r[i] = s[i]) /\ DOMAIN r = 1 .. Len(s) - 1
    BY <2>1, <2>2 DEF r
  <2>6. \A x : /\ Among(x, r) => Among(x, s)
               /\ Among(x, s) => x = Top(s) \/ Among(x, r)
    BY <2>2, <2>3, <2>4, <2>5, Zenon DEF Among, Top
  <2> QED
    BY <2>6 DEF r
<1> QED
  BY <1>1, <1>2

\* p is all that is held which was not, and only by the innermost container.
Grows(d, e, p) ==
  /\ e.root = d.root \/ (d.refs = <<>> /\ e.root = p)
  /\ \A r, x \in Places :
       Holds(e, r, x) => Holds(d, r, x) \/ (x = p /\ d.refs # <<>> /\ r = Top(d.refs))

LEMMA HoldsWhat == \A d, q, x : Holds(d, q, x) <=> Item(d, q, x) \/ Member(d, q, x)
BY DEF Holds, Item, Member, Among

LEMMA SameGrows ==
  ASSUME NEW d, NEW e, NEW p, ValuesOK(d), e.root = d.root, e.items = d.items, e.members = d.members
  PROVE  ValuesOK(e) /\ Grows(d, e, p)
BY DEF ValuesOK, Grows, Holds

LEMMA MembersType ==
  ASSUME NEW V, NEW m \in [Places -> [Strings -> V]], NEW o, NEW s, NEW v \in V,
         NEW n, n = [m EXCEPT ![o] = [@ EXCEPT ![s] = v]]
  PROVE  n \in [Places -> [Strings -> V]]
<1> DEFINE f == [m[o] EXCEPT ![s] = v]
<1>1. o \in Places => f \in [Strings -> V]
  OBVIOUS
<1> HIDE DEF f
<1>2. [m EXCEPT ![o] = f] \in [Places -> [Strings -> V]]
  BY <1>1
<1> QED
  BY <1>2 DEF f

LEMMA PlacedGrows ==
  ASSUME NEW d, NEW e, NEW p \in Places, NEW k, ValuesOK(d), Placed(d, e, p, k),
         d.refs # <<>> => /\ Top(d.refs) \in Places
                          /\ d.kind[Top(d.refs)] # "array" => d.element[1] = Top(d.refs)
  PROVE  ValuesOK(e) /\ Grows(d, e, p)
<1> DEFINE o == Top(d.refs)
           s == d.element[2]
<1>1. CASE d.refs = <<>>
  BY <1>1 DEF Placed, ValuesOK, Grows, Holds
<1>2. CASE d.refs # <<>> /\ d.kind[Top(d.refs)] = "array"
  <2>1. /\ o \in Places /\ e.root = d.root /\ e.members = d.members
        /\ e.items = [d.items EXCEPT ![o] = Append(@, p)]
    BY <1>2 DEF Placed
  <2> HIDE DEF o
  <2>2. d.items[o] \in Seq(Places) /\ e.items[o] = Append(d.items[o], p)
        /\ \A q \in Places : q # o => e.items[q] = d.items[q]
    BY <2>1 DEF ValuesOK
  <2>3. Append(d.items[o], p) \in Seq(Places) /\ \A x : Among(x, Append(d.items[o], p)) <=> x = p \/ Among(x, d.items[o])
    BY <2>2, AmongAppended, AppendedLast
  <2>4. ValuesOK(e)
    BY <2>1, <2>2, <2>3 DEF ValuesOK
  <2>5. \A r, x \in Places : Item(e, r, x) => Item(d, r, x) \/ (x = p /\ r = o)
    BY <2>2, <2>3 DEF Item
  <2>6. \A r, x \in Places : Member(e, r, x) => Member(d, r, x)
    BY <2>1 DEF Member
  <2> QED
    BY <1>2, <2>1, <2>4, <2>5, <2>6, HoldsWhat DEF Grows, o
<1>3. CASE d.refs # <<>> /\ d.kind[Top(d.refs)] # "array"
  <2>1. /\ o \in Places /\ e.root = d.root /\ e.items = d.items
        /\ e.members = [d.members EXCEPT ![o] = [@ EXCEPT ![s] = p]]
    BY <1>3 DEF Placed
  <2> HIDE DEF o, s
  <2>2. ValuesOK(e)
    <3> DEFINE V == Places \union Marks
               m == d.members
               n == e.members
    <3>1. m \in [Places -> [Strings -> V]] /\ p \in V /\ n = [m EXCEPT ![o] = [@ EXCEPT ![s] = p]]
      BY <2>1 DEF ValuesOK
    <3> HIDE DEF V, m, n
    <3>2. n \in [Places -> [Strings -> V]]
      BY <3>1, MembersType
    <3> QED
      BY <2>1, <3>2 DEF ValuesOK, V, n
  <2>3. \A r, x \in Places : Member(e, r, x) => Member(d, r, x) \/ (x = p /\ r = o)
    BY <2>1 DEF Member, ValuesOK
  <2>4. \A r, x \in Places : Item(e, r, x) => Item(d, r, x)
    BY <2>1 DEF Item
  <2> QED
    BY <1>3, <2>1, <2>2, <2>3, <2>4, HoldsWhat DEF Grows, o
<1> QED
  BY <1>1, <1>2, <1>3

\* A member that stops being a value, or becomes none.
LEMMA UnplacedGrows ==
  ASSUME NEW d, NEW e, NEW p, NEW o, NEW s, NEW v \in Places \union Marks,
         ValuesOK(d), e.root = d.root, e.items = d.items,
         e.members = [d.members EXCEPT ![o] = [@ EXCEPT ![s] = v]],
         v \in Marks \/ v = d.members[o][s], o \in Places
  PROVE  ValuesOK(e) /\ Grows(d, e, p)
<1>1. ValuesOK(e)
  <2> DEFINE V == Places \union Marks
             m == d.members
             n == e.members
  <2>1. m \in [Places -> [Strings -> V]] /\ v \in V /\ n = [m EXCEPT ![o] = [@ EXCEPT ![s] = v]]
    BY DEF ValuesOK
  <2> HIDE DEF V, m, n
  <2>2. n \in [Places -> [Strings -> V]]
    BY <2>1, MembersType
  <2> QED
    BY <2>2 DEF ValuesOK, V, n
<1>2. \A x \in Places : x \notin Marks
  BY LengthAssumption DEF Places, Marks, Null, Gone, Absent
<1>3. \A r, x \in Places : Member(e, r, x) => Member(d, r, x)
  BY <1>2 DEF Member, ValuesOK
<1>4. \A r, x \in Places : Item(e, r, x) => Item(d, r, x)
  BY DEF Item
<1> QED
  BY <1>1, <1>3, <1>4, HoldsWhat DEF Grows

\* An array without its last item.
LEMMA DroppedGrows ==
  ASSUME NEW d, NEW e, NEW p, NEW o \in Places,
         ValuesOK(d), e.root = d.root, e.members = d.members,
         e.items = [d.items EXCEPT ![o] = Rest(@)]
  PROVE  ValuesOK(e) /\ Grows(d, e, p)
<1>1. d.items[o] \in Seq(Places) /\ e.items[o] = Rest(d.items[o]) /\ \A q \in Places : q # o => e.items[q] = d.items[q]
  BY DEF ValuesOK
<1>2. Rest(d.items[o]) \in Seq(Places)
  BY <1>1, Stacks
<1>3. ValuesOK(e)
  BY <1>1, <1>2 DEF ValuesOK
<1>4. \A x : Among(x, Rest(d.items[o])) => Among(x, d.items[o])
  BY <1>1, AmongRest
<1>5. \A r, x \in Places : Item(e, r, x) => Item(d, r, x)
  BY <1>1, <1>4 DEF Item
<1>6. \A r, x \in Places : Member(e, r, x) => Member(d, r, x)
  BY DEF Member
<1> QED
  BY <1>3, <1>5, <1>6, HoldsWhat DEF Grows

-----------------------------------------------------------------------------
\* The innermost container

LEMMA Innermost ==
  ASSUME IInv, Running
  PROVE  /\ Opened \in Nat
         /\ Len(plain.refs) = Opened /\ Len(kept.refs) = Opened /\ Len(kept.keep) = Opened + 1
         /\ plain.refs = <<>> <=> Opened = 0
         /\ kept.refs = <<>> <=> Opened = 0
         /\ Top(kept.keep) = kept.keep[Opened + 1]
         /\ \A i \in 1 .. Opened : /\ plain.refs[i] \in Places /\ plain.refs[i] <= Len(tokens)
                                   /\ kept.refs[i] \in {Null, plain.refs[i]}
         /\ \A i, j \in 1 .. Opened : i # j => plain.refs[i] # plain.refs[j]
         /\ Opened > 0 =>
              /\ Top(plain.refs) = plain.refs[Opened] /\ Top(kept.refs) = kept.refs[Opened]
              /\ Top(plain.refs) \in Places /\ Top(plain.refs) <= Len(tokens)
              /\ plain.kind[Top(plain.refs)] = Kind(Opened) /\ Kind(Opened) \in {"array", "object"}
              /\ Top(kept.refs) # Null => /\ Top(kept.refs) = Top(plain.refs)
                                          /\ kept.kind[Top(kept.refs)] = Kind(Opened)
<1>1. Depths /\ KindsAgree
  BY DEF IInv, StacksAgree
<1>2. /\ plain.refs \in Seq(Places) /\ kept.refs \in Seq(Places \union {Null}) /\ kept.keep \in Seq(BOOLEAN)
      /\ states \in Seq({"array", "object"}) /\ tokens \in Seq(Tokens)
  BY DEF IInv, PlainStacks, KeptStacks, Control
<1>3. /\ Opened \in Nat
      /\ Len(plain.refs) = Opened /\ Len(kept.refs) = Opened /\ Len(kept.keep) = Opened + 1
  BY <1>1, <1>2, Stacks DEF Depths
<1>4. /\ plain.refs = <<>> <=> Opened = 0
      /\ kept.refs = <<>> <=> Opened = 0
      /\ Top(kept.keep) = kept.keep[Opened + 1]
  BY <1>2, <1>3 DEF Top
<1>5. \A i \in 1 .. Opened : /\ plain.refs[i] \in Places /\ plain.refs[i] <= Len(tokens)
                             /\ kept.refs[i] \in {Null, plain.refs[i]}
  <2>1. \A i \in 1 .. Opened : plain.refs[i] \in Places
    BY <1>2, <1>3, Stacks
  <2>2. \A i \in 1 .. Opened : plain.refs[i] <= Len(tokens)
    BY <1>3 DEF IInv, Begun
  <2>3. \A i \in 1 .. Opened : kept.refs[i] \in {Null, plain.refs[i]}
    BY <1>1 DEF KindsAgree
  <2> QED
    BY <2>1, <2>2, <2>3
<1>6. \A i, j \in 1 .. Opened : i # j => plain.refs[i] # plain.refs[j]
  <2> SUFFICES ASSUME NEW i \in 1 .. Opened, NEW j \in 1 .. Opened, i # j PROVE plain.refs[i] # plain.refs[j]
    OBVIOUS
  <2>1. plain.refs[i] \in Int /\ plain.refs[j] \in Int
    BY <1>5 DEF Places
  <2>2. i < j \/ j < i
    OBVIOUS
  <2>3. plain.refs[i] < plain.refs[j] \/ plain.refs[j] < plain.refs[i]
    BY <1>3, <2>2 DEF IInv, Begun
  <2> QED
    BY <2>1, <2>3
<1>7. Opened > 0 =>
        /\ Top(plain.refs) = plain.refs[Opened] /\ Top(kept.refs) = kept.refs[Opened]
        /\ Top(plain.refs) \in Places /\ Top(plain.refs) <= Len(tokens)
        /\ plain.kind[Top(plain.refs)] = Kind(Opened) /\ Kind(Opened) \in {"array", "object"}
        /\ Top(kept.refs) # Null => /\ Top(kept.refs) = Top(plain.refs)
                                    /\ kept.kind[Top(kept.refs)] = Kind(Opened)
  <2> SUFFICES ASSUME Opened > 0
               PROVE  /\ Top(plain.refs) = plain.refs[Opened] /\ Top(kept.refs) = kept.refs[Opened]
                      /\ Top(plain.refs) \in Places /\ Top(plain.refs) <= Len(tokens)
                      /\ plain.kind[Top(plain.refs)] = Kind(Opened) /\ Kind(Opened) \in {"array", "object"}
                      /\ Top(kept.refs) # Null => /\ Top(kept.refs) = Top(plain.refs)
                                                  /\ kept.kind[Top(kept.refs)] = Kind(Opened)
    OBVIOUS
  <2>1. Top(plain.refs) = plain.refs[Opened] /\ Top(kept.refs) = kept.refs[Opened] /\ Opened \in 1 .. Opened
    BY <1>3 DEF Top
  <2>2. Kind(Opened) \in {"array", "object"}
    <3>1. Opened <= Len(states) => states[Opened] \in {"array", "object"}
      BY <1>2, <2>1
    <3> QED
      BY <3>1 DEF Kind
  <2>3. /\ plain.kind[plain.refs[Opened]] = Kind(Opened)
        /\ kept.refs[Opened] # Null => kept.refs[Opened] = plain.refs[Opened] /\ kept.kind[kept.refs[Opened]] = Kind(Opened)
    BY <1>1, <2>1 DEF KindsAgree
  <2> QED
    BY <1>5, <2>1, <2>2, <2>3
<1> QED
  BY <1>3, <1>4, <1>5, <1>6, <1>7

LEMMA ValueNext ==
  ASSUME IInv, want \in {"value", "first_item"}
  PROVE  MemberNext <=> Opened > 0 /\ Kind(Opened) = "object"
<1>1. states \in Seq({"array", "object"}) /\ Len(states) \in Nat /\ (states # <<>> <=> Len(states) > 0)
  BY Stacks DEF IInv, Control
<1>2. CASE want = "value"
  BY <1>1, <1>2 DEF MemberNext, Opened, Kind, Top
<1>3. CASE want = "first_item"
  BY <1>1, <1>3 DEF MemberNext, Opened, Kind
<1> QED
  BY <1>2, <1>3

-----------------------------------------------------------------------------
\* What follows from that alone

LEMMA HeldBefore ==
  ASSUME NEW d, NEW e, NEW p, Grows(d, e, p)
  PROVE  \A x \in Places : Held(e, x) => Held(d, x) \/ x = p
BY DEF Grows, Held

LEMMA FreshKept ==
  ASSUME Fresh, tokens \in Seq(Tokens), Here \in Places, Len(tokens') = Here,
         Grows(plain, plain', Here), Grows(kept, kept', Here),
         \A p \in Places : p > Here => plain'.kind[p] = plain.kind[p] /\ kept'.kind[p] = kept.kind[p]
  PROVE  Fresh'
<1> SUFFICES ASSUME NEW p \in Places, p > Here
             PROVE  /\ ~Held(plain', p) /\ ~Held(kept', p)
                    /\ plain'.kind[p] = "scalar" /\ kept'.kind[p] = "scalar"
  BY Zenon DEF Fresh
<1>1. p > Len(tokens) /\ p # Here
  BY DEF Here, Places
<1>2. /\ ~Held(plain, p) /\ ~Held(kept, p) /\ plain.kind[p] = "scalar" /\ kept.kind[p] = "scalar"
  BY <1>1 DEF Fresh
<1> QED
  BY <1>1, <1>2, HeldBefore

LEMMA OneParentKept ==
  ASSUME IInv, Running, Fresh, OneParent, Here \in Places,
         Grows(plain, plain', Here), Grows(kept, kept', Here)
  PROVE  OneParent'
<1>1. ~Held(plain, Here) /\ ~Held(kept, Here)
  BY DEF Fresh, Here, IInv, Control
<1> SUFFICES ASSUME NEW p \in Places, NEW q \in Places, Holds(plain', q, p)
             PROVE  p # kept'.root /\ \A r \in Places : Holds(kept', r, p) => q = r
  BY Zenon DEF OneParent
<1>2. CASE p = Here
  <2>1. plain.refs # <<>> /\ q = Top(plain.refs)
    BY <1>1, <1>2 DEF Grows, Held
  <2>2. kept.refs # <<>> /\ Opened > 0
    BY <2>1, Innermost
  <2>3. p # kept'.root
    BY <1>1, <1>2, <2>2 DEF Grows, Held
  <2>4. ASSUME NEW r \in Places, Holds(kept', r, p) PROVE q = r
    <3>1. r = Top(kept.refs)
      BY <1>1, <1>2, <2>4 DEF Grows, Held
    <3>2. r # Null
      BY DEF Places, Null
    <3> QED
      BY <2>1, <2>2, <3>1, <3>2, Innermost
  <2> QED
    BY <2>3, <2>4
<1>3. CASE p # Here
  <2>1. Holds(plain, q, p)
    BY <1>3 DEF Grows
  <2>2. \A r \in Places : Holds(kept', r, p) => Holds(kept, r, p)
    BY <1>3 DEF Grows
  <2>3. kept'.root = p => kept.root = p
    BY <1>3 DEF Grows
  <2> QED
    BY <2>1, <2>2, <2>3 DEF OneParent
<1> QED
  BY <1>2, <1>3

-----------------------------------------------------------------------------
\* A value or a container that begins is placed

InArray(d)  == d.refs # <<>> /\ d.kind[Top(d.refs)] = "array"
InObject(d) == d.refs # <<>> /\ d.kind[Top(d.refs)] # "array"

\* Where a consumer is when it is given a value.
AtPlace(d) ==
  /\ ValuesOK(d) /\ d.kind \in [Places -> Kinds]
  /\ d.refs # <<>> => Top(d.refs) \in Places
  /\ InObject(d) => d.element[1] = Top(d.refs)

WasPlaced(d, e, p, k) ==
  /\ e.kind[p] = k /\ \A q \in Places : q # p => e.kind[q] = d.kind[q]
  /\ e.root = IF d.refs = <<>> THEN p ELSE d.root
  /\ \A q, x \in Places :
       Item(e, q, x) <=> Item(d, q, x) \/ (x = p /\ InArray(d) /\ q = Top(d.refs))
  /\ \A q \in Places : ~(InArray(d) /\ q = Top(d.refs)) => e.items[q] = d.items[q]
  /\ \A q \in Places : \A s \in Strings :
       e.members[q][s] = IF InObject(d) /\ q = Top(d.refs) /\ s = d.element[2]
                           THEN p ELSE d.members[q][s]

LEMMA PlacedFacts ==
  ASSUME NEW d, NEW e, NEW p \in Places, NEW k, AtPlace(d), Placed(d, e, p, k)
  PROVE  WasPlaced(d, e, p, k)
<1> USE DEF AtPlace, WasPlaced
<1>1. e.kind[p] = k /\ \A q \in Places : q # p => e.kind[q] = d.kind[q]
  BY DEF Placed
<1>2. CASE d.refs = <<>>
  BY <1>1, <1>2 DEF Placed, Item, InArray, InObject
<1>3. CASE InArray(d)
  <2> DEFINE o == Top(d.refs)
  <2>1. /\ o \in Places /\ e.root = d.root /\ e.members = d.members /\ d.refs # <<>> /\ ~InObject(d)
        /\ e.items = [d.items EXCEPT ![o] = Append(@, p)]
    BY <1>3 DEF Placed, InArray, InObject
  <2> HIDE DEF o
  <2>2. d.items[o] \in Seq(Places) /\ e.items[o] = Append(d.items[o], p)
        /\ \A q \in Places : q # o => e.items[q] = d.items[q]
    BY <2>1 DEF ValuesOK
  <2>3. \A x : Among(x, Append(d.items[o], p)) <=> x = p \/ Among(x, d.items[o])
    BY <2>2, AmongAppended
  <2>4. \A q, x \in Places : Item(e, q, x) <=> Item(d, q, x) \/ (x = p /\ q = o)
    BY <2>2, <2>3 DEF Item
  <2> QED
    BY <1>1, <1>3, <2>1, <2>2, <2>4 DEF o
<1>4. CASE InObject(d)
  <2> DEFINE o == Top(d.refs)
             t == d.element[2]
  <2>1. /\ o \in Places /\ e.root = d.root /\ e.items = d.items /\ d.refs # <<>> /\ ~InArray(d)
        /\ e.members = [d.members EXCEPT ![o] = [@ EXCEPT ![t] = p]]
    BY <1>4 DEF Placed, InArray, InObject
  <2> HIDE DEF o, t
  <2>2. \A q \in Places : \A s \in Strings : e.members[q][s] = IF q = o /\ s = t THEN p ELSE d.members[q][s]
    BY <2>1 DEF ValuesOK
  <2>3. \A q, x \in Places : Item(e, q, x) <=> Item(d, q, x)
    BY <2>1 DEF Item
  <2> QED
    BY <1>1, <1>4, <2>1, <2>2, <2>3 DEF o, t
<1> QED
  BY <1>2, <1>3, <1>4 DEF InArray, InObject

\* What Value and Begin have in common.
Placing(k, yes) ==
  /\ want \in {"value", "first_item"}
  /\ Here \in Places /\ Len(tokens') = Here
  /\ refused' = IF yes THEN refused ELSE refused \union {Here}
  /\ Placed(plain, plain', Here, k)
  /\ Taken(kept, kept', Here, k, yes)
  /\ ~MemberNext'

IsTaken(yes) == yes /\ ~Refuses(kept)

\* Both consumers are where the value belongs.  If the second does not take it, it
\* was refused, or the container around it is not there.
LEMMA PlacingFacts ==
  ASSUME IInv, Contents, Answers, Open, NEW k, NEW yes \in BOOLEAN, Placing(k, yes)
  PROVE  /\ AtPlace(plain) /\ (Opened > 0 <=> plain.refs # <<>>) /\ (Opened > 0 <=> kept.refs # <<>>)
         /\ InObject(plain) <=> MemberNext
         /\ IsTaken(yes) => /\ AtPlace(kept) /\ Placed(kept, kept', Here, k) /\ Here \notin refused'
                            /\ Opened > 0 => Top(kept.refs) = Top(plain.refs)
                            /\ InArray(kept) <=> InArray(plain)
                            /\ InObject(kept) <=> InObject(plain)
                            /\ InObject(kept) => kept.element = plain.element
         /\ ~IsTaken(yes) => /\ SameValues(kept, kept')
                             /\ Here \in refused' \/ (Opened > 0 /\ kept.kind[Top(plain.refs)] = "scalar")
<1>1. Running /\ want \in {"value", "first_item"}
  BY DEF Placing, Running
<1>2. ElementAgrees /\ plain.kind \in [Places -> Kinds] /\ kept.kind \in [Places -> Kinds]
  BY <1>1 DEF IInv, StacksAgree, PlainStacks, KeptStacks
<1>3. /\ Opened \in Nat
      /\ (plain.refs = <<>> <=> Opened = 0) /\ (kept.refs = <<>> <=> Opened = 0)
      /\ Opened > 0 =>
           /\ Top(plain.refs) = plain.refs[Opened] /\ Top(kept.refs) = kept.refs[Opened]
           /\ Top(plain.refs) \in Places
           /\ plain.kind[Top(plain.refs)] = Kind(Opened) /\ Kind(Opened) \in {"array", "object"}
           /\ Top(kept.refs) # Null => /\ Top(kept.refs) = Top(plain.refs)
                                       /\ kept.kind[Top(kept.refs)] = Kind(Opened)
  BY <1>1, Innermost
<1>4. MemberNext <=> Opened > 0 /\ Kind(Opened) = "object"
  BY <1>1, ValueNext
<1>5. InObject(plain) <=> MemberNext
  BY <1>3, <1>4 DEF InObject
<1>6. AtPlace(plain)
  BY <1>2, <1>3, <1>5 DEF AtPlace, Contents, ElementAgrees
<1>7. MemberNext => (Top(kept.keys) <=> Here \notin refused)
  BY <1>1 DEF Answers, KeyAnswered, ValuePlace, MemberNext
<1>8. Here \in refused => MemberNext
  BY DEF Answers, RefusedOK, IInv, Control, Here
<1>9. ASSUME IsTaken(yes)
      PROVE  /\ AtPlace(kept) /\ Placed(kept, kept', Here, k) /\ Here \notin refused'
             /\ Opened > 0 => Top(kept.refs) = Top(plain.refs)
             /\ InArray(kept) <=> InArray(plain)
             /\ InObject(kept) <=> InObject(plain)
             /\ InObject(kept) => kept.element = plain.element
  <2>1. Placed(kept, kept', Here, k) /\ refused' = refused
    BY <1>9 DEF Placing, Taken, IsTaken
  <2>2. Opened > 0 => /\ Top(kept.refs) # Null /\ Top(kept.refs) = Top(plain.refs)
                      /\ kept.kind[Top(kept.refs)] = Kind(Opened)
    BY <1>3, <1>9 DEF IsTaken, Refuses
  <2>3. MemberNext => Top(kept.keys)
    BY <1>3, <1>4, <1>9, <2>2 DEF IsTaken, Refuses
  <2>4. (InArray(kept) <=> InArray(plain)) /\ (InObject(kept) <=> InObject(plain))
    BY <1>3, <2>2 DEF InArray, InObject
  <2>5. InObject(kept) => kept.element = plain.element
    BY <1>2, <1>3, <1>4, <1>5, <2>2, <2>3, <2>4 DEF ElementAgrees
  <2>6. AtPlace(kept)
    BY <1>2, <1>3, <1>5, <1>6, <2>2, <2>4, <2>5 DEF AtPlace, Contents
  <2> QED
    BY <1>7, <1>8, <2>1, <2>2, <2>3, <2>4, <2>5, <2>6
<1>10. ASSUME ~IsTaken(yes)
       PROVE  /\ SameValues(kept, kept')
              /\ Here \in refused' \/ (Opened > 0 /\ kept.kind[Top(plain.refs)] = "scalar")
  <2>1. SameValues(kept, kept')
    BY <1>10 DEF Placing, Taken, IsTaken
  <2>2. CASE ~yes
    BY <2>1, <2>2 DEF Placing
  <2>3. CASE yes /\ Refuses(kept) /\ Top(kept.refs) = Null
    <3>1. Opened > 0 /\ kept.refs[Opened] = Null /\ Opened \in 1 .. Opened
      BY <1>3, <2>3 DEF Refuses
    <3> QED
      BY <1>3, <2>1, <3>1 DEF Open, NullsUnmade
  <2>4. CASE yes /\ Refuses(kept) /\ Top(kept.refs) # Null
    BY <1>3, <1>4, <1>7, <2>1, <2>4 DEF Refuses, Placing
  <2> QED
    BY <1>10, <2>2, <2>3, <2>4 DEF IsTaken
<1> QED
  BY <1>3, <1>5, <1>6, <1>9, <1>10

LEMMA PlacingContents ==
  ASSUME IInv, Contents, Answers, Open, NEW k \in {"scalar", "array", "object"}, NEW yes \in BOOLEAN,
         Placing(k, yes)
  PROVE  Contents'
<1>1. /\ AtPlace(plain) /\ (Opened > 0 <=> plain.refs # <<>>) /\ (Opened > 0 <=> kept.refs # <<>>)
      /\ InObject(plain) <=> MemberNext
      /\ IsTaken(yes) => /\ AtPlace(kept) /\ Placed(kept, kept', Here, k) /\ Here \notin refused'
                         /\ Opened > 0 => Top(kept.refs) = Top(plain.refs)
                         /\ InArray(kept) <=> InArray(plain)
                         /\ InObject(kept) <=> InObject(plain)
                         /\ InObject(kept) => kept.element = plain.element
      /\ ~IsTaken(yes) => /\ SameValues(kept, kept')
                          /\ Here \in refused' \/ (Opened > 0 /\ kept.kind[Top(plain.refs)] = "scalar")
  BY PlacingFacts
<1>2. /\ Here \in Places /\ Len(tokens') = Here /\ Placed(plain, plain', Here, k) /\ ~MemberNext'
      /\ refused \subseteq refused' /\ refused' \subseteq refused \union {Here}
      /\ Running
  BY DEF Placing, Running
<1>3. WasPlaced(plain, plain', Here, k)
  BY <1>1, <1>2, PlacedFacts, Zenon
<1>4. IsTaken(yes) => WasPlaced(kept, kept', Here, k)
  BY <1>1, <1>2, PlacedFacts, Zenon
<1> USE DEF WasPlaced
<1>5. ValuesOK(plain') /\ Grows(plain, plain', Here)
  BY <1>1, <1>2, PlacedGrows DEF AtPlace, InObject
<1>6. ValuesOK(kept') /\ Grows(kept, kept', Here)
  <2>1. CASE IsTaken(yes)
    BY <1>1, <1>2, <2>1, PlacedGrows DEF AtPlace, InObject
  <2>2. CASE ~IsTaken(yes)
    BY <1>1, <2>2, SameGrows DEF SameValues, Contents
  <2> QED
    BY <2>1, <2>2
<1>7. /\ ~Held(plain, Here) /\ ~Held(kept, Here)
      /\ plain.kind[Here] = "scalar" /\ kept.kind[Here] = "scalar"
  BY <1>2 DEF Contents, Fresh, Here, IInv, Control
<1>8. \A q \in Places : q # Here => kept'.kind[q] = kept.kind[q]
  BY <1>1, <1>4 DEF SameValues
<1>9. Fresh'
  <2>1. tokens \in Seq(Tokens)
    BY DEF IInv, Control
  <2>2. \A p \in Places : p > Here => plain'.kind[p] = plain.kind[p] /\ kept'.kind[p] = kept.kind[p]
    BY <1>2, <1>3, <1>8 DEF Places
  <2> QED
    BY <1>2, <1>5, <1>6, <2>1, <2>2, FreshKept DEF Contents
<1>10. OneParent'
  BY <1>2, <1>5, <1>6, OneParentKept DEF Contents
<1>11. Opened > 0 => Top(plain.refs) # Here /\ plain.kind[Top(plain.refs)] \in {"array", "object"}
  <2>1. Opened > 0 => Top(plain.refs) <= Len(tokens) /\ plain.kind[Top(plain.refs)] \in {"array", "object"}
    BY <1>2, Innermost
  <2> QED
    BY <1>2, <2>1 DEF Here, IInv, Control
<1>12. plain'.items[Here] = <<>> /\ \A s \in Strings : plain'.members[Here][s] = Absent
  <2>1. plain.items[Here] = <<>> /\ \A s \in Strings : plain.members[Here][s] = Absent
    BY <1>2, <1>7 DEF Contents, ScalarsEmpty
  <2>2. ~(InArray(plain) /\ Here = Top(plain.refs)) /\ ~(InObject(plain) /\ Here = Top(plain.refs))
    BY <1>1, <1>11 DEF InArray, InObject
  <2>3. plain'.items[Here] = plain.items[Here]
    BY <1>2, <1>3, <2>2
  <2>4. \A s \in Strings : plain'.members[Here][s] = plain.members[Here][s]
    BY <1>2, <1>3, <2>2
  <2> QED
    BY <2>1, <2>3, <2>4
<1>13. ScalarsEmpty'
  <2> SUFFICES ASSUME NEW p \in Places, plain'.kind[p] = "scalar"
               PROVE  plain'.items[p] = <<>> /\ \A s \in Strings : plain'.members[p][s] = Absent
    BY Zenon DEF ScalarsEmpty
  <2>1. CASE p = Here
    BY <1>12, <2>1
  <2>2. CASE p # Here
    <3>1. plain.kind[p] = "scalar" /\ (Opened > 0 => p # Top(plain.refs))
      BY <1>3, <1>11, <2>2
    <3>2. plain.items[p] = <<>> /\ \A s \in Strings : plain.members[p][s] = Absent
      BY <3>1 DEF Contents, ScalarsEmpty
    <3> QED
      BY <1>1, <1>3, <3>1, <3>2 DEF InArray, InObject
  <2> QED
    BY <2>1, <2>2
<1>14. Sound'
  <2> SUFFICES ASSUME NEW p \in Places
               PROVE  /\ plain'.kind[p] # "discarded"
                      /\ kept'.kind[p] = "discarded" => p \in refused'
                      /\ Held(kept', p) => /\ p \in refused' => kept'.kind[p] = "discarded"
                                           /\ kept'.kind[p] \in {plain'.kind[p], "discarded"}
    BY Zenon DEF Sound
  <2>1. CASE p = Here
    <3>1. kept'.kind[Here] \in {k, "scalar"}
      BY <1>1, <1>4, <1>7 DEF SameValues
    <3>2. Held(kept', Here) => IsTaken(yes)
      BY <1>1, <1>7 DEF SameValues, Held, Holds
    <3> QED
      BY <1>1, <1>3, <1>4, <2>1, <3>1, <3>2
  <2>2. CASE p # Here
    <3>1. Held(kept', p) => Held(kept, p)
      BY <1>6, <2>2, HeldBefore
    <3> QED
      BY <1>2, <1>3, <1>8, <2>2, <3>1 DEF Contents, Sound
  <2> QED
    BY <2>1, <2>2
<1>15. RootKept'
  <2> SUFFICES ASSUME plain'.root \in Places \ refused' PROVE kept'.root = plain'.root
    BY Zenon DEF RootKept
  <2>1. CASE plain.refs = <<>>
    BY <1>1, <1>3, <1>4, <2>1
  <2>2. CASE plain.refs # <<>>
    <3>1. plain'.root = plain.root /\ kept'.root = kept.root
      BY <1>1, <1>3, <1>4, <2>2 DEF SameValues
    <3> QED
      BY <1>2, <3>1 DEF Contents, RootKept
  <2> QED
    BY <2>1, <2>2
<1>16. ItemsKept'
  <2> SUFFICES ASSUME NEW q \in Places, NEW x \in Places,
                      kept'.kind[q] # "scalar", Item(plain', q, x), x \notin refused'
               PROVE  Item(kept', q, x)
    BY Zenon DEF ItemsKept
  <2>1. q # Here
    BY <1>12 DEF Item, Among
  <2>2. kept.kind[q] # "scalar"
    BY <1>8, <2>1
  <2>3. CASE Item(plain, q, x)
    <3>1. Item(kept, q, x)
      BY <1>2, <2>2, <2>3 DEF Contents, ItemsKept
    <3> QED
      BY <1>1, <1>4, <3>1 DEF SameValues, Item
  <2>4. CASE x = Here /\ InArray(plain) /\ q = Top(plain.refs)
    BY <1>1, <1>4, <2>2, <2>4 DEF InArray
  <2> QED
    BY <1>3, <2>3, <2>4
<1>17. MembersKept'
  <2> SUFFICES ASSUME NEW q \in Places, NEW s \in Strings,
                      kept'.kind[q] # "scalar", plain'.members[q][s] \in Places \ refused'
               PROVE  kept'.members[q][s] = plain'.members[q][s]
    BY Zenon DEF MembersKept
  <2>1. q # Here
    BY <1>12, LengthAssumption DEF Places, Absent
  <2>2. kept.kind[q] # "scalar"
    BY <1>8, <2>1
  <2>3. CASE InObject(plain) /\ q = Top(plain.refs) /\ s = plain.element[2]
    <3>1. plain'.members[q][s] = Here
      BY <1>3, <2>3
    <3>2. IsTaken(yes)
      BY <1>1, <2>2, <2>3, <3>1
    <3> QED
      BY <1>1, <1>4, <2>3, <3>1, <3>2 DEF InObject
  <2>4. CASE ~(InObject(plain) /\ q = Top(plain.refs) /\ s = plain.element[2])
    <3>1. plain'.members[q][s] = plain.members[q][s]
      BY <1>3, <2>4
    <3>2. ~Building(q, s)
      BY <1>1, <2>4 DEF Building, AtPlace
    <3>3. kept.members[q][s] = plain.members[q][s]
      BY <1>2, <2>2, <3>1, <3>2 DEF Contents, MembersKept
    <3>4. kept'.members[q][s] = kept.members[q][s]
      BY <1>1, <1>4, <2>4 DEF SameValues, InObject
    <3> QED
      BY <3>1, <3>3, <3>4
  <2> QED
    BY <2>3, <2>4
<1> QED
  BY <1>5, <1>6, <1>9, <1>10, <1>13, <1>14, <1>15, <1>16, <1>17 DEF Contents

LEMMA PlacingAnswers ==
  ASSUME IInv, Answers, NEW k, NEW yes \in BOOLEAN, Placing(k, yes)
  PROVE  Answers'
<1>1. /\ want \in {"value", "first_item"} /\ Here \in Places /\ Len(tokens') = Here /\ ~MemberNext'
      /\ refused' \subseteq refused \union {Here}
  BY DEF Placing
<1>2. Here \in Nat \ {0} /\ Len(tokens) \in Nat /\ Here = Len(tokens) + 1
  BY DEF Here, IInv, Control
<1>3. MemberNext => ValuePlace = Here
  BY <1>1 DEF MemberNext, ValuePlace
<1>4. \A p \in refused : p \in 1 .. Len(tokens) \/ p = Here
  BY <1>3 DEF Answers, RefusedOK
<1>5. \A p \in refused' : p \in 1 .. Len(tokens')
  <2> SUFFICES ASSUME NEW p \in refused' PROVE p \in 1 .. Here
    BY <1>1
  <2>1. p \in 1 .. Len(tokens) \/ p = Here
    BY <1>1, <1>4
  <2> QED
    BY <1>2, <2>1
<1> QED
  BY <1>1, <1>5 DEF Answers, RefusedOK, KeyAnswered

\* The other containers that are open have the items they had.
LEMMA PlacingOpen ==
  ASSUME IInv, Contents, Answers, Open, NEW k, NEW yes \in BOOLEAN, Placing(k, yes)
  PROVE  \A i \in 1 .. Opened :
           /\ kept'.kind[plain.refs[i]] = kept.kind[plain.refs[i]]
           /\ i < Opened /\ kept.refs[i + 1] # Null => /\ kept.refs[i] = plain.refs[i]
                                                       /\ kept'.items[kept.refs[i]] = kept.items[kept.refs[i]]
<1>1. Running /\ Here \in Places
  BY DEF Placing, Running
<1>2. /\ Opened \in Nat
      /\ \A i \in 1 .. Opened : /\ plain.refs[i] \in Places /\ plain.refs[i] <= Len(tokens)
                                /\ kept.refs[i] \in {Null, plain.refs[i]}
      /\ \A i, j \in 1 .. Opened : i # j => plain.refs[i] # plain.refs[j]
      /\ Opened > 0 => /\ Top(plain.refs) = plain.refs[Opened]
                       /\ Top(plain.refs) \in Places
  BY <1>1, Innermost
<1>3. NullsNested
  BY <1>1 DEF IInv, StacksAgree
<1>4. IsTaken(yes) => /\ WasPlaced(kept, kept', Here, k)
                      /\ Opened > 0 => Top(kept.refs) = Top(plain.refs)
                      /\ kept.refs = <<>> <=> Opened = 0
  <2>1. IsTaken(yes) => /\ AtPlace(kept) /\ Placed(kept, kept', Here, k)
                        /\ Opened > 0 => Top(kept.refs) = Top(plain.refs)
                        /\ kept.refs = <<>> <=> Opened = 0
    BY <1>2, PlacingFacts
  <2> QED
    BY <1>1, <2>1, PlacedFacts, Zenon
<1>5. ~IsTaken(yes) => kept'.kind = kept.kind /\ kept'.items = kept.items
  BY PlacingFacts DEF SameValues
<1> SUFFICES ASSUME NEW i \in 1 .. Opened
             PROVE  /\ kept'.kind[plain.refs[i]] = kept.kind[plain.refs[i]]
                    /\ i < Opened /\ kept.refs[i + 1] # Null =>
                         kept.refs[i] = plain.refs[i] /\ kept'.items[kept.refs[i]] = kept.items[kept.refs[i]]
  OBVIOUS
<1>6. plain.refs[i] # Here /\ plain.refs[i] \in Places
  BY <1>2 DEF Here, IInv, Control, Places
<1>7. kept'.kind[plain.refs[i]] = kept.kind[plain.refs[i]]
  BY <1>4, <1>5, <1>6 DEF WasPlaced
<1>8. ASSUME i < Opened, kept.refs[i + 1] # Null
      PROVE  kept.refs[i] = plain.refs[i] /\ kept'.items[kept.refs[i]] = kept.items[kept.refs[i]]
  <2>1. i + 1 \in 1 .. Opened /\ i < i + 1
    BY <1>2, <1>8
  <2>2. kept.refs[i] # Null
    BY <1>3, <1>8, <2>1 DEF NullsNested
  <2>3. kept.refs[i] = plain.refs[i]
    BY <1>2, <2>2
  <2>4. plain.refs[i] # plain.refs[Opened] /\ Opened \in 1 .. Opened /\ Opened > 0
    BY <1>2, <1>8
  <2>5. IsTaken(yes) => plain.refs[i] # Top(kept.refs)
    BY <1>2, <1>4, <2>4
  <2>6. kept'.items[plain.refs[i]] = kept.items[plain.refs[i]]
    BY <1>4, <1>5, <1>6, <2>5 DEF WasPlaced
  <2> QED
    BY <2>3, <2>6
<1> QED
  BY <1>7, <1>8

LEMMA OpenedAfterValue ==
  ASSUME Control, want \in {"value", "first_item"},
         states' = IF want = "first_item" THEN Append(states, "array") ELSE states,
         want' = After(states')
  PROVE  ~MemberNext' /\ (Running' => Opened' = Opened /\ \A i \in 1 .. Opened : Kind(i)' = Kind(i))
<1>1. /\ states' \in Seq({"array", "object"}) /\ Len(states') = Opened
      /\ \A i \in 1 .. Opened : states'[i] = Kind(i)
  BY OpenedStates
<1>2. want' \in {"separator", "end", "accepted"}
  BY DEF After
<1>3. ~MemberNext'
  BY <1>2 DEF MemberNext
<1>4. Opened' = Len(states')
  BY <1>2 DEF Opened
<1>5. \A i \in 1 .. Opened : Kind(i)' = states'[i]
  BY <1>1 DEF Kind
<1> QED
  BY <1>1, <1>3, <1>4, <1>5

LEMMA ValueKeeps ==
  ASSUME IInv, KInv, NEW t \in Strings \union Scalars, Value(t)
  PROVE  KInv'
<1> PICK yes \in BOOLEAN :
      /\ want \in {"value", "first_item"}
      /\ Top(kept.keep) \/ yes
      /\ Read(t)
      /\ states' = IF want = "first_item" THEN Append(states, "array") ELSE states
      /\ want' = After(states')
      /\ plain' = Handled(plain, Here, "scalar")
      /\ kept' = HandledIf(kept, Here, "scalar", yes)
      /\ Refuse(Here, yes)
  BY Zenon DEF Value
<1>1. Running /\ Contents /\ Answers /\ Open
  BY DEF KInv, Running
<1>2. t \in Tokens /\ Control /\ Shape(plain) /\ Shape(kept)
  BY DEF Tokens, IInv, PlainStacks, KeptStacks
<1>3. /\ Here \in Places /\ Len(tokens') = Here
      /\ ~MemberNext' /\ (Running' => Opened' = Opened /\ \A i \in 1 .. Opened : Kind(i)' = Kind(i))
  BY <1>2, ReadFacts, OpenedAfterValue
<1>4. Placed(plain, plain', Here, "scalar")
  BY <1>2, HandledPlaces, Zenon
<1>5. Taken(kept, kept', Here, "scalar", Top(kept.keep) /\ yes)
  BY <1>2, HandledIfTakes, Zenon
<1>6. Opened \in Nat /\ (kept.refs = <<>> <=> Opened = 0) /\ Top(kept.keep) = kept.keep[Opened + 1]
      /\ (Opened > 0 => Top(kept.refs) = kept.refs[Opened])
  BY <1>1, Innermost
<1>7. ~Top(kept.keep) => Refuses(kept)
  BY <1>1, <1>6 DEF Refuses, Open, NullsUnmade
<1>8. Taken(kept, kept', Here, "scalar", yes)
  BY <1>5, <1>7 DEF Taken
<1>9. Placing("scalar", yes)
  BY <1>3, <1>4, <1>8 DEF Placing, Refuse
<1>10. Contents' /\ Answers'
  BY <1>1, <1>9, PlacingContents, PlacingAnswers
<1>11. /\ plain'.refs = plain.refs /\ kept'.refs = kept.refs /\ kept'.keep = kept.keep
  <2>1. WasHandled(plain, Here, "scalar", plain') /\ WasHandledIf(kept, Here, "scalar", kept')
    BY <1>2, HandledFacts, HandledIfFacts, Zenon
  <2> QED
    BY <2>1 DEF WasHandled, WasHandledIf, SameStacks
<1>12. \A i \in 1 .. Opened :
         /\ kept'.kind[plain.refs[i]] = kept.kind[plain.refs[i]]
         /\ i < Opened /\ kept.refs[i + 1] # Null => /\ kept.refs[i] = plain.refs[i]
                                                     /\ kept'.items[kept.refs[i]] = kept.items[kept.refs[i]]
  BY <1>1, <1>9, PlacingOpen
<1>13. ASSUME Running' PROVE Open'
  <2>1. NullsUnmade'
    BY <1>1, <1>3, <1>11, <1>12, <1>13 DEF Open, NullsUnmade
  <2>2. LastItem'
    BY <1>1, <1>3, <1>6, <1>11, <1>12, <1>13 DEF Open, LastItem
  <2> QED
    BY <1>1, <1>11, <2>1, <2>2 DEF Open
<1> QED
  BY <1>10, <1>13 DEF KInv

LEMMA OpenedAfterBegin ==
  ASSUME Control, want \in {"value", "first_item"},
         states' = IF want = "first_item" THEN Append(states, "array") ELSE states,
         want' \in {"first_item", "first_key"}
  PROVE  /\ ~MemberNext' /\ Opened' = Opened + 1
         /\ \A i \in 1 .. Opened : Kind(i)' = Kind(i)
<1>1. /\ states' \in Seq({"array", "object"}) /\ Len(states') = Opened
      /\ \A i \in 1 .. Opened : states'[i] = Kind(i)
  BY OpenedStates
<1> DEFINE n == Opened
<1>2. n \in Nat /\ Len(states') = n
  BY <1>1
<1> HIDE DEF n
<1>3. Opened' = n + 1 /\ ~MemberNext'
  BY <1>2 DEF Opened, MemberNext
<1>4. \A i \in 1 .. n : Kind(i)' = states'[i]
  BY <1>2 DEF Kind
<1> QED
  BY <1>1, <1>3, <1>4 DEF n

LEMMA BeginKeeps ==
  ASSUME IInv, KInv, NEW t \in Tokens, NEW kind, NEW next,
         \/ kind = "array" /\ next = "first_item"
         \/ kind = "object" /\ next = "first_key",
         Begin(t, kind, next)
  PROVE  KInv'
<1> PICK yes \in BOOLEAN :
      /\ want \in {"value", "first_item"}
      /\ Read(t)
      /\ states' = IF want = "first_item" THEN Append(states, "array") ELSE states
      /\ want' = next
      /\ plain' = Started(plain, Here, kind)
      /\ kept' = StartedIf(kept, Here, kind, yes)
      /\ Refuse(Here, yes)
  BY Zenon DEF Begin
<1>1. Running /\ Contents /\ Answers /\ Open
  BY DEF KInv, Running
<1>2. /\ Control /\ Shape(plain) /\ Shape(kept) /\ kept.keep \in Seq(BOOLEAN)
      /\ plain.refs \in Seq(Places) /\ kept.refs \in Seq(Places \union {Null})
  BY DEF IInv, PlainStacks, KeptStacks
<1>3. /\ Here \in Places /\ Here # Null /\ Len(tokens') = Here
      /\ ~MemberNext' /\ Opened' = Opened + 1
      /\ \A i \in 1 .. Opened : Kind(i)' = Kind(i)
  BY <1>2, ReadFacts, OpenedAfterBegin
<1>4. Placed(plain, plain', Here, kind)
  BY <1>2, StartedPlaces, Zenon
<1>5. Taken(kept, kept', Here, kind, yes) /\ kept'.refs = Append(kept.refs, IF IsTaken(yes) THEN Here ELSE Null)
  BY <1>2, StartedIfTakes, Zenon DEF IsTaken
<1>6. Placing(kind, yes)
  BY <1>3, <1>4, <1>5 DEF Placing, Refuse
<1>7. kind \in {"scalar", "array", "object"}
  OBVIOUS
<1>8. Contents' /\ Answers'
  BY <1>1, <1>6, <1>7, PlacingContents, PlacingAnswers
<1>9. \A i \in 1 .. Opened :
        /\ kept'.kind[plain.refs[i]] = kept.kind[plain.refs[i]]
        /\ i < Opened /\ kept.refs[i + 1] # Null => /\ kept.refs[i] = plain.refs[i]
                                                    /\ kept'.items[kept.refs[i]] = kept.items[kept.refs[i]]
  BY <1>1, <1>6, PlacingOpen
<1>10. /\ Opened \in Nat /\ Len(plain.refs) = Opened /\ Len(kept.refs) = Opened /\ Len(kept.keep) = Opened + 1
       /\ Opened > 0 => /\ Top(kept.refs) = kept.refs[Opened]
                        /\ Top(kept.refs) # Null => kept.kind[Top(kept.refs)] = Kind(Opened)
  BY <1>1, Innermost
<1> DEFINE n    == Opened
           made == IF IsTaken(yes) THEN Here ELSE Null
<1>11. plain'.refs[n + 1] = Here /\ \A i \in 1 .. n : plain'.refs[i] = plain.refs[i]
  <2>1. WasStarted(plain, Here, kind, plain')
    BY <1>2, StartedFacts, Zenon
  <2>2. plain'.refs = Append(plain.refs, Here)
    BY <2>1 DEF WasStarted
  <2> QED
    BY <1>2, <1>3, <1>10, <2>2, Stacks
<1>12. kept'.refs[n + 1] = made /\ \A i \in 1 .. n : kept'.refs[i] = kept.refs[i]
  <2>1. made \in Places \union {Null} /\ kept'.refs = Append(kept.refs, made)
    BY <1>3, <1>5
  <2> HIDE DEF made
  <2> QED
    BY <1>2, <1>10, <2>1, Stacks
<1>13. kept'.keep[n + 2] = yes /\ \A i \in 1 .. n + 1 : kept'.keep[i] = kept.keep[i]
  <2>1. WasStartedIf(kept, Here, kind, yes, kept')
    BY <1>2, StartedIfFacts, Zenon
  <2>2. kept'.keep = Append(kept.keep, yes)
    BY <2>1 DEF WasStartedIf
  <2>3. kept'.keep[Len(kept.keep) + 1] = yes /\ \A i \in 1 .. Len(kept.keep) : kept'.keep[i] = kept.keep[i]
    BY <1>2, <2>2, Stacks
  <2> QED
    BY <1>10, <2>3
<1> HIDE DEF n, made
<1>14. n \in Nat /\ Opened = n /\ Opened' = n + 1
  BY <1>3, <1>10 DEF n
<1>15. made = Null => ~IsTaken(yes) /\ kept'.kind[Here] = "scalar"
  <2>1. ~IsTaken(yes) => kept'.kind = kept.kind
    BY <1>1, <1>6, PlacingFacts DEF SameValues
  <2>2. kept.kind[Here] = "scalar"
    BY <1>1, <1>2, <1>3 DEF Contents, Fresh, Here, Control
  <2> QED
    BY <1>3, <2>1, <2>2 DEF made
<1>16. NullsUnmade'
  <2> SUFFICES ASSUME NEW i \in 1 .. n + 1
               PROVE  /\ kept'.refs[i] = Null => kept'.kind[plain'.refs[i]] = "scalar"
                      /\ ~kept'.keep[i + 1] => kept'.refs[i] = Null
    BY <1>14 DEF NullsUnmade
  <2>1. CASE i = n + 1
    BY <1>11, <1>12, <1>13, <1>14, <1>15, <2>1 DEF made, IsTaken
  <2>2. CASE i # n + 1
    <3>1. i \in 1 .. n /\ i + 1 \in 1 .. n + 1
      BY <1>14, <2>2
    <3>2. /\ kept.refs[i] = Null => kept.kind[plain.refs[i]] = "scalar"
          /\ ~kept.keep[i + 1] => kept.refs[i] = Null
      BY <1>1, <1>14, <3>1 DEF Open, NullsUnmade
    <3>3. kept'.kind[plain.refs[i]] = kept.kind[plain.refs[i]]
      BY <1>9, <1>14, <3>1
    <3>4. plain'.refs[i] = plain.refs[i] /\ kept'.refs[i] = kept.refs[i] /\ kept'.keep[i + 1] = kept.keep[i + 1]
      BY <1>11, <1>12, <1>13, <3>1
    <3> QED
      BY <3>2, <3>3, <3>4
  <2> QED
    BY <2>1, <2>2
<1>17. LastItem'
  <2> SUFFICES ASSUME NEW i \in 1 .. n, kept'.refs[i + 1] # Null, Kind(i)' = "array"
               PROVE  kept'.items[kept'.refs[i]] # <<>> /\ Top(kept'.items[kept'.refs[i]]) = kept'.refs[i + 1]
    BY <1>14 DEF LastItem
  <2>1. CASE i < n
    <3>1. i \in 1 .. n - 1 /\ i + 1 \in 1 .. n
      BY <1>14, <2>1
    <3> QED
      BY <1>1, <1>3, <1>9, <1>12, <1>14, <2>1, <3>1 DEF Open, LastItem
  <2>2. CASE i = n
    <3>1. IsTaken(yes) /\ made = Here
      BY <1>12, <2>2 DEF made
    <3>2. Placed(kept, kept', Here, kind) /\ AtPlace(kept)
      BY <1>1, <1>6, <3>1, PlacingFacts
    <3>3. kept.refs # <<>> /\ Top(kept.refs) = kept.refs[n] /\ Top(kept.refs) # Null
      BY <1>2, <1>10, <1>14, <2>2, <3>1 DEF IsTaken, Refuses
    <3>4. kept.kind[Top(kept.refs)] = "array" /\ Top(kept.refs) \in Places
      BY <1>3, <1>10, <1>14, <2>2, <3>2, <3>3 DEF AtPlace
    <3> DEFINE o == Top(kept.refs)
    <3>5. kept'.items = [kept.items EXCEPT ![o] = Append(@, Here)] /\ kept.items[o] \in Seq(Places) /\ o \in Places
      BY <3>2, <3>3, <3>4 DEF Placed, AtPlace, ValuesOK
    <3> HIDE DEF o
    <3>6. kept'.items[o] = Append(kept.items[o], Here)
      BY <3>2, <3>5 DEF AtPlace, ValuesOK
    <3>7. Len(kept'.items[o]) > 0 /\ Top(kept'.items[o]) = Here
      <4>1. Len(Append(kept.items[o], Here)) = Len(kept.items[o]) + 1 /\ Top(Append(kept.items[o], Here)) = Here
        BY <1>3, <3>5, AppendedLast
      <4>2. Len(kept.items[o]) \in Nat
        BY <3>5
      <4> QED
        BY <3>6, <4>1, <4>2
    <3> QED
      BY <1>12, <1>14, <2>2, <3>1, <3>3, <3>7 DEF o
  <2> QED
    BY <1>14, <2>1, <2>2
<1>18. Open'
  <2>1. kept'.keep[1]
    BY <1>1, <1>13, <1>14 DEF Open
  <2> QED
    BY <1>16, <1>17, <2>1 DEF Open
<1> QED
  BY <1>8, <1>18 DEF KInv

-----------------------------------------------------------------------------
\* A container ends

\* What EndArray and EndObject have in common.  The container around the one that
\* ends may drop its last item, or erase a member that is discarded.
Ending(yes) ==
  /\ want \in {"first_item", "first_key", "separator"}
  /\ Here \in Places /\ Len(tokens') = Here
  /\ Top(kept.refs) # Null \/ yes
  /\ states' = Inner /\ want' = After(Inner)
  /\ refused' = IF yes THEN refused ELSE refused \union {Top(plain.refs)}
  /\ SameValues(plain, plain') /\ plain'.refs = Rest(plain.refs)
  /\ kept'.refs = Rest(kept.refs) /\ kept'.keep = Rest(kept.keep)
  /\ EndedKind(kept, kept', yes) /\ kept'.root = kept.root
  /\ LET o == Top(Rest(kept.refs))
         Around == Rest(kept.refs) # <<>> /\ o # Null
     IN  \/ kept'.items = kept.items /\ kept'.members = kept.members
         \/ /\ Top(kept.refs) # Null /\ ~yes /\ Around /\ kept'.kind[o] = "array"
            /\ kept'.items = [kept.items EXCEPT ![o] = Rest(@)]
            /\ kept'.members = kept.members
         \/ /\ Around /\ kept'.items = kept.items
            /\ \E s \in Strings : /\ Discarded(kept', kept.members[o][s])
                                  /\ kept'.members = [kept.members EXCEPT ![o] = [@ EXCEPT ![s] = Absent]]

\* The rest of a stack, as a name of its own.
IsRest(r, s, S) == r \in Seq(S) /\ Len(r) = Len(s) - 1 /\ \A i \in 1 .. Len(s) - 1 : r[i] = s[i]

LEMMA RestFacts ==
  ASSUME NEW S, NEW s \in Seq(S), s # <<>>, NEW r, r = Rest(s)
  PROVE  IsRest(r, s, S)
BY Stacks DEF IsRest

\* The containers that stay open.
LEMMA EndingOpened ==
  ASSUME IInv, NEW yes \in BOOLEAN, Ending(yes)
  PROVE  /\ Running /\ ~MemberNext /\ ~MemberNext' /\ Opened \in Nat \ {0}
         /\ Running' => Opened' = Opened - 1
         /\ \A i \in 1 .. Opened - 1 : /\ Running' => Kind(i)' = Kind(i)
                                       /\ plain'.refs[i] = plain.refs[i] /\ kept'.refs[i] = kept.refs[i]
         /\ \A i \in 1 .. Opened : kept'.keep[i] = kept.keep[i]
         /\ Rest(kept.refs) # <<>> => Opened - 1 \in 1 .. Opened /\ Top(Rest(kept.refs)) = kept.refs[Opened - 1]
<1>1. Running /\ ~MemberNext /\ want \in {"first_item", "first_key", "separator"} /\ states' = Inner /\ want' = After(Inner)
  BY DEF Ending, Running, MemberNext
<1>2. states \in Seq({"array", "object"}) /\ Len(states) \in Nat /\ (want = "separator" => states # <<>>)
  BY DEF IInv, Control
<1>3. /\ Opened \in Nat \ {0} /\ Len(states') = Opened - 1
      /\ \A i \in 1 .. Opened - 1 : states'[i] = Kind(i)
  <2>1. CASE want = "separator"
    BY <1>1, <1>2, <2>1, Stacks DEF Inner, Opened, Kind
  <2>2. CASE want # "separator"
    BY <1>1, <1>2, <2>2 DEF Inner, Opened, Kind
  <2> QED
    BY <2>1, <2>2
<1> DEFINE n == Opened
<1>4. n \in Nat \ {0} /\ Len(states') = n - 1 /\ \A i \in 1 .. n - 1 : states'[i] = Kind(i)
  BY <1>3
<1>5. /\ Len(plain.refs) = n /\ Len(kept.refs) = n /\ Len(kept.keep) = n + 1
      /\ plain.refs # <<>> /\ kept.refs # <<>> /\ kept.keep # <<>>
      /\ plain.refs \in Seq(Places) /\ kept.refs \in Seq(Places \union {Null}) /\ kept.keep \in Seq(BOOLEAN)
  <2>1. /\ Len(plain.refs) = n /\ Len(kept.refs) = n /\ Len(kept.keep) = n + 1
    BY <1>1, Innermost
  <2>2. plain.refs \in Seq(Places) /\ kept.refs \in Seq(Places \union {Null}) /\ kept.keep \in Seq(BOOLEAN)
    BY DEF IInv, PlainStacks, KeptStacks
  <2> HIDE DEF n
  <2> QED
    BY <1>4, <2>1, <2>2
<1> HIDE DEF n
<1>6. want' \in {"separator", "end", "accepted"} /\ ~MemberNext'
  BY <1>1 DEF After, MemberNext
<1>7. Opened' = n - 1
  BY <1>4, <1>6 DEF Opened
<1>8. \A i \in 1 .. n - 1 : Kind(i)' = Kind(i)
  BY <1>4 DEF Kind
<1>9. \A i \in 1 .. n - 1 : plain'.refs[i] = plain.refs[i] /\ kept'.refs[i] = kept.refs[i]
  <2>1. plain'.refs = Rest(plain.refs) /\ kept'.refs = Rest(kept.refs)
    BY DEF Ending
  <2>2. IsRest(plain'.refs, plain.refs, Places)
    BY <1>5, <2>1, RestFacts, Zenon
  <2>3. IsRest(kept'.refs, kept.refs, Places \union {Null})
    BY <1>5, <2>1, RestFacts, Zenon
  <2> QED
    BY <1>5, <2>2, <2>3 DEF IsRest
<1>10. \A i \in 1 .. n : kept'.keep[i] = kept.keep[i]
  <2>1. kept'.keep = Rest(kept.keep)
    BY DEF Ending
  <2>2. IsRest(kept'.keep, kept.keep, BOOLEAN)
    BY <1>5, <2>1, RestFacts, Zenon
  <2> QED
    BY <1>4, <1>5, <2>2 DEF IsRest
<1>11. Rest(kept.refs) # <<>> => n - 1 \in 1 .. n /\ Top(Rest(kept.refs)) = kept.refs[n - 1]
  <2> DEFINE r == Rest(kept.refs)
  <2>1. r = Rest(kept.refs)
    OBVIOUS
  <2> HIDE DEF r
  <2>2. r \in Seq(Places \union {Null}) /\ Len(r) = n - 1 /\ \A i \in 1 .. n - 1 : r[i] = kept.refs[i]
    <3>1. IsRest(r, kept.refs, Places \union {Null})
      BY <1>5, <2>1, RestFacts, Zenon
    <3> QED
      BY <1>5, <3>1 DEF IsRest
  <2>3. r # <<>> => n - 1 \in 1 .. n - 1
    BY <1>4, <2>2
  <2> QED
    BY <1>4, <2>2, <2>3 DEF Top, r
<1> QED
  BY <1>1, <1>4, <1>6, <1>7, <1>8, <1>9, <1>10, <1>11 DEF n

\* What the end of a container leaves of the document: no value goes but one that
\* is refused.
LEMMA EndingFacts ==
  ASSUME IInv, Contents, Answers, Open, NEW yes \in BOOLEAN, Ending(yes)
  PROVE  /\ Top(plain.refs) \in Places /\ Top(plain.refs) <= Len(tokens)
         /\ Top(plain.refs) = plain.refs[Opened]
         /\ ~yes => kept.kind[Top(plain.refs)] # "scalar"
         /\ \A q \in Places : kept'.kind[q] = IF q = Top(plain.refs) /\ ~yes THEN "discarded" ELSE kept.kind[q]
         /\ ValuesOK(kept') /\ Grows(kept, kept', Null) /\ Grows(kept, kept', Here)
         /\ \A q, x \in Places : Item(kept, q, x) /\ x \notin refused' => Item(kept', q, x)
         /\ \A q \in Places : \A s \in Strings :
              kept.members[q][s] \in Places \ refused' => kept'.members[q][s] = kept.members[q][s]
         /\ \A q \in Places :
              (Opened > 1 => q # plain.refs[Opened - 1]) => kept'.items[q] = kept.items[q]
<1>1. /\ Running /\ Opened \in Nat \ {0}
      /\ Rest(kept.refs) # <<>> => Opened - 1 \in 1 .. Opened /\ Top(Rest(kept.refs)) = kept.refs[Opened - 1]
  BY EndingOpened
<1> PICK n \in Nat \ {0} : n = Opened
  BY <1>1
<1> DEFINE c == Top(plain.refs)
<1>2. /\ \A i \in 1 .. n : plain.refs[i] \in Places /\ kept.refs[i] \in {Null, plain.refs[i]}
      /\ \A i, j \in 1 .. n : i # j => plain.refs[i] # plain.refs[j]
      /\ c = plain.refs[n] /\ c \in Places /\ c <= Len(tokens) /\ Top(kept.refs) = kept.refs[n]
      /\ Kind(n) \in {"array", "object"}
      /\ Top(kept.refs) # Null => Top(kept.refs) = c /\ kept.kind[Top(kept.refs)] = Kind(n)
  BY <1>1, Innermost
<1>3. KindsAgree /\ kept.kind \in [Places -> Kinds]
  BY <1>1 DEF IInv, StacksAgree, KeptStacks
<1> HIDE DEF c
<1>4. ~yes => Top(kept.refs) = c /\ kept.kind[c] # "scalar" /\ refused' = refused \union {c}
  BY <1>2 DEF Ending, c
<1>5. \A q \in Places : kept'.kind[q] = IF q = c /\ ~yes THEN "discarded" ELSE kept.kind[q]
  <2>1. kept'.kind = IF ~yes THEN [kept.kind EXCEPT ![c] = "discarded"] ELSE kept.kind
    BY <1>4 DEF Ending, EndedKind
  <2> QED
    BY <1>2, <1>3, <2>1
<1>6. refused \subseteq refused'
  BY DEF Ending
<1>7. c \in Places /\ ~yes => c \in refused'
  BY <1>4
<1> DEFINE o == Top(Rest(kept.refs))
           around == Rest(kept.refs) # <<>> /\ o # Null
           same == kept'.items = kept.items /\ kept'.members = kept.members
           drops == /\ Top(kept.refs) # Null /\ ~yes /\ around /\ kept'.kind[o] = "array"
                    /\ kept'.items = [kept.items EXCEPT ![o] = Rest(@)]
                    /\ kept'.members = kept.members
           erases == /\ around /\ kept'.items = kept.items
                     /\ \E s \in Strings : /\ Discarded(kept', kept.members[o][s])
                                           /\ kept'.members = [kept.members EXCEPT ![o] = [@ EXCEPT ![s] = Absent]]
           result == /\ ValuesOK(kept') /\ Grows(kept, kept', Null) /\ Grows(kept, kept', Here)
                     /\ \A q, x \in Places : Item(kept, q, x) /\ x \notin refused' => Item(kept', q, x)
                     /\ \A q \in Places : \A s \in Strings :
                          kept.members[q][s] \in Places \ refused' => kept'.members[q][s] = kept.members[q][s]
                     /\ \A q \in Places : (n > 1 => q # plain.refs[n - 1]) => kept'.items[q] = kept.items[q]
<1>8. ValuesOK(kept) /\ kept'.root = kept.root /\ (same \/ drops \/ erases)
  BY DEF Ending, Contents
<1>9. around => n > 1 /\ n - 1 \in 1 .. n /\ o = kept.refs[n - 1] /\ o = plain.refs[n - 1] /\ o \in Places
  <2>1. around => n - 1 \in 1 .. n /\ o = kept.refs[n - 1] /\ o # Null
    BY <1>1
  <2> HIDE DEF o, around
  <2> QED
    BY <1>2, <2>1
<1> HIDE DEF o
<1>10. ASSUME same PROVE result
  <2>1. ValuesOK(kept') /\ Grows(kept, kept', Null) /\ Grows(kept, kept', Here)
    BY <1>8, <1>10, SameGrows
  <2> QED
    BY <1>10, <2>1 DEF Item
<1>11. ASSUME drops PROVE result
  <2>1. /\ o \in Places /\ o = plain.refs[n - 1] /\ n > 1 /\ n - 1 \in 1 .. n - 1 /\ kept'.root = kept.root
        /\ kept'.members = kept.members /\ kept'.items = [kept.items EXCEPT ![o] = Rest(@)]
    BY <1>8, <1>9, <1>11
  <2>2. ValuesOK(kept') /\ Grows(kept, kept', Null) /\ Grows(kept, kept', Here)
    BY <1>8, <2>1, DroppedGrows
  <2>3. Top(kept.items[o]) = c
    <3>1. o # c
      BY <1>2, <2>1
    <3>2. kept.kind[o] = "array"
      BY <1>5, <1>11, <2>1, <3>1
    <3>3. Kind(n - 1) = "array"
      <4>1. n - 1 \in 1 .. Opened /\ kept.refs[n - 1] = o /\ o # Null
        BY <1>9, <1>11
      <4> QED
        BY <1>3, <3>2, <4>1 DEF KindsAgree
    <3>4. kept.refs[(n - 1) + 1] = c /\ kept.refs[(n - 1) + 1] # Null
      BY <1>2, <1>11
    <3> QED
      BY <1>9, <1>11, <2>1, <3>3, <3>4 DEF Open, LastItem
  <2>4. /\ kept.items[o] \in Seq(Places) /\ kept'.items[o] = Rest(kept.items[o])
        /\ \A q \in Places : q # o => kept'.items[q] = kept.items[q]
    BY <1>8, <2>1 DEF ValuesOK
  <2>5. \A x : Among(x, kept.items[o]) => x = c \/ Among(x, kept'.items[o])
    BY <2>3, <2>4, AmongRest
  <2>6. \A q, x \in Places : Item(kept, q, x) /\ x \notin refused' => Item(kept', q, x)
    BY <1>7, <1>11, <2>4, <2>5 DEF Item
  <2> QED
    BY <2>1, <2>2, <2>4, <2>6
<1>12. ASSUME erases PROVE result
  <2> PICK s \in Strings : /\ Discarded(kept', kept.members[o][s])
                           /\ kept'.members = [kept.members EXCEPT ![o] = [@ EXCEPT ![s] = Absent]]
    BY <1>12
  <2>1. o \in Places /\ kept'.items = kept.items
    BY <1>9, <1>12
  <2>2. ValuesOK(kept') /\ Grows(kept, kept', Null) /\ Grows(kept, kept', Here)
    BY <1>8, <2>1, UnplacedGrows DEF Marks
  <2>3. kept.members[o][s] \in Places => kept.members[o][s] \in refused'
    BY <1>5, <1>6, <1>7, LengthAssumption DEF Discarded, Contents, Sound, Places, Gone
  <2>4. \A q \in Places : \A t \in Strings :
          kept.members[q][t] \in Places \ refused' => kept'.members[q][t] = kept.members[q][t]
    BY <1>8, <2>1, <2>3 DEF ValuesOK
  <2> QED
    BY <2>1, <2>2, <2>4 DEF Item
<1>13. result
  BY <1>8, <1>10, <1>11, <1>12
<1> HIDE DEF same, drops, erases, around
<1> QED
  BY <1>2, <1>4, <1>5, <1>13 DEF c

LEMMA EndingContents ==
  ASSUME IInv, Contents, Answers, Open, NEW yes \in BOOLEAN, Ending(yes)
  PROVE  Contents'
<1>1. Running /\ ~MemberNext /\ ~MemberNext'
  BY EndingOpened
<1> DEFINE c == Top(plain.refs)
<1>2. /\ c \in Places /\ c <= Len(tokens)
      /\ ~yes => kept.kind[c] # "scalar"
      /\ \A q \in Places : kept'.kind[q] = IF q = c /\ ~yes THEN "discarded" ELSE kept.kind[q]
      /\ ValuesOK(kept') /\ Grows(kept, kept', Null) /\ Grows(kept, kept', Here)
      /\ \A q, x \in Places : Item(kept, q, x) /\ x \notin refused' => Item(kept', q, x)
      /\ \A q \in Places : \A s \in Strings :
           kept.members[q][s] \in Places \ refused' => kept'.members[q][s] = kept.members[q][s]
  BY EndingFacts
<1>3. /\ Here \in Places /\ Len(tokens') = Here /\ SameValues(plain, plain') /\ kept'.root = kept.root
      /\ refused' = IF yes THEN refused ELSE refused \union {c}
  BY DEF Ending
<1> HIDE DEF c
<1>4. ValuesOK(plain') /\ Grows(plain, plain', Here)
  BY <1>3, SameGrows DEF SameValues, Contents
<1>5. Fresh'
  <2>1. tokens \in Seq(Tokens)
    BY DEF IInv, Control
  <2>2. \A p \in Places : p > Here => plain'.kind[p] = plain.kind[p] /\ kept'.kind[p] = kept.kind[p]
    BY <1>2, <1>3, <2>1 DEF SameValues, Places, Here
  <2> QED
    BY <1>2, <1>3, <1>4, <2>1, <2>2, FreshKept DEF Contents
<1>6. ScalarsEmpty'
  BY <1>3 DEF Contents, ScalarsEmpty, SameValues
<1>7. Sound'
  <2> SUFFICES ASSUME NEW p \in Places
               PROVE  /\ plain'.kind[p] # "discarded"
                      /\ kept'.kind[p] = "discarded" => p \in refused'
                      /\ Held(kept', p) => /\ p \in refused' => kept'.kind[p] = "discarded"
                                           /\ kept'.kind[p] \in {plain'.kind[p], "discarded"}
    BY Zenon DEF Sound
  <2>1. Held(kept', p) => Held(kept, p)
    BY <1>2, HeldBefore, LengthAssumption DEF Places, Null
  <2> QED
    BY <1>2, <1>3, <2>1 DEF Contents, Sound, SameValues
<1>8. RootKept'
  BY <1>3 DEF Contents, RootKept, SameValues
<1>9. \A q \in Places : kept'.kind[q] # "scalar" => kept.kind[q] # "scalar"
  BY <1>2
<1>10. ItemsKept'
  <2> SUFFICES ASSUME NEW q \in Places, NEW x \in Places,
                      kept'.kind[q] # "scalar", Item(plain', q, x), x \notin refused'
               PROVE  Item(kept', q, x)
    BY Zenon DEF ItemsKept
  <2>1. Item(plain, q, x) /\ x \notin refused /\ kept.kind[q] # "scalar"
    BY <1>3, <1>9 DEF SameValues, Item
  <2>2. Item(kept, q, x)
    BY <2>1 DEF Contents, ItemsKept
  <2> QED
    BY <1>2, <2>2
<1>11. MembersKept'
  <2> SUFFICES ASSUME NEW q \in Places, NEW s \in Strings,
                      kept'.kind[q] # "scalar", plain'.members[q][s] \in Places \ refused'
               PROVE  kept'.members[q][s] = plain'.members[q][s]
    BY Zenon DEF MembersKept
  <2>1. plain'.members[q][s] = plain.members[q][s] /\ plain.members[q][s] \in Places \ refused
        /\ kept.kind[q] # "scalar" /\ ~Building(q, s)
    BY <1>1, <1>3, <1>9 DEF SameValues, Building
  <2>2. kept.members[q][s] = plain.members[q][s]
    BY <2>1 DEF Contents, MembersKept
  <2> QED
    BY <1>2, <2>1, <2>2
<1>12. OneParent'
  BY <1>1, <1>2, <1>3, <1>4, OneParentKept DEF Contents
<1> QED
  BY <1>2, <1>4, <1>5, <1>6, <1>7, <1>8, <1>10, <1>11, <1>12 DEF Contents

LEMMA EndingKeeps ==
  ASSUME IInv, KInv, NEW yes \in BOOLEAN, Ending(yes)
  PROVE  KInv'
<1>1. /\ Running /\ ~MemberNext /\ ~MemberNext' /\ Opened \in Nat \ {0}
      /\ Running' => Opened' = Opened - 1
      /\ \A i \in 1 .. Opened - 1 : /\ Running' => Kind(i)' = Kind(i)
                                    /\ plain'.refs[i] = plain.refs[i] /\ kept'.refs[i] = kept.refs[i]
      /\ \A i \in 1 .. Opened : kept'.keep[i] = kept.keep[i]
  BY EndingOpened
<1>2. Contents /\ Answers /\ Open
  BY <1>1 DEF KInv, Running
<1>3. Contents'
  BY <1>2, EndingContents
<1> PICK n \in Nat \ {0} : n = Opened
  BY <1>1
<1> DEFINE c == Top(plain.refs)
<1>4. /\ c \in Places /\ c <= Len(tokens) /\ c = plain.refs[n]
      /\ \A q \in Places : kept'.kind[q] = IF q = c /\ ~yes THEN "discarded" ELSE kept.kind[q]
      /\ \A q \in Places : (n > 1 => q # plain.refs[n - 1]) => kept'.items[q] = kept.items[q]
  BY <1>2, EndingFacts
<1>5. /\ Len(tokens') = Here /\ Len(tokens) \in Nat /\ Here = Len(tokens) + 1
      /\ refused' \subseteq refused \union {c}
  BY DEF Ending, IInv, Control, Here
<1> HIDE DEF c
<1>6. /\ \A i \in 1 .. n : plain.refs[i] \in Places /\ kept.refs[i] \in {Null, plain.refs[i]}
      /\ \A i, j \in 1 .. n : i # j => plain.refs[i] # plain.refs[j]
  BY <1>1, Innermost
<1>7. Answers'
  <2>1. \A p \in refused' : p \in 1 .. Len(tokens')
    <3> SUFFICES ASSUME NEW p \in refused' PROVE p \in 1 .. Len(tokens')
      OBVIOUS
    <3>1. p \in 1 .. Len(tokens)
      BY <1>1, <1>2, <1>4, <1>5 DEF Answers, RefusedOK, Places
    <3> QED
      BY <1>5, <3>1
  <2> QED
    BY <1>1, <2>1 DEF Answers, RefusedOK, KeyAnswered
<1>8. ASSUME Running' PROVE Open'
  <2>1. Opened' = n - 1
    BY <1>1, <1>8
  <2>2. NullsUnmade'
    <3> SUFFICES ASSUME NEW i \in 1 .. n - 1
                 PROVE  /\ kept'.refs[i] = Null => kept'.kind[plain'.refs[i]] = "scalar"
                        /\ ~kept'.keep[i + 1] => kept'.refs[i] = Null
      BY <2>1 DEF NullsUnmade
    <3>1. plain.refs[i] # c /\ plain.refs[i] \in Places
      BY <1>4, <1>6
    <3>2. kept'.kind[plain.refs[i]] = kept.kind[plain.refs[i]]
      BY <1>4, <3>1
    <3>3. /\ kept.refs[i] = Null => kept.kind[plain.refs[i]] = "scalar"
          /\ ~kept.keep[i + 1] => kept.refs[i] = Null
      BY <1>2 DEF Open, NullsUnmade
    <3>4. plain'.refs[i] = plain.refs[i] /\ kept'.refs[i] = kept.refs[i] /\ kept'.keep[i + 1] = kept.keep[i + 1]
      BY <1>1
    <3> QED
      BY <3>2, <3>3, <3>4
  <2>3. LastItem'
    <3> SUFFICES ASSUME NEW i \in 1 .. (n - 1) - 1, kept'.refs[i + 1] # Null, Kind(i)' = "array"
                 PROVE  kept'.items[kept'.refs[i]] # <<>> /\ Top(kept'.items[kept'.refs[i]]) = kept'.refs[i + 1]
      BY <2>1 DEF LastItem
    <3>1. /\ i \in 1 .. n - 1 /\ i + 1 \in 1 .. n - 1 /\ i \in 1 .. n /\ i + 1 \in 1 .. n /\ i < i + 1
          /\ n > 1 /\ n - 1 \in 1 .. n /\ i # n - 1
      OBVIOUS
    <3>2. kept'.refs[i] = kept.refs[i] /\ kept'.refs[i + 1] = kept.refs[i + 1] /\ Kind(i)' = Kind(i)
      BY <1>1, <1>8, <3>1
    <3>3. kept.refs[i] # Null
      BY <1>1, <3>1, <3>2 DEF IInv, StacksAgree, NullsNested
    <3>4. kept.refs[i] = plain.refs[i] /\ plain.refs[i] # plain.refs[n - 1] /\ plain.refs[i] \in Places
      BY <1>6, <3>1, <3>3
    <3>5. kept'.items[kept.refs[i]] = kept.items[kept.refs[i]]
      BY <1>4, <3>4
    <3>6. kept.items[kept.refs[i]] # <<>> /\ Top(kept.items[kept.refs[i]]) = kept.refs[i + 1]
      BY <1>2, <3>1, <3>2 DEF Open, LastItem
    <3> QED
      BY <3>2, <3>5, <3>6
  <2>4. kept'.keep[1]
    BY <1>1, <1>2 DEF Open
  <2> QED
    BY <2>2, <2>3, <2>4 DEF Open
<1> QED
  BY <1>3, <1>7, <1>8 DEF KInv

LEMMA EndArrayKeeps ==
  ASSUME IInv, KInv, EndArray
  PROVE  KInv'
<1> PICK yes \in BOOLEAN :
      /\ want = "first_item" \/ (want = "separator" /\ Top(states) = "array")
      /\ Top(kept.refs) # Null \/ yes
      /\ Read("]")
      /\ states' = Inner
      /\ want' = After(Inner)
      /\ plain' = Ended(plain)
      /\ kept' = ArrayEndedIf(kept, yes)
      /\ Refuse(Top(plain.refs), yes)
  BY Zenon DEF EndArray
<1>1. "]" \in Tokens /\ Control /\ Shape(plain) /\ Shape(kept)
  BY DEF Tokens, Punctuation, IInv, PlainStacks, KeptStacks
<1>2. Here \in Places /\ Len(tokens') = Here
  BY <1>1, ReadFacts
<1>3. SameValues(plain, plain') /\ plain'.refs = Rest(plain.refs)
  BY <1>1, EndedValues, EndedFacts
<1>4. WasEnded(kept, kept')
  BY <1>1, ArrayEndedFacts, Zenon
<1>5. Dropped(kept, kept', yes)
  BY <1>1, ArrayEndedValues, Zenon
<1>6. Ending(yes)
  BY <1>2, <1>3, <1>4, <1>5 DEF Ending, WasEnded, Dropped, Refuse
<1> QED
  BY <1>6, EndingKeeps

LEMMA EndObjectKeeps ==
  ASSUME IInv, KInv, EndObject
  PROVE  KInv'
<1> PICK yes \in BOOLEAN :
      /\ want = "first_key" \/ (want = "separator" /\ Top(states) = "object")
      /\ Top(kept.refs) # Null \/ yes
      /\ Read("}")
      /\ states' = Inner
      /\ want' = After(Inner)
      /\ plain' = Ended(plain)
      /\ kept' = ObjectEndedIf(kept, yes)
      /\ Refuse(Top(plain.refs), yes)
  BY Zenon DEF EndObject
<1>1. "}" \in Tokens /\ Control /\ Shape(plain) /\ Shape(kept)
  BY DEF Tokens, Punctuation, IInv, PlainStacks, KeptStacks
<1>2. Here \in Places /\ Len(tokens') = Here
  BY <1>1, ReadFacts
<1>3. SameValues(plain, plain') /\ plain'.refs = Rest(plain.refs)
  BY <1>1, EndedValues, EndedFacts
<1>4. WasEnded(kept, kept')
  BY <1>1, ObjectEndedFacts, Zenon
<1>5. ErasedOne(kept, kept', yes)
  BY <1>1, ObjectEndedValues, Zenon
<1>6. Ending(yes)
  BY <1>2, <1>3, <1>4, <1>5 DEF Ending, WasEnded, ErasedOne, Refuse
<1> QED
  BY <1>6, EndingKeeps

-----------------------------------------------------------------------------
\* A key

LEMMA OpenedAfterKey ==
  ASSUME Control, want \in {"first_key", "key"}, UNCHANGED states,
         want' = IF want = "key" THEN "name_separator" ELSE "first_name_separator"
  PROVE  /\ Running /\ ~MemberNext /\ MemberNext'
         /\ Opened \in Nat \ {0} /\ Opened' = Opened /\ Kind(Opened) = "object"
         /\ \A i \in 1 .. Opened : Kind(i)' = Kind(i)
<1>1. Len(states) \in Nat /\ (want = "key" => states # <<>> /\ Len(states) > 0 /\ Top(states) = "object")
  BY Stacks DEF Control
<1>2. Running /\ ~MemberNext /\ MemberNext'
  BY DEF Running, MemberNext
<1>3. Opened \in Nat \ {0} /\ Opened' = Opened
  BY <1>1 DEF Opened
<1>4. Kind(Opened) = "object"
  BY <1>1 DEF Opened, Kind, Top
<1>5. \A i \in 1 .. Opened : Kind(i)' = Kind(i)
  BY <1>1 DEF Opened, Kind
<1> QED
  BY <1>2, <1>3, <1>4, <1>5

\* The key makes room in the object, and the value is not held yet.
LEMMA KeyedContents ==
  ASSUME IInv, KInv, NEW s \in Strings, NEW yes \in BOOLEAN,
         want \in {"first_key", "key"}, Here \in Places, Len(tokens') = Here, MemberNext',
         Opened \in Nat \ {0}, Kind(Opened) = "object",
         plain' = Keyed(plain, s), kept' = KeyedIf(kept, s, yes),
         refused' = IF yes THEN refused ELSE refused \union {Here + 2}
  PROVE  Contents' /\ kept'.kind = kept.kind /\ kept'.items = kept.items
<1> DEFINE c == Top(plain.refs)
           v == IF plain.members[c][s] = Absent THEN Null ELSE plain.members[c][s]
<1>1. Running /\ ~MemberNext /\ Contents
  BY DEF KInv, Running, MemberNext
<1>2. Shape(plain) /\ Shape(kept) /\ tokens \in Seq(Tokens)
  BY DEF IInv, PlainStacks, KeptStacks, Control
<1>3. /\ c \in Places /\ plain.kind[c] = "object"
      /\ Top(kept.refs) # Null => Top(kept.refs) = c
  BY <1>1, Innermost
<1>4. /\ plain'.root = plain.root /\ plain'.kind = plain.kind /\ plain'.items = plain.items
      /\ plain'.members = [plain.members EXCEPT ![c] = [@ EXCEPT ![s] = v]]
  <2>1. WasKeyed(plain, s, plain')
    BY <1>2, KeyedValues, Zenon
  <2> QED
    BY <2>1 DEF WasKeyed
<1>5. plain'.element = <<c, s>>
  BY <1>2, KeyedFacts
<1>6. /\ kept'.root = kept.root /\ kept'.kind = kept.kind /\ kept'.items = kept.items
      /\ \/ kept'.members = kept.members
         \/ kept'.members = [kept.members EXCEPT ![c] = [@ EXCEPT ![s] = Gone]]
  <2>1. WasKeyedIf(kept, s, kept')
    BY <1>2, KeyedIfValues, Zenon
  <2> QED
    BY <1>3, <2>1 DEF WasKeyedIf
<1>7. ValuesOK(plain) /\ ValuesOK(kept)
  BY <1>1 DEF Contents
<1>8. v \in Places \union Marks /\ (v \in Marks \/ v = plain.members[c][s])
  BY <1>3, <1>7 DEF ValuesOK, Marks
<1> HIDE DEF c, v
<1>9. ValuesOK(plain') /\ Grows(plain, plain', Here)
  BY <1>3, <1>4, <1>7, <1>8, UnplacedGrows
<1>10. ValuesOK(kept') /\ Grows(kept, kept', Here) /\ Grows(kept, kept', Null)
  <2>1. CASE kept'.members = kept.members
    BY <1>6, <1>7, <2>1, SameGrows
  <2>2. CASE kept'.members = [kept.members EXCEPT ![c] = [@ EXCEPT ![s] = Gone]]
    <3>1. Gone \in Marks /\ Gone \in Places \union Marks
      BY DEF Marks
    <3> QED
      BY <1>3, <1>6, <1>7, <2>2, <3>1, UnplacedGrows
  <2> QED
    BY <1>6, <2>1, <2>2
<1>11. \A q \in Places : \A t \in Strings : ~(q = c /\ t = s) =>
         plain'.members[q][t] = plain.members[q][t] /\ kept'.members[q][t] = kept.members[q][t]
  <2>1. \A q \in Places : \A t \in Strings : ~(q = c /\ t = s) => plain'.members[q][t] = plain.members[q][t]
    BY <1>4, <1>7 DEF ValuesOK
  <2>2. \A q \in Places : \A t \in Strings : ~(q = c /\ t = s) => kept'.members[q][t] = kept.members[q][t]
    BY <1>6, <1>7 DEF ValuesOK
  <2> QED
    BY <2>1, <2>2
<1>12. Fresh'
  BY <1>1, <1>2, <1>4, <1>6, <1>9, <1>10, FreshKept DEF Contents
<1>13. ScalarsEmpty'
  <2> SUFFICES ASSUME NEW p \in Places, plain'.kind[p] = "scalar"
               PROVE  plain'.items[p] = <<>> /\ \A t \in Strings : plain'.members[p][t] = Absent
    BY Zenon DEF ScalarsEmpty
  <2>1. p # c /\ plain.kind[p] = "scalar"
    BY <1>3, <1>4
  <2> QED
    BY <1>1, <1>4, <1>11, <2>1 DEF Contents, ScalarsEmpty
<1>14. Sound'
  <2> SUFFICES ASSUME NEW p \in Places
               PROVE  /\ plain'.kind[p] # "discarded"
                      /\ kept'.kind[p] = "discarded" => p \in refused'
                      /\ Held(kept', p) => /\ p \in refused' => kept'.kind[p] = "discarded"
                                           /\ kept'.kind[p] \in {plain'.kind[p], "discarded"}
    BY Zenon DEF Sound
  <2>1. Held(kept', p) => Held(kept, p)
    BY <1>10, HeldBefore, LengthAssumption DEF Places, Null
  <2>2. Held(kept, p) => p # Here + 2
    BY <1>1, <1>2 DEF Contents, Fresh, Here, Places
  <2> QED
    BY <1>1, <1>4, <1>6, <2>1, <2>2 DEF Contents, Sound
<1>15. RootKept'
  BY <1>1, <1>4, <1>6 DEF Contents, RootKept
<1>16. ItemsKept'
  BY <1>1, <1>4, <1>6 DEF Contents, ItemsKept, Item
<1>17. MembersKept'
  <2> SUFFICES ASSUME NEW q \in Places, NEW t \in Strings,
                      kept'.kind[q] # "scalar", plain'.members[q][t] \in Places \ refused', ~Building(q, t)'
               PROVE  kept'.members[q][t] = plain'.members[q][t]
    BY Zenon DEF MembersKept
  <2>1. ~(q = c /\ t = s)
    BY <1>5 DEF Building
  <2>2. plain.members[q][t] \in Places \ refused /\ kept.kind[q] # "scalar" /\ ~Building(q, t)
    BY <1>1, <1>6, <1>11, <2>1 DEF Building
  <2> QED
    BY <1>1, <1>11, <2>1, <2>2 DEF Contents, MembersKept
<1>18. OneParent'
  BY <1>1, <1>9, <1>10, OneParentKept DEF Contents
<1> QED
  BY <1>6, <1>9, <1>10, <1>12, <1>13, <1>14, <1>15, <1>16, <1>17, <1>18 DEF Contents

LEMMA KeyKeeps ==
  ASSUME IInv, KInv, NEW s \in Strings, Key(s)
  PROVE  KInv'
<1> PICK yes \in BOOLEAN :
      /\ want \in {"first_key", "key"}
      /\ Read(s)
      /\ want' = IF want = "key" THEN "name_separator" ELSE "first_name_separator"
      /\ plain' = Keyed(plain, s)
      /\ kept' = KeyedIf(kept, s, yes)
      /\ Refuse(Here + 2, yes)
      /\ UNCHANGED states
  BY Zenon DEF Key
<1>1. s \in Tokens /\ Control /\ Shape(plain) /\ Shape(kept) /\ kept.keys \in Seq(BOOLEAN)
  BY DEF Tokens, IInv, PlainStacks, KeptStacks
<1>2. Here \in Places /\ Len(tokens) \in Nat /\ Here = Len(tokens) + 1 /\ Len(tokens') = Here
  BY <1>1, ReadFacts
<1>3. /\ Running /\ ~MemberNext /\ MemberNext'
      /\ Opened \in Nat \ {0} /\ Opened' = Opened /\ Kind(Opened) = "object"
      /\ \A i \in 1 .. Opened : Kind(i)' = Kind(i)
  BY <1>1, OpenedAfterKey
<1>4. Answers /\ Open
  BY <1>3 DEF KInv, Running
<1>5. Contents' /\ kept'.kind = kept.kind /\ kept'.items = kept.items
  BY <1>2, <1>3, KeyedContents DEF Refuse
<1>6. plain'.refs = plain.refs
  BY <1>1, KeyedFacts
<1>7. kept'.refs = kept.refs /\ kept'.keep = kept.keep /\ kept'.keys = Append(kept.keys, yes)
  BY <1>1, KeyedIfFacts
<1>8. Top(kept'.keys) = yes
  <2>1. Top(Append(kept.keys, yes)) = yes
    BY <1>1, AppendedLast, Zenon
  <2> QED
    BY <1>7, <2>1
<1>9. ValuePlace' = Here + 2
  BY <1>2 DEF ValuePlace, Here
<1>10. \A p \in refused : p \in 1 .. Len(tokens)
  BY <1>3, <1>4 DEF Answers, RefusedOK
<1>11. Answers'
  <2>1. refused' = IF yes THEN refused ELSE refused \union {Here + 2}
    BY DEF Refuse
  <2>2. \A p \in refused' : p \in 1 .. Len(tokens') \/ p = Here + 2
    BY <1>2, <1>10, <2>1
  <2>3. Here + 2 \notin refused
    BY <1>2, <1>10
  <2> QED
    BY <1>3, <1>8, <1>9, <2>1, <2>2, <2>3 DEF Answers, RefusedOK, KeyAnswered
<1>12. Open'
  <2>1. NullsUnmade'
    BY <1>3, <1>4, <1>5, <1>6, <1>7 DEF Open, NullsUnmade
  <2>2. LastItem'
    BY <1>3, <1>4, <1>5, <1>7 DEF Open, LastItem
  <2> QED
    BY <1>4, <1>7, <2>1, <2>2 DEF Open
<1> QED
  BY <1>5, <1>11, <1>12 DEF KInv

-----------------------------------------------------------------------------
\* The other tokens

LEMMA QuietKeeps ==
  ASSUME IInv, KInv, NEW t \in Tokens, Read(t), UNCHANGED <<plain, kept, refused>>,
         Running, MemberNext' <=> MemberNext, MemberNext => ValuePlace' = ValuePlace,
         Running' => Opened' = Opened /\ \A i \in 1 .. Opened : Kind(i)' = Kind(i)
  PROVE  KInv'
<1>1. Contents /\ Answers /\ Open
  BY DEF KInv, Running
<1>2. Len(tokens) \in Nat /\ Len(tokens') = Len(tokens) + 1
  BY ReadFacts DEF IInv
<1>3. Contents'
  <2>1. Fresh'
    BY <1>1, <1>2 DEF Contents, Fresh, Held, Holds, Places
  <2>2. MembersKept'
    BY <1>1 DEF Contents, MembersKept, Building
  <2>3. ValuesOK(plain)' /\ ValuesOK(kept)' /\ ScalarsEmpty' /\ RootKept' /\ ItemsKept' /\ OneParent'
    BY <1>1 DEF Contents, ValuesOK, ScalarsEmpty, RootKept, ItemsKept, OneParent, Item, Holds
  <2>4. Sound'
    BY <1>1 DEF Contents, Sound, Held, Holds
  <2> QED
    BY <2>1, <2>2, <2>3, <2>4 DEF Contents
<1>4. ASSUME Running' PROVE Answers' /\ Open'
  <2>1. RefusedOK'
    BY <1>1, <1>2 DEF Answers, RefusedOK
  <2>2. KeyAnswered'
    BY <1>1 DEF Answers, KeyAnswered
  <2>3. NullsUnmade' /\ LastItem' /\ kept'.keep[1]
    <3>1. Opened \in Nat /\ Opened' = Opened /\ \A i \in 1 .. Opened : Kind(i)' = Kind(i)
      BY <1>4, Innermost
    <3>2. NullsUnmade'
      BY <1>1, <3>1 DEF Open, NullsUnmade
    <3>3. LastItem'
      BY <1>1, <3>1 DEF Open, LastItem
    <3> QED
      BY <1>1, <3>2, <3>3 DEF Open
  <2> QED
    BY <2>1, <2>2, <2>3 DEF Answers, Open
<1> QED
  BY <1>3, <1>4 DEF KInv

LEMMA AfterNameSeparator ==
  ASSUME IInv, NameSeparator
  PROVE  /\ ":" \in Tokens /\ Read(":") /\ UNCHANGED <<plain, kept, refused>>
         /\ Running /\ MemberNext /\ MemberNext' /\ ValuePlace' = ValuePlace
         /\ Opened' = Opened /\ \A i \in 1 .. Opened : Kind(i)' = Kind(i)
<1>1. /\ ":" \in Tokens /\ Read(":") /\ UNCHANGED <<plain, kept, refused>>
      /\ want \in {"name_separator", "first_name_separator"} /\ want' = "value"
      /\ states' = IF want = "first_name_separator" THEN Append(states, "object") ELSE states
  BY DEF NameSeparator, Tokens, Punctuation
<1>2. Running /\ MemberNext
  BY <1>1 DEF Running, MemberNext
<1>3. states \in Seq({"array", "object"}) /\ "object" \in {"array", "object"} /\ Len(states) \in Nat
  BY DEF IInv, Control
<1>4. ValuePlace' = ValuePlace
  BY <1>1, ReadFacts DEF IInv, ValuePlace, Here
<1>5. MemberNext' /\ Opened' = Opened /\ \A i \in 1 .. Opened : Kind(i)' = Kind(i)
  <2>1. CASE want = "name_separator"
    BY <1>1, <1>3, <2>1 DEF IInv, Control, MemberNext, Opened, Kind
  <2>2. CASE want = "first_name_separator"
    <3>1. /\ Len(states') = Len(states) + 1 /\ states'[Len(states) + 1] = "object"
          /\ \A i \in 1 .. Len(states) : states'[i] = states[i]
      BY <1>1, <1>3, <2>2, Stacks
    <3>2. Opened = Len(states) + 1 /\ Opened' = Len(states) + 1
      BY <1>1, <2>2, <3>1 DEF Opened
    <3>3. MemberNext'
      BY <1>1, <1>3, <3>1 DEF MemberNext, Top
    <3>4. \A i \in 1 .. Len(states) + 1 : Kind(i)' = Kind(i)
      <4> TAKE i \in 1 .. Len(states) + 1
      <4>1. CASE i <= Len(states)
        BY <1>3, <3>1, <4>1 DEF Kind
      <4>2. CASE i = Len(states) + 1
        BY <1>3, <2>2, <3>1, <4>2 DEF Kind
      <4> QED
        BY <1>3, <4>1, <4>2
    <3> QED
      BY <3>2, <3>3, <3>4
  <2> QED
    BY <1>1, <2>1, <2>2
<1> QED
  BY <1>1, <1>2, <1>4, <1>5

LEMMA NameSeparatorKeeps ==
  ASSUME IInv, KInv, NameSeparator
  PROVE  KInv'
BY AfterNameSeparator, QuietKeeps

LEMMA ValueSeparatorKeeps ==
  ASSUME IInv, KInv, ValueSeparator
  PROVE  KInv'
<1>1. /\ "," \in Tokens /\ Read(",") /\ UNCHANGED <<plain, kept, refused, states>> /\ want = "separator"
      /\ want' = IF Top(states) = "array" THEN "value" ELSE "key"
  BY DEF ValueSeparator, Tokens, Punctuation, AfterComma
<1>2. /\ Running /\ ~MemberNext /\ ~MemberNext' /\ Opened' = Opened
      /\ \A i \in 1 .. Opened : Kind(i)' = Kind(i)
  BY <1>1 DEF Running, Opened, MemberNext, Kind
<1> QED
  BY <1>1, <1>2, QuietKeeps

LEMMA NextKeepsKInv == IInv /\ KInv /\ [Next]_vars => KInv'
<1> SUFFICES ASSUME IInv, KInv, [Next]_vars PROVE KInv'
  OBVIOUS
<1>1. CASE \E t \in Strings \union Scalars : Value(t)
  BY <1>1, ValueKeeps
<1>2. CASE BeginArray \/ BeginObject
  <2>1. "[" \in Tokens /\ "{" \in Tokens
    BY DEF Tokens, Punctuation
  <2> QED
    BY <1>2, <2>1, BeginKeeps DEF BeginArray, BeginObject
<1>3. CASE EndArray \/ EndObject
  BY <1>3, EndArrayKeeps, EndObjectKeeps
<1>4. CASE \E s \in Strings : Key(s)
  BY <1>4, KeyKeeps
<1>5. CASE NameSeparator \/ ValueSeparator
  BY <1>5, NameSeparatorKeeps, ValueSeparatorKeeps
<1>6. CASE EndOfInput
  <2>1. /\ "end_of_input" \in Tokens /\ Read("end_of_input") /\ UNCHANGED <<plain, kept, refused, states>>
        /\ Running /\ ~MemberNext /\ ~MemberNext' /\ ~Running'
    BY <1>6 DEF EndOfInput, Tokens, Punctuation, Running, MemberNext
  <2> QED
    BY <2>1, QuietKeeps
<1>7. CASE \E t \in Tokens : ParseError(t)
  BY <1>7 DEF ParseError, KInv
<1>8. CASE UNCHANGED vars
  <2>1. Contents => Contents'
    BY <1>8 DEF vars, Contents, ValuesOK, Fresh, ScalarsEmpty, Sound, RootKept, ItemsKept, MembersKept,
                OneParent, Item, Held, Holds, Building, MemberNext
  <2>2. Running /\ Answers /\ Open => Answers' /\ Open'
    BY <1>8 DEF vars, Running, Answers, RefusedOK, KeyAnswered, ValuePlace, Here, MemberNext,
                Open, NullsUnmade, LastItem, Opened, Kind
  <2> QED
    BY <1>8, <2>1, <2>2 DEF vars, KInv, Running
<1> QED
  BY <1>1, <1>2, <1>3, <1>4, <1>5, <1>6, <1>7, <1>8 DEF Next

LEMMA InitKInv == Init => KInv
<1> SUFFICES ASSUME Init PROVE KInv
  OBVIOUS
<1>1. /\ plain = NewDom /\ kept = NewDom /\ refused = {} /\ tokens = <<>> /\ states = <<>> /\ want = "value"
  BY DEF Init
<1>2. /\ NewDom.root = Null /\ NewDom.keep = <<TRUE>>
      /\ NewDom.kind = [p \in Places |-> "scalar"]
      /\ NewDom.items = [p \in Places |-> <<>>]
      /\ NewDom.members = [p \in Places |-> [s \in Strings |-> Absent]]
  BY DEF NewDom
<1>3. \A p \in Places : p # Null /\ p # Absent
  BY LengthAssumption DEF Places, Null, Absent
<1>4. \A q \in Places : NewDom.items[q] = <<>> /\ \A s \in Strings : NewDom.members[q][s] = Absent
  BY <1>2
<1>5. \A p \in Places : ~Held(NewDom, p) /\ \A q \in Places : ~Holds(NewDom, q, p)
  BY <1>2, <1>3, <1>4 DEF Held, Holds
<1>6. ValuesOK(NewDom)
  BY <1>2 DEF ValuesOK, Marks
<1>7. Fresh /\ ScalarsEmpty /\ Sound
  BY <1>1, <1>2, <1>4, <1>5 DEF Fresh, ScalarsEmpty, Sound
<1>8. RootKept /\ ItemsKept /\ MembersKept /\ OneParent
  BY <1>1, <1>2, <1>3, <1>5 DEF RootKept, ItemsKept, MembersKept, OneParent
<1>9. Opened = 0 /\ ~MemberNext
  BY <1>1 DEF Opened, MemberNext
<1>10. Answers /\ Open
  BY <1>1, <1>2, <1>9 DEF Answers, RefusedOK, KeyAnswered, Open, NullsUnmade, LastItem
<1> QED
  BY <1>1, <1>6, <1>7, <1>8, <1>10 DEF KInv, Contents

-----------------------------------------------------------------------------
(***************************************************************************)
(* What is left of a value that was refused.  A member of the second       *)
(* document has one in the first; no item is twice in an array, and a      *)
(* container that is open is an item of the one around it only, so that    *)
(* an array that is refused at its end is dropped from wherever it is.     *)
(***************************************************************************)

MembersThere ==
  \A q \in Places : \A s \in Strings :
    /\ kept.members[q][s] # Absent => plain.members[q][s] # Absent
    /\ plain.members[q][s] # Gone
    /\ plain.members[q][s] = Null => Building(q, s)

NoneTwice ==
  \A q \in Places : \A i, j \in DOMAIN kept.items[q] :
    kept.items[q][i] = kept.items[q][j] => i = j

OpenItems ==
  \A i \in 1 .. Opened : \A q \in Places :
    kept.refs[i] # Null /\ Item(kept, q, kept.refs[i]) =>
      i > 1 /\ Kind(i - 1) = "array" /\ q = kept.refs[i - 1]

DiscardedItems ==
  \A q, x \in Places : Item(kept, q, x) /\ kept.kind[x] = "discarded" => plain.kind[x] = "object"

Leavings == MembersThere /\ NoneTwice /\ DiscardedItems
LInv     == want # "rejected" => Leavings /\ (Running => OpenItems)

LEMMA NoneTwiceAppended ==
  ASSUME NEW S, NEW s \in Seq(S), NEW e \in S, ~Among(e, s),
         \A i, j \in DOMAIN s : s[i] = s[j] => i = j, NEW a, a = Append(s, e)
  PROVE  \A i, j \in DOMAIN a : a[i] = a[j] => i = j
<1> DEFINE n == Len(s)
<1>1. /\ n \in Nat /\ DOMAIN s = 1 .. n /\ DOMAIN a = 1 .. n + 1
      /\ a[n + 1] = e /\ \A i \in 1 .. n : a[i] = s[i]
  <2>1. /\ n \in Nat /\ a \in Seq(S) /\ Len(a) = n + 1
        /\ a[n + 1] = e /\ \A i \in 1 .. n : a[i] = s[i]
    BY Stacks
  <2> QED
    BY <2>1
<1>2. \A i \in 1 .. n : s[i] # e
  BY <1>1 DEF Among
<1> HIDE DEF n
<1>3. \A i \in 1 .. n + 1 : i \in 1 .. n \/ i = n + 1
  BY <1>1
<1> QED
  BY <1>1, <1>2, <1>3

LEMMA NoneTwiceRest ==
  ASSUME NEW S, NEW s \in Seq(S), \A i, j \in DOMAIN s : s[i] = s[j] => i = j,
         NEW r, r = Rest(s)
  PROVE  /\ \A i, j \in DOMAIN r : r[i] = r[j] => i = j
         /\ s # <<>> => ~Among(Top(s), r)
<1>1. CASE s = <<>>
  <2>1. r = <<>>
    BY <1>1, Stacks
  <2> QED
    BY <1>1, <2>1
<1>2. CASE s # <<>>
  <2> DEFINE n == Len(s)
  <2>1. IsRest(r, s, S) /\ n \in Nat \ {0}
    BY <1>2, RestFacts
  <2>2. DOMAIN s = 1 .. n /\ DOMAIN r = 1 .. n - 1 /\ \A i \in 1 .. n - 1 : r[i] = s[i]
    BY <2>1 DEF IsRest
  <2>3. Top(s) = s[n]
    BY DEF Top
  <2> HIDE DEF n
  <2>4. \A i \in 1 .. n - 1 : i \in 1 .. n /\ i # n
    BY <2>1
  <2>5. n \in 1 .. n
    BY <2>1
  <2> QED
    BY <2>2, <2>3, <2>4, <2>5 DEF Among
<1> QED
  BY <1>1, <1>2

LEMMA PlacingLeaves ==
  ASSUME IInv, Contents, Answers, Open, Leavings, OpenItems,
         NEW k \in {"scalar", "array", "object"}, NEW yes \in BOOLEAN, Placing(k, yes)
  PROVE  /\ Leavings'
         /\ \A q, x \in Places : Item(kept', q, x) =>
              \/ x # Here /\ Item(kept, q, x)
              \/ x = Here /\ Opened > 0 /\ Kind(Opened) = "array" /\ q = kept.refs[Opened]
<1>1. /\ AtPlace(plain) /\ (Opened > 0 <=> plain.refs # <<>>) /\ (Opened > 0 <=> kept.refs # <<>>)
      /\ InObject(plain) <=> MemberNext
      /\ IsTaken(yes) => /\ AtPlace(kept) /\ Placed(kept, kept', Here, k)
                         /\ Opened > 0 => Top(kept.refs) = Top(plain.refs)
                         /\ InArray(kept) <=> InArray(plain)
                         /\ InObject(kept) <=> InObject(plain)
                         /\ InObject(kept) => kept.element = plain.element
      /\ ~IsTaken(yes) => SameValues(kept, kept')
  BY PlacingFacts
<1>2. Here \in Places /\ Placed(plain, plain', Here, k) /\ Running
  BY DEF Placing, Running
<1>3. WasPlaced(plain, plain', Here, k)
  BY <1>1, <1>2, PlacedFacts, Zenon
<1>4. IsTaken(yes) => WasPlaced(kept, kept', Here, k)
  BY <1>1, <1>2, PlacedFacts, Zenon
<1>5. ~Held(kept, Here) /\ \A q \in Places : ~Item(kept, q, Here)
  <2>1. ~Held(kept, Here)
    BY <1>2 DEF Contents, Fresh, Here, IInv, Control
  <2> QED
    BY <2>1, HoldsWhat DEF Held
<1>6. Here # Absent /\ Here # Gone /\ Here # Null
  BY <1>2, LengthAssumption DEF Places, Absent, Gone, Null
<1>7. MembersThere'
  <2> SUFFICES ASSUME NEW q \in Places, NEW s \in Strings
               PROVE  /\ kept'.members[q][s] # Absent => plain'.members[q][s] # Absent
                      /\ plain'.members[q][s] # Gone
                      /\ plain'.members[q][s] # Null
    BY Zenon DEF MembersThere
  <2> DEFINE there == InObject(plain) /\ q = Top(plain.refs) /\ s = plain.element[2]
  <2>1. plain'.members[q][s] = IF there THEN Here ELSE plain.members[q][s]
    BY <1>3 DEF WasPlaced
  <2>2. ~there => kept'.members[q][s] = kept.members[q][s]
    BY <1>1, <1>4 DEF WasPlaced, SameValues, InObject
  <2>3. ~there => ~Building(q, s)
    BY <1>1 DEF Building, AtPlace
  <2> HIDE DEF there
  <2> QED
    BY <1>6, <2>1, <2>2, <2>3 DEF Leavings, MembersThere
<1>8. /\ IsTaken(yes) /\ InArray(kept) =>
           /\ Top(kept.refs) \in Places /\ kept.items[Top(kept.refs)] \in Seq(Places)
           /\ kept'.items[Top(kept.refs)] = Append(kept.items[Top(kept.refs)], Here)
           /\ \A q \in Places : q # Top(kept.refs) => kept'.items[q] = kept.items[q]
      /\ ~(IsTaken(yes) /\ InArray(kept)) => \A q \in Places : kept'.items[q] = kept.items[q]
  <2>1. ASSUME IsTaken(yes), InArray(kept)
        PROVE  /\ Top(kept.refs) \in Places /\ kept.items[Top(kept.refs)] \in Seq(Places)
               /\ kept'.items[Top(kept.refs)] = Append(kept.items[Top(kept.refs)], Here)
               /\ \A q \in Places : q # Top(kept.refs) => kept'.items[q] = kept.items[q]
    <3> DEFINE o == Top(kept.refs)
    <3>1. o \in Places /\ kept.items \in [Places -> Seq(Places)]
          /\ kept'.items = [kept.items EXCEPT ![o] = Append(@, Here)]
      BY <1>1, <2>1 DEF Placed, AtPlace, ValuesOK, InArray
    <3> HIDE DEF o
    <3> QED
      BY <3>1 DEF o
  <2>2. ASSUME IsTaken(yes), ~InArray(kept) PROVE \A q \in Places : kept'.items[q] = kept.items[q]
    BY <1>4, <2>2 DEF WasPlaced
  <2>3. ASSUME ~IsTaken(yes) PROVE \A q \in Places : kept'.items[q] = kept.items[q]
    BY <1>1, <2>3 DEF SameValues
  <2> QED
    BY <2>1, <2>2, <2>3
<1>9. NoneTwice'
  <2> SUFFICES ASSUME NEW q \in Places
               PROVE  \A i, j \in DOMAIN kept'.items[q] : kept'.items[q][i] = kept'.items[q][j] => i = j
    BY Zenon DEF NoneTwice
  <2>1. \A i, j \in DOMAIN kept.items[q] : kept.items[q][i] = kept.items[q][j] => i = j
    BY DEF Leavings, NoneTwice
  <2>2. CASE kept'.items[q] = kept.items[q]
    BY <2>1, <2>2
  <2>3. CASE kept.items[q] \in Seq(Places) /\ kept'.items[q] = Append(kept.items[q], Here)
    <3> DEFINE b == kept.items[q]
               a == kept'.items[q]
    <3>1. b \in Seq(Places) /\ a = Append(b, Here) /\ ~Among(Here, b)
      BY <1>5, <2>3 DEF Item
    <3>2. \A i, j \in DOMAIN b : b[i] = b[j] => i = j
      BY <2>1
    <3> HIDE DEF a, b
    <3>3. \A i, j \in DOMAIN a : a[i] = a[j] => i = j
      BY <1>2, <3>1, <3>2, NoneTwiceAppended
    <3> QED
      BY <3>3 DEF a
  <2> QED
    BY <1>8, <2>2, <2>3
<1>10. \A q, x \in Places : Item(kept', q, x) =>
         \/ x # Here /\ Item(kept, q, x)
         \/ x = Here /\ IsTaken(yes) /\ InArray(kept) /\ q = Top(kept.refs)
  <2>1. CASE IsTaken(yes)
    BY <1>4, <1>5, <2>1 DEF WasPlaced
  <2>2. CASE ~IsTaken(yes)
    BY <1>1, <1>5, <2>2 DEF SameValues, Item
  <2> QED
    BY <2>1, <2>2
<1>11. DiscardedItems'
  <2> SUFFICES ASSUME NEW q \in Places, NEW x \in Places, Item(kept', q, x), kept'.kind[x] = "discarded"
               PROVE  plain'.kind[x] = "object"
    BY Zenon DEF DiscardedItems
  <2>1. CASE x = Here
    <3>1. IsTaken(yes)
      BY <1>10, <2>1
    <3> QED
      BY <1>4, <2>1, <3>1 DEF WasPlaced
  <2>2. CASE x # Here
    <3>1. Item(kept, q, x) /\ kept.kind[x] = "discarded" /\ plain'.kind[x] = plain.kind[x]
      BY <1>1, <1>3, <1>4, <1>10, <2>2 DEF WasPlaced, SameValues
    <3> QED
      BY <3>1 DEF Leavings, DiscardedItems
  <2> QED
    BY <2>1, <2>2
<1>12. InArray(kept) /\ IsTaken(yes) => Opened > 0 /\ Kind(Opened) = "array" /\ Top(kept.refs) = kept.refs[Opened]
  <2>1. InArray(kept) => kept.refs # <<>> /\ kept.kind[Top(kept.refs)] = "array"
    BY DEF InArray
  <2>2. IsTaken(yes) /\ Opened > 0 => Top(kept.refs) # Null
    BY <1>1 DEF IsTaken, Refuses
  <2>3. Opened > 0 => /\ Top(kept.refs) = kept.refs[Opened]
                      /\ Top(kept.refs) # Null => kept.kind[Top(kept.refs)] = Kind(Opened)
    BY <1>2, Innermost
  <2> QED
    BY <1>1, <2>1, <2>2, <2>3
<1> QED
  BY <1>7, <1>9, <1>10, <1>11, <1>12 DEF Leavings

\* An array that was refused is dropped by the array around it.
Drops(yes) ==
  LET o == Top(Rest(kept.refs))
  IN  ~yes /\ Rest(kept.refs) # <<>> /\ o # Null /\ kept'.kind[o] = "array" =>
        kept'.items = [kept.items EXCEPT ![o] = Rest(@)]

LEMMA EndArrayDrops ==
  ASSUME IInv, EndArray
  PROVE  \E yes \in BOOLEAN : Ending(yes) /\ Drops(yes)
<1> PICK yes \in BOOLEAN :
      /\ want = "first_item" \/ (want = "separator" /\ Top(states) = "array")
      /\ Top(kept.refs) # Null \/ yes
      /\ Read("]")
      /\ states' = Inner
      /\ want' = After(Inner)
      /\ plain' = Ended(plain)
      /\ kept' = ArrayEndedIf(kept, yes)
      /\ Refuse(Top(plain.refs), yes)
  BY Zenon DEF EndArray
<1>1. "]" \in Tokens /\ Control /\ Shape(plain) /\ Shape(kept)
  BY DEF Tokens, Punctuation, IInv, PlainStacks, KeptStacks
<1>2. Here \in Places /\ Len(tokens') = Here
  BY <1>1, ReadFacts
<1>3. SameValues(plain, plain') /\ plain'.refs = Rest(plain.refs)
  BY <1>1, EndedValues, EndedFacts
<1>4. WasEnded(kept, kept')
  BY <1>1, ArrayEndedFacts, Zenon
<1>5. Dropped(kept, kept', yes)
  BY <1>1, ArrayEndedValues, Zenon
<1>6. Ending(yes)
  BY <1>2, <1>3, <1>4, <1>5 DEF Ending, WasEnded, Dropped, Refuse
<1>7. Drops(yes)
  <2> DEFINE c == Closed(kept, yes)
             o == Top(Rest(kept.refs))
  <2>1. Shape(c) /\ c.refs = Rest(kept.refs) /\ EndedKind(kept, c, yes) /\ c.items = kept.items
    BY <1>1, ClosedValues, Zenon
  <2>2. /\ Top(kept.refs) # Null /\ ~yes /\ Inside(c, "array") =>
             kept' = [c EXCEPT !.items[Top(c.refs)] = Rest(@)]
    BY Zenon DEF ArrayEndedIf
  <2>3. kept'.kind = c.kind
    BY <1>5, <2>1 DEF Dropped, EndedKind
  <2> HIDE DEF c
  <2>4. Inside(c, "array") <=> Rest(kept.refs) # <<>> /\ o # Null /\ kept'.kind[o] = "array"
    BY <2>1, <2>3 DEF Inside
  <2>5. ASSUME ~yes, Inside(c, "array") PROVE kept'.items = [kept.items EXCEPT ![o] = Rest(@)]
    BY <2>1, <2>2, <2>5 DEF Shape, Fields
  <2> QED
    BY <2>4, <2>5 DEF Drops
<1> QED
  BY <1>6, <1>7

LEMMA ObjectIsInnermost ==
  ASSUME Control, want = "first_key" \/ (want = "separator" /\ Top(states) = "object")
  PROVE  Kind(Opened) = "object"
<1>1. Len(states) \in Nat
  BY Stacks DEF Control
<1>2. CASE want = "first_key"
  BY <1>1, <1>2 DEF Kind, Opened
<1>3. CASE want = "separator" /\ Top(states) = "object"
  BY <1>1, <1>3 DEF Kind, Opened, Top
<1> QED
  BY <1>2, <1>3

LEMMA EndObjectEnds ==
  ASSUME IInv, EndObject
  PROVE  Kind(Opened) = "object" /\ \E yes \in BOOLEAN : Ending(yes)
<1> PICK yes \in BOOLEAN :
      /\ want = "first_key" \/ (want = "separator" /\ Top(states) = "object")
      /\ Top(kept.refs) # Null \/ yes
      /\ Read("}")
      /\ states' = Inner
      /\ want' = After(Inner)
      /\ plain' = Ended(plain)
      /\ kept' = ObjectEndedIf(kept, yes)
      /\ Refuse(Top(plain.refs), yes)
  BY Zenon DEF EndObject
<1>1. "}" \in Tokens /\ Control /\ Shape(plain) /\ Shape(kept)
  BY DEF Tokens, Punctuation, IInv, PlainStacks, KeptStacks
<1>2. Here \in Places /\ Len(tokens') = Here
  BY <1>1, ReadFacts
<1>3. SameValues(plain, plain') /\ plain'.refs = Rest(plain.refs)
  BY <1>1, EndedValues, EndedFacts
<1>4. WasEnded(kept, kept')
  BY <1>1, ObjectEndedFacts, Zenon
<1>5. ErasedOne(kept, kept', yes)
  BY <1>1, ObjectEndedValues, Zenon
<1>6. Ending(yes)
  BY <1>2, <1>3, <1>4, <1>5 DEF Ending, WasEnded, ErasedOne, Refuse
<1>7. Kind(Opened) = "object"
  BY <1>1, ObjectIsInnermost, Zenon
<1> QED
  BY <1>6, <1>7

LEMMA EndingLeaves ==
  ASSUME IInv, Contents, Answers, Open, Leavings, OpenItems, NEW yes \in BOOLEAN, Ending(yes),
         Kind(Opened) = "object" \/ Drops(yes)
  PROVE  Leavings' /\ (Running' => OpenItems')
<1>1. /\ Running /\ ~MemberNext /\ ~MemberNext' /\ Opened \in Nat \ {0}
      /\ Running' => Opened' = Opened - 1
      /\ \A i \in 1 .. Opened - 1 : /\ Running' => Kind(i)' = Kind(i)
                                    /\ kept'.refs[i] = kept.refs[i]
      /\ Rest(kept.refs) # <<>> => Opened - 1 \in 1 .. Opened /\ Top(Rest(kept.refs)) = kept.refs[Opened - 1]
  BY EndingOpened
<1> PICK n \in Nat \ {0} : n = Opened
  BY <1>1
<1> DEFINE c == Top(plain.refs)
<1>2. /\ c \in Places /\ c = plain.refs[n]
      /\ \A q \in Places : kept'.kind[q] = IF q = c /\ ~yes THEN "discarded" ELSE kept.kind[q]
  BY EndingFacts
<1>3. /\ SameValues(plain, plain') /\ (~yes => Top(kept.refs) # Null)
      /\ kept'.refs = Rest(kept.refs)
  BY DEF Ending
<1> HIDE DEF c
<1>4. /\ \A i \in 1 .. n : plain.refs[i] \in Places /\ kept.refs[i] \in {Null, plain.refs[i]}
      /\ \A i, j \in 1 .. n : i # j => plain.refs[i] # plain.refs[j]
      /\ plain.kind[c] = Kind(n) /\ Kind(n) \in {"array", "object"}
      /\ Top(kept.refs) = kept.refs[n]
      /\ Top(kept.refs) # Null => kept.refs[n] = c
      /\ Len(kept.refs) = n
  BY <1>1, Innermost DEF c
<1>5. /\ kept.items \in [Places -> Seq(Places)]
      /\ kept.members \in [Places -> [Strings -> Places \union Marks]]
  BY DEF Contents, ValuesOK
<1> DEFINE o == Top(Rest(kept.refs))
           Around == Rest(kept.refs) # <<>> /\ o # Null
           Erases == \E s \in Strings : kept'.members = [kept.members EXCEPT ![o] = [@ EXCEPT ![s] = Absent]]
<1>6. /\ kept'.items = kept.items \/ (Around /\ kept'.items = [kept.items EXCEPT ![o] = Rest(@)])
      /\ kept'.members = kept.members \/ (Around /\ Erases)
  BY DEF Ending
<1>7. Around => n > 1 /\ n - 1 \in 1 .. n /\ o = kept.refs[n - 1] /\ o \in Places /\ o # c
  <2>1. Around => n - 1 \in 1 .. n /\ o = kept.refs[n - 1] /\ o # Null
    BY <1>1
  <2> HIDE DEF o, Around
  <2> QED
    BY <1>2, <1>4, <2>1
<1>8. \A q \in Places :
        \/ kept'.items[q] = kept.items[q]
        \/ Around /\ q = o /\ kept'.items[q] = Rest(kept.items[q])
  <2> HIDE DEF o, Around, Erases
  <2> QED
    BY <1>5, <1>6, <1>7
<1>9. \A q \in Places : kept.items[q] \in Seq(Places)
  BY <1>5
<1>10. \A q, x \in Places : Item(kept', q, x) => Item(kept, q, x)
  <2> SUFFICES ASSUME NEW q \in Places, NEW x \in Places, Item(kept', q, x) PROVE Item(kept, q, x)
    OBVIOUS
  <2>1. Among(x, Rest(kept.items[q])) => Among(x, kept.items[q])
    BY <1>9, AmongRest
  <2> HIDE DEF o, Around
  <2> QED
    BY <1>8, <2>1 DEF Item
<1>11. MembersThere'
  <2> SUFFICES ASSUME NEW q \in Places, NEW s \in Strings
               PROVE  /\ kept'.members[q][s] # Absent => plain'.members[q][s] # Absent
                      /\ plain'.members[q][s] # Gone
                      /\ plain'.members[q][s] # Null
    BY Zenon DEF MembersThere
  <2>1. kept'.members[q][s] = kept.members[q][s] \/ kept'.members[q][s] = Absent
    <3> HIDE DEF o, Around
    <3>1. CASE kept'.members = kept.members
      BY <3>1
    <3>2. ASSUME o \in Places, NEW t \in Strings,
                 kept'.members = [kept.members EXCEPT ![o] = [@ EXCEPT ![t] = Absent]]
          PROVE  kept'.members[q][s] = kept.members[q][s] \/ kept'.members[q][s] = Absent
      BY <1>5, <3>2
    <3> QED
      BY <1>6, <1>7, <3>1, <3>2
  <2> QED
    BY <1>1, <1>3, <2>1 DEF Leavings, MembersThere, Building, SameValues
<1>12. NoneTwice'
  <2> SUFFICES ASSUME NEW q \in Places
               PROVE  \A i, j \in DOMAIN kept'.items[q] : kept'.items[q][i] = kept'.items[q][j] => i = j
    BY Zenon DEF NoneTwice
  <2> DEFINE b == kept.items[q]
             a == kept'.items[q]
  <2>1. b \in Seq(Places) /\ (a = b \/ a = Rest(b)) /\ \A i, j \in DOMAIN b : b[i] = b[j] => i = j
    BY <1>8, <1>9 DEF Leavings, NoneTwice
  <2> HIDE DEF a, b
  <2>2. \A i, j \in DOMAIN a : a[i] = a[j] => i = j
    BY <2>1, NoneTwiceRest
  <2> QED
    BY <2>2 DEF a
<1>13. ASSUME NEW q \in Places, Item(kept', q, c), ~yes PROVE Kind(n) = "object"
  <2> SUFFICES ASSUME Kind(n) = "array" PROVE FALSE
    BY <1>4
  <2>1. Item(kept, q, c) /\ kept.refs[n] = c /\ c # Null /\ Drops(yes)
    <3>1. Item(kept, q, c)
      BY <1>2, <1>10, <1>13
    <3>2. kept.refs[n] = c
      <4>1. Top(kept.refs) # Null
        BY <1>3, <1>13
      <4> QED
        BY <1>4, <4>1
    <3>3. c # Null
      BY <1>2 DEF Places, Null
    <3>4. Drops(yes)
      BY <1>1, Zenon
    <3> QED
      BY <3>1, <3>2, <3>3, <3>4
  <2>2. n > 1 /\ Kind(n - 1) = "array" /\ q = kept.refs[n - 1]
    BY <2>1 DEF OpenItems
  <2>3. n - 1 \in 1 .. n /\ n - 1 \in 1 .. n - 1 /\ (n - 1) + 1 = n
    BY <2>2
  <2>4. q = o /\ Around
    <3> DEFINE r == Rest(kept.refs)
    <3>1. kept.refs \in Seq(Places \union {Null}) /\ kept.refs # <<>>
      <4>1. kept.refs \in Seq(Places \union {Null})
        BY DEF IInv, KeptStacks
      <4> QED
        BY <1>4, <4>1
    <3>2. IsRest(r, kept.refs, Places \union {Null})
      BY <3>1, RestFacts, Zenon
    <3> HIDE DEF r
    <3>3. Len(r) = n - 1 /\ r \in Seq(Places \union {Null})
      BY <1>4, <3>2 DEF IsRest
    <3>4. r # <<>>
      BY <2>2, <3>3
    <3>5. q # Null
      BY DEF Places, Null
    <3>6. o = kept.refs[n - 1]
      BY <1>1, <3>4 DEF r
    <3> QED
      BY <2>2, <3>4, <3>5, <3>6 DEF r
  <2>5. kept'.kind[o] = "array"
    <3>1. kept.kind[q] = "array"
      <4>1. kept.refs[n - 1] # Null /\ n - 1 \in 1 .. Opened
        BY <1>7, <2>3, <2>4
      <4> QED
        BY <1>1, <2>2, <4>1 DEF IInv, StacksAgree, KindsAgree
    <3> QED
      BY <1>2, <1>7, <2>4, <3>1
  <2>6. kept'.items[q] = Rest(kept.items[q])
    <3>1. kept'.items = [kept.items EXCEPT ![o] = Rest(@)]
      BY <1>13, <2>1, <2>4, <2>5 DEF Drops
    <3> HIDE DEF o
    <3> QED
      BY <1>5, <2>4, <3>1
  <2>7. kept.items[q] # <<>> /\ Top(kept.items[q]) = c
    <3>1. n - 1 \in 1 .. Opened - 1 /\ kept.refs[(n - 1) + 1] # Null
      BY <2>1, <2>3
    <3> QED
      BY <2>1, <2>2, <2>3, <3>1 DEF Open, LastItem
  <2>8. ~Among(c, kept'.items[q])
    <3> DEFINE b == kept.items[q]
               a == kept'.items[q]
    <3>1. b \in Seq(Places) /\ a = Rest(b) /\ b # <<>> /\ Top(b) = c /\ \A i, j \in DOMAIN b : b[i] = b[j] => i = j
      BY <1>9, <2>6, <2>7 DEF Leavings, NoneTwice
    <3> HIDE DEF a, b
    <3>2. ~Among(c, a)
      BY <3>1, NoneTwiceRest
    <3> QED
      BY <3>2 DEF a
  <2> QED
    BY <1>13, <2>8 DEF Item
<1>14. DiscardedItems'
  <2> SUFFICES ASSUME NEW q \in Places, NEW x \in Places, Item(kept', q, x), kept'.kind[x] = "discarded"
               PROVE  plain'.kind[x] = "object"
    BY Zenon DEF DiscardedItems
  <2>1. plain'.kind = plain.kind
    BY <1>3 DEF SameValues
  <2>2. CASE x = c /\ ~yes
    BY <1>4, <1>13, <2>1, <2>2
  <2>3. CASE ~(x = c /\ ~yes)
    BY <1>2, <1>10, <2>1, <2>3 DEF Leavings, DiscardedItems
  <2> QED
    BY <2>2, <2>3
<1>15. ASSUME Running' PROVE OpenItems'
  <2> SUFFICES ASSUME NEW i \in 1 .. n - 1, NEW q \in Places,
                      kept'.refs[i] # Null, Item(kept', q, kept'.refs[i])
               PROVE  i > 1 /\ Kind(i - 1)' = "array" /\ q = kept'.refs[i - 1]
    BY <1>1, <1>15 DEF OpenItems
  <2>1. i \in 1 .. n /\ (i > 1 => i - 1 \in 1 .. n - 1)
    OBVIOUS
  <2>2. kept'.refs[i] = kept.refs[i] /\ kept.refs[i] \in Places
    BY <1>1, <1>4, <2>1
  <2>3. Item(kept, q, kept.refs[i])
    BY <1>10, <2>2
  <2>4. i > 1 /\ Kind(i - 1) = "array" /\ q = kept.refs[i - 1]
    BY <2>1, <2>2, <2>3 DEF OpenItems
  <2> QED
    BY <1>1, <1>15, <2>1, <2>4
<1> QED
  BY <1>11, <1>12, <1>14, <1>15 DEF Leavings

LEMMA KeyLeaves ==
  ASSUME IInv, KInv, Leavings, OpenItems, NEW s \in Strings, Key(s)
  PROVE  Leavings' /\ OpenItems'
<1> PICK yes \in BOOLEAN :
      /\ want \in {"first_key", "key"}
      /\ want' = IF want = "key" THEN "name_separator" ELSE "first_name_separator"
      /\ plain' = Keyed(plain, s)
      /\ kept' = KeyedIf(kept, s, yes)
      /\ UNCHANGED states
  BY Zenon DEF Key
<1>1. Control /\ Shape(plain) /\ Shape(kept)
  BY DEF IInv, PlainStacks, KeptStacks
<1>2. /\ Running /\ ~MemberNext /\ MemberNext'
      /\ Opened \in Nat \ {0} /\ Opened' = Opened
      /\ \A i \in 1 .. Opened : Kind(i)' = Kind(i)
  BY <1>1, OpenedAfterKey
<1> DEFINE c == Top(plain.refs)
           v == IF plain.members[c][s] = Absent THEN Null ELSE plain.members[c][s]
<1>3. c \in Places /\ (Top(kept.refs) # Null => Top(kept.refs) = c)
  BY <1>2, Innermost
<1>4. /\ plain'.kind = plain.kind
      /\ plain'.members = [plain.members EXCEPT ![c] = [@ EXCEPT ![s] = v]]
  <2>1. WasKeyed(plain, s, plain')
    BY <1>1, KeyedValues, Zenon
  <2> QED
    BY <2>1 DEF WasKeyed
<1>5. plain'.element = <<c, s>>
  BY <1>1, KeyedFacts
<1>6. /\ kept'.kind = kept.kind /\ kept'.items = kept.items
      /\ \/ kept'.members = kept.members
         \/ kept'.members = [kept.members EXCEPT ![c] = [@ EXCEPT ![s] = Gone]]
  <2>1. WasKeyedIf(kept, s, kept')
    BY <1>1, KeyedIfValues, Zenon
  <2> QED
    BY <1>3, <2>1 DEF WasKeyedIf
<1>7. kept'.refs = kept.refs
  BY <1>1, KeyedIfFacts
<1>8. /\ plain.members \in [Places -> [Strings -> Places \union Marks]]
      /\ kept.members \in [Places -> [Strings -> Places \union Marks]]
  BY <1>2 DEF KInv, Running, Contents, ValuesOK
<1>9. v # Absent /\ v # Gone
  BY <1>3 DEF Leavings, MembersThere, Null, Absent, Gone
<1> HIDE DEF c, v
<1>10. MembersThere'
  <2> SUFFICES ASSUME NEW q \in Places, NEW t \in Strings
               PROVE  /\ kept'.members[q][t] # Absent => plain'.members[q][t] # Absent
                      /\ plain'.members[q][t] # Gone
                      /\ plain'.members[q][t] = Null => Building(q, t)'
    BY Zenon DEF MembersThere
  <2>1. CASE q = c /\ t = s
    <3>1. plain'.members[q][t] = v
      BY <1>3, <1>4, <1>8, <2>1
    <3>2. Building(q, t)'
      BY <1>2, <1>5, <2>1 DEF Building
    <3> QED
      BY <1>9, <3>1, <3>2
  <2>2. CASE ~(q = c /\ t = s)
    <3>1. plain'.members[q][t] = plain.members[q][t]
      BY <1>4, <1>8, <2>2
    <3>2. kept'.members[q][t] = kept.members[q][t]
      BY <1>6, <1>8, <2>2
    <3>3. ~Building(q, t)
      BY <1>2 DEF Building
    <3> QED
      BY <3>1, <3>2, <3>3 DEF Leavings, MembersThere
  <2> QED
    BY <2>1, <2>2
<1>11. NoneTwice' /\ DiscardedItems'
  BY <1>4, <1>6 DEF Leavings, NoneTwice, DiscardedItems, Item
<1>12. OpenItems'
  <2> SUFFICES ASSUME NEW i \in 1 .. Opened, NEW q \in Places,
                      kept.refs[i] # Null, Item(kept, q, kept.refs[i])
               PROVE  i > 1 /\ Kind(i - 1)' = "array" /\ q = kept.refs[i - 1]
    BY <1>2, <1>6, <1>7 DEF OpenItems, Item
  <2>1. i > 1 /\ Kind(i - 1) = "array" /\ q = kept.refs[i - 1]
    BY DEF OpenItems
  <2>2. i - 1 \in 1 .. Opened
    BY <1>2, <2>1
  <2> QED
    BY <1>2, <2>1, <2>2
<1> QED
  BY <1>10, <1>11, <1>12 DEF Leavings

LEMMA ValueLeaves ==
  ASSUME IInv, KInv, Leavings, OpenItems, NEW t \in Strings \union Scalars, Value(t)
  PROVE  Leavings' /\ (Running' => OpenItems')
<1> PICK yes \in BOOLEAN :
      /\ want \in {"value", "first_item"}
      /\ Top(kept.keep) \/ yes
      /\ Read(t)
      /\ states' = IF want = "first_item" THEN Append(states, "array") ELSE states
      /\ want' = After(states')
      /\ plain' = Handled(plain, Here, "scalar")
      /\ kept' = HandledIf(kept, Here, "scalar", yes)
      /\ Refuse(Here, yes)
  BY Zenon DEF Value
<1>1. Running /\ Contents /\ Answers /\ Open
  BY DEF KInv, Running
<1>2. t \in Tokens /\ Control /\ Shape(plain) /\ Shape(kept)
  BY DEF Tokens, IInv, PlainStacks, KeptStacks
<1>3. /\ Here \in Places /\ Len(tokens') = Here /\ Here = Len(tokens) + 1 /\ Len(tokens) \in Nat
      /\ ~MemberNext' /\ (Running' => Opened' = Opened /\ \A i \in 1 .. Opened : Kind(i)' = Kind(i))
  BY <1>2, ReadFacts, OpenedAfterValue
<1>4. Placed(plain, plain', Here, "scalar")
  BY <1>2, HandledPlaces, Zenon
<1>5. Taken(kept, kept', Here, "scalar", Top(kept.keep) /\ yes)
  BY <1>2, HandledIfTakes, Zenon
<1>6. /\ Opened \in Nat /\ (kept.refs = <<>> <=> Opened = 0) /\ Top(kept.keep) = kept.keep[Opened + 1]
      /\ (Opened > 0 => Top(kept.refs) = kept.refs[Opened])
      /\ \A i \in 1 .. Opened : /\ plain.refs[i] \in Places /\ plain.refs[i] <= Len(tokens)
                                /\ kept.refs[i] \in {Null, plain.refs[i]}
  BY <1>1, Innermost
<1>7. ~Top(kept.keep) => Refuses(kept)
  BY <1>1, <1>6 DEF Refuses, Open, NullsUnmade
<1>8. Taken(kept, kept', Here, "scalar", yes)
  BY <1>5, <1>7 DEF Taken
<1>9. Placing("scalar", yes)
  BY <1>3, <1>4, <1>8 DEF Placing, Refuse
<1>10. /\ Leavings'
       /\ \A q, x \in Places : Item(kept', q, x) =>
            \/ x # Here /\ Item(kept, q, x)
            \/ x = Here /\ Opened > 0 /\ Kind(Opened) = "array" /\ q = kept.refs[Opened]
  BY <1>1, <1>9, PlacingLeaves
<1>11. kept'.refs = kept.refs
  <2>1. WasHandledIf(kept, Here, "scalar", kept')
    BY <1>2, HandledIfFacts, Zenon
  <2> QED
    BY <2>1 DEF WasHandledIf, SameStacks
<1>12. ASSUME Running' PROVE OpenItems'
  <2> SUFFICES ASSUME NEW i \in 1 .. Opened, NEW q \in Places,
                      kept.refs[i] # Null, Item(kept', q, kept.refs[i])
               PROVE  i > 1 /\ Kind(i - 1)' = "array" /\ q = kept.refs[i - 1]
    BY <1>3, <1>11, <1>12 DEF OpenItems
  <2>1. kept.refs[i] \in Places /\ kept.refs[i] # Here
    BY <1>3, <1>6 DEF Places
  <2>2. Item(kept, q, kept.refs[i])
    BY <1>10, <2>1
  <2>3. i > 1 /\ Kind(i - 1) = "array" /\ q = kept.refs[i - 1]
    BY <2>2 DEF OpenItems
  <2>4. i - 1 \in 1 .. Opened
    BY <1>6, <2>3
  <2> QED
    BY <1>3, <1>12, <2>3, <2>4
<1> QED
  BY <1>10, <1>12

LEMMA BeginLeaves ==
  ASSUME IInv, KInv, Leavings, OpenItems, NEW t \in Tokens, NEW kind, NEW next,
         \/ kind = "array" /\ next = "first_item"
         \/ kind = "object" /\ next = "first_key",
         Begin(t, kind, next)
  PROVE  Leavings' /\ OpenItems'
<1> PICK yes \in BOOLEAN :
      /\ want \in {"value", "first_item"}
      /\ Read(t)
      /\ states' = IF want = "first_item" THEN Append(states, "array") ELSE states
      /\ want' = next
      /\ plain' = Started(plain, Here, kind)
      /\ kept' = StartedIf(kept, Here, kind, yes)
      /\ Refuse(Here, yes)
  BY Zenon DEF Begin
<1>1. Running /\ Contents /\ Answers /\ Open
  BY DEF KInv, Running
<1>2. /\ Control /\ Shape(plain) /\ Shape(kept) /\ kept.keep \in Seq(BOOLEAN)
      /\ kept.refs \in Seq(Places \union {Null})
  BY DEF IInv, PlainStacks, KeptStacks
<1>3. /\ Here \in Places /\ Here # Null /\ Len(tokens') = Here /\ Here = Len(tokens) + 1 /\ Len(tokens) \in Nat
      /\ ~MemberNext' /\ Opened' = Opened + 1
      /\ \A i \in 1 .. Opened : Kind(i)' = Kind(i)
  BY <1>2, ReadFacts, OpenedAfterBegin
<1>4. Placed(plain, plain', Here, kind)
  BY <1>2, StartedPlaces, Zenon
<1>5. Taken(kept, kept', Here, kind, yes) /\ kept'.refs = Append(kept.refs, IF IsTaken(yes) THEN Here ELSE Null)
  BY <1>2, StartedIfTakes, Zenon DEF IsTaken
<1>6. Placing(kind, yes)
  BY <1>3, <1>4, <1>5 DEF Placing, Refuse
<1>7. kind \in {"scalar", "array", "object"}
  OBVIOUS
<1>8. /\ Leavings'
      /\ \A q, x \in Places : Item(kept', q, x) =>
           \/ x # Here /\ Item(kept, q, x)
           \/ x = Here /\ Opened > 0 /\ Kind(Opened) = "array" /\ q = kept.refs[Opened]
  BY <1>1, <1>6, <1>7, PlacingLeaves
<1>9. /\ Opened \in Nat /\ Len(kept.refs) = Opened
      /\ \A i \in 1 .. Opened : /\ plain.refs[i] \in Places /\ plain.refs[i] <= Len(tokens)
                                /\ kept.refs[i] \in {Null, plain.refs[i]}
  BY <1>1, Innermost
<1> PICK n \in Nat : n = Opened
  BY <1>9
<1> DEFINE made == IF IsTaken(yes) THEN Here ELSE Null
<1>10. kept'.refs[n + 1] = made /\ \A i \in 1 .. n : kept'.refs[i] = kept.refs[i]
  <2>1. made \in Places \union {Null} /\ kept'.refs = Append(kept.refs, made)
    BY <1>3, <1>5
  <2> HIDE DEF made
  <2> QED
    BY <1>2, <1>9, <2>1, Stacks
<1>11. made \in {Here, Null}
  OBVIOUS
<1> HIDE DEF made
<1>12. OpenItems'
  <2> SUFFICES ASSUME NEW i \in 1 .. n + 1, NEW q \in Places,
                      kept'.refs[i] # Null, Item(kept', q, kept'.refs[i])
               PROVE  i > 1 /\ Kind(i - 1)' = "array" /\ q = kept'.refs[i - 1]
    BY <1>3 DEF OpenItems
  <2>1. CASE i = n + 1
    <3>1. kept'.refs[i] = Here
      BY <1>10, <1>11, <2>1
    <3>2. n > 0 /\ Kind(n) = "array" /\ q = kept.refs[n]
      BY <1>3, <1>8, <3>1
    <3>3. i - 1 = n /\ i > 1 /\ n \in 1 .. n
      BY <2>1, <3>2
    <3> QED
      BY <1>3, <1>10, <3>2, <3>3
  <2>2. CASE i # n + 1
    <3>1. i \in 1 .. n
      BY <2>2
    <3>2. kept'.refs[i] = kept.refs[i] /\ kept.refs[i] \in Places /\ kept.refs[i] # Here
      BY <1>3, <1>9, <1>10, <3>1 DEF Places
    <3>3. Item(kept, q, kept.refs[i])
      BY <1>8, <3>2
    <3>4. i > 1 /\ Kind(i - 1) = "array" /\ q = kept.refs[i - 1]
      BY <3>1, <3>2, <3>3 DEF OpenItems
    <3>5. i - 1 \in 1 .. n
      BY <3>1, <3>4
    <3> QED
      BY <1>3, <1>10, <3>4, <3>5
  <2> QED
    BY <2>1, <2>2
<1> QED
  BY <1>8, <1>12

LEMMA QuietLeaves ==
  ASSUME IInv, Running, Leavings, OpenItems, UNCHANGED <<plain, kept>>, MemberNext' <=> MemberNext,
         Running' => Opened' = Opened /\ \A i \in 1 .. Opened : Kind(i)' = Kind(i)
  PROVE  Leavings' /\ (Running' => OpenItems')
<1>1. Leavings'
  BY DEF Leavings, MembersThere, NoneTwice, DiscardedItems, Item, Building
<1>2. ASSUME Running' PROVE OpenItems'
  <2> SUFFICES ASSUME NEW i \in 1 .. Opened, NEW q \in Places,
                      kept.refs[i] # Null, Item(kept, q, kept.refs[i])
               PROVE  i > 1 /\ Kind(i - 1)' = "array" /\ q = kept.refs[i - 1]
    BY <1>2 DEF OpenItems, Item
  <2>1. i > 1 /\ Kind(i - 1) = "array" /\ q = kept.refs[i - 1]
    BY DEF OpenItems
  <2>2. i - 1 \in 1 .. Opened
    BY <2>1, Innermost
  <2> QED
    BY <1>2, <2>1, <2>2
<1> QED
  BY <1>1, <1>2

LEMMA NextKeepsLInv == IInv /\ KInv /\ LInv /\ [Next]_vars => LInv'
<1> SUFFICES ASSUME IInv, KInv, LInv, [Next]_vars PROVE LInv'
  OBVIOUS
<1>1. ASSUME Running PROVE Contents /\ Answers /\ Open /\ Leavings /\ OpenItems
  BY <1>1 DEF KInv, LInv, Running
<1>2. Leavings' /\ (Running' => OpenItems') => LInv'
  BY DEF LInv
<1>3. CASE \E t \in Strings \union Scalars : Value(t)
  <2>1. Running
    BY <1>3 DEF Value, Running
  <2> QED
    BY <1>1, <1>2, <1>3, <2>1, ValueLeaves
<1>4. CASE BeginArray \/ BeginObject
  <2>1. "[" \in Tokens /\ "{" \in Tokens
    BY DEF Tokens, Punctuation
  <2>2. Running
    BY <1>4 DEF BeginArray, BeginObject, Begin, Running
  <2> QED
    BY <1>1, <1>2, <1>4, <2>1, <2>2, BeginLeaves DEF BeginArray, BeginObject
<1>5. CASE EndArray \/ EndObject
  <2>1. Running
    BY <1>5 DEF EndArray, EndObject, Running
  <2> QED
    BY <1>1, <1>2, <1>5, <2>1, EndArrayDrops, EndObjectEnds, EndingLeaves
<1>6. CASE \E s \in Strings : Key(s)
  <2>1. Running
    BY <1>6 DEF Key, Running
  <2> QED
    BY <1>1, <1>2, <1>6, <2>1, KeyLeaves
<1>7. CASE NameSeparator
  BY <1>1, <1>2, <1>7, AfterNameSeparator, QuietLeaves
<1>8. CASE ValueSeparator
  <2>1. UNCHANGED <<plain, kept, states>> /\ want = "separator"
        /\ want' = IF Top(states) = "array" THEN "value" ELSE "key"
    BY <1>8 DEF ValueSeparator, AfterComma
  <2>2. /\ Running /\ ~MemberNext /\ ~MemberNext' /\ Opened' = Opened
        /\ \A i \in 1 .. Opened : Kind(i)' = Kind(i)
    BY <2>1 DEF Running, Opened, MemberNext, Kind
  <2> QED
    BY <1>1, <1>2, <2>1, <2>2, QuietLeaves
<1>9. CASE EndOfInput
  <2>1. UNCHANGED <<plain, kept>> /\ Running /\ ~MemberNext /\ ~MemberNext' /\ ~Running'
    BY <1>9 DEF EndOfInput, Running, MemberNext
  <2> QED
    BY <1>1, <1>2, <2>1, QuietLeaves
<1>10. CASE \E t \in Tokens : ParseError(t)
  BY <1>10 DEF ParseError, LInv
<1>11. CASE UNCHANGED vars
  <2>1. Leavings => Leavings'
    BY <1>11 DEF vars, Leavings, MembersThere, NoneTwice, DiscardedItems, Item, Building, MemberNext
  <2>2. Running' = Running /\ (OpenItems => OpenItems')
    BY <1>11 DEF vars, Running, OpenItems, Item, Opened, Kind
  <2> QED
    BY <1>11, <2>1, <2>2 DEF vars, LInv
<1> QED
  BY <1>3, <1>4, <1>5, <1>6, <1>7, <1>8, <1>9, <1>10, <1>11 DEF Next

LEMMA InitLInv == Init => LInv
<1> SUFFICES ASSUME Init PROVE LInv
  OBVIOUS
<1>1. plain = NewDom /\ kept = NewDom /\ states = <<>> /\ want = "value"
  BY DEF Init
<1>2. \A q \in Places : NewDom.items[q] = <<>> /\ \A s \in Strings : NewDom.members[q][s] = Absent
  BY DEF NewDom
<1>3. MembersThere
  BY <1>1, <1>2 DEF MembersThere, Absent, Gone, Null
<1>4. NoneTwice /\ DiscardedItems
  BY <1>1, <1>2 DEF NoneTwice, DiscardedItems, Item, Among
<1>5. Opened = 0
  BY <1>1 DEF Opened
<1>6. OpenItems
  BY <1>5 DEF OpenItems
<1> QED
  BY <1>3, <1>4, <1>6 DEF LInv, Leavings

\* Of what is in the result, only these values are discarded.
LEMMA WhatIsLeft ==
  ASSUME Contents, Leavings, ~MemberNext, NEW p \in Places, Held(kept, p), kept.kind[p] # "discarded"
  PROVE  Leftover(p)
<1>1. /\ kept.items[p] \in Seq(Places)
      /\ \A s \in Strings : plain.members[p][s] \in Places \union Marks
  BY DEF Contents, ValuesOK
<1>2. \A x \in Places : x # Gone
  BY LengthAssumption DEF Places, Gone
<1>3. ASSUME NEW i \in DOMAIN kept.items[p], Discarded(kept, kept.items[p][i])
      PROVE  plain.kind[kept.items[p][i]] = "object"
  <2> DEFINE x == kept.items[p][i]
  <2>1. x \in Places
    BY <1>1
  <2>2. kept.kind[x] = "discarded"
    BY <1>2, <1>3, <2>1 DEF Discarded
  <2>3. Item(kept, p, x)
    BY DEF Item, Among
  <2> QED
    BY <2>1, <2>2, <2>3 DEF Leavings, DiscardedItems
<1>4. ASSUME NEW s \in Strings, Discarded(kept, kept.members[p][s])
      PROVE  plain.members[p][s] \in refused
  <2>1. kept.members[p][s] # Absent
    BY <1>4, LengthAssumption DEF Discarded, Absent, Gone, Places
  <2>2. plain.members[p][s] \in Places
    BY <1>1, <2>1 DEF Leavings, MembersThere, Building, Marks
  <2>3. kept.kind[p] # "scalar"
    <3>1. plain.kind[p] # "scalar"
      BY <2>1, <2>2, LengthAssumption DEF Contents, ScalarsEmpty, Places, Absent
    <3> QED
      BY <3>1 DEF Contents, Sound
  <2>4. ASSUME plain.members[p][s] \notin refused PROVE FALSE
    <3>1. kept.members[p][s] = plain.members[p][s]
      BY <2>2, <2>3, <2>4 DEF Contents, MembersKept, Building
    <3>2. kept.kind[plain.members[p][s]] = "discarded"
      BY <1>2, <1>4, <2>2, <3>1 DEF Discarded
    <3> QED
      BY <2>2, <2>4, <3>2 DEF Contents, Sound
  <2> QED
    BY <2>4
<1> QED
  BY <1>3, <1>4 DEF Leftover

-----------------------------------------------------------------------------
\* What can be reached

\* What is so of a place if it is so of all before it is so of every place.
LEMMA PlaceByPlace ==
  ASSUME NEW A \in SUBSET Places, NEW B, \A p \in A : (\A q \in A : q < p => q \in B) => p \in B
  PROVE  A \subseteq B
<1> SUFFICES ASSUME A \ B # {} PROVE FALSE
  OBVIOUS
<1>1. A \ B \in SUBSET Nat
  <2>1. Places \subseteq Nat
    BY LengthAssumption DEF Places
  <2> QED
    BY <2>1
<1>2. PICK m \in A \ B : \A n \in A \ B : m <= n
  BY <1>1, LeastExists
<1>3. \A q \in A : q < m => q \in B
  <2> SUFFICES ASSUME NEW q \in A, q < m, q \notin B PROVE FALSE
    OBVIOUS
  <2> QED
    BY <1>1, <1>2
<1> QED
  BY <1>2, <1>3

\* One of OK that is the root, or that is linked from one before it.
Reached(f, p, OK, root, H) == p \in OK /\ (p = root \/ \E q \in 1 .. p - 1 : <<q, p>> \in H /\ f[q])
Reaches(f, n, OK, root, H) == f = [p \in 1 .. n |-> Reached(f, p, OK, root, H)]

LEMMA ReachExists ==
  ASSUME NEW OK, NEW root, NEW H
  PROVE  \A n \in Nat : \E f : Reaches(f, n, OK, root, H)
<1> DEFINE Missing == {n \in Nat : ~\E f : Reaches(f, n, OK, root, H)}
<1> SUFFICES ASSUME Missing # {} PROVE FALSE
  OBVIOUS
<1>1. PICK m \in Missing : \A n \in Missing : m <= n
  <2>1. Missing \in SUBSET Nat
    OBVIOUS
  <2> HIDE DEF Missing
  <2> QED
    BY <2>1, LeastExists
<1>2. m # 0
  <2> DEFINE f == [p \in 1 .. 0 |-> TRUE]
             g == [p \in 1 .. 0 |-> Reached(f, p, OK, root, H)]
  <2>1. f = g
    OBVIOUS
  <2>2. Reaches(f, 0, OK, root, H)
    BY <2>1 DEF Reaches
  <2> QED
    BY <1>1, <2>2
<1>3. m \in Nat \ {0} /\ m - 1 \in Nat /\ ~(m <= m - 1)
  BY <1>1, <1>2
<1>4. PICK f : Reaches(f, m - 1, OK, root, H)
  BY <1>1, <1>3
<1> DEFINE g == [p \in 1 .. m |-> IF p = m THEN Reached(f, m, OK, root, H) ELSE f[p]]
           h == [p \in 1 .. m |-> Reached(g, p, OK, root, H)]
<1>5. \A p \in 1 .. m - 1 : g[p] = f[p]
  BY <1>3
<1>6. \A p \in 1 .. m : Reached(f, p, OK, root, H) = Reached(g, p, OK, root, H)
  <2> TAKE p \in 1 .. m
  <2>1. \A q \in 1 .. p - 1 : q \in 1 .. m - 1
    BY <1>3
  <2>2. \A q \in 1 .. p - 1 : g[q] = f[q]
    BY <1>5, <2>1
  <2> HIDE DEF g
  <2>3. (\E q \in 1 .. p - 1 : <<q, p>> \in H /\ f[q]) = (\E q \in 1 .. p - 1 : <<q, p>> \in H /\ g[q])
    BY <2>2
  <2> QED
    BY <2>3, Zenon DEF Reached
<1>7. \A p \in 1 .. m - 1 : f[p] = Reached(f, p, OK, root, H)
  BY <1>4, Zenon DEF Reaches
<1>8. \A p \in 1 .. m : g[p] = h[p]
  <2> TAKE p \in 1 .. m
  <2>1. h[p] = Reached(g, p, OK, root, H)
    BY Zenon
  <2>2. CASE p = m
    <3>1. g[p] = Reached(f, m, OK, root, H)
      BY <2>2, Zenon
    <3> QED
      BY <1>6, <2>1, <2>2, <3>1, Zenon
  <2>3. CASE p # m
    <3>1. p \in 1 .. m - 1
      BY <1>3, <2>3
    <3> HIDE DEF g, h
    <3> QED
      BY <1>5, <1>6, <1>7, <2>1, <3>1, Zenon
  <2> QED
    BY <2>2, <2>3
<1>9. g = h
  BY <1>8, Zenon
<1>10. Reaches(g, m, OK, root, H)
  BY <1>9, Zenon DEF Reaches
<1> QED
  BY <1>1, <1>10

LEMMA ChosenReach ==
  ASSUME NEW OK, NEW root, NEW H,
         NEW r, r = CHOOSE f : Reaches(f, MaxTokens, OK, root, H)
  PROVE  \A p \in Places : r[p] <=> Reached(r, p, OK, root, H)
<1>1. Reaches(r, MaxTokens, OK, root, H)
  BY ReachExists, LengthAssumption
<1> QED
  BY <1>1, Zenon DEF Reaches, Places

Links(d) == {e \in Places \X Places : Holds(d, e[1], e[2])}

\* The equations that In and Wanted are solutions of.
LEMMA InSolves ==
  ASSUME NEW d
  PROVE  /\ In(d) \subseteq Places
         /\ \A p \in Places :
              p \in In(d) <=> /\ d.kind[p] # "discarded"
                              /\ p = d.root \/ \E q \in 1 .. p - 1 : Holds(d, q, p) /\ q \in In(d)
<1> DEFINE OK == {p \in Places : d.kind[p] # "discarded"}
           code(f) == [p \in Places |-> /\ d.kind[p] # "discarded"
                                        /\ p = d.root \/ \E q \in 1 .. p - 1 : Holds(d, q, p) /\ f[q]]
           r == CHOOSE f : f = code(f)
<1>1. In(d) = {p \in Places : r[p]}
  BY Zenon DEF In
<1>2. \A p \in Places : \A q \in 1 .. p - 1 : q \in Places
  BY LengthAssumption DEF Places
<1>3. \A f : \A p \in Places : Reached(f, p, OK, d.root, Links(d)) =
         (/\ d.kind[p] # "discarded"
          /\ p = d.root \/ \E q \in 1 .. p - 1 : Holds(d, q, p) /\ f[q])
  <2> TAKE f
  <2> TAKE p \in Places
  <2>1. \A q \in 1 .. p - 1 : <<q, p>> \in Links(d) <=> Holds(d, q, p)
    BY <1>2 DEF Links
  <2> QED
    BY <2>1 DEF Reached
<1>4. \A f : f = code(f) <=> Reaches(f, MaxTokens, OK, d.root, Links(d))
  <2> TAKE f
  <2>1. code(f) = [p \in 1 .. MaxTokens |-> Reached(f, p, OK, d.root, Links(d))]
    BY <1>3, Zenon DEF Places
  <2> HIDE DEF code
  <2> QED
    BY <2>1, Zenon DEF Reaches
<1> HIDE DEF OK
<1>5. r = CHOOSE f : Reaches(f, MaxTokens, OK, d.root, Links(d))
  <2> HIDE DEF code
  <2> QED
    BY <1>4
<1> HIDE DEF r
<1>6. \A p \in Places : r[p] <=> Reached(r, p, OK, d.root, Links(d))
  BY <1>5, ChosenReach
<1>7. \A p \in Places : r[p] <=> p \in In(d)
  BY <1>1, Zenon
<1>8. \A p \in Places : \A q \in 1 .. p - 1 : r[q] <=> q \in In(d)
  BY <1>2, <1>7, Zenon
<1>9. \A p \in Places :
        p \in In(d) <=> /\ d.kind[p] # "discarded"
                        /\ p = d.root \/ \E q \in 1 .. p - 1 : Holds(d, q, p) /\ q \in In(d)
  BY <1>3, <1>6, <1>7, <1>8, Zenon
<1> QED
  BY <1>1, <1>9, Zenon

LEMMA WantedSolves ==
  /\ Wanted \subseteq Places
  /\ \A p \in Places :
       p \in Wanted <=> /\ p \notin refused
                        /\ p = plain.root \/ \E q \in 1 .. p - 1 : Holds(plain, q, p) /\ q \in Wanted
<1> DEFINE OK == {p \in Places : p \notin refused}
           code(f) == [p \in Places |-> /\ p \notin refused
                                        /\ p = plain.root \/ \E q \in 1 .. p - 1 : Holds(plain, q, p) /\ f[q]]
           r == CHOOSE f : f = code(f)
<1>1. Wanted = {p \in Places : r[p]}
  BY Zenon DEF Wanted
<1>2. \A p \in Places : \A q \in 1 .. p - 1 : q \in Places
  BY LengthAssumption DEF Places
<1>3. \A f : \A p \in Places : Reached(f, p, OK, plain.root, Links(plain)) =
         (/\ p \notin refused
          /\ p = plain.root \/ \E q \in 1 .. p - 1 : Holds(plain, q, p) /\ f[q])
  <2> TAKE f
  <2> TAKE p \in Places
  <2>1. \A q \in 1 .. p - 1 : <<q, p>> \in Links(plain) <=> Holds(plain, q, p)
    BY <1>2 DEF Links
  <2> QED
    BY <2>1 DEF Reached
<1>4. \A f : f = code(f) <=> Reaches(f, MaxTokens, OK, plain.root, Links(plain))
  <2> TAKE f
  <2>1. code(f) = [p \in 1 .. MaxTokens |-> Reached(f, p, OK, plain.root, Links(plain))]
    BY <1>3, Zenon DEF Places
  <2> HIDE DEF code
  <2> QED
    BY <2>1, Zenon DEF Reaches
<1> HIDE DEF OK
<1>5. r = CHOOSE f : Reaches(f, MaxTokens, OK, plain.root, Links(plain))
  <2> HIDE DEF code
  <2> QED
    BY <1>4
<1> HIDE DEF r
<1>6. \A p \in Places : r[p] <=> Reached(r, p, OK, plain.root, Links(plain))
  BY <1>5, ChosenReach
<1>7. \A p \in Places : r[p] <=> p \in Wanted
  BY <1>1, Zenon
<1>8. \A p \in Places : \A q \in 1 .. p - 1 : r[q] <=> q \in Wanted
  BY <1>2, <1>7, Zenon
<1>9. \A p \in Places : p \in Wanted <=>
        /\ p \notin refused
        /\ p = plain.root \/ \E q \in 1 .. p - 1 : Holds(plain, q, p) /\ q \in Wanted
  BY <1>3, <1>6, <1>7, <1>8, Zenon
<1> QED
  BY <1>1, <1>9, Zenon

\* What is wanted is in both documents, place by place from the root, and what is
\* in both is wanted, as it has one parent.
LEMMA KeptWhenWanted ==
  ASSUME Contents, ~MemberNext
  PROVE  /\ In(kept) \intersect refused = {}
         /\ In(kept) \intersect In(plain) = Wanted
<1> DEFINE K == In(kept)
           P == In(plain)
           W == Wanted
<1>1. /\ K \subseteq Places
      /\ \A p \in Places :
           p \in K <=> /\ kept.kind[p] # "discarded"
                       /\ p = kept.root \/ \E q \in 1 .. p - 1 : Holds(kept, q, p) /\ q \in K
  BY InSolves, Zenon
<1>2. /\ P \subseteq Places
      /\ \A p \in Places :
           p \in P <=> /\ plain.kind[p] # "discarded"
                       /\ p = plain.root \/ \E q \in 1 .. p - 1 : Holds(plain, q, p) /\ q \in P
  BY InSolves, Zenon
<1>3. /\ W \subseteq Places
      /\ \A p \in Places :
           p \in W <=> /\ p \notin refused
                       /\ p = plain.root \/ \E q \in 1 .. p - 1 : Holds(plain, q, p) /\ q \in W
  BY WantedSolves, Zenon
<1> HIDE DEF K, P, W
<1>4. \A p \in K : p \in Places /\ Held(kept, p) /\ kept.kind[p] # "discarded" /\ p \notin refused
  <2> SUFFICES ASSUME NEW p \in K PROVE p \in Places /\ Held(kept, p) /\ kept.kind[p] # "discarded" /\ p \notin refused
    OBVIOUS
  <2>1. p \in Places /\ kept.kind[p] # "discarded" /\ Held(kept, p)
    BY <1>1 DEF Held
  <2> QED
    BY <2>1 DEF Contents, Sound
<1>5. \A p, q \in Places : q < p => q \in 1 .. p - 1
  BY LengthAssumption DEF Places
<1>6. \A p \in Places : \A q \in 1 .. p - 1 : q \in Places /\ q < p
  BY LengthAssumption DEF Places
<1>7. \A p, q \in Places : Holds(plain, q, p) => plain.kind[q] # "scalar"
  <2> SUFFICES ASSUME NEW p \in Places, NEW q \in Places, Holds(plain, q, p), plain.kind[q] = "scalar"
               PROVE  FALSE
    OBVIOUS
  <2>1. plain.items[q] = <<>> /\ \A s \in Strings : plain.members[q][s] = Absent
    BY DEF Contents, ScalarsEmpty
  <2>2. p # Absent
    BY LengthAssumption DEF Places, Absent
  <2> QED
    BY <2>1, <2>2 DEF Holds
<1>8. W \subseteq P
  <2> SUFFICES ASSUME NEW p \in W, \A q \in W : q < p => q \in P PROVE p \in P
    BY <1>3, PlaceByPlace
  <2>1. p \in Places /\ plain.kind[p] # "discarded"
    BY <1>3 DEF Contents, Sound
  <2> QED
    BY <1>2, <1>3, <1>6, <2>1
<1>9. W \subseteq K
  <2> SUFFICES ASSUME NEW p \in W, \A q \in W : q < p => q \in K PROVE p \in K
    BY <1>3, PlaceByPlace
  <2>1. p \in Places /\ p \notin refused
    BY <1>3
  <2>2. kept.kind[p] # "discarded"
    BY <2>1 DEF Contents, Sound
  <2>3. CASE p = plain.root
    BY <1>1, <2>1, <2>2, <2>3 DEF Contents, RootKept
  <2>4. ASSUME NEW q \in 1 .. p - 1, Holds(plain, q, p), q \in W PROVE p \in K
    <3>1. q \in Places /\ q \in K /\ plain.kind[q] # "scalar"
      BY <1>6, <1>7, <2>1, <2>4
    <3>2. kept.kind[q] = plain.kind[q]
      BY <1>4, <3>1 DEF Contents, Sound
    <3>3. CASE Item(plain, q, p)
      <4>1. Item(kept, q, p)
        BY <2>1, <3>1, <3>2, <3>3 DEF Contents, ItemsKept
      <4> QED
        BY <1>1, <2>1, <2>2, <3>1, <4>1, HoldsWhat
    <3>4. CASE Member(plain, q, p)
      <4>1. PICK s \in Strings : plain.members[q][s] = p
        BY <3>4 DEF Member
      <4>2. ~Building(q, s)
        BY DEF Building
      <4>3. kept.members[q][s] = p
        BY <2>1, <3>1, <3>2, <4>1, <4>2 DEF Contents, MembersKept
      <4> QED
        BY <1>1, <2>1, <2>2, <3>1, <4>3 DEF Holds
    <3> QED
      BY <2>4, <3>3, <3>4, HoldsWhat
  <2> QED
    BY <1>3, <2>1, <2>3, <2>4
<1>10. K \intersect P \subseteq W
  <2> SUFFICES ASSUME NEW p \in K \intersect P, \A q \in K \intersect P : q < p => q \in W PROVE p \in W
    <3>1. K \intersect P \in SUBSET Places
      BY <1>1
    <3> QED
      BY <3>1, PlaceByPlace
  <2>1. p \in Places /\ p \notin refused
    BY <1>4
  <2>2. CASE p = plain.root
    BY <1>3, <2>1, <2>2
  <2>3. ASSUME NEW q \in 1 .. p - 1, Holds(plain, q, p), q \in P PROVE p \in W
    <3>1. q \in Places /\ q < p
      BY <1>6, <2>1
    <3>2. p # kept.root /\ \A r \in Places : Holds(kept, r, p) => q = r
      BY <2>1, <2>3, <3>1 DEF Contents, OneParent
    <3>3. q \in K
      BY <1>1, <1>6, <2>1, <3>2
    <3> QED
      BY <1>3, <2>1, <2>3, <3>1, <3>3
  <2> QED
    BY <1>2, <2>1, <2>2, <2>3
<1>11. K \intersect refused = {} /\ K \intersect P = W
  BY <1>4, <1>8, <1>9, <1>10
<1> QED
  BY <1>11 DEF K, P, W

\* json_sax_dom_callback_parser keeps of a text what json_sax_dom_parser makes of it
\* but for the values the callback refused, themselves, by their key or by what
\* they are in.  Of whatever text, and whatever it answers when, nothing refused is
\* in what is returned, nothing else is missing, and the discarded values that
\* stay behind are those of objects in arrays and of keys in objects.
THEOREM AlwaysKeptIsWanted == Spec => []KeptIsWanted
<1>1. KInv /\ LInv => KeptIsWanted
  <2> SUFFICES ASSUME KInv, LInv, want = "accepted"
               PROVE  /\ In(kept) \intersect refused = {}
                      /\ In(kept) \intersect In(plain) = Wanted
                      /\ \A p \in In(kept) : Leftover(p)
    BY Zenon DEF KeptIsWanted
  <2>1. Contents /\ Leavings /\ ~MemberNext
    BY DEF KInv, LInv, MemberNext
  <2>2. In(kept) \intersect refused = {} /\ In(kept) \intersect In(plain) = Wanted
    BY <2>1, KeptWhenWanted
  <2>3. \A p \in In(kept) : Leftover(p)
    <3> DEFINE K == In(kept)
    <3>1. /\ K \subseteq Places
          /\ \A p \in Places :
               p \in K <=> /\ kept.kind[p] # "discarded"
                           /\ p = kept.root \/ \E q \in 1 .. p - 1 : Holds(kept, q, p) /\ q \in K
      BY InSolves, Zenon
    <3> HIDE DEF K
    <3>2. \A p \in K : p \in Places /\ Held(kept, p) /\ kept.kind[p] # "discarded"
      BY <3>1 DEF Held
    <3>3. \A p \in K : Leftover(p)
      BY <2>1, <3>2, WhatIsLeft
    <3> QED
      BY <3>3 DEF K
  <2> QED
    BY <2>2, <2>3
<1> QED
  BY <1>1, InitInv, NextKeepsInv, InitKInv, NextKeepsKInv, InitLInv, NextKeepsLInv, PTL DEF Spec


-----------------------------------------------------------------------------
\* The grammar: Parts is what its equation says, and with it what a value and a
\* list are by their first tokens

PartsUpTo(f, T, k) == f = [n \in 0 .. k |-> Grammar!PartsOf(T, f, n)]

\* What n tokens are depends on fewer tokens.
LEMMA PartsOfFewer ==
  ASSUME NEW T, NEW n \in Nat, NEW f, NEW g, \A m \in 0 .. n - 1 : f[m] = g[m]
  PROVE  Grammar!PartsOf(T, f, n) = Grammar!PartsOf(T, g, n)
<1>1. \A kind, i, m : m \in 1 .. n - 1 =>
        (Grammar!ItemOf(T, f, kind, i, m) <=> Grammar!ItemOf(T, g, kind, i, m))
  <2> TAKE kind, i, m
  <2>1. m \in 1 .. n - 1 => m \in 0 .. n - 1 /\ (m > 2 => m - 2 \in 0 .. n - 1)
    OBVIOUS
  <2> QED
    BY <2>1 DEF Grammar!ItemOf
<1>2. \A kind, i : Grammar!ListOf(T, f, kind, i, n) <=> Grammar!ListOf(T, g, kind, i, n)
  <2> TAKE kind, i
  <2>1. \A m \in 1 .. n - 1 : m < n - 1 => n - m - 1 \in 0 .. n - 1
    OBVIOUS
  <2> QED
    BY <1>1, <2>1 DEF Grammar!ListOf
<1>3. \A i : Grammar!ValueOf(T, f, i, n) <=> Grammar!ValueOf(T, g, i, n)
  <2> TAKE i
  <2>1. n > 1 => n - 1 \in 0 .. n - 1
    OBVIOUS
  <2> QED
    BY <2>1 DEF Grammar!ValueOf
<1> QED
  BY <1>2, <1>3, Zenon DEF Grammar!PartsOf

LEMMA PartsExist ==
  ASSUME NEW T
  PROVE  \A k \in Nat : \E f : PartsUpTo(f, T, k)
<1> DEFINE Missing == {k \in Nat : ~\E f : PartsUpTo(f, T, k)}
<1> SUFFICES ASSUME Missing # {} PROVE FALSE
  OBVIOUS
<1>1. PICK k \in Missing : \A n \in Missing : k <= n
  <2>1. Missing \in SUBSET Nat
    OBVIOUS
  <2> HIDE DEF Missing
  <2> QED
    BY <2>1, LeastExists
<1>2. \E f : \A n \in 0 .. k - 1 : f[n] = Grammar!PartsOf(T, f, n)
  <2>1. CASE k = 0
    BY <2>1
  <2>2. CASE k # 0
    <3>1. k - 1 \in Nat /\ ~(k <= k - 1)
      BY <1>1, <2>2
    <3>2. PICK f : PartsUpTo(f, T, k - 1)
      BY <1>1, <3>1
    <3> QED
      BY <3>2, Zenon DEF PartsUpTo
  <2> QED
    BY <2>1, <2>2
<1>3. PICK f : \A n \in 0 .. k - 1 : f[n] = Grammar!PartsOf(T, f, n)
  BY <1>2
<1> DEFINE g == [n \in 0 .. k |-> IF n = k THEN Grammar!PartsOf(T, f, k) ELSE f[n]]
           h == [n \in 0 .. k |-> Grammar!PartsOf(T, g, n)]
<1>4. k \in Nat /\ \A n \in 0 .. k : n # k => n \in 0 .. k - 1
  BY <1>1
<1>5. \A n \in 0 .. k - 1 : g[n] = f[n]
  BY <1>4
<1>6. ASSUME NEW n \in 0 .. k PROVE Grammar!PartsOf(T, f, n) = Grammar!PartsOf(T, g, n)
  <2>1. n \in Nat /\ \A m \in 0 .. n - 1 : m \in 0 .. k - 1
    BY <1>4
  <2>2. \A m \in 0 .. n - 1 : f[m] = g[m]
    BY <1>5, <2>1
  <2> HIDE DEF g
  <2> QED
    BY <2>1, <2>2, PartsOfFewer
<1>7. \A n \in 0 .. k : g[n] = h[n]
  <2> TAKE n \in 0 .. k
  <2>1. h[n] = Grammar!PartsOf(T, g, n)
    BY Zenon
  <2>2. g[n] = Grammar!PartsOf(T, f, n)
    <3>1. CASE n = k
      BY <3>1, Zenon
    <3>2. CASE n # k
      <4>1. n \in 0 .. k - 1
        BY <1>4, <3>2
      <4> HIDE DEF g
      <4> QED
        BY <1>3, <1>5, <4>1, Zenon
    <3> QED
      BY <3>1, <3>2
  <2> QED
    BY <1>6, <2>1, <2>2, Zenon
<1>8. g = h
  BY <1>7, Zenon
<1>9. PartsUpTo(g, T, k)
  BY <1>8, Zenon DEF PartsUpTo
<1> QED
  BY <1>1, <1>9

LEMMA PartsEquation ==
  ASSUME NEW T, Len(T) \in Nat, NEW n \in 0 .. Len(T)
  PROVE  Grammar!Parts(T)[n] = Grammar!PartsOf(T, Grammar!Parts(T), n)
<1>1. Grammar!Parts(T) = CHOOSE f : PartsUpTo(f, T, Len(T))
  BY Zenon DEF Grammar!Parts, PartsUpTo
<1>2. PartsUpTo(Grammar!Parts(T), T, Len(T))
  BY <1>1, PartsExist, Zenon
<1> QED
  BY <1>2, Zenon DEF PartsUpTo

\* The tokens from i on, up to the one at q, are a value; or what is behind the
\* opening of a container.
ValueAt(T, i, q) ==
  i \in Nat \ {0} /\ q \in Nat /\ i < q /\ q <= Len(T) + 1 /\ <<"value", i>> \in Grammar!Parts(T)[q - i]

ListAt(T, kind, i, q) ==
  i \in Nat \ {0} /\ q \in Nat /\ i < q /\ q <= Len(T) + 1 /\ <<kind, i>> \in Grammar!Parts(T)[q - i]

ItemAt(T, kind, i, q) ==
  IF kind = "array" THEN ValueAt(T, i, q)
  ELSE T[i] \in Strings /\ T[i + 1] = ":" /\ ValueAt(T, i + 2, q)

Comma == ","

\* Behind an item: the end of its container, or more of it; and behind an opening.
MoreAt(T, kind, i, q) ==
  \/ i <= Len(T) /\ q = i + 1 /\ T[i] = Grammar!Closing(kind)
  \/ i <= Len(T) /\ T[i] = Comma /\ ListAt(T, kind, i + 1, q)

InsideAt(T, kind, i, q) ==
  \/ i <= Len(T) /\ q = i + 1 /\ T[i] = Grammar!Closing(kind)
  \/ ListAt(T, kind, i, q)

LEMMA PartsAt ==
  ASSUME NEW T, Len(T) \in Nat, NEW what, what \in Grammar!Containers \union {"value"},
         NEW i \in 1 .. Len(T), NEW n \in Nat, i + n <= Len(T) + 1
  PROVE  <<what, i>> \in Grammar!Parts(T)[n] <=>
           IF what = "value" THEN Grammar!ValueOf(T, Grammar!Parts(T), i, n)
                             ELSE Grammar!ListOf(T, Grammar!Parts(T), what, i, n)
<1>1. n \in 0 .. Len(T)
  OBVIOUS
<1>2. Grammar!Parts(T)[n] = Grammar!PartsOf(T, Grammar!Parts(T), n)
  BY <1>1, PartsEquation
<1>3. PICK x : x = <<what, i>>
  OBVIOUS
<1>4. x \in (Grammar!Containers \union {"value"}) \X (1 .. Len(T)) /\ x[1] = what /\ x[2] = i
  BY <1>3
<1>5. x \in Grammar!PartsOf(T, Grammar!Parts(T), n) <=>
        IF what = "value" THEN Grammar!ValueOf(T, Grammar!Parts(T), i, n)
                          ELSE Grammar!ListOf(T, Grammar!Parts(T), what, i, n)
  BY <1>4 DEF Grammar!PartsOf
<1> QED
  BY <1>2, <1>3, <1>5

\* A value is a string or scalar, or opens a container.
LEMMA ValueByToken ==
  ASSUME NEW T, Len(T) \in Nat, NEW i \in 1 .. Len(T), NEW q \in Nat
  PROVE  ValueAt(T, i, q) <=>
           \/ q = i + 1 /\ T[i] \in Strings \union Scalars
           \/ \E kind \in Grammar!Containers : T[i] = Grammar!Opening(kind) /\ InsideAt(T, kind, i + 1, q)
<1>1. CASE i < q /\ q <= Len(T) + 1
  <2>1. PICK n \in Nat : n = q - i
    BY <1>1
  <2>2. i + n <= Len(T) + 1
    BY <1>1, <2>1
  <2>3. ValueAt(T, i, q) <=> Grammar!ValueOf(T, Grammar!Parts(T), i, n)
    <3>1. i \in Nat \ {0}
      OBVIOUS
    <3> QED
      BY <1>1, <2>1, <2>2, <3>1, PartsAt DEF ValueAt
  <2>4. \A kind \in Grammar!Containers :
          InsideAt(T, kind, i + 1, q) <=>
            n > 1 /\ ((n = 2 /\ T[i + 1] = Grammar!Closing(kind)) \/ <<kind, i + 1>> \in Grammar!Parts(T)[n - 1])
    <3> TAKE kind \in Grammar!Containers
    <3>1. q - (i + 1) = n - 1 /\ i + 1 \in Nat \ {0}
      BY <2>1
    <3>2. ListAt(T, kind, i + 1, q) <=> i + 1 < q /\ <<kind, i + 1>> \in Grammar!Parts(T)[n - 1]
      BY <1>1, <3>1, Zenon DEF ListAt
    <3>3. /\ i + 1 < q <=> n > 1
          /\ i + 1 <= Len(T) /\ q = i + 1 + 1 <=> n = 2
          /\ n = 2 => n > 1
      BY <1>1, <2>1
    <3> QED
      BY <3>2, <3>3, Zenon DEF InsideAt
  <2>5. n = 1 <=> q = i + 1
    BY <2>1
  <2> QED
    BY <2>3, <2>4, <2>5, Zenon DEF Grammar!ValueOf
<1>2. CASE ~(i < q /\ q <= Len(T) + 1)
  <2>1. ~ValueAt(T, i, q)
    BY <1>2 DEF ValueAt
  <2>2. q # i + 1
    BY <1>2
  <2>3. ASSUME NEW kind PROVE ~InsideAt(T, kind, i + 1, q)
    <3>1. i + 1 <= Len(T) => q # i + 1 + 1
      BY <1>2
    <3>2. ~(i + 1 < q /\ q <= Len(T) + 1)
      BY <1>2
    <3> QED
      BY <3>1, <3>2, Zenon DEF InsideAt, ListAt
  <2> QED
    BY <2>1, <2>2, <2>3, Zenon
<1> QED
  BY <1>1, <1>2

LEMMA ItemByToken ==
  ASSUME NEW T, Len(T) \in Nat, NEW i \in Nat \ {0}, NEW m \in Nat \ {0}, i + m <= Len(T) + 1,
         NEW kind \in Grammar!Containers
  PROVE  ItemAt(T, kind, i, i + m) <=> Grammar!ItemOf(T, Grammar!Parts(T), kind, i, m)
<1>1. CASE kind = "array"
  <2>1. i + m - i = m /\ i + m \in Nat /\ i < i + m
    OBVIOUS
  <2> QED
    BY <1>1, <2>1 DEF ItemAt, ValueAt, Grammar!ItemOf
<1>2. CASE kind # "array"
  <2>1. i + m - (i + 2) = m - 2 /\ i + m \in Nat /\ i + 2 \in Nat \ {0} /\ (i + 2 < i + m <=> m > 2)
    OBVIOUS
  <2>2. ValueAt(T, i + 2, i + m) <=> m > 2 /\ <<"value", i + 2>> \in Grammar!Parts(T)[m - 2]
    BY <2>1 DEF ValueAt
  <2> QED
    BY <1>2, <2>2, Zenon DEF ItemAt, Grammar!ItemOf
<1> QED
  BY <1>1, <1>2

\* A list is an item and what is behind that.
LEMMA ListByItem ==
  ASSUME NEW T, Len(T) \in Nat, NEW i \in Nat \ {0}, NEW q \in Nat, NEW kind \in Grammar!Containers
  PROVE  ListAt(T, kind, i, q) <=> \E p \in Nat : i < p /\ ItemAt(T, kind, i, p) /\ MoreAt(T, kind, p, q)
<1>0. kind # "value"
  BY DEF Grammar!Containers
<1>1. ASSUME ListAt(T, kind, i, q)
      PROVE  \E p \in Nat : i < p /\ ItemAt(T, kind, i, p) /\ MoreAt(T, kind, p, q)
  <2>1. i < q /\ q <= Len(T) + 1 /\ i \in 1 .. Len(T)
    BY <1>1 DEF ListAt
  <2>2. PICK n \in Nat : n = q - i
    BY <2>1
  <2>3. i + n <= Len(T) + 1
    BY <2>1, <2>2
  <2>4. Grammar!ListOf(T, Grammar!Parts(T), kind, i, n)
    BY <1>0, <1>1, <2>1, <2>2, <2>3, PartsAt DEF ListAt
  <2>5. PICK m \in 1 .. n - 1 :
          /\ Grammar!ItemOf(T, Grammar!Parts(T), kind, i, m)
          /\ \/ m = n - 1 /\ T[i + m] = Grammar!Closing(kind)
             \/ m < n - 1 /\ T[i + m] = "," /\ <<kind, i + m + 1>> \in Grammar!Parts(T)[n - m - 1]
    BY <2>4, Zenon DEF Grammar!ListOf
  <2>6. m \in 1 .. n - 1
    OBVIOUS
  <2>7. PICK p \in Nat : p = i + m
    BY <2>6
  <2>8. m \in Nat \ {0} /\ i < p /\ p <= Len(T) /\ i + m <= Len(T) + 1
    BY <2>1, <2>2, <2>6, <2>7
  <2>9. ItemAt(T, kind, i, p)
    BY <2>5, <2>7, <2>8, ItemByToken
  <2>10. MoreAt(T, kind, p, q)
    <3>1. CASE m = n - 1 /\ T[i + m] = Grammar!Closing(kind)
      <4>1. m = n - 1
        BY <3>1
      <4>2. q = p + 1
        BY <2>2, <2>6, <2>7, <4>1
      <4> QED
        BY <2>7, <2>8, <3>1, <4>2, Zenon DEF MoreAt
    <3>2. CASE m < n - 1 /\ T[i + m] = "," /\ <<kind, i + m + 1>> \in Grammar!Parts(T)[n - m - 1]
      <4>1. m < n - 1
        BY <3>2
      <4>2. q - (p + 1) = n - m - 1 /\ p + 1 < q /\ p + 1 \in Nat \ {0}
        BY <2>2, <2>6, <2>7, <4>1
      <4>3. ListAt(T, kind, p + 1, q)
        BY <2>1, <2>7, <3>2, <4>2, Zenon DEF ListAt
      <4> QED
        BY <2>7, <2>8, <3>2, <4>3, Zenon DEF MoreAt, Comma
    <3> QED
      BY <2>5, <3>1, <3>2
  <2> QED
    BY <2>8, <2>9, <2>10
<1>2. ASSUME NEW p \in Nat, i < p, ItemAt(T, kind, i, p), MoreAt(T, kind, p, q)
      PROVE  ListAt(T, kind, i, q)
  <2>1. PICK m \in Nat \ {0} : m = p - i
    BY <1>2
  <2>2. p <= Len(T)
    BY <1>2, Zenon DEF MoreAt
  <2>3. p = i + m /\ i + m <= Len(T) + 1
    BY <2>1, <2>2
  <2>4. Grammar!ItemOf(T, Grammar!Parts(T), kind, i, m)
    BY <1>2, <2>3, ItemByToken
  <2>5. /\ p < q /\ q <= Len(T) + 1
        /\ \/ q = p + 1 /\ T[p] = Grammar!Closing(kind)
           \/ p + 1 < q /\ T[p] = "," /\ <<kind, p + 1>> \in Grammar!Parts(T)[q - (p + 1)]
    <3>1. CASE q = p + 1 /\ T[p] = Grammar!Closing(kind)
      BY <2>2, <3>1
    <3>2. CASE T[p] = "," /\ ListAt(T, kind, p + 1, q)
      <4>1. p + 1 < q /\ q <= Len(T) + 1
        BY <3>2, Zenon DEF ListAt
      <4>2. <<kind, p + 1>> \in Grammar!Parts(T)[q - (p + 1)]
        BY <3>2, Zenon DEF ListAt
      <4>3. p < q
        BY <4>1
      <4> QED
        BY <3>2, <4>1, <4>2, <4>3, Zenon
    <3> QED
      BY <1>2, <3>1, <3>2, Zenon DEF MoreAt, Comma
  <2>6. p < q /\ q <= Len(T) + 1
    BY <2>5
  <2>7. PICK n \in Nat : n = q - i
    BY <1>2, <2>6
  <2>8. /\ m \in 1 .. n - 1
        /\ q = p + 1 => m = n - 1
        /\ p + 1 < q => m < n - 1
        /\ q - (p + 1) = n - m - 1
    BY <2>1, <2>6, <2>7
  <2>9. \/ m = n - 1 /\ T[i + m] = Grammar!Closing(kind)
        \/ m < n - 1 /\ T[i + m] = "," /\ <<kind, i + m + 1>> \in Grammar!Parts(T)[n - m - 1]
    BY <2>3, <2>5, <2>8, Zenon
  <2>10. Grammar!ListOf(T, Grammar!Parts(T), kind, i, n)
    BY <2>4, <2>8, <2>9, Zenon DEF Grammar!ListOf
  <2>11. i \in 1 .. Len(T) /\ i < q /\ i + n <= Len(T) + 1
    BY <1>2, <2>2, <2>6, <2>7
  <2>12. <<kind, i>> \in Grammar!Parts(T)[n]
    BY <1>0, <2>10, <2>11, PartsAt
  <2> QED
    BY <2>6, <2>7, <2>11, <2>12 DEF ListAt
<1> QED
  BY <1>1, <1>2

\* The first tokens of a value, and of what is behind the opening of a container.
ValueTokens == Strings \union Scalars \union {"[", "{"}

LEMMA ValueBegins ==
  ASSUME NEW T, Len(T) \in Nat, NEW i, NEW q, ValueAt(T, i, q)
  PROVE  i \in 1 .. Len(T) /\ i < q /\ T[i] \in ValueTokens
<1>1. i \in 1 .. Len(T) /\ i < q /\ q \in Nat
  BY DEF ValueAt
<1>2. \/ T[i] \in Strings \union Scalars
      \/ \E kind \in Grammar!Containers : T[i] = Grammar!Opening(kind)
  BY <1>1, ValueByToken
<1> QED
  BY <1>1, <1>2 DEF Grammar!Opening, ValueTokens

LEMMA ListBegins ==
  ASSUME NEW T, Len(T) \in Nat, NEW kind \in Grammar!Containers, NEW i, NEW q, ListAt(T, kind, i, q)
  PROVE  /\ i \in 1 .. Len(T)
         /\ kind = "array" => T[i] \in ValueTokens
         /\ kind = "object" => T[i] \in Strings /\ i + 1 <= Len(T) /\ T[i + 1] = ":"
<1>1. i \in Nat \ {0} /\ q \in Nat
  BY DEF ListAt
<1>2. PICK p \in Nat : ItemAt(T, kind, i, p)
  BY <1>1, ListByItem
<1>3. CASE kind = "array"
  BY <1>2, <1>3, ValueBegins DEF ItemAt
<1>4. CASE kind = "object"
  <2>1. T[i] \in Strings /\ T[i + 1] = ":" /\ ValueAt(T, i + 2, p)
    BY <1>2, <1>4 DEF ItemAt
  <2>2. i + 2 \in 1 .. Len(T)
    BY <2>1, ValueBegins
  <2>3. i \in 1 .. Len(T) /\ i + 1 <= Len(T)
    BY <1>1, <2>2
  <2> QED
    BY <1>4, <2>1, <2>3
<1> QED
  BY <1>3, <1>4 DEF Grammar!Containers

-----------------------------------------------------------------------------
\* How a text goes on that is of the grammar

LEMMA CommaIsNoEnd == \A kind : Comma # Grammar!Closing(kind)
BY Zenon DEF Comma, Grammar!Closing

EndAt(T, st, p) == IF st THEN p = Len(T) /\ T[p] = "end_of_input" ELSE p = Len(T) + 1

\* The containers end one behind the other, the innermost of k from p on, and the
\* text behind the outermost.
Ends(T, st, s, k, p, P) ==
  /\ P \in [0 .. k -> Nat]
  /\ P[k] = p /\ EndAt(T, st, P[0])
  /\ \A j \in 1 .. k : MoreAt(T, s[j], P[j], P[j - 1])

Done(T, st, s, k, p) == \E P : Ends(T, st, s, k, p, P)

LEMMA DoneNone ==
  ASSUME NEW T, NEW st, NEW s, NEW p \in Nat
  PROVE  Done(T, st, s, 0, p) <=> EndAt(T, st, p)
<1>1. ASSUME NEW P, Ends(T, st, s, 0, p, P) PROVE EndAt(T, st, p)
  BY <1>1 DEF Ends
<1>2. ASSUME EndAt(T, st, p) PROVE Ends(T, st, s, 0, p, [j \in 0 .. 0 |-> p])
  BY <1>2 DEF Ends
<1> QED
  BY <1>1, <1>2 DEF Done

LEMMA DoneSame ==
  ASSUME NEW T, NEW st, NEW s, NEW r, NEW k \in Nat, NEW p, \A j \in 1 .. k : s[j] = r[j]
  PROVE  Done(T, st, s, k, p) <=> Done(T, st, r, k, p)
<1>1. ASSUME NEW P PROVE Ends(T, st, s, k, p, P) <=> Ends(T, st, r, k, p, P)
  BY Zenon DEF Ends
<1> QED
  BY <1>1, Zenon DEF Done

LEMMA DoneStep ==
  ASSUME NEW T, Len(T) \in Nat, NEW st, NEW s, NEW k \in Nat \ {0}, NEW p \in Nat
  PROVE  Done(T, st, s, k, p) <=>
           \E q \in Nat : MoreAt(T, s[k], p, q) /\ Done(T, st, s, k - 1, q)
<1>0. /\ k \in 1 .. k /\ k \in 0 .. k /\ 0 \in 0 .. k /\ k - 1 \in 0 .. k
      /\ 0 \in 0 .. k - 1 /\ k - 1 \in 0 .. k - 1 /\ k \notin 0 .. k - 1
      /\ \A j \in 0 .. k - 1 : j \in 0 .. k
      /\ \A j \in 1 .. k - 1 : j \in 1 .. k /\ j \in 0 .. k - 1 /\ j - 1 \in 0 .. k - 1
      /\ \A j \in 1 .. k : j - 1 \in 0 .. k - 1 /\ (j # k => j \in 1 .. k - 1)
      /\ \A j \in 0 .. k : j # k => j \in 0 .. k - 1
  OBVIOUS
<1>1. ASSUME NEW P, Ends(T, st, s, k, p, P)
      PROVE  \E q \in Nat : MoreAt(T, s[k], p, q) /\ Done(T, st, s, k - 1, q)
  <2> DEFINE Q == [j \in 0 .. k - 1 |-> P[j]]
  <2>1. P[k - 1] \in Nat /\ P[k] = p /\ MoreAt(T, s[k], P[k], P[k - 1])
    BY <1>0, <1>1, Zenon DEF Ends
  <2>2. Ends(T, st, s, k - 1, P[k - 1], Q)
    <3>1. Q \in [0 .. k - 1 -> Nat]
      BY <1>0, <1>1, Zenon DEF Ends
    <3>2. Q[k - 1] = P[k - 1] /\ Q[0] = P[0]
      BY <1>0, Zenon
    <3>3. \A j \in 1 .. k - 1 : Q[j] = P[j] /\ Q[j - 1] = P[j - 1] /\ MoreAt(T, s[j], P[j], P[j - 1])
      BY <1>0, <1>1, Zenon DEF Ends
    <3> QED
      BY <1>1, <3>1, <3>2, <3>3, Zenon DEF Ends
  <2> QED
    BY <2>1, <2>2, Zenon DEF Done
<1>2. ASSUME NEW q \in Nat, MoreAt(T, s[k], p, q), NEW Q, Ends(T, st, s, k - 1, q, Q)
      PROVE  Done(T, st, s, k, p)
  <2> DEFINE P == [j \in 0 .. k |-> IF j = k THEN p ELSE Q[j]]
  <2>1. P \in [0 .. k -> Nat]
    BY <1>0, <1>2, Zenon DEF Ends
  <2>2. P[k] = p /\ \A j \in 0 .. k - 1 : P[j] = Q[j]
    BY <1>0, Zenon
  <2> HIDE DEF P
  <2>3. EndAt(T, st, P[0])
    BY <1>0, <1>2, <2>2, Zenon DEF Ends
  <2>4. ASSUME NEW j \in 1 .. k PROVE MoreAt(T, s[j], P[j], P[j - 1])
    <3>1. CASE j = k
      BY <1>0, <1>2, <2>2, <3>1, Zenon DEF Ends
    <3>2. CASE j # k
      BY <1>0, <1>2, <2>2, <3>2, Zenon DEF Ends
    <3> QED
      BY <3>1, <3>2
  <2> QED
    BY <2>1, <2>2, <2>3, <2>4, Zenon DEF Done, Ends
<1> QED
  BY <1>1, <1>2, Zenon DEF Done

\* One container more, and its end comes first.
LEMMA DonePushed ==
  ASSUME NEW T, Len(T) \in Nat, NEW st, NEW s \in Seq(Grammar!Containers), NEW kind \in Grammar!Containers, NEW p \in Nat
  PROVE  Done(T, st, Append(s, kind), Len(Append(s, kind)), p) <=>
           \E q \in Nat : MoreAt(T, kind, p, q) /\ Done(T, st, s, Len(s), q)
<1>1. PICK r : r = Append(s, kind)
  OBVIOUS
<1>2. Len(s) \in Nat /\ Len(r) \in Nat \ {0} /\ Len(r) - 1 = Len(s) /\ r[Len(r)] = kind
  BY <1>1
<1>3. \A j \in 1 .. Len(s) : s[j] = r[j]
  BY <1>1
<1>4. \A q : Done(T, st, s, Len(s), q) <=> Done(T, st, r, Len(s), q)
  BY <1>2, <1>3, DoneSame, Zenon
<1>5. Done(T, st, r, Len(r), p) <=> \E q \in Nat : MoreAt(T, r[Len(r)], p, q) /\ Done(T, st, r, Len(r) - 1, q)
  <2>1. PICK k \in Nat \ {0} : k = Len(r)
    BY <1>2
  <2>2. Done(T, st, r, k, p) <=> \E q \in Nat : MoreAt(T, r[k], p, q) /\ Done(T, st, r, k - 1, q)
    BY DoneStep, Zenon
  <2> QED
    BY <2>1, <2>2, Zenon
<1> QED
  BY <1>1, <1>2, <1>4, <1>5, Zenon

\* A whole text is a value and the end.
LEMMA TextByEnd ==
  ASSUME NEW T, T \in Seq(Tokens), NEW st \in BOOLEAN
  PROVE  Grammar!IsText(T, IF st THEN <<"end_of_input">> ELSE <<>>) <=>
           \E q \in Nat : ValueAt(T, 1, q) /\ EndAt(T, st, q)
<1>0. Len(T) \in Nat
  OBVIOUS
<1>1. ASSUME NEW n \in 1 .. Len(T)
      PROVE  SubSeq(T, n + 1, Len(T)) = (IF st THEN <<"end_of_input">> ELSE <<>>) <=> EndAt(T, st, n + 1)
  <2>1. CASE st
    <3> DEFINE u == SubSeq(T, n + 1, Len(T))
    <3>1. u \in Seq(Tokens) /\ Len(u) = Len(T) - n /\ (n < Len(T) => u[1] = T[n + 1])
      BY <1>0, <1>1
    <3>2. u = SubSeq(T, n + 1, Len(T))
      BY DEF u
    <3> HIDE DEF u
    <3>3. u = <<"end_of_input">> <=> Len(u) = 1 /\ u[1] = "end_of_input"
      <4>1. PICK v : v = <<"end_of_input">>
        OBVIOUS
      <4>2. v \in Seq(Tokens) /\ Len(v) = 1 /\ v[1] = "end_of_input"
        <5>1. "end_of_input" \in Tokens
          BY DEF Tokens, Punctuation
        <5> QED
          BY <4>1, <5>1
      <4>3. ASSUME Len(u) = 1, u[1] = "end_of_input" PROVE u = v
        <5>1. \A i \in 1 .. Len(u) : u[i] = v[i]
          BY <4>2, <4>3
        <5> QED
          BY <3>1, <4>2, <4>3, <5>1, SeqEqual
      <4> QED
        BY <4>1, <4>2, <4>3
    <3>4. Len(u) = Len(T) - n
      BY <3>1
    <3>5. (Len(u) = 1 <=> n + 1 = Len(T)) /\ (Len(u) = 1 => n < Len(T))
      BY <1>0, <1>1, <3>4
    <3> QED
      BY <2>1, <3>1, <3>2, <3>3, <3>5, Zenon DEF EndAt
  <2>2. CASE ~st
    <3>1. SubSeq(T, n + 1, Len(T)) = <<>> <=> n + 1 = Len(T) + 1
      BY <1>0, <1>1
    <3> QED
      BY <2>2, <3>1, Zenon DEF EndAt
  <2> QED
    BY <2>1, <2>2
<1>2. \A n \in 1 .. Len(T) : n + 1 - 1 = n /\ n + 1 \in Nat /\ 1 < n + 1 /\ n + 1 <= Len(T) + 1 /\ 1 \in Nat \ {0}
  BY <1>0
<1>3. \A n \in 1 .. Len(T) : <<"value", 1>> \in Grammar!Parts(T)[n] <=> ValueAt(T, 1, n + 1)
  BY <1>2 DEF ValueAt
<1>4. \A q \in Nat : ValueAt(T, 1, q) => \E n \in 1 .. Len(T) : q = n + 1
  <2> SUFFICES ASSUME NEW q \in Nat, 1 < q, q <= Len(T) + 1 PROVE \E n \in 1 .. Len(T) : q = n + 1
    BY Zenon DEF ValueAt
  <2>1. q - 1 \in 1 .. Len(T) /\ q = q - 1 + 1
    BY <1>0
  <2> QED
    BY <2>1
<1> QED
  BY <1>1, <1>2, <1>3, <1>4, Zenon DEF Grammar!IsText
\* What is still to come of a text of the grammar, by what is wanted next, the
\* stack of the parser, and how many tokens were read.
Completes(T, st, w, s, l) ==
  \/ w = "value" /\ \E q \in Nat : ValueAt(T, l + 1, q) /\ Done(T, st, s, Len(s), q)
  \/ w = "first_item" /\ \E q \in Nat : InsideAt(T, "array", l + 1, q) /\ Done(T, st, s, Len(s), q)
  \/ w = "first_key" /\ \E q \in Nat : InsideAt(T, "object", l + 1, q) /\ Done(T, st, s, Len(s), q)
  \/ w = "key" /\ \E q \in Nat : ListAt(T, "object", l + 1, q) /\ Done(T, st, s, Len(s) - 1, q)
  \/ w = "name_separator" /\ \E q \in Nat : ListAt(T, "object", l, q) /\ Done(T, st, s, Len(s) - 1, q)
  \/ w = "first_name_separator" /\ \E q \in Nat : ListAt(T, "object", l, q) /\ Done(T, st, s, Len(s), q)
  \/ w = "separator" /\ Done(T, st, s, Len(s), l + 1)
  \/ w = "end" /\ EndAt(T, st, l + 1)
  \/ w = "accepted" /\ Len(T) = l

AfterOf(st, s) == IF s # <<>> THEN "separator" ELSE IF st THEN "end" ELSE "accepted"

\* Behind a value, the containers around it are still to be ended.
LEMMA AfterCompletes ==
  ASSUME NEW T, Len(T) \in Nat, NEW st \in BOOLEAN, NEW s \in Seq(Grammar!Containers), NEW l \in Nat
  PROVE  Completes(T, st, AfterOf(st, s), s, l) <=> Done(T, st, s, Len(s), l + 1)
<1>1. CASE s # <<>>
  BY <1>1, Zenon DEF Completes, AfterOf
<1>2. CASE s = <<>>
  <2>1. Len(s) = 0 /\ l + 1 \in Nat
    BY <1>2
  <2>2. Done(T, st, s, Len(s), l + 1) <=> EndAt(T, st, l + 1)
    BY <2>1, DoneNone, Zenon
  <2>3. CASE st
    BY <1>2, <2>2, <2>3, Zenon DEF Completes, AfterOf
  <2>4. CASE ~st
    <3>1. EndAt(T, st, l + 1) <=> Len(T) = l
      BY <2>4 DEF EndAt
    <3> QED
      BY <1>2, <2>2, <2>4, <3>1, Zenon DEF Completes, AfterOf
  <2> QED
    BY <2>3, <2>4
<1> QED
  BY <1>1, <1>2

\* The first token behind "[" ends the array, or begins its first item, the array
\* then being on the stack.
LEMMA FirstItemCompletes ==
  ASSUME NEW T, Len(T) \in Nat, NEW st, NEW s \in Seq(Grammar!Containers),
         NEW l \in Nat, l < Len(T), T[l + 1] # "]"
  PROVE  Completes(T, st, "first_item", s, l) <=> Completes(T, st, "value", Append(s, "array"), l)
<1>1. PICK p \in 1 .. Len(T) : p = l + 1
  OBVIOUS
<1>2. PICK r : r = Append(s, "array")
  OBVIOUS
<1>3. "array" \in Grammar!Containers /\ Grammar!Closing("array") = "]" /\ p \in Nat \ {0}
  BY DEF Grammar!Containers, Grammar!Closing
<1>4. \A q \in Nat : InsideAt(T, "array", p, q) <=>
        \E i \in Nat : ValueAt(T, p, i) /\ MoreAt(T, "array", i, q)
  <2> TAKE q \in Nat
  <2>1. InsideAt(T, "array", p, q) <=> ListAt(T, "array", p, q)
    BY <1>1, <1>3, Zenon DEF InsideAt
  <2>2. ListAt(T, "array", p, q) <=>
          \E i \in Nat : p < i /\ ItemAt(T, "array", p, i) /\ MoreAt(T, "array", i, q)
    BY <1>3, ListByItem, Zenon
  <2>3. \A i : ItemAt(T, "array", p, i) <=> ValueAt(T, p, i)
    BY Zenon DEF ItemAt
  <2>4. \A i : ValueAt(T, p, i) => p < i
    BY Zenon DEF ValueAt
  <2> QED
    BY <2>1, <2>2, <2>3, <2>4, Zenon
<1>5. \A i \in Nat : Done(T, st, r, Len(r), i) <=>
        \E q \in Nat : MoreAt(T, "array", i, q) /\ Done(T, st, s, Len(s), q)
  BY <1>2, <1>3, DonePushed, Zenon
<1>6. Completes(T, st, "first_item", s, l) <=>
        \E q \in Nat : InsideAt(T, "array", p, q) /\ Done(T, st, s, Len(s), q)
  BY <1>1, Zenon DEF Completes
<1>7. Completes(T, st, "value", r, l) <=> \E q \in Nat : ValueAt(T, p, q) /\ Done(T, st, r, Len(r), q)
  BY <1>1, Zenon DEF Completes
<1>8. Completes(T, st, "first_item", s, l) <=> Completes(T, st, "value", r, l)
  BY <1>4, <1>5, <1>6, <1>7, Zenon
<1> QED
  BY <1>2, <1>8, Zenon

\* The token that is read is a value by itself, ...
LEMMA ScalarCompletes ==
  ASSUME NEW T, Len(T) \in Nat, NEW st, NEW s \in Seq(Grammar!Containers),
         NEW l \in Nat, l < Len(T), T[l + 1] \in Strings \union Scalars
  PROVE  Completes(T, st, "value", s, l) <=> Done(T, st, s, Len(s), l + 1 + 1)
<1>1. PICK p \in 1 .. Len(T) : p = l + 1
  OBVIOUS
<1>2. \A kind \in Grammar!Containers : T[p] # Grammar!Opening(kind)
  BY <1>1, TokensAssumption DEF Grammar!Opening, Punctuation
<1>3. \A q \in Nat : ValueAt(T, p, q) <=> q = p + 1
  BY <1>1, <1>2, ValueByToken, Zenon
<1>4. Completes(T, st, "value", s, l) <=> \E q \in Nat : ValueAt(T, p, q) /\ Done(T, st, s, Len(s), q)
  BY <1>1, Zenon DEF Completes
<1>5. p + 1 \in Nat
  OBVIOUS
<1>6. Completes(T, st, "value", s, l) <=> Done(T, st, s, Len(s), p + 1)
  BY <1>3, <1>4, <1>5, Zenon
<1> QED
  BY <1>1, <1>6, Zenon

\* ... or opens a container.
LEMMA OpeningCompletes ==
  ASSUME NEW T, Len(T) \in Nat, NEW st, NEW s \in Seq(Grammar!Containers), NEW kind \in Grammar!Containers,
         NEW l \in Nat, l < Len(T), T[l + 1] = Grammar!Opening(kind)
  PROVE  Completes(T, st, "value", s, l) <=>
           \E q \in Nat : InsideAt(T, kind, l + 1 + 1, q) /\ Done(T, st, s, Len(s), q)
<1>1. PICK p \in 1 .. Len(T) : p = l + 1
  OBVIOUS
<1>2. T[p] \in {"[", "{"}
  BY <1>1 DEF Grammar!Opening
<1>3. T[p] \notin Strings \union Scalars
  BY <1>2, TokensAssumption DEF Punctuation
<1>4. \A k \in Grammar!Containers : T[p] = Grammar!Opening(k) <=> k = kind
  BY <1>1 DEF Grammar!Opening, Grammar!Containers
<1>5. \A q \in Nat : ValueAt(T, p, q) <=> InsideAt(T, kind, p + 1, q)
  BY <1>3, <1>4, ValueByToken, Zenon
<1>6. Completes(T, st, "value", s, l) <=> \E q \in Nat : ValueAt(T, p, q) /\ Done(T, st, s, Len(s), q)
  BY <1>1, Zenon DEF Completes
<1>7. Completes(T, st, "value", s, l) <=>
        \E q \in Nat : InsideAt(T, kind, p + 1, q) /\ Done(T, st, s, Len(s), q)
  BY <1>5, <1>6, Zenon
<1> QED
  BY <1>1, <1>7, Zenon

\* The first token of an object ends it or is the key of its first member.
LEMMA FirstKeyCompletes ==
  ASSUME NEW T, Len(T) \in Nat, NEW st, NEW s, NEW l \in Nat, T[l + 1] \in Strings
  PROVE  Completes(T, st, "first_key", s, l) <=> Completes(T, st, "first_name_separator", s, l + 1)
<1>1. PICK p : p = l + 1
  OBVIOUS
<1>2. T[p] # Grammar!Closing("object")
  BY <1>1, TokensAssumption DEF Grammar!Closing, Punctuation
<1>3. \A q : InsideAt(T, "object", p, q) <=> ListAt(T, "object", p, q)
  BY <1>2, Zenon DEF InsideAt
<1>4. Completes(T, st, "first_key", s, l) <=>
        \E q \in Nat : InsideAt(T, "object", p, q) /\ Done(T, st, s, Len(s), q)
  BY <1>1, Zenon DEF Completes
<1>5. Completes(T, st, "first_name_separator", s, p) <=>
        \E q \in Nat : ListAt(T, "object", p, q) /\ Done(T, st, s, Len(s), q)
  BY Zenon DEF Completes
<1>6. Completes(T, st, "first_key", s, l) <=> Completes(T, st, "first_name_separator", s, p)
  BY <1>3, <1>4, <1>5, Zenon
<1> QED
  BY <1>1, <1>6, Zenon

\* A container without items ends.
LEMMA EmptyCompletes ==
  ASSUME NEW T, Len(T) \in Nat, NEW st, NEW s, NEW kind \in Grammar!Containers,
         NEW l \in Nat, l < Len(T), T[l + 1] = Grammar!Closing(kind)
  PROVE  (\E q \in Nat : InsideAt(T, kind, l + 1, q) /\ Done(T, st, s, Len(s), q)) <=>
           Done(T, st, s, Len(s), l + 1 + 1)
<1>1. PICK p \in Nat : p = l + 1
  OBVIOUS
<1>2. \A q : ~ListAt(T, kind, p, q)
  <2>1. kind = "array" => T[p] \notin ValueTokens
    BY <1>1, TokensAssumption DEF Grammar!Closing, Punctuation, ValueTokens
  <2>2. kind = "object" => T[p] \notin Strings
    BY <1>1, TokensAssumption DEF Grammar!Closing, Punctuation
  <2>3. kind \in {"array", "object"}
    BY DEF Grammar!Containers
  <2> QED
    BY <2>1, <2>2, <2>3, ListBegins, Zenon
<1>3. \A q : InsideAt(T, kind, p, q) <=> q = p + 1
  <2>1. p <= Len(T) /\ T[p] = Grammar!Closing(kind)
    BY <1>1
  <2> QED
    BY <1>2, <2>1, Zenon DEF InsideAt
<1>4. p + 1 \in Nat
  OBVIOUS
<1>5. (\E q \in Nat : InsideAt(T, kind, p, q) /\ Done(T, st, s, Len(s), q)) <=> Done(T, st, s, Len(s), p + 1)
  BY <1>3, <1>4, Zenon
<1> QED
  BY <1>1, <1>5, Zenon

\* A key, its colon, and then the value.
LEMMA MemberAt ==
  ASSUME NEW T, Len(T) \in Nat, NEW l \in Nat \ {0}, l < Len(T), T[l] \in Strings, T[l + 1] = ":", NEW q \in Nat
  PROVE  ListAt(T, "object", l, q) <=> \E i \in Nat : ValueAt(T, l + 1 + 1, i) /\ MoreAt(T, "object", i, q)
<1>1. "object" \in Grammar!Containers /\ l + 2 = l + 1 + 1
  BY DEF Grammar!Containers
<1>2. ListAt(T, "object", l, q) <=>
        \E i \in Nat : l < i /\ ItemAt(T, "object", l, i) /\ MoreAt(T, "object", i, q)
  BY <1>1, ListByItem, Zenon
<1>3. \A i \in Nat : ItemAt(T, "object", l, i) <=> ValueAt(T, l + 1 + 1, i)
  BY <1>1 DEF ItemAt
<1>4. \A i \in Nat : ValueAt(T, l + 1 + 1, i) => l < i
  BY DEF ValueAt
<1> QED
  BY <1>2, <1>3, <1>4, Zenon

LEMMA MemberCompletes ==
  ASSUME NEW T, Len(T) \in Nat, NEW st, NEW s \in Seq(Grammar!Containers), s # <<>>, s[Len(s)] = "object",
         NEW l \in Nat \ {0}, l < Len(T), T[l] \in Strings, T[l + 1] = ":"
  PROVE  Completes(T, st, "name_separator", s, l) <=> Completes(T, st, "value", s, l + 1)
<1>1. \A q \in Nat : ListAt(T, "object", l, q) <=>
        \E i \in Nat : ValueAt(T, l + 1 + 1, i) /\ MoreAt(T, "object", i, q)
  BY MemberAt, Zenon
<1>2. PICK k \in Nat \ {0} : k = Len(s)
  OBVIOUS
<1>3. \A i \in Nat : Done(T, st, s, k, i) <=>
        \E q \in Nat : MoreAt(T, "object", i, q) /\ Done(T, st, s, k - 1, q)
  <2>1. s[k] = "object"
    BY <1>2
  <2>2. \A i \in Nat : Done(T, st, s, k, i) <=>
          \E q \in Nat : MoreAt(T, s[k], i, q) /\ Done(T, st, s, k - 1, q)
    BY DoneStep, Zenon
  <2> QED
    BY <2>1, <2>2, Zenon
<1>4. Completes(T, st, "name_separator", s, l) <=>
        \E q \in Nat : ListAt(T, "object", l, q) /\ Done(T, st, s, k - 1, q)
  BY <1>2, Zenon DEF Completes
<1>5. Completes(T, st, "value", s, l + 1) <=>
        \E q \in Nat : ValueAt(T, l + 1 + 1, q) /\ Done(T, st, s, k, q)
  BY <1>2, Zenon DEF Completes
<1> QED
  BY <1>1, <1>3, <1>4, <1>5, Zenon

LEMMA FirstMemberCompletes ==
  ASSUME NEW T, Len(T) \in Nat, NEW st, NEW s \in Seq(Grammar!Containers),
         NEW l \in Nat \ {0}, l < Len(T), T[l] \in Strings, T[l + 1] = ":"
  PROVE  Completes(T, st, "first_name_separator", s, l) <=> Completes(T, st, "value", Append(s, "object"), l + 1)
<1>1. \A q \in Nat : ListAt(T, "object", l, q) <=>
        \E i \in Nat : ValueAt(T, l + 1 + 1, i) /\ MoreAt(T, "object", i, q)
  BY MemberAt, Zenon
<1>2. PICK r : r = Append(s, "object")
  OBVIOUS
<1>3. \A i \in Nat : Done(T, st, r, Len(r), i) <=>
        \E q \in Nat : MoreAt(T, "object", i, q) /\ Done(T, st, s, Len(s), q)
  <2>1. "object" \in Grammar!Containers
    BY DEF Grammar!Containers
  <2> QED
    BY <1>2, <2>1, DonePushed, Zenon
<1>4. Completes(T, st, "first_name_separator", s, l) <=>
        \E q \in Nat : ListAt(T, "object", l, q) /\ Done(T, st, s, Len(s), q)
  BY Zenon DEF Completes
<1>5. Completes(T, st, "value", r, l + 1) <=>
        \E q \in Nat : ValueAt(T, l + 1 + 1, q) /\ Done(T, st, r, Len(r), q)
  BY Zenon DEF Completes
<1>6. Completes(T, st, "first_name_separator", s, l) <=> Completes(T, st, "value", r, l + 1)
  BY <1>1, <1>3, <1>4, <1>5, Zenon
<1> QED
  BY <1>2, <1>6, Zenon

\* Behind an item its container ends, ...
LEMMA ClosingCompletes ==
  ASSUME NEW T, Len(T) \in Nat, NEW st, NEW s \in Seq(Grammar!Containers), s # <<>>,
         NEW l \in Nat, l < Len(T), T[l + 1] = Grammar!Closing(s[Len(s)])
  PROVE  Completes(T, st, "separator", s, l) <=> Done(T, st, Rest(s), Len(Rest(s)), l + 1 + 1)
<1>1. PICK p \in Nat : p = l + 1
  OBVIOUS
<1>2. PICK k \in Nat \ {0} : k = Len(s)
  OBVIOUS
<1>3. PICK r : r = Rest(s)
  OBVIOUS
<1>4. Len(r) = k - 1 /\ k - 1 \in Nat /\ \A j \in 1 .. k - 1 : r[j] = s[j]
  BY <1>2, <1>3 DEF Rest
<1>5. T[p] = Grammar!Closing(s[k]) /\ T[p] # Comma /\ p <= Len(T) /\ p + 1 \in Nat
  BY <1>1, <1>2, CommaIsNoEnd
<1>6. \A q : MoreAt(T, s[k], p, q) <=> q = p + 1
  BY <1>5, Zenon DEF MoreAt
<1>7. Done(T, st, s, k, p) <=> \E q \in Nat : MoreAt(T, s[k], p, q) /\ Done(T, st, s, k - 1, q)
  BY DoneStep, Zenon
<1>8. Done(T, st, s, k, p) <=> Done(T, st, s, k - 1, p + 1)
  BY <1>5, <1>6, <1>7, Zenon
<1>9. Done(T, st, s, k - 1, p + 1) <=> Done(T, st, r, k - 1, p + 1)
  BY <1>4, DoneSame, Zenon
<1> QED
  BY <1>1, <1>2, <1>3, <1>4, <1>8, <1>9, Zenon DEF Completes

\* ... or goes on.
LEMMA CommaCompletes ==
  ASSUME NEW T, Len(T) \in Nat, NEW st, NEW s \in Seq(Grammar!Containers), s # <<>>,
         NEW l \in Nat, l < Len(T), T[l + 1] = Comma
  PROVE  Completes(T, st, "separator", s, l) <=> Completes(T, st, AfterComma(s[Len(s)]), s, l + 1)
<1>1. PICK p \in Nat : p = l + 1
  OBVIOUS
<1>2. PICK k \in Nat \ {0} : k = Len(s)
  OBVIOUS
<1>3. T[p] # Grammar!Closing(s[k]) /\ T[p] = Comma /\ p <= Len(T) /\ p + 1 \in Nat \ {0}
  BY <1>1, CommaIsNoEnd
<1>4. \A q : MoreAt(T, s[k], p, q) <=> ListAt(T, s[k], p + 1, q)
  BY <1>3, Zenon DEF MoreAt
<1>5. Done(T, st, s, k, p) <=> \E q \in Nat : ListAt(T, s[k], p + 1, q) /\ Done(T, st, s, k - 1, q)
  BY <1>4, DoneStep, Zenon
<1>6. s[k] \in {"array", "object"}
  BY <1>2 DEF Grammar!Containers
<1>7. CASE s[k] = "object"
  <2>1. Completes(T, st, "key", s, p) <=>
          \E q \in Nat : ListAt(T, "object", p + 1, q) /\ Done(T, st, s, k - 1, q)
    BY <1>2, Zenon DEF Completes
  <2>2. AfterComma(s[k]) = "key"
    BY <1>7 DEF AfterComma
  <2> QED
    BY <1>1, <1>2, <1>5, <1>7, <2>1, <2>2, Zenon DEF Completes
<1>8. CASE s[k] = "array"
  <2>1. "array" \in Grammar!Containers
    BY DEF Grammar!Containers
  <2>2. \A q \in Nat : ListAt(T, "array", p + 1, q) <=>
          \E i \in Nat : ValueAt(T, p + 1, i) /\ MoreAt(T, "array", i, q)
    <3> TAKE q \in Nat
    <3>1. ListAt(T, "array", p + 1, q) <=>
            \E i \in Nat : p + 1 < i /\ ItemAt(T, "array", p + 1, i) /\ MoreAt(T, "array", i, q)
      BY <1>3, <2>1, ListByItem, Zenon
    <3>2. \A i : ItemAt(T, "array", p + 1, i) <=> ValueAt(T, p + 1, i)
      BY Zenon DEF ItemAt
    <3>3. \A i : ValueAt(T, p + 1, i) => p + 1 < i
      BY Zenon DEF ValueAt
    <3> QED
      BY <3>1, <3>2, <3>3, Zenon
  <2>3. \A i \in Nat : Done(T, st, s, k, i) <=>
          \E q \in Nat : MoreAt(T, "array", i, q) /\ Done(T, st, s, k - 1, q)
    <3>1. \A i \in Nat : Done(T, st, s, k, i) <=>
            \E q \in Nat : MoreAt(T, s[k], i, q) /\ Done(T, st, s, k - 1, q)
      BY DoneStep, Zenon
    <3> QED
      BY <1>8, <3>1, Zenon
  <2>4. Completes(T, st, "value", s, p) <=> \E i \in Nat : ValueAt(T, p + 1, i) /\ Done(T, st, s, k, i)
    BY <1>2, Zenon DEF Completes
  <2>5. AfterComma(s[k]) = "value"
    BY <1>8 DEF AfterComma
  <2>6. Completes(T, st, "value", s, p) <=> Done(T, st, s, k, p)
    <3>1. Done(T, st, s, k, p) <=> \E q \in Nat : ListAt(T, "array", p + 1, q) /\ Done(T, st, s, k - 1, q)
      BY <1>5, <1>8, Zenon
    <3> QED
      BY <2>2, <2>3, <2>4, <3>1, Zenon
  <2> QED
    BY <1>1, <1>2, <2>5, <2>6, Zenon DEF Completes
<1> QED
  BY <1>6, <1>7, <1>8

\* Whether an array is on the stack already, or its first item is read.
LEMMA WantedValueCompletes ==
  ASSUME NEW T, Len(T) \in Nat, NEW st, NEW s \in Seq(Grammar!Containers),
         NEW l \in Nat, l < Len(T), T[l + 1] # "]", NEW w \in {"value", "first_item"},
         NEW r, r = IF w = "first_item" THEN Append(s, "array") ELSE s
  PROVE  r \in Seq(Grammar!Containers) /\ (Completes(T, st, w, s, l) <=> Completes(T, st, "value", r, l))
<1>1. CASE w = "value"
  <2>1. r = s
    BY <1>1
  <2> QED
    BY <1>1, <2>1, Zenon
<1>2. CASE w = "first_item"
  <2>1. r = Append(s, "array")
    BY <1>2
  <2>2. "array" \in Grammar!Containers
    BY DEF Grammar!Containers
  <2>3. r \in Seq(Grammar!Containers)
    BY <2>1, <2>2, Stacks
  <2> QED
    BY <1>2, <2>1, <2>3, FirstItemCompletes, Zenon
<1> QED
  BY <1>1, <1>2

-----------------------------------------------------------------------------
(***************************************************************************)
(* The parser is on the right way: of the texts that begin with what it    *)
(* has read, those of the grammar are the ones that go on as its state     *)
(* says.  Each step keeps that, whatever the token is; so what is accepted *)
(* is a text, and what is rejected begins none.                            *)
(***************************************************************************)

Begins(T) == Len(tokens) <= Len(T) /\ \A i \in 1 .. Len(tokens) : T[i] = tokens[i]

OnTheWay ==
  \A T \in Seq(Tokens) :
    Begins(T) => (Grammar!IsText(T, EndsWith) <=> Completes(T, strict, want, states, Len(tokens)))

GInv ==
  /\ strict \in BOOLEAN
  /\ want = "end" => strict
  /\ want \in {"name_separator", "first_name_separator"} => tokens # <<>> /\ Top(tokens) \in Strings
  /\ OnTheWay

\* What a step has to keep of a text that goes on with the token it reads.
KeepsWay(T, l, t) ==
  Begins(T) /\ l < Len(T) /\ T[l + 1] = t =>
    (Completes(T, strict, want, states, l) <=> Completes(T, strict, want', states', l + 1))

LEMMA ReadOn ==
  ASSUME tokens \in Seq(Tokens), OnTheWay, NEW t \in Tokens, Read(t), strict' = strict,
         \A T \in Seq(Tokens) : KeepsWay(T, Len(tokens), t)
  PROVE  OnTheWay'
<1> SUFFICES ASSUME NEW T \in Seq(Tokens), Begins(T)'
             PROVE  (Grammar!IsText(T, EndsWith) <=> Completes(T, strict, want, states, Len(tokens)))'
  BY Zenon DEF OnTheWay
<1>1. tokens' = Append(tokens, t)
  BY DEF Read
<1>2. PICK l \in Nat : l = Len(tokens)
  OBVIOUS
<1>3. Len(tokens') = l + 1 /\ tokens'[l + 1] = t /\ \A i \in 1 .. l : tokens'[i] = tokens[i]
  BY <1>1, <1>2
<1>4. l + 1 <= Len(T) /\ \A i \in 1 .. l + 1 : T[i] = tokens'[i]
  BY <1>3, Zenon DEF Begins
<1>5. l < Len(T) /\ l <= Len(T) /\ T[l + 1] = t /\ \A i \in 1 .. l : T[i] = tokens[i]
  BY <1>3, <1>4
<1>6. Begins(T)
  BY <1>2, <1>5, Zenon DEF Begins
<1>7. Grammar!IsText(T, EndsWith) <=> Completes(T, strict, want, states, l)
  BY <1>2, <1>6, Zenon DEF OnTheWay
<1>8. Completes(T, strict, want, states, l) <=> Completes(T, strict, want', states', l + 1)
  BY <1>2, <1>5, <1>6, Zenon DEF KeepsWay
<1>9. EndsWith' = EndsWith
  BY DEF EndsWith
<1> QED
  BY <1>3, <1>7, <1>8, <1>9, Zenon

\* The stack of the parser is one of the grammar's containers.
LEMMA StatesAreContainers ==
  ASSUME Control
  PROVE  /\ tokens \in Seq(Tokens) /\ Len(tokens) \in Nat
         /\ states \in Seq(Grammar!Containers)
         /\ \A T \in Seq(Tokens) : Len(T) \in Nat
  BY DEF Control, Grammar!Containers

LEMMA ValueWay ==
  ASSUME Control, GInv, NEW t \in Strings \union Scalars, Value(t)
  PROVE  GInv'
<1>1. /\ want \in {"value", "first_item"} /\ Read(t) /\ want' = After(states') /\ strict' = strict
      /\ states' = IF want = "first_item" THEN Append(states, "array") ELSE states
  BY Zenon DEF Value
<1>2. t \in Tokens /\ t # "]"
  BY TokensAssumption DEF Tokens, Punctuation
<1>3. want' = AfterOf(strict, states')
  BY <1>1, Zenon DEF After, AfterOf
<1>4. PICK l \in Nat : l = Len(tokens)
  BY StatesAreContainers
<1>5. ASSUME NEW T \in Seq(Tokens), l < Len(T), T[l + 1] = t
      PROVE  Completes(T, strict, want, states, l) <=> Completes(T, strict, want', states', l + 1)
  <2>1. PICK s : s = states
    OBVIOUS
  <2>2. PICK r : r = states'
    OBVIOUS
  <2>3. s \in Seq(Grammar!Containers) /\ Len(T) \in Nat /\ T[l + 1] # "]" /\ l + 1 \in Nat
    BY <1>2, <1>5, <2>1, StatesAreContainers
  <2>4. r \in Seq(Grammar!Containers) /\ (Completes(T, strict, want, s, l) <=> Completes(T, strict, "value", r, l))
    <3>1. PICK w : w = want
      OBVIOUS
    <3>2. w \in {"value", "first_item"} /\ r = IF w = "first_item" THEN Append(s, "array") ELSE s
      BY <1>1, <2>1, <2>2, <3>1, Zenon
    <3>3. r \in Seq(Grammar!Containers) /\ (Completes(T, strict, w, s, l) <=> Completes(T, strict, "value", r, l))
      BY <1>5, <2>3, <3>2, WantedValueCompletes, Zenon
    <3> QED
      BY <3>1, <3>3, Zenon
  <2>5. Completes(T, strict, "value", r, l) <=> Done(T, strict, r, Len(r), l + 1 + 1)
    BY <1>5, <2>3, <2>4, ScalarCompletes, Zenon
  <2>6. Completes(T, strict, AfterOf(strict, r), r, l + 1) <=> Done(T, strict, r, Len(r), l + 1 + 1)
    BY <2>3, <2>4, AfterCompletes, Zenon DEF GInv
  <2> QED
    BY <1>3, <2>1, <2>2, <2>4, <2>5, <2>6, Zenon
<1>6. OnTheWay'
  <2>1. \A T \in Seq(Tokens) : KeepsWay(T, Len(tokens), t)
    BY <1>4, <1>5, Zenon DEF KeepsWay
  <2> QED
    BY <1>1, <1>2, <2>1, StatesAreContainers, ReadOn, Zenon DEF GInv
<1> QED
  BY <1>1, <1>3, <1>6 DEF GInv, AfterOf

LEMMA BeginWay ==
  ASSUME Control, GInv, NEW kind \in Grammar!Containers,
         NEW next, next = IF kind = "array" THEN "first_item" ELSE "first_key",
         Begin(Grammar!Opening(kind), kind, next)
  PROVE  GInv'
<1>0. PICK t : t = Grammar!Opening(kind)
  OBVIOUS
<1>1. /\ want \in {"value", "first_item"} /\ Read(t) /\ want' = next /\ strict' = strict
      /\ states' = IF want = "first_item" THEN Append(states, "array") ELSE states
  BY <1>0, Zenon DEF Begin
<1>2. t \in Tokens /\ t # "]"
  BY <1>0 DEF Tokens, Punctuation, Grammar!Opening
<1>3. kind \in {"array", "object"} /\ next \in {"first_item", "first_key"}
  BY DEF Grammar!Containers
<1>4. PICK l \in Nat : l = Len(tokens)
  BY StatesAreContainers
<1>5. ASSUME NEW T \in Seq(Tokens), l < Len(T), T[l + 1] = t
      PROVE  Completes(T, strict, want, states, l) <=> Completes(T, strict, want', states', l + 1)
  <2>1. PICK s : s = states
    OBVIOUS
  <2>2. PICK r : r = states'
    OBVIOUS
  <2>3. s \in Seq(Grammar!Containers) /\ Len(T) \in Nat /\ T[l + 1] # "]" /\ l + 1 \in Nat
    BY <1>2, <1>5, <2>1, StatesAreContainers
  <2>4. r \in Seq(Grammar!Containers) /\ (Completes(T, strict, want, s, l) <=> Completes(T, strict, "value", r, l))
    <3>1. PICK w : w = want
      OBVIOUS
    <3>2. w \in {"value", "first_item"} /\ r = IF w = "first_item" THEN Append(s, "array") ELSE s
      BY <1>1, <2>1, <2>2, <3>1, Zenon
    <3>3. r \in Seq(Grammar!Containers) /\ (Completes(T, strict, w, s, l) <=> Completes(T, strict, "value", r, l))
      BY <1>5, <2>3, <3>2, WantedValueCompletes, Zenon
    <3> QED
      BY <3>1, <3>3, Zenon
  <2>5. Completes(T, strict, "value", r, l) <=>
          \E q \in Nat : InsideAt(T, kind, l + 1 + 1, q) /\ Done(T, strict, r, Len(r), q)
    BY <1>0, <1>5, <2>3, <2>4, OpeningCompletes, Zenon
  <2>6. Completes(T, strict, next, r, l + 1) <=>
          \E q \in Nat : InsideAt(T, kind, l + 1 + 1, q) /\ Done(T, strict, r, Len(r), q)
    <3>1. CASE kind = "array"
      <4>1. next = "first_item"
        BY <3>1
      <4> QED
        BY <3>1, <4>1, Zenon DEF Completes
    <3>2. CASE kind = "object"
      <4>1. next = "first_key"
        BY <3>2
      <4> QED
        BY <3>2, <4>1, Zenon DEF Completes
    <3> QED
      BY <1>3, <3>1, <3>2
  <2> QED
    BY <1>1, <2>1, <2>2, <2>4, <2>5, <2>6, Zenon
<1>6. OnTheWay'
  <2>1. \A T \in Seq(Tokens) : KeepsWay(T, Len(tokens), t)
    BY <1>4, <1>5, Zenon DEF KeepsWay
  <2> QED
    BY <1>1, <1>2, <2>1, StatesAreContainers, ReadOn, Zenon DEF GInv
<1> QED
  BY <1>1, <1>3, <1>6 DEF GInv

LEMMA EndWay ==
  ASSUME Control, GInv, NEW kind \in Grammar!Containers, Read(Grammar!Closing(kind)),
         \/ want = IF kind = "array" THEN "first_item" ELSE "first_key"
         \/ want = "separator" /\ Top(states) = kind,
         states' = Inner, want' = After(Inner), strict' = strict
  PROVE  GInv'
<1>1. PICK t : t = Grammar!Closing(kind)
  OBVIOUS
<1>2. t \in Tokens
  BY <1>1 DEF Tokens, Punctuation, Grammar!Closing
<1>3. kind \in {"array", "object"}
  BY DEF Grammar!Containers
<1>4. PICK l \in Nat : l = Len(tokens)
  BY StatesAreContainers
<1>5. want' = AfterOf(strict, states')
  BY Zenon DEF After, AfterOf
<1>6. ASSUME NEW T \in Seq(Tokens), l < Len(T), T[l + 1] = t
      PROVE  Completes(T, strict, want, states, l) <=> Completes(T, strict, want', states', l + 1)
  <2>1. PICK s : s = states
    OBVIOUS
  <2>2. PICK r : r = states'
    OBVIOUS
  <2>3. s \in Seq(Grammar!Containers) /\ Len(T) \in Nat /\ l + 1 \in Nat
    BY <2>1, StatesAreContainers
  <2>4. r \in Seq(Grammar!Containers) /\ (Completes(T, strict, want, s, l) <=> Done(T, strict, r, Len(r), l + 1 + 1))
    <3>1. CASE want = "separator"
      <4>1. r = Rest(s) /\ s # <<>> /\ s[Len(s)] = kind
        BY <1>3, <2>1, <2>2, <3>1 DEF Inner, Top, Control
      <4>2. r \in Seq(Grammar!Containers)
        BY <2>3, <4>1, Stacks, Zenon
      <4>3. T[l + 1] = Grammar!Closing(s[Len(s)])
        BY <1>1, <1>6, <4>1, Zenon
      <4>4. Completes(T, strict, "separator", s, l) <=> Done(T, strict, Rest(s), Len(Rest(s)), l + 1 + 1)
        BY <1>6, <2>3, <4>1, <4>3, ClosingCompletes, Zenon
      <4> QED
        BY <3>1, <4>1, <4>2, <4>4, Zenon
    <3>2. CASE want # "separator"
      <4>1. r = s /\ want = IF kind = "array" THEN "first_item" ELSE "first_key"
        BY <2>1, <2>2, <3>2 DEF Inner
      <4>2. (\E q \in Nat : InsideAt(T, kind, l + 1, q) /\ Done(T, strict, s, Len(s), q)) <=>
              Done(T, strict, s, Len(s), l + 1 + 1)
        BY <1>1, <1>6, <2>3, EmptyCompletes, Zenon
      <4>3. Completes(T, strict, want, s, l) <=>
              \E q \in Nat : InsideAt(T, kind, l + 1, q) /\ Done(T, strict, s, Len(s), q)
        <5>1. CASE kind = "array"
          <6>1. want = "first_item"
            BY <4>1, <5>1
          <6> QED
            BY <5>1, <6>1, Zenon DEF Completes
        <5>2. CASE kind = "object"
          <6>1. want = "first_key"
            BY <4>1, <5>2
          <6> QED
            BY <5>2, <6>1, Zenon DEF Completes
        <5> QED
          BY <1>3, <5>1, <5>2
      <4> QED
        BY <2>3, <4>1, <4>2, <4>3, Zenon
    <3> QED
      BY <3>1, <3>2
  <2>5. Completes(T, strict, AfterOf(strict, r), r, l + 1) <=> Done(T, strict, r, Len(r), l + 1 + 1)
    BY <2>3, <2>4, AfterCompletes, Zenon DEF GInv
  <2> QED
    BY <1>5, <2>1, <2>2, <2>4, <2>5, Zenon
<1>7. OnTheWay'
  <2>1. \A T \in Seq(Tokens) : KeepsWay(T, Len(tokens), t)
    BY <1>4, <1>6, Zenon DEF KeepsWay
  <2> QED
    BY <1>1, <1>2, <2>1, StatesAreContainers, ReadOn, Zenon DEF GInv
<1> QED
  BY <1>5, <1>7 DEF GInv, AfterOf

LEMMA KeyWay ==
  ASSUME Control, GInv, NEW s \in Strings, Key(s)
  PROVE  GInv'
<1>1. /\ want \in {"first_key", "key"} /\ Read(s) /\ strict' = strict /\ states' = states
      /\ want' = IF want = "key" THEN "name_separator" ELSE "first_name_separator"
  BY Zenon DEF Key
<1>2. s \in Tokens
  BY DEF Tokens
<1>3. PICK l \in Nat : l = Len(tokens)
  BY StatesAreContainers
<1>4. ASSUME NEW T \in Seq(Tokens), l < Len(T), T[l + 1] = s
      PROVE  Completes(T, strict, want, states, l) <=> Completes(T, strict, want', states', l + 1)
  <2>1. CASE want = "key"
    <3>1. want' = "name_separator"
      BY <1>1, <2>1
    <3> QED
      BY <1>1, <2>1, <3>1, Zenon DEF Completes
  <2>2. CASE want = "first_key"
    <3>1. want' = "first_name_separator"
      BY <1>1, <2>2
    <3>2. Completes(T, strict, "first_key", states, l) <=> Completes(T, strict, "first_name_separator", states, l + 1)
      <4>1. Len(T) \in Nat /\ T[l + 1] \in Strings
        BY <1>4, StatesAreContainers
      <4> QED
        BY <4>1, FirstKeyCompletes, Zenon
    <3> QED
      BY <1>1, <2>2, <3>1, <3>2, Zenon
  <2> QED
    BY <1>1, <2>1, <2>2
<1>5. OnTheWay'
  <2>1. \A T \in Seq(Tokens) : KeepsWay(T, Len(tokens), s)
    BY <1>3, <1>4, Zenon DEF KeepsWay
  <2> QED
    BY <1>1, <1>2, <2>1, StatesAreContainers, ReadOn, Zenon DEF GInv
<1>6. tokens' # <<>> /\ Top(tokens') = s
  <2>1. tokens' = Append(tokens, s) /\ tokens \in Seq(Tokens)
    BY <1>1, StatesAreContainers DEF Read
  <2> QED
    BY <1>2, <2>1, Stacks DEF Top
<1> QED
  BY <1>1, <1>5, <1>6 DEF GInv

LEMMA NameSeparatorWay ==
  ASSUME Control, GInv, NameSeparator
  PROVE  GInv'
<1>1. /\ want \in {"name_separator", "first_name_separator"} /\ Read(":") /\ strict' = strict /\ want' = "value"
      /\ states' = IF want = "first_name_separator" THEN Append(states, "object") ELSE states
  BY Zenon DEF NameSeparator
<1>2. ":" \in Tokens
  BY DEF Tokens, Punctuation
<1>3. tokens # <<>> /\ Top(tokens) \in Strings
  BY <1>1 DEF GInv
<1>4. PICK l \in Nat \ {0} : l = Len(tokens)
  BY <1>3, StatesAreContainers
<1>5. ASSUME NEW T \in Seq(Tokens), Begins(T), l < Len(T), T[l + 1] = ":"
      PROVE  Completes(T, strict, want, states, l) <=> Completes(T, strict, want', states', l + 1)
  <2>1. PICK s : s = states
    OBVIOUS
  <2>2. s \in Seq(Grammar!Containers) /\ Len(T) \in Nat
    BY <2>1, StatesAreContainers
  <2>3. T[l] \in Strings
    BY <1>3, <1>4, <1>5 DEF Begins, Top
  <2>4. CASE want = "name_separator"
    <3>1. s # <<>> /\ s[Len(s)] = "object" /\ states' = s
      BY <1>1, <2>1, <2>4 DEF Control, Top
    <3>2. Completes(T, strict, "name_separator", s, l) <=> Completes(T, strict, "value", s, l + 1)
      BY <1>5, <2>2, <2>3, <3>1, MemberCompletes, Zenon
    <3> QED
      BY <1>1, <2>1, <2>4, <3>1, <3>2, Zenon
  <2>5. CASE want = "first_name_separator"
    <3>1. states' = Append(s, "object")
      BY <1>1, <2>1, <2>5
    <3>2. Completes(T, strict, "first_name_separator", s, l) <=> Completes(T, strict, "value", Append(s, "object"), l + 1)
      BY <1>5, <2>2, <2>3, FirstMemberCompletes, Zenon
    <3> QED
      BY <1>1, <2>1, <2>5, <3>1, <3>2, Zenon
  <2> QED
    BY <1>1, <2>4, <2>5
<1>6. OnTheWay'
  <2>1. \A T \in Seq(Tokens) : KeepsWay(T, Len(tokens), ":")
    BY <1>4, <1>5, Zenon DEF KeepsWay
  <2> QED
    BY <1>1, <1>2, <2>1, StatesAreContainers, ReadOn, Zenon DEF GInv
<1> QED
  BY <1>1, <1>6 DEF GInv

LEMMA ValueSeparatorWay ==
  ASSUME Control, GInv, ValueSeparator
  PROVE  GInv'
<1>1. /\ want = "separator" /\ Read(Comma) /\ strict' = strict /\ states' = states
      /\ want' = AfterComma(Top(states))
  BY Zenon DEF ValueSeparator, Comma
<1>2. Comma \in Tokens
  BY Zenon DEF Tokens, Punctuation, Comma
<1>3. PICK l \in Nat : l = Len(tokens)
  BY StatesAreContainers
<1>4. states # <<>>
  BY <1>1 DEF Control
<1>5. ASSUME NEW T \in Seq(Tokens), l < Len(T), T[l + 1] = Comma
      PROVE  Completes(T, strict, want, states, l) <=> Completes(T, strict, want', states', l + 1)
  <2>1. PICK s : s = states
    OBVIOUS
  <2>2. s \in Seq(Grammar!Containers) /\ Len(T) \in Nat
    BY <2>1, StatesAreContainers
  <2>3. Completes(T, strict, "separator", s, l) <=> Completes(T, strict, AfterComma(s[Len(s)]), s, l + 1)
    BY <1>4, <1>5, <2>1, <2>2, CommaCompletes, Zenon
  <2> QED
    BY <1>1, <2>1, <2>3, Zenon DEF Top
<1>6. OnTheWay'
  <2>1. \A T \in Seq(Tokens) : KeepsWay(T, Len(tokens), Comma)
    BY <1>3, <1>5, Zenon DEF KeepsWay
  <2> QED
    BY <1>1, <1>2, <2>1, StatesAreContainers, ReadOn, Zenon DEF GInv
<1>7. want' \in {"value", "key"}
  BY <1>1 DEF AfterComma
<1> QED
  BY <1>1, <1>6, <1>7 DEF GInv

LEMMA EndOfInputWay ==
  ASSUME Control, GInv, EndOfInput
  PROVE  GInv'
<1>1. want = "end" /\ Read("end_of_input") /\ strict' = strict /\ states' = states /\ want' = "accepted"
  BY Zenon DEF EndOfInput
<1>2. "end_of_input" \in Tokens /\ strict
  BY <1>1 DEF Tokens, Punctuation, GInv
<1>3. PICK l \in Nat : l = Len(tokens)
  BY StatesAreContainers
<1>4. ASSUME NEW T \in Seq(Tokens), l < Len(T), T[l + 1] = "end_of_input"
      PROVE  Completes(T, strict, want, states, l) <=> Completes(T, strict, want', states', l + 1)
  <2>1. EndAt(T, strict, l + 1) <=> Len(T) = l + 1
    BY <1>2, <1>4 DEF EndAt
  <2> QED
    BY <1>1, <2>1, Zenon DEF Completes
<1>5. OnTheWay'
  <2>1. \A T \in Seq(Tokens) : KeepsWay(T, Len(tokens), "end_of_input")
    BY <1>3, <1>4, Zenon DEF KeepsWay
  <2> QED
    BY <1>1, <1>2, <2>1, StatesAreContainers, ReadOn, Zenon DEF GInv
<1> QED
  BY <1>1, <1>5 DEF GInv

\* A text that goes on as the state of the parser says has a token next that is expected.
LEMMA NextIsExpected ==
  ASSUME Control, GInv, Running, NEW T \in Seq(Tokens), NEW l \in Nat, Completes(T, strict, want, states, l)
  PROVE  l < Len(T) /\ T[l + 1] \in Expected
<1> SUFFICES l + 1 <= Len(T) /\ T[l + 1] \in Expected
  OBVIOUS
<1>1. Len(T) \in Nat /\ "array" \in Grammar!Containers /\ "object" \in Grammar!Containers
  BY DEF Grammar!Containers
<1>2. CASE want = "value"
  <2>1. PICK q : ValueAt(T, l + 1, q)
    BY <1>2, Zenon DEF Completes
  <2>2. l + 1 \in 1 .. Len(T) /\ T[l + 1] \in ValueTokens
    BY <1>1, <2>1, ValueBegins, Zenon
  <2>3. Expected = ValueTokens
    BY <1>2 DEF Expected, ValueTokens
  <2> QED
    BY <2>2, <2>3
<1>3. CASE want = "first_item"
  <2>1. PICK q : InsideAt(T, "array", l + 1, q)
    BY <1>3, Zenon DEF Completes
  <2>2. l + 1 <= Len(T) /\ (T[l + 1] = "]" \/ T[l + 1] \in ValueTokens)
    BY <1>1, <2>1, ListBegins DEF InsideAt, Grammar!Closing
  <2> QED
    BY <1>3, <2>2 DEF Expected, ValueTokens
<1>4. CASE want = "first_key"
  <2>1. PICK q : InsideAt(T, "object", l + 1, q)
    BY <1>4, Zenon DEF Completes
  <2>2. l + 1 <= Len(T) /\ (T[l + 1] = "}" \/ T[l + 1] \in Strings)
    <3>1. CASE ListAt(T, "object", l + 1, q)
      <4>1. l + 1 \in 1 .. Len(T) /\ T[l + 1] \in Strings
        BY <1>1, <3>1, ListBegins, Zenon
      <4>2. l + 1 <= Len(T)
        BY <1>1, <4>1
      <4> QED
        BY <4>1, <4>2, Zenon
    <3>2. CASE ~ListAt(T, "object", l + 1, q)
      BY <2>1, <3>2 DEF InsideAt, Grammar!Closing
    <3> QED
      BY <3>1, <3>2
  <2> QED
    BY <1>4, <2>2 DEF Expected
<1>5. CASE want = "key"
  <2>1. PICK q : ListAt(T, "object", l + 1, q)
    BY <1>5, Zenon DEF Completes
  <2> QED
    BY <1>1, <1>5, <2>1, ListBegins DEF Expected
<1>6. CASE want \in {"name_separator", "first_name_separator"}
  <2>1. PICK q : ListAt(T, "object", l, q)
    BY <1>6, Zenon DEF Completes
  <2> QED
    BY <1>1, <1>6, <2>1, ListBegins DEF Expected
<1>7. CASE want = "separator"
  <2>1. PICK s : s = states
    OBVIOUS
  <2>2. s # <<>> /\ s \in Seq(Grammar!Containers)
    BY <1>7, <2>1, StatesAreContainers DEF Control
  <2>3. PICK k \in Nat \ {0} : k = Len(s)
    BY <2>2
  <2>4. Done(T, strict, s, k, l + 1)
    BY <1>7, <2>1, <2>3, Zenon DEF Completes
  <2>5. PICK q \in Nat : MoreAt(T, s[k], l + 1, q)
    <3>1. PICK p \in Nat : p = l + 1
      OBVIOUS
    <3>2. Done(T, strict, s, k, p) <=> \E q \in Nat : MoreAt(T, s[k], p, q) /\ Done(T, strict, s, k - 1, q)
      BY <1>1, DoneStep, Zenon
    <3> QED
      BY <2>4, <3>1, <3>2, Zenon
  <2>6. l + 1 <= Len(T) /\ (T[l + 1] = Grammar!Closing(s[k]) \/ T[l + 1] = Comma)
    BY <2>5, Zenon DEF MoreAt
  <2>7. Expected = {Comma, Grammar!Closing(s[k])}
    BY <1>7, <2>1, <2>3, Zenon DEF Expected, Comma, Grammar!Closing, Top
  <2> QED
    BY <2>6, <2>7, Zenon
<1>8. CASE want = "end"
  <2>1. EndAt(T, strict, l + 1) /\ strict
    BY <1>8, Zenon DEF Completes, GInv
  <2> QED
    BY <1>8, <2>1 DEF EndAt, Expected
<1> QED
  BY <1>2, <1>3, <1>4, <1>5, <1>6, <1>7, <1>8 DEF Control, Running, Wants

LEMMA ParseErrorWay ==
  ASSUME Control, GInv, NEW t \in Tokens, ParseError(t)
  PROVE  GInv'
<1>1. Running /\ t \notin Expected /\ Read(t) /\ strict' = strict /\ states' = states /\ want' = "rejected"
  BY Zenon DEF ParseError, Running
<1>2. PICK l \in Nat : l = Len(tokens)
  BY StatesAreContainers
<1>3. ASSUME NEW T \in Seq(Tokens), l < Len(T), T[l + 1] = t
      PROVE  Completes(T, strict, want, states, l) <=> Completes(T, strict, want', states', l + 1)
  <2>1. ~Completes(T, strict, want, states, l)
    BY <1>1, <1>3, NextIsExpected, Zenon
  <2>2. ~Completes(T, strict, want', states', l + 1)
    BY <1>1, Zenon DEF Completes
  <2> QED
    BY <2>1, <2>2
<1>4. OnTheWay'
  <2>1. \A T \in Seq(Tokens) : KeepsWay(T, Len(tokens), t)
    BY <1>2, <1>3, Zenon DEF KeepsWay
  <2> QED
    BY <1>1, <2>1, StatesAreContainers, ReadOn, Zenon DEF GInv
<1> QED
  BY <1>1, <1>4 DEF GInv

LEMMA InitWay == Init => GInv
<1> SUFFICES ASSUME Init PROVE GInv
  OBVIOUS
<1>1. strict \in BOOLEAN /\ tokens = <<>> /\ want = "value" /\ states = <<>>
  BY DEF Init
<1>2. ASSUME NEW T \in Seq(Tokens)
      PROVE  Grammar!IsText(T, EndsWith) <=> Completes(T, strict, want, states, Len(tokens))
  <2>1. Grammar!IsText(T, EndsWith) <=> \E q \in Nat : ValueAt(T, 1, q) /\ EndAt(T, strict, q)
    BY <1>1, TextByEnd, Zenon DEF EndsWith
  <2>2. \A q \in Nat : Done(T, strict, <<>>, 0, q) <=> EndAt(T, strict, q)
    BY DoneNone, Zenon
  <2>3. Len(tokens) = 0 /\ Len(states) = 0 /\ 0 + 1 = 1
    BY <1>1
  <2>4. Completes(T, strict, want, states, Len(tokens)) <=>
          \E q \in Nat : ValueAt(T, 0 + 1, q) /\ Done(T, strict, states, 0, q)
    BY <1>1, <2>3, Zenon DEF Completes
  <2> QED
    BY <1>1, <2>1, <2>2, <2>3, <2>4, Zenon
<1>3. OnTheWay
  BY <1>2, Zenon DEF OnTheWay
<1> QED
  BY <1>1, <1>3 DEF GInv

LEMMA NextKeepsWay ==
  ASSUME IInv, GInv, [Next]_vars
  PROVE  GInv'
<1>1. Control /\ "array" \in Grammar!Containers /\ "object" \in Grammar!Containers
  BY DEF IInv, Grammar!Containers
<1>2. ASSUME NEW t \in Strings \union Scalars, Value(t) PROVE GInv'
  BY <1>1, <1>2, ValueWay
<1>3. CASE BeginArray
  <2>1. Begin(Grammar!Opening("array"), "array", "first_item")
    BY <1>3, Zenon DEF BeginArray, Grammar!Opening
  <2> QED
    BY <1>1, <2>1, BeginWay
<1>4. CASE BeginObject
  <2>1. Begin(Grammar!Opening("object"), "object", "first_key")
    <3>1. Grammar!Opening("object") = "{"
      BY DEF Grammar!Opening
    <3> QED
      BY <1>4, <3>1, Zenon DEF BeginObject
  <2> QED
    BY <1>1, <2>1, BeginWay
<1>5. CASE EndArray
  <2>1. /\ want = "first_item" \/ (want = "separator" /\ Top(states) = "array")
        /\ Read("]") /\ states' = Inner /\ want' = After(Inner) /\ strict' = strict
    BY <1>5, Zenon DEF EndArray
  <2>2. Grammar!Closing("array") = "]"
    BY DEF Grammar!Closing
  <2> QED
    BY <1>1, <2>1, <2>2, EndWay
<1>6. CASE EndObject
  <2>1. /\ want = "first_key" \/ (want = "separator" /\ Top(states) = "object")
        /\ Read("}") /\ states' = Inner /\ want' = After(Inner) /\ strict' = strict
    BY <1>6, Zenon DEF EndObject
  <2>2. Grammar!Closing("object") = "}"
    BY DEF Grammar!Closing
  <2> QED
    BY <1>1, <2>1, <2>2, EndWay
<1>7. ASSUME NEW s \in Strings, Key(s) PROVE GInv'
  BY <1>1, <1>7, KeyWay
<1>8. CASE NameSeparator
  BY <1>1, <1>8, NameSeparatorWay
<1>9. CASE ValueSeparator
  BY <1>1, <1>9, ValueSeparatorWay
<1>10. CASE EndOfInput
  BY <1>1, <1>10, EndOfInputWay
<1>11. ASSUME NEW t \in Tokens, ParseError(t) PROVE GInv'
  BY <1>1, <1>11, ParseErrorWay
<1>12. CASE UNCHANGED vars
  BY <1>12 DEF vars, GInv, OnTheWay, Begins, EndsWith
<1> QED
  BY <1>2, <1>3, <1>4, <1>5, <1>6, <1>7, <1>8, <1>9, <1>10, <1>11, <1>12, Zenon DEF Next

\* What was read is a text of the grammar just when it is accepted, ...
LEMMA WayAccepts ==
  ASSUME IInv, GInv
  PROVE  AcceptsTheGrammar
<1>1. Control /\ tokens \in Seq(Tokens)
  BY DEF IInv, Control
<1>2. PICK l \in Nat : l = Len(tokens)
  BY <1>1
<1>3. Begins(tokens)
  BY <1>2 DEF Begins
<1>4. Grammar!IsText(tokens, EndsWith) <=> Completes(tokens, strict, want, states, l)
  BY <1>1, <1>2, <1>3, Zenon DEF GInv, OnTheWay
<1>5. ASSUME want # "accepted" PROVE ~Completes(tokens, strict, want, states, l)
  <2>1. CASE Running
    <3>1. ~(l < Len(tokens))
      BY <1>2
    <3> QED
      BY <1>1, <2>1, <3>1, NextIsExpected, Zenon
  <2>2. CASE ~Running
    <3>1. want = "rejected"
      BY <1>5, <2>2 DEF Running
    <3> QED
      BY <3>1, Zenon DEF Completes
  <2> QED
    BY <2>1, <2>2
<1>6. ASSUME want = "accepted" PROVE Completes(tokens, strict, want, states, l)
  BY <1>2, <1>6, Zenon DEF Completes
<1> QED
  BY <1>4, <1>5, <1>6, Zenon DEF AcceptsTheGrammar

-----------------------------------------------------------------------------
\* Where nothing is wrong yet, the rest of a text can be named: what is missing of
\* the innermost container, then the ends of all of them, then that of the input.

\* The closings of the first k containers of s behind u, the innermost first.
Behind(u, s, st) ==
  [i \in 1 .. Len(u) + Len(s) + (IF st THEN 1 ELSE 0) |->
     IF i <= Len(u) THEN u[i]
     ELSE IF i <= Len(u) + Len(s) THEN Grammar!Closing(s[Len(s) + 1 - (i - Len(u))])
     ELSE "end_of_input"]

LEMMA BehindEnds ==
  ASSUME NEW u \in Seq(Tokens), NEW s \in Seq(Grammar!Containers), NEW st \in BOOLEAN
  PROVE  /\ Behind(u, s, st) \in Seq(Tokens)
         /\ Len(u) <= Len(Behind(u, s, st))
         /\ \A i \in 1 .. Len(u) : Behind(u, s, st)[i] = u[i]
         /\ Done(Behind(u, s, st), st, s, Len(s), Len(u) + 1)
<1>1. PICK m \in Nat : m = Len(u)
  OBVIOUS
<1>2. PICK k \in Nat : k = Len(s)
  OBVIOUS
<1>3. PICK n \in Nat : n = m + k + (IF st THEN 1 ELSE 0)
  OBVIOUS
<1>4. m + k <= n /\ (st => n = m + k + 1) /\ (~st => n = m + k)
  BY <1>3
<1> DEFINE T == [i \in 1 .. n |-> IF i <= m THEN u[i]
                                  ELSE IF i <= m + k THEN Grammar!Closing(s[k + 1 - (i - m)])
                                  ELSE "end_of_input"]
           P == [j \in 0 .. k |-> m + 1 + (k - j)]
<1>5. Behind(u, s, st) = T
  BY <1>1, <1>2, <1>3, Zenon DEF Behind
<1>6. T \in Seq(Tokens) /\ Len(T) = n
  <2>1. \A kind : Grammar!Closing(kind) \in Tokens
    BY DEF Grammar!Closing, Tokens, Punctuation
  <2>2. "end_of_input" \in Tokens
    BY DEF Tokens, Punctuation
  <2>3. \A i \in 1 .. m : u[i] \in Tokens
    BY <1>1
  <2>4. \A i \in 1 .. n : i <= m => i \in 1 .. m
    OBVIOUS
  <2>5. T \in [1 .. n -> Tokens]
    BY <2>1, <2>2, <2>3, <2>4, Zenon
  <2> HIDE DEF T
  <2> QED
    BY <2>5
<1>7. /\ \A i \in 1 .. m : T[i] = u[i]
      /\ \A i \in 1 .. n : ~(i <= m) /\ i <= m + k => T[i] = Grammar!Closing(s[k + 1 - (i - m)])
      /\ \A i \in 1 .. n : ~(i <= m) /\ ~(i <= m + k) => T[i] = "end_of_input"
  <2>1. \A i \in 1 .. m : i \in 1 .. n /\ i <= m
    BY <1>4
  <2> QED
    BY <2>1, Zenon
<1>8. P \in [0 .. k -> Nat] /\ P[k] = m + 1 /\ P[0] = m + k + 1
  <2>1. \A j \in 0 .. k : m + 1 + (k - j) \in Nat
    OBVIOUS
  <2>2. k \in 0 .. k /\ 0 \in 0 .. k /\ m + 1 + (k - k) = m + 1 /\ m + 1 + (k - 0) = m + k + 1
    OBVIOUS
  <2> QED
    BY <2>1, <2>2, Zenon
<1>9. \A j \in 1 .. k : /\ P[j - 1] = P[j] + 1 /\ P[j] <= m + k /\ ~(P[j] <= m) /\ P[j] \in 1 .. n
                        /\ k + 1 - (P[j] - m) = j
  <2> TAKE j \in 1 .. k
  <2>1. j \in 0 .. k /\ j - 1 \in 0 .. k
    OBVIOUS
  <2>2. P[j] = m + 1 + (k - j) /\ P[j - 1] = m + 1 + (k - (j - 1))
    BY <2>1, Zenon
  <2> HIDE DEF P, T
  <2> QED
    BY <1>4, <2>2
<1> HIDE DEF P, T
<1>10. ASSUME NEW j \in 1 .. k PROVE MoreAt(T, s[j], P[j], P[j - 1])
  <2>1. T[P[j]] = Grammar!Closing(s[j])
    <3>1. P[j] \in 1 .. n /\ ~(P[j] <= m) /\ P[j] <= m + k /\ k + 1 - (P[j] - m) = j
      BY <1>9
    <3>2. \A i \in 1 .. n : ~(i <= m) /\ i <= m + k => T[i] = Grammar!Closing(s[k + 1 - (i - m)])
      BY <1>7
    <3>3. T[P[j]] = Grammar!Closing(s[k + 1 - (P[j] - m)])
      BY <3>1, <3>2, Zenon
    <3> QED
      BY <3>1, <3>3, Zenon
  <2>2. P[j] <= Len(T)
    <3>1. P[j] \in 1 .. n
      BY <1>9
    <3> QED
      BY <1>6, <3>1
  <2> QED
    BY <1>9, <2>1, <2>2, Zenon DEF MoreAt
<1>11. EndAt(T, st, P[0])
  <2>1. CASE st
    <3>1. n = m + k + 1 /\ n \in 1 .. n /\ ~(n <= m) /\ ~(n <= m + k)
      BY <1>4, <2>1
    <3>2. T[n] = "end_of_input"
      BY <1>7, <3>1, Zenon
    <3> QED
      BY <1>6, <1>8, <2>1, <3>1, <3>2, Zenon DEF EndAt
  <2>2. CASE ~st
    <3>1. n + 1 = m + k + 1
      BY <1>4, <2>2
    <3> QED
      BY <1>6, <1>8, <2>2, <3>1, Zenon DEF EndAt
  <2> QED
    BY <2>1, <2>2
<1>12. Done(T, st, s, k, m + 1)
  BY <1>8, <1>10, <1>11, Zenon DEF Done, Ends
<1>13. Len(u) <= Len(T)
  BY <1>1, <1>4, <1>6
<1> QED
  BY <1>1, <1>2, <1>5, <1>6, <1>7, <1>12, <1>13, Zenon

\* A value can be an array without items.
LEMMA ValueEnds ==
  ASSUME NEW T, Len(T) \in Nat, NEW st, NEW s \in Seq(Grammar!Containers), NEW l \in Nat, l + 1 < Len(T),
         T[l + 1] = "[", T[l + 1 + 1] = "]", Done(T, st, s, Len(s), l + 1 + 1 + 1)
  PROVE  Completes(T, st, "value", s, l)
<1>1. "array" \in Grammar!Containers /\ Grammar!Opening("array") = "[" /\ Grammar!Closing("array") = "]"
  BY DEF Grammar!Containers, Grammar!Opening, Grammar!Closing
<1>2. l < Len(T) /\ l + 1 \in Nat
  OBVIOUS
<1>3. \E q \in Nat : InsideAt(T, "array", l + 1 + 1, q) /\ Done(T, st, s, Len(s), q)
  BY <1>1, <1>2, EmptyCompletes, Zenon
<1> QED
  BY <1>1, <1>2, <1>3, OpeningCompletes, Zenon

\* Tokens of choice behind what was read, and then the ends of the containers of r.
LEMMA Continued ==
  ASSUME Control, strict \in BOOLEAN, NEW w \in Seq(Tokens), NEW r \in Seq(Grammar!Containers),
         NEW l \in Nat, l = Len(tokens)
  PROVE  \E T \in Seq(Tokens) :
           /\ Begins(T) /\ l + Len(w) <= Len(T)
           /\ \A j \in 1 .. Len(w) : T[l + j] = w[j]
           /\ Done(T, strict, r, Len(r), l + Len(w) + 1)
<1>1. PICK u : u = tokens \o w
  OBVIOUS
<1>2. PICK m \in Nat : m = Len(w)
  OBVIOUS
<1>3. tokens \in Seq(Tokens)
  BY StatesAreContainers
<1>4. /\ u \in Seq(Tokens) /\ Len(u) = l + m
      /\ \A i \in 1 .. l : u[i] = tokens[i]
      /\ \A j \in 1 .. m : u[l + j] = w[j]
  BY <1>1, <1>2, <1>3
<1>5. PICK T : T = Behind(u, r, strict)
  OBVIOUS
<1>6. T \in Seq(Tokens) /\ Len(u) <= Len(T) /\ (\A i \in 1 .. Len(u) : T[i] = u[i])
      /\ Done(T, strict, r, Len(r), Len(u) + 1)
  BY <1>4, <1>5, BehindEnds, Zenon
<1>7. /\ \A i \in 1 .. l : i \in 1 .. l + m
      /\ \A j \in 1 .. m : l + j \in 1 .. l + m
      /\ l <= l + m
  OBVIOUS
<1>8. Begins(T)
  <2>1. Len(T) \in Nat
    BY <1>6
  <2>2. l <= Len(T)
    BY <1>4, <1>6, <1>7, <2>1
  <2> QED
    BY <1>4, <1>6, <1>7, <2>2, Zenon DEF Begins
<1>9. \A j \in 1 .. m : T[l + j] = w[j]
  BY <1>4, <1>6, <1>7, Zenon
<1> QED
  BY <1>2, <1>4, <1>6, <1>8, <1>9, Zenon

\* What one action leaves of the keys: only a colon puts an object on the stack,
\* and a key was read before it.
KeysExist == Strings = {} => \A i \in 1 .. Len(states) : states[i] # "object"

LEMMA NextKeepsKeys ==
  ASSUME Control, GInv, KeysExist, [Next]_vars
  PROVE  KeysExist'
<1> SUFFICES ASSUME Strings = {}, NEW i \in 1 .. Len(states') PROVE states'[i] # "object"
  BY Zenon DEF KeysExist
<1>1. states \in Seq(Grammar!Containers) /\ \A j \in 1 .. Len(states) : states[j] # "object"
  BY StatesAreContainers DEF KeysExist
<1>2. CASE states' = states
  BY <1>1, <1>2
<1>3. CASE states' = Append(states, "array")
  BY <1>1, <1>3
<1>4. CASE states' = Rest(states)
  <2>1. CASE states = <<>>
    BY <1>1, <1>4, <2>1, Stacks
  <2>2. CASE states # <<>>
    <3>1. Len(states') = Len(states) - 1 /\ \A j \in 1 .. Len(states) - 1 : states'[j] = states[j]
      BY <1>1, <1>4, <2>2, Stacks
    <3> QED
      BY <1>1, <3>1
  <2> QED
    BY <2>1, <2>2
<1>5. want \notin {"name_separator", "first_name_separator"}
  BY DEF GInv
<1>6. \/ states' = states
      \/ states' = Append(states, "array")
      \/ states' = Rest(states)
  BY <1>5, Zenon DEF Next, Value, Begin, BeginArray, BeginObject, EndArray, EndObject, Inner, Key,
                     NameSeparator, ValueSeparator, EndOfInput, ParseError, vars
<1> QED
  BY <1>2, <1>3, <1>4, <1>6

LEMMA Listed ==
  ASSUME NEW a \in Tokens, NEW b \in Tokens, NEW c \in Tokens, NEW d \in Tokens
  PROVE  /\ <<a, b>> \in Seq(Tokens) /\ Len(<<a, b>>) = 2 /\ <<a, b>>[1] = a /\ <<a, b>>[2] = b
         /\ <<a, b, c>> \in Seq(Tokens) /\ Len(<<a, b, c>>) = 3
         /\ <<a, b, c>>[1] = a /\ <<a, b, c>>[2] = b /\ <<a, b, c>>[3] = c
         /\ <<a, b, c, d>> \in Seq(Tokens) /\ Len(<<a, b, c, d>>) = 4
         /\ <<a, b, c, d>>[1] = a /\ <<a, b, c, d>>[2] = b /\ <<a, b, c, d>>[3] = c /\ <<a, b, c, d>>[4] = d
OBVIOUS

\* While nothing was rejected, some text begins with what was read.
LEMMA SomeTextBegins ==
  ASSUME Control, GInv, KeysExist, want # "rejected"
  PROVE  \E T \in Seq(Tokens) : Begins(T) /\ Completes(T, strict, want, states, Len(tokens))
<1>1. strict \in BOOLEAN /\ tokens \in Seq(Tokens) /\ states \in Seq(Grammar!Containers)
  BY StatesAreContainers DEF GInv
<1>2. PICK l \in Nat : l = Len(tokens)
  BY <1>1
<1>3. PICK s : s = states
  OBVIOUS
<1>4. s \in Seq(Grammar!Containers) /\ \A T \in Seq(Tokens) : Len(T) \in Nat
  BY <1>1, <1>3
<1>5. /\ "[" \in Tokens /\ "]" \in Tokens /\ "}" \in Tokens /\ ":" \in Tokens /\ "end_of_input" \in Tokens
      /\ Strings \in SUBSET Tokens
  BY DEF Tokens, Punctuation
<1>6. Grammar!Closing("array") = "]" /\ Grammar!Closing("object") = "}"
      /\ "array" \in Grammar!Containers /\ "object" \in Grammar!Containers
  BY DEF Grammar!Closing, Grammar!Containers
<1>7. CASE want = "value"
  <2>1. PICK w : w = <<"[", "]">>
    OBVIOUS
  <2>2. w \in Seq(Tokens) /\ Len(w) = 2 /\ w[1] = "[" /\ w[2] = "]"
    BY <1>5, <2>1, Listed, Zenon
  <2>3. PICK T \in Seq(Tokens) :
          Begins(T) /\ l + 2 <= Len(T) /\ (\A j \in 1 .. 2 : T[l + j] = w[j]) /\ Done(T, strict, s, Len(s), l + 2 + 1)
    BY <1>1, <1>2, <1>4, <2>2, Continued, Zenon
  <2>4. l + 2 = l + 1 + 1 /\ 1 \in 1 .. 2 /\ 2 \in 1 .. 2 /\ l + 1 < Len(T)
    BY <1>4, <2>3
  <2>5. T[l + 1] = "[" /\ T[l + 1 + 1] = "]" /\ Done(T, strict, s, Len(s), l + 1 + 1 + 1)
    BY <2>2, <2>3, <2>4, Zenon
  <2>6. Completes(T, strict, "value", s, l)
    BY <1>4, <2>4, <2>5, ValueEnds, Zenon
  <2> QED
    BY <1>2, <1>3, <1>7, <2>3, <2>6, Zenon
<1>8. ASSUME NEW kind \in Grammar!Containers, want = IF kind = "array" THEN "first_item" ELSE "first_key"
      PROVE  \E T \in Seq(Tokens) : Begins(T) /\ Completes(T, strict, want, states, Len(tokens))
  <2>1. PICK w : w = <<Grammar!Closing(kind)>>
    OBVIOUS
  <2>2. w \in Seq(Tokens) /\ Len(w) = 1 /\ w[1] = Grammar!Closing(kind)
    <3>1. Grammar!Closing(kind) \in Tokens
      BY <1>5 DEF Grammar!Closing
    <3> QED
      BY <2>1, <3>1
  <2>3. PICK T \in Seq(Tokens) :
          Begins(T) /\ l + 1 <= Len(T) /\ (\A j \in 1 .. 1 : T[l + j] = w[j]) /\ Done(T, strict, s, Len(s), l + 1 + 1)
    BY <1>1, <1>2, <1>4, <2>2, Continued, Zenon
  <2>4. 1 \in 1 .. 1 /\ l < Len(T)
    BY <1>4, <2>3
  <2>5. T[l + 1] = Grammar!Closing(kind)
    BY <2>2, <2>3, <2>4, Zenon
  <2>6. \E q \in Nat : InsideAt(T, kind, l + 1, q) /\ Done(T, strict, s, Len(s), q)
    BY <1>4, <2>3, <2>4, <2>5, EmptyCompletes, Zenon
  <2>7. Completes(T, strict, want, s, l)
    <3>1. CASE kind = "array"
      <4>1. want = "first_item"
        BY <1>8, <3>1
      <4> QED
        BY <2>6, <3>1, <4>1, Zenon DEF Completes
    <3>2. CASE kind # "array"
      <4>1. want = "first_key" /\ kind = "object"
        BY <1>8, <3>2 DEF Grammar!Containers
      <4> QED
        BY <2>6, <4>1, Zenon DEF Completes
    <3> QED
      BY <3>1, <3>2
  <2> QED
    BY <1>2, <1>3, <2>3, <2>7, Zenon
<1>9. CASE want \in {"name_separator", "first_name_separator"}
  <2>1. PICK r : r = IF want = "name_separator" THEN s ELSE Append(s, "object")
    OBVIOUS
  <2>2. r \in Seq(Grammar!Containers)
    <3>1. Append(s, "object") \in Seq(Grammar!Containers)
      <4>1. "object" \in Grammar!Containers
        BY <1>6
      <4>2. s \in Seq(Grammar!Containers)
        BY <1>4
      <4> QED
        BY <4>1, <4>2
    <3> QED
      BY <1>4, <2>1, <3>1, Zenon
  <2>3. PICK w : w = <<":", "[", "]">>
    OBVIOUS
  <2>4. w \in Seq(Tokens) /\ Len(w) = 3 /\ w[1] = ":" /\ w[2] = "[" /\ w[3] = "]"
    BY <1>5, <2>3, Listed, Zenon
  <2>5. PICK T \in Seq(Tokens) :
          Begins(T) /\ l + 3 <= Len(T) /\ (\A j \in 1 .. 3 : T[l + j] = w[j]) /\ Done(T, strict, r, Len(r), l + 3 + 1)
    BY <1>1, <1>2, <2>2, <2>4, Continued, Zenon
  <2>6. /\ l + 2 = l + 1 + 1 /\ l + 3 = l + 1 + 1 + 1 /\ 1 \in 1 .. 3 /\ 2 \in 1 .. 3 /\ 3 \in 1 .. 3
        /\ l + 1 + 1 < Len(T) /\ l + 1 \in Nat /\ l < Len(T)
    BY <1>4, <2>5
  <2>7. T[l + 1] = ":" /\ T[l + 1 + 1] = "[" /\ T[l + 1 + 1 + 1] = "]" /\ Done(T, strict, r, Len(r), l + 1 + 1 + 1 + 1)
    BY <2>4, <2>5, <2>6, Zenon
  <2>8. Completes(T, strict, "value", r, l + 1)
    BY <1>4, <2>2, <2>6, <2>7, ValueEnds, Zenon
  <2>9. l \in Nat \ {0} /\ T[l] \in Strings
    BY <1>1, <1>2, <1>9, <2>5 DEF GInv, Begins, Top
  <2>10. Completes(T, strict, want, s, l)
    <3>1. CASE want = "name_separator"
      <4>1. s # <<>> /\ s[Len(s)] = "object" /\ r = s
        BY <1>3, <2>1, <3>1 DEF Control, Top
      <4> QED
        BY <1>4, <2>6, <2>7, <2>8, <2>9, <3>1, <4>1, MemberCompletes, Zenon
    <3>2. CASE want = "first_name_separator"
      <4>1. r = Append(s, "object")
        BY <2>1, <3>2
      <4> QED
        BY <1>4, <2>6, <2>7, <2>8, <2>9, <3>2, <4>1, FirstMemberCompletes, Zenon
    <3> QED
      BY <1>9, <3>1, <3>2
  <2> QED
    BY <1>2, <1>3, <2>5, <2>10, Zenon
<1>10. CASE want = "key"
  <2>1. s # <<>> /\ s[Len(s)] = "object"
    BY <1>3, <1>10 DEF Control, Top
  <2>2. PICK k \in Strings : TRUE
    <3>1. Len(s) \in 1 .. Len(s)
      BY <1>4, <2>1
    <3> QED
      BY <1>3, <2>1, <3>1, Zenon DEF KeysExist
  <2>3. PICK w : w = <<k, ":", "[", "]">>
    OBVIOUS
  <2>4. w \in Seq(Tokens) /\ Len(w) = 4 /\ w[1] = k /\ w[2] = ":" /\ w[3] = "[" /\ w[4] = "]"
    <3>1. k \in Tokens
      BY <1>5
    <3> QED
      BY <1>5, <2>3, <3>1, Listed, Zenon
  <2>5. PICK T \in Seq(Tokens) :
          Begins(T) /\ l + 4 <= Len(T) /\ (\A j \in 1 .. 4 : T[l + j] = w[j]) /\ Done(T, strict, s, Len(s), l + 4 + 1)
    BY <1>1, <1>2, <1>4, <2>4, Continued, Zenon
  <2>6. /\ l + 2 = l + 1 + 1 /\ l + 3 = l + 1 + 1 + 1 /\ l + 4 = l + 1 + 1 + 1 + 1
        /\ 1 \in 1 .. 4 /\ 2 \in 1 .. 4 /\ 3 \in 1 .. 4 /\ 4 \in 1 .. 4
        /\ l + 1 + 1 + 1 < Len(T) /\ l + 1 \in Nat \ {0} /\ l + 1 + 1 \in Nat /\ l + 1 < Len(T)
    BY <1>4, <2>5
  <2>7. /\ T[l + 1] = k /\ T[l + 1 + 1] = ":" /\ T[l + 1 + 1 + 1] = "[" /\ T[l + 1 + 1 + 1 + 1] = "]"
        /\ Done(T, strict, s, Len(s), l + 1 + 1 + 1 + 1 + 1)
    BY <2>4, <2>5, <2>6, Zenon
  <2>8. Completes(T, strict, "value", s, l + 1 + 1)
    BY <1>4, <2>6, <2>7, ValueEnds, Zenon
  <2>9. Completes(T, strict, "name_separator", s, l + 1)
    BY <1>4, <2>1, <2>2, <2>6, <2>7, <2>8, MemberCompletes, Zenon
  <2>10. Completes(T, strict, "key", s, l)
    BY <2>9, Zenon DEF Completes
  <2> QED
    BY <1>2, <1>3, <1>10, <2>5, <2>10, Zenon
<1>11. CASE want = "separator"
  <2>1. PICK w : w = <<>>
    OBVIOUS
  <2>2. w \in Seq(Tokens) /\ Len(w) = 0 /\ l + 0 + 1 = l + 1
    BY <2>1
  <2>3. PICK T \in Seq(Tokens) : Begins(T) /\ Done(T, strict, s, Len(s), l + 1)
    BY <1>1, <1>2, <1>4, <2>2, Continued, Zenon
  <2> QED
    BY <1>2, <1>3, <1>11, <2>3, Zenon DEF Completes
<1>12. CASE want = "end"
  <2>1. PICK T : T = Append(tokens, "end_of_input")
    OBVIOUS
  <2>2. T \in Seq(Tokens) /\ Len(T) = l + 1 /\ T[l + 1] = "end_of_input" /\ \A i \in 1 .. l : T[i] = tokens[i]
    <3>1. "end_of_input" \in Tokens
      BY <1>5
    <3> QED
      BY <1>1, <1>2, <2>1, <3>1
  <2>3. Begins(T)
    BY <1>2, <2>2 DEF Begins
  <2>4. strict
    BY <1>12 DEF GInv
  <2> QED
    BY <1>2, <1>12, <2>2, <2>3, <2>4, Zenon DEF Completes, EndAt
<1>13. CASE want = "accepted"
  <2>1. Begins(tokens)
    BY <1>1 DEF Begins
  <2> QED
    BY <1>1, <1>13, <2>1, Zenon DEF Completes
<1>14. want \in {"first_item", "first_key"} => \E kind \in Grammar!Containers : want = IF kind = "array" THEN "first_item" ELSE "first_key"
  <2>1. CASE want = "first_item"
    BY <1>6, <2>1
  <2>2. CASE want = "first_key"
    <3>1. want = IF "object" = "array" THEN "first_item" ELSE "first_key"
      BY <2>2
    <3> QED
      BY <1>6, <3>1, Zenon
  <2> QED
    BY <2>1, <2>2
<1> QED
  <2>1. CASE want \in {"first_item", "first_key"}
    BY <1>8, <1>14, <2>1, Zenon
  <2> QED
    BY <1>7, <1>9, <1>10, <1>11, <1>12, <1>13, <2>1 DEF Control, Wants

\* An input is rejected just when no text of the grammar begins with what was read.
RejectsAtOnce ==
  want = "rejected" <=> ~\E T \in Seq(Tokens) : Begins(T) /\ Grammar!IsText(T, EndsWith)

LEMMA WayRejects ==
  ASSUME Control, GInv, KeysExist
  PROVE  RejectsAtOnce
<1>1. CASE want = "rejected"
  <2>1. \A T : ~Completes(T, strict, want, states, Len(tokens))
    BY <1>1, Zenon DEF Completes
  <2> QED
    BY <1>1, <2>1, Zenon DEF GInv, OnTheWay, RejectsAtOnce
<1>2. CASE want # "rejected"
  BY <1>2, SomeTextBegins, Zenon DEF GInv, OnTheWay, RejectsAtOnce
<1> QED
  BY <1>1, <1>2

\* The parser accepts the texts of RFC 8259 and no others, of any length and depth:
\* what was read when sax_parse_internal returns true is a text, strict or not, and
\* no text is left unaccepted when its last token was read.
THEOREM AcceptsTheGrammarAlways == Spec => []AcceptsTheGrammar
<1>1. IInv /\ GInv /\ [Next]_vars => GInv'
  BY NextKeepsWay
<1>2. IInv /\ GInv => AcceptsTheGrammar
  BY WayAccepts
<1> QED
  BY <1>1, <1>2, InitInv, NextKeepsInv, InitWay, PTL DEF Spec

\* parse_error is reported at the first token that is wrong, the one whose position
\* it names: no text begins with what was read then, and before it some text did.
THEOREM RejectsAtOnceAlways == Spec => []RejectsAtOnce
<1>1. Init => KeysExist
  BY DEF Init, KeysExist
<1>2. IInv /\ GInv /\ [Next]_vars => GInv'
  BY NextKeepsWay
<1>3. IInv /\ GInv /\ KeysExist /\ [Next]_vars => KeysExist'
  BY NextKeepsKeys DEF IInv
<1>4. IInv /\ GInv /\ KeysExist => RejectsAtOnce
  BY WayRejects DEF IInv
<1> QED
  BY <1>1, <1>2, <1>3, <1>4, InitInv, NextKeepsInv, InitWay, PTL DEF Spec
=============================================================================
