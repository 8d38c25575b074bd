----------------------------- MODULE JsonEdits -----------------------------
(***************************************************************************)
(* A basic_json value and its modifiers: patches and merge patches,        *)
(* push_back, emplace_back, emplace, insert, update, erase, clear, swap    *)
(* and access by operator[] and at, each of which refuses a value of the   *)
(* wrong type.                                                             *)
(***************************************************************************)
EXTENDS JsonPatch

CONSTANTS
  Documents,   \* the first value
  Values,      \* what is pushed, inserted and assigned
  Operations,  \* operations of a patch
  Merges,      \* merge patches
  Keys,        \* keys of members
  Lists,       \* initializer lists
  MaxEdits     \* bound: the modifiers that are called one after another

VARIABLES
  document,
  before,   \* the value before the last call
  last,     \* the last call: [op, ...]
  outcome,  \* "done", "refused" by an exception, "aborted" by an assertion or "undefined"
  edits

vars == <<document, before, last, outcome, edits>>

Init ==
  /\ document \in Documents
  /\ before = document
  /\ last = [op |-> "none"]
  /\ outcome = "done"
  /\ edits = 0

\* A call that returns a value or throws; where it throws nothing has changed, but for
\* those that turn a null into a container before they look any further.
Leaving(left, name, r) ==
  /\ edits' = edits + 1
  /\ before' = document
  /\ document' = IF r.ok THEN r.value ELSE left
  /\ outcome' = CASE r.ok -> "done" [] r = Refused -> "refused" [] r = Aborted -> "aborted" [] r = Undefined -> "undefined"
  /\ last' = name
Call(name, r) == Leaving(document, name, r)

Patch(o) == Call(o, Patched(document, <<o>>))
Merge(p) == Call([op |-> "merge_patch", value |-> p], Done(MergePatch(document, p)))

\* push_back and emplace_back; emplace, and push_back of a pair, keep a member that is there.
Array(parts)    == Value("array", parts)
Object(members) == Value("object", members)
As(kind, v) == IF v.kind = "null" THEN Default(kind) ELSE v
PushBack(v) ==
  Call([op |-> "push_back"],
       IF document.kind \in {"null", "array"} THEN Done(Array(Append(As("array", document).of, v))) ELSE Refused)
Emplace(key, v) ==
  Call([op |-> "emplace"],
       IF document.kind \notin {"null", "object"} THEN Refused
       ELSE IF HasKey(As("object", document), key) THEN Done(document)
       ELSE Done(Object(With(As("object", document).of, key, v))))

\* The value of an initializer list: an object of pairs, of which the first with a key
\* is kept, or else an array.
IsPair(v) == v.kind = "array" /\ Len(v.of) = 2 /\ v.of[1].kind = "string"
Missing(members, more) ==
  FoldLeft(LAMBDA ms, m : IF HasKey(Object(ms), m[1]) THEN ms ELSE With(ms, m[1], m[2]), members, more)
FromList(parts) ==
  IF \A i \in DOMAIN parts : IsPair(parts[i])
    THEN Object(Missing(<<>>, [i \in DOMAIN parts |-> <<parts[i].of[1].of, parts[i].of[2]>>]))
    ELSE Array(parts)

\* push_back of a list: a list of a string and a value is a member for an object.
PushList(parts) ==
  IF document.kind = "object" /\ Len(parts) = 2 /\ parts[1].kind = "string"
    THEN Emplace(parts[1].of, parts[2])
    ELSE PushBack(FromList(parts))

\* insert before the element at a place, the end among them: one value, two of it, or
\* the elements of another array
InsertBefore(i, parts) ==
  /\ i <= Len(document.of)
  /\ Call([op |-> "insert"],
          IF document.kind = "array" THEN Done(Array(SubSeq(document.of, 1, i) \o parts \o SubSeq(document.of, i + 1, Len(document.of))))
          ELSE Refused)
Insert(i, v)    == InsertBefore(i, <<v>>)
InsertTwo(i, v) == InsertBefore(i, <<v, v>>)
InsertAll(i, v) == v.kind = "array" /\ InsertBefore(i, v.of)

\* update takes the members of the other object, all or those of a range; insert those
\* that are missing.
Updated(v, members) ==
  Leaving(As("object", document), [op |-> "update"],
          IF document.kind \in {"null", "object"} /\ v.kind = "object"
            THEN Done(Object(FoldLeft(LAMBDA ms, m : With(ms, m[1], m[2]), As("object", document).of, members)))
            ELSE Refused)
Update(v)       == Updated(v, v.of)
UpdateRange(v)  == v.of # <<>> /\ Updated(v, Tail(v.of))
InsertMembers(v) ==
  Call([op |-> "insert"],
       IF document.kind = "object" /\ v.kind = "object" THEN Done(Object(Missing(document.of, v.of))) ELSE Refused)

\* erase by key, by index and by iterator, which makes a null of what is no container
EraseKey(key) ==
  Call([op |-> "erase"], IF document.kind = "object" THEN Done(Object(Without(document.of, key))) ELSE Refused)
EraseIndex(i) ==
  Call([op |-> "erase"],
       IF document.kind = "array" /\ i < Len(document.of) THEN Done(Array(RemoveAt(document.of, i + 1))) ELSE Refused)
EraseFirst ==
  /\ Primitive(document) \/ document.of # <<>>
  /\ Call([op |-> "erase"],
          CASE document.kind = "null" -> Refused
            [] document.kind \in {"array", "object"} -> Done(Value(document.kind, Tail(document.of)))
            [] OTHER -> Done(Nothing))

\* The places of a value: a null has none, and what is no container one.
End(v) == IF v.kind = "null" THEN 0 ELSE IF Primitive(v) THEN 1 ELSE Len(v.of)

\* erase and construction from a range: of what is no container only the whole.
EraseRange(i, j) ==
  /\ i <= j /\ j <= End(document)
  /\ Call([op |-> "erase"],
          CASE document.kind \in {"array", "object"} ->
                 Done(Value(document.kind, SubSeq(document.of, 1, i) \o SubSeq(document.of, j + 1, Len(document.of))))
            [] Primitive(document) -> IF i < j THEN Done(Nothing) ELSE Refused)
TakeRange(i, j) ==
  /\ i <= j /\ j <= End(document)
  /\ Call([op |-> "range"],
          CASE document.kind \in {"array", "object"} -> Done(Value(document.kind, SubSeq(document.of, i + 1, j)))
            [] Primitive(document) -> IF i < j THEN Done(document) ELSE Refused)

\* swap with an array, an object or a string, and with any value
Swap(v) == v.kind \in {"array", "object", "string"} /\ Call([op |-> "swap"], IF v.kind = document.kind THEN Done(v) ELSE Refused)
SwapAny(v) == Call([op |-> "swap"], Done(v))

Clear == Call([op |-> "clear"], Done(Default(document.kind)))

\* Assignment to what operator[] returns: of a key, of an index, of a pointer.
Assign(key, v) ==
  Call([op |-> "assign"],
       IF document.kind \in {"null", "object"} THEN Done(Object(With(As("object", document).of, key, v))) ELSE Refused)
AssignIndex(i, v) ==
  LET old == As("array", document).of
  IN  Call([op |-> "assign"],
           IF document.kind \in {"null", "array"}
             THEN Done(Array([k \in 1 .. Max({Len(old), i + 1}) |-> IF k = i + 1 THEN v ELSE IF k <= Len(old) THEN old[k] ELSE Nothing]))
             ELSE Refused)
AssignPointer(path, v) ==
  LET ptr == Split(path).value
      new == Put(document, ptr, v, "unchecked")
  IN  /\ Split(path).ok
      /\ Leaving(new, [op |-> "assign", path |-> path, value |-> v],
                LET r == Reached(document, ptr, "unchecked") IN IF r.ok THEN Done(new) ELSE r)

\* Assignment to what at returns: nothing is added.
AssignAt(key, v) ==
  Call([op |-> "at"],
       IF document.kind = "object" /\ HasKey(document, key) THEN Done(Object(With(document.of, key, v))) ELSE Refused)
AssignAtIndex(i, v) ==
  Call([op |-> "at"],
       IF document.kind = "array" /\ i < Len(document.of) THEN Done(Array([document.of EXCEPT ![i + 1] = v])) ELSE Refused)

FlattenIt   == Call([op |-> "flatten"], Done(Flatten(document)))
UnflattenIt == Call([op |-> "unflatten"], Unflatten(document))

Modify ==
  \/ \E o \in Operations : Patch(o) \/ AssignPointer(o.path, Nothing)
  \/ \E p \in Merges : Merge(p)
  \/ \E v \in Values : PushBack(v) \/ Update(v) \/ UpdateRange(v) \/ InsertMembers(v) \/ Swap(v) \/ SwapAny(v)
  \/ \E parts \in Lists : PushList(parts)
  \/ \E key \in Keys, v \in Values : Emplace(key, v) \/ Assign(key, v) \/ AssignAt(key, v)
  \/ \E i \in 0 .. 2, v \in Values :
       Insert(i, v) \/ InsertTwo(i, v) \/ InsertAll(i, v) \/ AssignIndex(i, v) \/ AssignAtIndex(i, v)
  \/ \E i, j \in 0 .. 2 : EraseRange(i, j) \/ TakeRange(i, j)
  \/ \E key \in Keys : EraseKey(key)
  \/ \E i \in 0 .. 2 : EraseIndex(i)
  \/ EraseFirst
  \/ Clear
  \/ FlattenIt
  \/ UnflattenIt

\* Nothing follows a failed assertion, and nothing is said of what follows a write to no
\* element.
Next == edits < MaxEdits /\ outcome \notin {"aborted", "undefined"} /\ Modify

Spec == Init /\ [][Next]_vars
=============================================================================
