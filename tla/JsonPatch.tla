----------------------------- MODULE JsonPatch -----------------------------
(***************************************************************************)
(* patch, diff and merge_patch of basic_json.  An operation of a patch is  *)
(* a record of the members that it has among op, path, from and value;     *)
(* paths are texts.                                                        *)
(***************************************************************************)
EXTENDS JsonPointer

\* An assertion of the library has failed.
Aborted == [ok |-> FALSE, value |-> Value("aborted", <<>>)]

\* The value once the parent that an operation has changed stands in its place.
WithParent(v, ptr, parent) == IF parent.ok THEN Done(Put(v, Front(ptr), parent.value, "unchecked")) ELSE parent

\* operation_add: what is missing between the first token and the last but one is added.
Inserted(parts, index, val) ==
  IF index.ok /\ index.value \in 0 .. Len(parts) THEN Done(Value("array", InsertAt(parts, index.value + 1, val))) ELSE Refused
AddedTo(parent, last, val) ==
  CASE ~parent.ok -> parent
    [] parent.ok /\ parent.value.kind \in {"null", "object"} -> Done(Value("object", With(parent.value.of, last, val)))
    [] parent.ok /\ parent.value.kind = "array" ->
         Inserted(parent.value.of, IF last = Dash THEN Done(Len(parent.value.of)) ELSE ArrayIndex(last), val)
    [] OTHER -> Aborted
OperationAdd(v, ptr, val) ==
  IF ptr = <<>> THEN Done(val)
  ELSE IF Len(ptr) > 1 /\ ~At(v, <<ptr[1]>>).ok THEN Refused
  ELSE WithParent(v, ptr, AddedTo(Reached(v, Front(ptr), "unchecked"), Last(ptr), val))

\* operation_remove: nothing is removed from what is no container.
Without(members, key) == SelectSeq(members, LAMBDA m : m[1] # key)
RemovedAt(parts, index) ==
  IF InRange(index, parts) THEN Done(Value("array", RemoveAt(parts, index.value + 1))) ELSE Refused
RemovedFrom(parent, last) ==
  CASE ~parent.ok -> parent
    [] parent.ok /\ parent.value.kind = "object" ->
         IF HasKey(parent.value, last) THEN Done(Value("object", Without(parent.value.of, last))) ELSE Refused
    [] parent.ok /\ parent.value.kind = "array" -> RemovedAt(parent.value.of, ArrayIndex(last))
    [] OTHER -> parent
OperationRemove(v, ptr) ==
  IF ptr = <<>> THEN Refused ELSE WithParent(v, ptr, RemovedFrom(At(v, Front(ptr)), Last(ptr)))

Replace(v, ptr, val) == IF At(v, ptr).ok THEN Done(Put(v, ptr, val, "unchecked")) ELSE Refused

\* The members that the operations must have.
Needs(op) ==
  CASE op \in {"add", "replace", "test"} -> {"op", "path", "value"}
    [] op \in {"move", "copy"}           -> {"op", "path", "from"}
    [] OTHER                             -> {"op", "path"}
WellFormed(o) ==
  /\ {"op", "path"} \subseteq DOMAIN o
  /\ o.op \in {"add", "remove", "replace", "move", "copy", "test"}
  /\ Needs(o.op) \subseteq DOMAIN o
  /\ Split(o.path).ok
  /\ "from" \in Needs(o.op) => Split(o.from).ok

\* operator==, but for numbers of two kinds
Same(v, w) == v.kind = w.kind /\ v = w

Applied(v, o) ==
  LET ptr     == Split(o.path).value
      from    == Split(o.from).value
      removed == OperationRemove(v, from)
  IN  CASE o.op = "add"     -> OperationAdd(v, ptr, o.value)
        [] o.op = "remove"  -> OperationRemove(v, ptr)
        [] o.op = "replace" -> Replace(v, ptr, o.value)
        [] o.op = "copy"    -> IF At(v, from).ok THEN OperationAdd(v, ptr, At(v, from).value) ELSE Refused
        [] o.op = "move"    -> IF At(v, from).ok /\ removed.ok THEN OperationAdd(removed.value, ptr, At(v, from).value) ELSE Refused
        [] o.op = "test"    -> IF At(v, ptr).ok /\ Same(At(v, ptr).value, o.value) THEN Done(v) ELSE Refused

\* The operations work on a copy: when one is refused the value is as it was.
Patched(v, operations) ==
  FoldLeft(LAMBDA r, o : IF ~r.ok THEN r ELSE IF WellFormed(o) THEN Applied(r.value, o) ELSE Refused,
           Done(v), operations)

-----------------------------------------------------------------------------
\* diff: the operations that lead from a value to another.

More(s, t) == 1 .. Max({0, Len(s) - Len(t)})

\* The operations of the elements that only one array has: the last is removed first.
\* The mutant removes them in the order in which they stand.
Step(op, path, v) == [op |-> op, path |-> path, value |-> v]
RemoveForward(path, old, new) ==
  [k \in More(old, new) |-> [op |-> "remove", path |-> path \o <<Slash>> \o Digits(Len(new) + k - 1)]]
RemoveEnd(path, old, new) ==
  [k \in More(old, new) |-> [op |-> "remove", path |-> path \o <<Slash>> \o Digits(Len(old) - k)]]
AddEnd(path, old, new) ==
  [k \in More(new, old) |-> Step("add", path \o <<Slash>> \o Digits(Len(old) + k - 1), new[Len(old) + k])]

RECURSIVE Diff(_, _, _)
Diff(source, target, path) ==
  LET old == source.of
      new == target.of
      both == 1 .. Min({Len(old), Len(new)})
      below(key) == path \o <<Slash>> \o EscapeToken(key)
      changed(m) == IF HasKey(target, m[1]) THEN Diff(m[2], Member(target, m[1]), below(m[1]))
                    ELSE <<[op |-> "remove", path |-> below(m[1])]>>
      added(m)   == IF HasKey(source, m[1]) THEN <<>> ELSE <<Step("add", below(m[1]), m[2])>>
  IN  IF source.kind # target.kind THEN <<Step("replace", path, target)>>
      ELSE IF source = target THEN <<>>
      ELSE CASE source.kind = "array" ->
             FlattenSeq([i \in both |-> Diff(old[i], new[i], path \o <<Slash>> \o Digits(i - 1))])
               \o RemoveEnd(path, old, new) \o AddEnd(path, old, new)
             [] source.kind = "object" ->
             FlattenSeq([i \in DOMAIN old |-> changed(old[i])]) \o FlattenSeq([i \in DOMAIN new |-> added(new[i])])
             [] OTHER -> <<Step("replace", path, target)>>

-----------------------------------------------------------------------------
\* merge_patch: a null removes a member.

RECURSIVE MergePatch(_, _)
MergePatch(v, p) ==
  IF p.kind # "object" THEN p
  ELSE FoldLeft(LAMBDA r, m : IF m[2] = Nothing THEN Value("object", Without(r.of, m[1]))
                              ELSE Value("object", With(r.of, m[1], MergePatch(Entry(r, m[1]), m[2]))),
                IF v.kind = "object" THEN v ELSE Value("object", <<>>), p.of)
=============================================================================
