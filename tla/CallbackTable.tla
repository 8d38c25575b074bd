--------------------------- MODULE CallbackTable ---------------------------
(***************************************************************************)
(* The ordered callback list that Pipeline::registerCallback maintains for *)
(* one state (openZia/Pipeline.cpp).  An entry is a priority and an        *)
(* identity; identities are the ranks of the registrations, so that an     *)
(* entry registered later has the larger one.                              *)
(***************************************************************************)
EXTENDS Naturals, FiniteSets, Sequences

\* oZ::Priority is an enumeration over uint16_t, and modules may use values
\* between the enumerators ("Low + 1").
Priority == 0 .. 65535

Entry == [prio : Priority, id : Nat]

\* The entries the loop "while (it != end && it->first > priority) ++it" walks
\* over.  The mutant keeps walking over entries of the same priority.
PassedOrEqual(list, p) ==
  {i \in 1 .. Len(list) : \A j \in 1 .. i : list[j].prio >= p}
Passed(list, p) ==
  {i \in 1 .. Len(list) : \A j \in 1 .. i : list[j].prio > p}

\* callbacks.insert(it, ...): the new entry goes where the loop stopped.
Insert(list, e) ==
  LET k == Cardinality(Passed(list, e.prio))
  IN  SubSeq(list, 1, k) \o <<e>> \o SubSeq(list, k + 1, Len(list))

\* Decreasing priority, and the latest registration first among equals.
Before(e, f) == e.prio > f.prio \/ (e.prio = f.prio /\ e.id > f.id)
Ordered(list) == \A i, j \in 1 .. Len(list) : i < j => Before(list[i], list[j])
=============================================================================
