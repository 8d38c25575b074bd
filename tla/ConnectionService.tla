------------------------- MODULE ConnectionService -------------------------
(***************************************************************************)
(* What a client sees of the accept loop of ServerTcpMultiThreadWrapper:   *)
(* connections wait in arrival order, one at a time is admitted (accepted, *)
(* handed to the protocol, its request read), and admitted ones are served *)
(* concurrently until the server closes them.  The process may go down.    *)
(***************************************************************************)
EXTENDS Naturals, Sequences

CONSTANT Conns

VARIABLES
  phase,   \* "away", "waiting", "admitting", "serving" or "closed"
  queue,   \* the waiting connections, oldest first
  up       \* the server process exists

svars == <<phase, queue, up>>

Init ==
  /\ phase = [c \in Conns |-> "away"]
  /\ queue = <<>>
  /\ up = TRUE

Move(c, from, to) == phase[c] = from /\ phase' = [phase EXCEPT ![c] = to]

Arrive(c) ==
  /\ Move(c, "away", "waiting")
  /\ queue' = Append(queue, c)
  /\ UNCHANGED up

Admit ==
  /\ queue # <<>>
  /\ \A d \in Conns : phase[d] # "admitting"
  /\ Move(Head(queue), "waiting", "admitting")
  /\ queue' = Tail(queue)
  /\ UNCHANGED up

HandOver(c) == Move(c, "admitting", "serving") /\ UNCHANGED <<queue, up>>

Finish(c) == Move(c, "serving", "closed") /\ UNCHANGED <<queue, up>>

GoDown == up /\ up' = FALSE /\ UNCHANGED <<phase, queue>>

Next ==
  \/ up /\ (Admit \/ \E c \in Conns : Arrive(c) \/ HandOver(c) \/ Finish(c))
  \/ GoDown

Spec == Init /\ [][Next]_svars
=============================================================================
