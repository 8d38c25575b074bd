---------------------------- MODULE CallService ----------------------------
(***************************************************************************)
(* What the UDP wrappers promise of calls made one at a time: the server's *)
(* handler is given each message at most once and in the order of the      *)
(* calls, and a call returns the handler's answer to its own message.  A   *)
(* call of which anything is lost returns never, and then there is no      *)
(* other.  Nothing is promised once this is broken.                        *)
(***************************************************************************)
EXTENDS Naturals, Sequences

CONSTANTS Clients, None

VARIABLES
  waiting,   \* the clients in a call
  made,      \* the number of calls of each client
  handled,   \* the messages the handler was given
  got,       \* what the last call of each client returned
  broken

vars == <<waiting, made, handled, got, broken>>

Init ==
  /\ waiting = {}
  /\ made = [c \in Clients |-> 0]
  /\ handled = <<>>
  /\ got = [c \in Clients |-> None]
  /\ broken = FALSE

Message(c) == <<c, made[c]>>

WasHandled(m) == \E i \in 1..Len(handled) : handled[i] = m

Call(c) ==
  /\ waiting = {}
  /\ waiting' = {c}
  /\ made' = [made EXCEPT ![c] = @ + 1]
  /\ got' = [got EXCEPT ![c] = None]
  /\ UNCHANGED handled

Handle(c) ==
  /\ c \in waiting
  /\ ~WasHandled(Message(c))
  /\ handled' = Append(handled, Message(c))
  /\ UNCHANGED <<waiting, made, got>>

Return(c) ==
  /\ c \in waiting
  /\ WasHandled(Message(c))
  /\ waiting' = waiting \ {c}
  /\ got' = [got EXCEPT ![c] = Message(c)]
  /\ UNCHANGED <<made, handled>>

Step == \E c \in Clients : Call(c) \/ Handle(c) \/ Return(c)

Break == broken'
Works == ~broken /\ ~broken' /\ Step

Next == Break \/ Works

Spec == Init /\ [][Next]_vars
=============================================================================
