----------------------------- MODULE AsyncTcp ------------------------------
(***************************************************************************)
(* A client and a server of lib/uti/my_network/Async, connected: their     *)
(* threads and the kernels between them take steps in any order.           *)
(***************************************************************************)
EXTENDS AsyncClient, AsyncServer, SequencesExt

vars == <<stream, client, server>>

TypeOK == StreamTypeOK /\ ClientTypeOK /\ ServerTypeOK

Init == StreamInit /\ ClientInit /\ ServerInit

Next ==
  \/ ClientNext /\ UNCHANGED server
  \/ ServerNext /\ UNCHANGED client

Spec == Init /\ [][Next]_vars

\* Each thread of the client runs, and the server's goes from one event that is
\* ready to the next; what the user and the owners of the processes decide is
\* up to them.
Fairness ==
  /\ WF_vars(peer = "there" /\ UserStep /\ UNCHANGED server)
  /\ WF_vars(peer = "there" /\ IoStep /\ UNCHANGED server)
  /\ \A step \in {"accept", "read", "write", "reset"} :
       WF_vars(/\ host = "there"
               /\ CASE step = "accept" -> Accept
                    [] step = "read" -> Read \/ ReadEof \/ ReadEnds
                    [] step = "write" -> WriteOn \/ WriteFails
                    [] step = "reset" -> ResetArrives
               /\ UNCHANGED client)

FairSpec == Spec /\ Fairness

-----------------------------------------------------------------------------
\* Properties

\* The texts of a queue or a history as what a socket carries of them.
Lines(texts) == FlattenSeq([i \in DOMAIN texts |-> Line(texts[i])])

\* What is still in the queue and has not been written: a thread between
\* write_some and pop_front has written the first.
Waiting ==
  IF \E t \in Threads : pc[t] = "pop" THEN Tail(queue) ELSE queue

\* _messagesToSend has no lock, but as long as the two threads are not inside
\* sendMessage at once what is sent is written once and in order, whatever
\* write_in_progress was and whatever has been thrown.
WrittenInOrder == ~clash => accepted = written \o Waiting

\* From sendMessage on one side to the handler on the other: unless the threads
\* have met, a write_some has been partial, or a read of the server has not
\* been one line that fills its buffer, the handler has heard what the client
\* said, in order and once, and the rest is still on its way.
Faithful == ~clash /\ ~torn /\ ~ragged

HeardAsSaid ==
  Faithful /\ peer # "gone" =>
    Lines(accepted) = Lines(heard) \o First(got, buf) \o up \o Lines(Waiting)

\* Each direction is a channel of messages for as long as nothing on the way has
\* gone as above and both processes are there, in the end as well as in order:
\* no thread waits for ever with something to say.  Back to the client a reply
\* has to fit at once and no read may end inside a line, though it may bring
\* several together; and the thread must have found something to run.
Apart == peer = "gone" \/ host = "gone"
Deaf  == pc[Io] = "returned"

Uplink   == INSTANCE LineChannel
              WITH said <- accepted, broken <- ~Faithful \/ Apart
Downlink == INSTANCE LineChannel
              WITH said <- told, heard <- seen, broken <- cut \/ split \/ Deaf \/ Apart

ImplementsUplink   == Uplink!FairSpec
ImplementsDownlink == Downlink!FairSpec
=============================================================================
