--------------------------- MODULE MCUdpExchange ----------------------------
(***************************************************************************)
(* Instances of UdpExchange for TLC.                                       *)
(***************************************************************************)
EXTENDS UdpExchange

CONSTANTS c1, c2

\* Nothing is promised after a fault other than a loss, after an unsound
\* message, nor after calls that overlap and lose a datagram or split a message:
\* every property of the run has these as exceptions, which nothing undoes.
SomethingPromised ==
  /\ Sound
  /\ disturbed = 0
  /\ overlap => lost = 0 /\ ~split
=============================================================================
