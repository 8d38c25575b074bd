---------------------------- MODULE MCAsyncTcp -----------------------------
(***************************************************************************)
(* An instance of AsyncTcp for TLC, after the programs of                  *)
(* my_network/tests/test_1_source_code: the user sends "AB" and "too", the *)
(* server answers "CD" and "fast", and the client answers "CD".            *)
(***************************************************************************)
EXTENDS AsyncTcp, TLC

CONSTANTS a, b, c, d, hello

MCChars         == {a, b, c, d, hello}
MCScript        == <<<<a>>, <<b, b>>>>
MCServerReplies == (<<a>> :> <<c>>)
MCClientReplies == (<<hello>> :> <<d, d>>)
MCWelcome       == <<hello>>
=============================================================================
