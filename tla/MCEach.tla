------------------------------- MODULE MCEach --------------------------------
(***************************************************************************)
(* Constants for model-checking Each.                                       *)
(***************************************************************************)
EXTENDS Each

TwoRanks == 0..1

\* Streams that are written to: those of a peer, or none.
OneThere == {<<1, "out">>}
Silent    == {}

AnyFault == {"dial", "auth", "spawn", "env", "lose"}
NoFault  == {}
Dial     == {"dial"}
Env      == {"env"}
=============================================================================
