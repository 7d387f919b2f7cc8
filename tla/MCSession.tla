----------------------------- MODULE MCSession ------------------------------
(***************************************************************************)
(* Constants for model-checking Session.                                   *)
(***************************************************************************)
EXTENDS Session, TLC

CONSTANTS p1, p2, k1, k2   \* model values

TwoPeers == {p1, p2}
OnePeer  == {p1}
NoOld    == {}
SomeOld  == {p2}
TwoKeys  == {k1, k2}
OneKey   == {k1}

\* Keys are only compared with each other.
Alike == Permutations(TwoKeys)
=============================================================================
