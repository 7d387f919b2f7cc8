----------------------------- MODULE MCKeyFile ------------------------------
(***************************************************************************)
(* Constants for model-checking KeyFile: callers are interchangeable.       *)
(***************************************************************************)
EXTENDS KeyFile, TLC

CONSTANTS a, b   \* model values

OneProc    == {a}
TwoProcs   == {a, b}

Interchangeable == Permutations(TwoProcs)
=============================================================================
