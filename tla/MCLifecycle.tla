---------------------------- MODULE MCLifecycle -----------------------------
(***************************************************************************)
(* Constants for model-checking Lifecycle.                                  *)
(***************************************************************************)
EXTENDS Lifecycle

CONSTANTS t1, t2   \* model values

OneTerminal  == {t1}
TwoTerminals == {t1, t2}
FewPids      == 1..3

Background == {"upd", "forever", "down"}
Detached   == {"upd", "down"}
Foreground == {"upd", "up"}
Everything == Background \cup Foreground
=============================================================================
