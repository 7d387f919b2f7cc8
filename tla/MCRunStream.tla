---------------------------- MODULE MCRunStream -----------------------------
(***************************************************************************)
(* Constants for model-checking RunStream: which kinds of command are run.  *)
(***************************************************************************)
EXTENDS RunStream

\* A command that is interrupted, forks nothing and reads all of its input.
Plain == [stubborn |-> FALSE, drains |-> TRUE, forks |-> FALSE,
          attached |-> FALSE, inherits |-> FALSE, childDrains |-> FALSE,
          childStubborn |-> FALSE]

Stubborn    == [Plain EXCEPT !.stubborn = TRUE]
Idle        == [Plain EXCEPT !.drains = FALSE]
Daemon      == [Plain EXCEPT !.forks = TRUE, !.childStubborn = TRUE]
Background  == [Plain EXCEPT !.forks = TRUE, !.attached = TRUE]
Tenacious   == [Background EXCEPT !.childStubborn = TRUE]

\* A child that reads on where its parent left off, one that holds stdin only,
\* and one that holds everything and reads nothing.
Reading     == [Tenacious EXCEPT !.inherits = TRUE, !.childDrains = TRUE]
Squatting   == [Daemon EXCEPT !.inherits = TRUE]
Blocking    == [Tenacious EXCEPT !.inherits = TRUE]

OutputCommands  == {Plain, Background}
SafetyCommands  == {[Blocking EXCEPT !.stubborn = TRUE]}
ReapCommands    == {Stubborn, Tenacious, Reading, Squatting}
BlockCommands   == {Blocking}
PlainCommands   == {Plain}
IdleCommands    == {Idle}
DaemonCommands  == {Daemon}
=============================================================================
