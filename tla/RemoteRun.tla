----------------------------- MODULE RemoteRun ------------------------------
(***************************************************************************)
(* What `knit run` promises once a machine has accepted the command,        *)
(* whatever happens underneath: the output arrives in order, chunk by       *)
(* chunk; the number knit exits with is the command's own exit status and   *)
(* is only returned after all of its output; anything else is reported as   *)
(* a lost connection.  RunStream is shown to implement this module.         *)
(***************************************************************************)
EXTENDS Naturals

CONSTANTS Streams,          \* the output streams carried back
          Statuses,         \* the exit statuses a command may end with
          ExitDisconnected  \* the code that stands for a lost connection

VARIABLES produced,   \* per stream, chunks the command has written
          delivered,  \* per stream, chunks written out on the client's machine
          ended,      \* the command has ended
          status,     \* its exit status, once it has
          outcome,    \* how the run ended for the client
          ret         \* the exit code knit returned

vars == <<produced, delivered, ended, status, outcome, ret>>

Init ==
  /\ produced = [s \in Streams |-> 0]
  /\ delivered = [s \in Streams |-> 0]
  /\ ended = FALSE
  /\ status = 0
  /\ outcome = "none"
  /\ ret = 0

Produce(s) ==
  /\ outcome # "exit"
  /\ produced' = [produced EXCEPT ![s] = @ + 1]
  /\ UNCHANGED <<delivered, ended, status, outcome, ret>>

Deliver(s) ==
  /\ outcome = "none"
  /\ delivered[s] < produced[s]
  /\ delivered' = [delivered EXCEPT ![s] = @ + 1]
  /\ UNCHANGED <<produced, ended, status, outcome, ret>>

End(c) ==
  /\ ~ended
  /\ ended' = TRUE
  /\ status' = c
  /\ UNCHANGED <<produced, delivered, outcome, ret>>

Report ==
  /\ outcome = "none"
  /\ ended
  /\ delivered = produced
  /\ outcome' = "exit"
  /\ ret' = status
  /\ UNCHANGED <<produced, delivered, ended, status>>

Disconnect ==
  /\ outcome = "none"
  /\ outcome' = "disconnected"
  /\ ret' = ExitDisconnected
  /\ UNCHANGED <<produced, delivered, ended, status>>

Next ==
  \/ \E s \in Streams : Produce(s) \/ Deliver(s)
  \/ \E c \in Statuses : End(c)
  \/ Report
  \/ Disconnect

Spec == Init /\ [][Next]_vars

=============================================================================
