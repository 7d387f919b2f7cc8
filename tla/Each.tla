-------------------------------- MODULE Each --------------------------------
(***************************************************************************)
(* knit each, internal/client/each.go: one command on every machine at      *)
(* once.  Main launches one goroutine per rank, rank 0 being this machine,  *)
(* and waits for all of them.  Each goroutine opens its session, or starts  *)
(* the command here, and prints what it gets a whole line at a time; the    *)
(* streams of all ranks share the terminal.                                 *)
(*                                                                          *)
(* What happens between a command and the frames of its output is           *)
(* RunStream's matter: here each stream of a rank is a queue of chunks, cut *)
(* anywhere, and the exit status follows the last of them.  Commands may be *)
(* ones that wait until all the ranks have started, as torchrun does.       *)
(***************************************************************************)
EXTENDS Integers, Sequences, SequencesExt

CONSTANTS Ranks,      \* 0 .. number of peers
          Emits,      \* the streams, <<rank, "out" or "err">>, that are written to
          Letter, NL, \* what commands write: anything else, and newlines
          MaxOut,     \* bound: what is written to a stream
          ExitCodes,  \* codes commands end with: their own, or 128 + a signal's
          Together,   \* commands wait for one another
          Faults      \* failures that may happen: a subset of
                      \* {"dial", "auth", "spawn", "env", "lose"}

ASSUME EachAssumption ==
  /\ Ranks = 0..(Cardinality(Ranks) - 1) /\ 0 \in Ranks
  /\ Emits \subseteq Ranks \X {"out", "err"} /\ Letter # NL
  /\ MaxOut \in Nat /\ ExitCodes \subseteq Nat /\ Together \in BOOLEAN
  /\ Faults \subseteq {"dial", "auth", "spawn", "env", "lose"}

ExitDisconnected == 124
ExitUnreachable  == 126
ExitUnauthorized == 127
NotFound         == 127   \* a command that could not be started

Streams == Ranks \X {"out", "err"}

VARIABLES
  launched,  \* goroutines launched
  pc,        \* per rank: "new", "open", "run", "errs", "out", "done"
  command,   \* per rank: "none", "runs", "ended", "lost"
  ranked,    \* per rank, the command has the environment of its rank
  hostfile,  \* per rank, its hostfile is there
  status,    \* per rank, the code its command ends with
  chunks,    \* per stream, what was written and not yet printed or held
  partial,   \* per stream, a line that has no end yet
  printed,   \* per stream, what was printed of it
  codes,     \* per rank, the result
  ret,       \* what Each returns, or none yet
  nameless,  \* the local lines have no name in front of them
  written    \* per stream, everything written to it

procVars == <<command, ranked, hostfile, status>>
lineVars == <<chunks, partial, printed>>
vars == <<launched, pc, procVars, lineVars, codes, ret, nameless, written>>

None == -1

Init ==
  /\ launched = 0 /\ pc = [r \in Ranks |-> "new"]
  /\ command = [r \in Ranks |-> "none"] /\ ranked = [r \in Ranks |-> FALSE]
  /\ hostfile = [r \in Ranks |-> FALSE] /\ status \in [Ranks -> ExitCodes]
  /\ chunks = [s \in Streams |-> <<>>] /\ partial = [s \in Streams |-> <<>>]
  /\ printed = [s \in Streams |-> <<>>] /\ written = [s \in Streams |-> <<>>]
  /\ codes = [r \in Ranks |-> 0] /\ ret = None /\ nameless = FALSE

Goto(r, l) == pc' = [pc EXCEPT ![r] = l]
Peers == Ranks \ {0}

-----------------------------------------------------------------------------
\* Mutant: each rank is launched when the one before it is through.
LaunchInTurn ==
  /\ launched \in Ranks /\ (launched > 0 => pc[launched - 1] = "done")
  /\ launched' = launched + 1
  /\ Goto(launched, "open")
  /\ UNCHANGED <<procVars, lineVars, codes, ret, nameless, written>>

\* Main launches the goroutines, and meanwhile appends to the slice of names.
Launch ==
  /\ launched \in Ranks /\ launched' = launched + 1
  /\ Goto(launched, "open")
  /\ UNCHANGED <<procVars, lineVars, codes, ret, nameless, written>>

\* eachLocal starts: names[0] is read without synchronisation while Launch
\* may be replacing the array.  A missing hostfile is no reason not to start.
StartHere ==
  /\ pc[0] = "open"
  /\ nameless' \in (IF launched \in Ranks THEN BOOLEAN ELSE {FALSE})
  /\ \E env \in {TRUE} \cup (IF "env" \in Faults THEN {FALSE} ELSE {}) :
       /\ ranked' = [ranked EXCEPT ![0] = env] /\ hostfile' = [hostfile EXCEPT ![0] = env]
  /\ Goto(0, "run") /\ command' = [command EXCEPT ![0] = "runs"]
  /\ UNCHANGED <<launched, status, lineVars, codes, ret, written>>

\* It cannot: a line of knit's own goes to stderr.
NoStartHere ==
  /\ pc[0] = "open" /\ "spawn" \in Faults
  /\ printed' = [printed EXCEPT ![<<0, "err">>] = @ \o <<Letter, NL>>]
  /\ written' = [written EXCEPT ![<<0, "err">>] = @ \o <<Letter, NL>>]
  /\ codes' = [codes EXCEPT ![0] = NotFound]
  /\ Goto(0, "errs")
  /\ UNCHANGED <<launched, procVars, chunks, partial, ret, nameless>>

\* eachOne opens the session; the agent writes its hostfile and starts the
\* command (exec.go handleRun).
Start(r) ==
  /\ r \in Peers /\ pc[r] = "open" /\ Goto(r, "run")
  /\ command' = [command EXCEPT ![r] = "runs"]
  /\ ranked' = [ranked EXCEPT ![r] = TRUE] /\ hostfile' = [hostfile EXCEPT ![r] = TRUE]
  /\ UNCHANGED <<launched, status, lineVars, codes, ret, nameless, written>>

\* It does not: reportOpenError.
NoStart(r) ==
  /\ r \in Peers /\ pc[r] = "open" /\ Goto(r, "done")
  /\ \E f \in Faults \ {"lose"} :
       codes' = [codes EXCEPT ![r] = CASE f = "auth"  -> ExitUnauthorized
                                       [] f = "spawn" -> NotFound
                                       [] OTHER       -> ExitUnreachable]
  /\ UNCHANGED <<launched, procVars, lineVars, ret, nameless, written>>

-----------------------------------------------------------------------------
\* The commands.
Emit(s, chunk) ==
  /\ s \in Emits /\ command[s[1]] = "runs"
  /\ Len(written[s]) + Len(chunk) <= MaxOut
  /\ chunks' = [chunks EXCEPT ![s] = Append(@, chunk)]
  /\ written' = [written EXCEPT ![s] = @ \o chunk]
  /\ UNCHANGED <<launched, pc, procVars, partial, printed, codes, ret, nameless>>

Started(r) == command[r] # "none"

CommandEnds(r) ==
  /\ command[r] = "runs" /\ (Together => \A q \in Ranks : Started(q))
  /\ command' = [command EXCEPT ![r] = "ended"]
  /\ UNCHANGED <<launched, pc, ranked, hostfile, status, lineVars, codes, ret, nameless, written>>

\* The connection to a peer fails, and takes with it what is under way.
Lose(r) ==
  /\ r \in Peers /\ "lose" \in Faults /\ pc[r] = "run" /\ command[r] \in {"runs", "ended"}
  /\ command' = [command EXCEPT ![r] = "lost"]
  /\ UNCHANGED <<launched, pc, ranked, hostfile, status, lineVars, codes, ret, nameless, written>>

\* handleRun returns, or is through with killing.
AgentReturns(r) ==
  /\ r \in Peers /\ command[r] \in {"ended", "lost"} /\ hostfile[r]
  /\ hostfile' = [hostfile EXCEPT ![r] = FALSE]
  /\ UNCHANGED <<launched, pc, command, ranked, status, lineVars, codes, ret, nameless, written>>

-----------------------------------------------------------------------------
IsNL(x) == x = NL

\* Mutant: the held part of a line is not forgotten once it is printed.
WriteAgain(s) ==
  LET b == partial[s] \o Head(chunks[s])
      cut == SelectLastInSeq(b, IsNL)
  IN /\ printed' = [printed EXCEPT ![s] = @ \o SubSeq(b, 1, cut)]
     /\ partial' = [partial EXCEPT ![s] = IF cut = 0 THEN b ELSE @ \o SubSeq(b, cut + 1, Len(b))]

\* prefixer.Write, under the mutex of the terminal: whole lines are printed,
\* the rest is held.
WriteLines(s) ==
  LET b == partial[s] \o Head(chunks[s])
      cut == SelectLastInSeq(b, IsNL)
  IN /\ printed' = [printed EXCEPT ![s] = @ \o SubSeq(b, 1, cut)]
     /\ partial' = [partial EXCEPT ![s] = SubSeq(b, cut + 1, Len(b))]

Read(s) ==
  /\ pc[s[1]] = "run" /\ chunks[s] # <<>>
  /\ WriteLines(s) /\ chunks' = [chunks EXCEPT ![s] = Tail(@)]
  /\ UNCHANGED <<launched, pc, procVars, codes, ret, nameless, written>>

Drained(r) == \A s \in Streams : s[1] = r => chunks[s] = <<>>

\* The exit frame, or c.Run's return, comes after the output; the hostfile of
\* rank 0 goes first of all that is deferred.
ReadExit(r) ==
  /\ pc[r] = "run" /\ command[r] = "ended" /\ Drained(r)
  /\ codes' = [codes EXCEPT ![r] = status[r]] /\ Goto(r, "errs")
  /\ hostfile' = IF r = 0 THEN [hostfile EXCEPT ![0] = FALSE] ELSE hostfile
  /\ UNCHANGED <<launched, command, ranked, status, lineVars, ret, nameless, written>>

\* A read fails: what follows of the output is gone.
ReadFails(r) ==
  /\ pc[r] = "run" /\ command[r] = "lost"
  /\ codes' = [codes EXCEPT ![r] = ExitDisconnected] /\ Goto(r, "errs")
  /\ UNCHANGED <<launched, procVars, lineVars, ret, nameless, written>>

\* prefixer.flush, deferred: stderr's first.
Flush(r) ==
  LET s == <<r, IF pc[r] = "errs" THEN "err" ELSE "out">> IN
  /\ pc[r] \in {"errs", "out"}
  /\ printed' = IF partial[s] = <<>> THEN printed
                ELSE [printed EXCEPT ![s] = @ \o partial[s] \o <<NL>>]
  /\ partial' = [partial EXCEPT ![s] = <<>>]
  /\ Goto(r, IF pc[r] = "errs" THEN "out" ELSE "done")
  /\ UNCHANGED <<launched, procVars, chunks, codes, ret, nameless, written>>

\* Mutant: knit's own codes do not count.
ReturnCommands ==
  /\ launched \notin Ranks /\ \A r \in Ranks : pc[r] = "done" /\ ret = None
  /\ ret' \in {codes[r] : r \in Ranks} \cup {0}
  /\ \A r \in Ranks : codes[r] <= ret' \/ codes[r] \in ExitDisconnected..NotFound
  /\ UNCHANGED <<launched, pc, procVars, lineVars, codes, nameless, written>>

\* The highest code.
Return ==
  /\ launched \notin Ranks /\ \A r \in Ranks : pc[r] = "done" /\ ret = None
  /\ ret' \in {codes[r] : r \in Ranks} /\ \A r \in Ranks : codes[r] <= ret'
  /\ UNCHANGED <<launched, pc, procVars, lineVars, codes, nameless, written>>

-----------------------------------------------------------------------------
Chunks == {<<x>> : x \in {Letter, NL}} \cup {<<x, y>> : x, y \in {Letter, NL}}

eachLocal == StartHere \/ NoStartHere

eachOne(r) ==
  \/ Start(r) \/ NoStart(r) \/ ReadExit(r) \/ ReadFails(r) \/ Flush(r)
  \/ \E s \in Streams : s[1] = r /\ Read(s)

Next ==
  \/ Launch \/ Return \/ eachLocal
  \/ \E r \in Ranks : eachOne(r) \/ CommandEnds(r) \/ Lose(r) \/ AgentReturns(r)
  \/ \E s \in Emits : \E chunk \in Chunks : Emit(s, chunk)

Spec == Init /\ [][Next]_vars

\* Goroutines and agents get to run, and commands that can end do.
FairSpec ==
  /\ Spec
  /\ WF_vars(Launch) /\ WF_vars(Return) /\ WF_vars(eachLocal)
  /\ \A r \in Ranks : WF_vars(eachOne(r)) /\ WF_vars(CommandEnds(r)) /\ WF_vars(AgentReturns(r))

-----------------------------------------------------------------------------
\* Every stream is printed in whole lines, in order, each line once: between
\* the frames the unfinished line is held, and when a command has ended with
\* its connection whole everything it wrote is printed, a last line that had no
\* newline included (each.go prefixer; each_test.go).
OutputWhole ==
  \A s \in Streams :
    /\ printed[s] # <<>> => Last(printed[s]) = NL
    /\ ~Contains(partial[s], NL)
    /\ pc[s[1]] = "run" => IsPrefix(printed[s] \o partial[s], written[s])
    /\ pc[s[1]] = "done" /\ command[s[1]] = "ended" =>
         \/ printed[s] = written[s]
         \/ printed[s] = Append(written[s], NL) /\ Last(written[s]) # NL

\* What a rank may count for: the code of a command that ran to its end, or knit's
\* own for a lost connection or a command that was never started.
CountsFor(r) ==
  CASE command[r] = "ended" -> {status[r]}
    [] command[r] = "lost"  -> {ExitDisconnected}
    [] command[r] = "none"  -> {ExitUnreachable, ExitUnauthorized, NotFound}
    [] OTHER                -> {}

\* When Each returns no command is still running, and what it returns is the worst
\* of what became of the ranks, whatever codes commands end with; 0 therefore only
\* if the command ran to its end everywhere, with 0 (each.go "exits 0 only if every
\* machine exited 0, else the highest code observed").
WorstCode ==
  ret # None =>
    /\ \E r \in Ranks : ret \in CountsFor(r)
    /\ \A r \in Ranks : \E c \in CountsFor(r) : c <= ret

NotStarted(r) == ~Started(r) /\ pc[r] \in {"errs", "out", "done"}

\* If all the ranks could be started, Each comes to return, even from commands
\* that wait for one another, and leaves no hostfile on any machine.
EachEnds ==
  <>[](\/ ret # None /\ \A r \in Ranks : ~hostfile[r]
       \/ \E r \in Ranks : NotStarted(r))

\* Each returns even when some rank could not be started and the others wait for
\* it (no document promises that it does).
EachAlwaysEnds == <>(ret # None)

\* Every process is launched with the environment of its rank (each.go:26
\* "Every process is launched with the rank environment").
AllRanked == \A r \in Ranks : Started(r) => ranked[r]

\* Every line is prefixed (each.go:22 "prefixing each output line with the
\* machine name").
LinesNamed == ~nameless

=============================================================================
