----------------------------- MODULE RunStream ------------------------------
(***************************************************************************)
(* A command run on another machine, from the moment its agent has spawned  *)
(* it: internal/agent/exec.go (stream, readClientFrames, handleRun's tail)  *)
(* at one end of the connection, internal/client/run.go (streamOver) at the *)
(* other.                                                                   *)
(*                                                                          *)
(* On the agent five goroutines share the command: two pumps copy stdout    *)
(* and stderr into frames, readClientFrames copies frames into the          *)
(* command's stdin and forwards signals, main waits for the pumps and then  *)
(* for the process, and a timer escalates a kill.  On the client three      *)
(* goroutines share the connection: stdin, signals, and the read loop.      *)
(*                                                                          *)
(* A chunk of output or input is its number; a frame is its type and a      *)
(* number (the chunk, the signal or the exit code).  Each direction of the  *)
(* connection is the log of the frames written to it and a count of those   *)
(* the other end has read, at most NetCap of them unread.                   *)
(***************************************************************************)
EXTENDS Naturals, Sequences

CONSTANTS MaxOut,            \* bound: chunks the command writes in all
          MaxIn,             \* chunks on the client's stdin, before its EOF
          MaxSig,            \* bound: times the user interrupts knit
          NetCap,            \* frames a direction of the connection buffers
          PipeCap,           \* chunks an operating system pipe buffers
          ExitCodes,         \* statuses a command may exit with
          Signals,           \* signals the user can send to knit
          Commands,          \* the kinds of command: see Command below
          ExitDisconnected   \* knit's own code for a lost connection

Streams == {"out", "err"}

SIGINT  == 2
SIGTERM == 15
SIGKILL == 9

\* What a command may be found to have ended with: proto.ExitStatus gives a
\* process that a signal ended the status 128 + n, as a shell does.
Statuses == ExitCodes \cup {128 + n : n \in Signals \cup {SIGINT, SIGKILL}}

\* What matters of a command: it ignores interrupts; it reads its stdin to the
\* end (drains); it forks a child into its process group, which keeps stdout and
\* stderr open (attached), keeps stdin open as well (inherits), reads that to
\* the end (childDrains), and ignores interrupts itself (childStubborn).
Command == [stubborn : BOOLEAN, drains : BOOLEAN, forks : BOOLEAN,
            attached : BOOLEAN, inherits : BOOLEAN, childDrains : BOOLEAN,
            childStubborn : BOOLEAN]

ASSUME ConstantsAssumption ==
  /\ MaxOut \in Nat /\ MaxIn \in Nat /\ MaxSig \in Nat
  /\ NetCap \in Nat /\ PipeCap \in Nat
  /\ ExitCodes \subseteq Nat
  /\ Signals \subseteq {SIGINT, SIGTERM}
  /\ Commands \subseteq Command
  /\ ExitDisconnected \in Nat

VARIABLES
  cmd,       \* the kind of command this run started
  leader,    \* the spawned process: "run", "zombie" (ended), "reaped" (waited for)
  child,     \* its child in the same process group: "none", "run", "gone"
  code,      \* the exit status the leader ended with
  reused,    \* the process group id names somebody else's processes by now
  stray,     \* a signal meant for the command was sent to somebody else

  made,      \* per stream, chunks written into the pipe by the command
  taken,     \* per stream, chunks the pump has read out of it
  fed,       \* number of the last chunk written into the stdin pipe
  eaten,     \* number of the last chunk the command or its child read from it
  stdin,     \* the agent's end of the stdin pipe: "open", "closed"

  pump,      \* per stream, the pump: "read", "write", "kill", "done"
  reader,    \* readClientFrames: "read", "stdin", "kill", "done"
  main,      \* stream: "pumps", "reaped", "finished"; handleRun: "sent", "closed"
  kill,      \* killOnce: "unused", "skipped", "checked", "armed", "fired", "stood"

  link,      \* the connection: "up", "lost", "reset", or "closed" by the client
  wire,      \* the frames the agent has put on it
  got,       \* how many of them the client has read
  up,        \* the frames the client has put on it
  upRead,    \* how many of them the agent has read

  shown,     \* per stream, number of the last chunk the client wrote out
  nextIn,    \* the client's next chunk of stdin; MaxIn + 1 is its EOF
  pending,   \* the signal in the client's one-slot signal channel, 0 if none
  presses,   \* how many signals the user has sent
  outcome,   \* of streamOver: "none", "exit", "disconnected"
  ret        \* the exit code it returned

procVars   == <<cmd, leader, child, code, reused, stray>>
stdinVars  == <<fed, eaten, stdin>>
pipeVars   == <<made, taken, stdinVars>>
agentVars  == <<pump, reader, main, kill>>
wireVars   == <<wire, got>>
upVars     == <<up, upRead>>
netVars    == <<link, wireVars, upVars>>
clientVars == <<shown, nextIn, pending, presses, outcome, ret>>
vars       == <<procVars, pipeVars, agentVars, netVars, clientVars>>

Frame(type, num) == [type |-> type, num |-> num]

Init ==
  /\ cmd \in Commands
  /\ leader = "run" /\ child = "none" /\ code = 0
  /\ reused = FALSE /\ stray = FALSE
  /\ made = [s \in Streams |-> 0] /\ taken = [s \in Streams |-> 0]
  /\ fed = 0 /\ eaten = 0 /\ stdin = "open"
  /\ pump = [s \in Streams |-> "read"]
  /\ reader = "read" /\ main = "pumps" /\ kill = "unused"
  /\ link = "up" /\ wire = <<>> /\ got = 0 /\ up = <<>> /\ upRead = 0
  /\ shown = [s \in Streams |-> 0]
  /\ nextIn = 1 /\ pending = 0 /\ presses = 0
  /\ outcome = "none" /\ ret = 0

-----------------------------------------------------------------------------
(***************************************************************************)
(* The command and the operating system under it.                          *)
(***************************************************************************)

\* Somebody can still write to the output pipes: no end of file yet.
HoldsPipe == leader = "run" \/ (child = "run" /\ cmd.attached)

\* Somebody can still read the stdin pipe: a write to it is not refused.
HoldsStdin == leader = "run" \/ (child = "run" /\ cmd.inherits)

\* The process group still has a member, even if only a zombie, so the kernel
\* will not hand its id to a new process.
GroupExists == leader # "reaped" \/ child = "run"

\* c.Wait closes the read ends of the output pipes along with stdin.
Output(s) ==
  /\ HoldsPipe
  /\ main = "pumps"
  /\ made["out"] + made["err"] < MaxOut
  /\ made[s] < taken[s] + PipeCap
  /\ made' = [made EXCEPT ![s] = @ + 1]
  /\ UNCHANGED <<procVars, taken, stdinVars, agentVars, netVars, clientVars>>

EatStdin ==
  /\ HoldsStdin
  /\ eaten < fed
  /\ eaten' = eaten + 1
  /\ UNCHANGED <<procVars, made, taken, fed, stdin, agentVars, netVars, clientVars>>

Fork ==
  /\ leader = "run" /\ cmd.forks /\ child = "none"
  /\ child' = "run"
  /\ UNCHANGED <<cmd, leader, code, reused, stray, pipeVars, agentVars, netVars, clientVars>>

LeaderExit(c) ==
  /\ leader = "run"
  /\ leader' = "zombie"
  /\ code' = c
  /\ UNCHANGED <<cmd, child, reused, stray, pipeVars, agentVars, netVars, clientVars>>

ChildExit ==
  /\ child = "run"
  /\ child' = "gone"
  /\ UNCHANGED <<cmd, leader, code, reused, stray, pipeVars, agentVars, netVars, clientVars>>

\* The kernel gives the id to a new process that leads a group of its own.
ReusePid ==
  /\ ~GroupExists /\ ~reused
  /\ reused' = TRUE
  /\ UNCHANGED <<cmd, leader, child, code, stray, pipeVars, agentVars, netVars, clientVars>>

\* syscall.Kill(-pid, n), with no error looked at.
Signal(n) ==
  LET leaderDies == leader = "run" /\ (n = SIGKILL \/ ~cmd.stubborn)
      childDies  == child = "run" /\ (n = SIGKILL \/ ~cmd.childStubborn)
  IN /\ leader' = IF leaderDies THEN "zombie" ELSE leader
     /\ code'   = IF leaderDies THEN 128 + n ELSE code
     /\ child'  = IF childDies THEN "gone" ELSE child
     /\ stray'  = (stray \/ (~GroupExists /\ reused))
     /\ UNCHANGED <<cmd, reused>>

-----------------------------------------------------------------------------
(***************************************************************************)
(* stream's kill: once, SIGINT to the group and SIGKILL two seconds later,  *)
(* called by whichever goroutine first fails on the connection.  Others     *)
(* that call it meanwhile wait for the first (sync.Once).                   *)
(***************************************************************************)
Finished == main \in {"finished", "sent", "closed"}

KillCalled == reader = "kill" \/ \E s \in Streams : pump[s] = "kill"

\* Mutant: the look at finished is left out.
KillUnchecked ==
  /\ KillCalled
  /\ kill = "unused"
  /\ kill' = "checked"
  /\ UNCHANGED <<procVars, pipeVars, pump, reader, main, netVars, clientVars>>

\* The first call looks at finished ...
KillCheck ==
  /\ KillCalled
  /\ kill = "unused"
  /\ kill' = IF Finished THEN "skipped" ELSE "checked"
  /\ UNCHANGED <<procVars, pipeVars, pump, reader, main, netVars, clientVars>>

\* ... and then interrupts, whatever has happened since it looked.
KillInterrupt ==
  /\ kill = "checked"
  /\ Signal(SIGINT)
  /\ kill' = "armed"
  /\ UNCHANGED <<pipeVars, pump, reader, main, netVars, clientVars>>

\* With both ready, Go's select takes either: the timer needs no ~Finished.
KillTimeout ==
  /\ kill = "armed"
  /\ Signal(SIGKILL)
  /\ kill' = "fired"
  /\ UNCHANGED <<pipeVars, pump, reader, main, netVars, clientVars>>

KillStandDown ==
  /\ kill = "armed"
  /\ Finished
  /\ kill' = "stood"
  /\ UNCHANGED <<procVars, pipeVars, pump, reader, main, netVars, clientVars>>

KillReturned == kill \notin {"unused", "checked"}

-----------------------------------------------------------------------------
(***************************************************************************)
(* The pumps, and main.                                                     *)
(***************************************************************************)
WireRoom == Len(wire) < got + NetCap

PumpRead(s) ==
  /\ pump[s] = "read"
  /\ taken[s] < made[s]
  /\ taken' = [taken EXCEPT ![s] = @ + 1]
  /\ pump' = [pump EXCEPT ![s] = "write"]
  /\ UNCHANGED <<procVars, made, stdinVars, reader, main, kill, netVars, clientVars>>

PumpWrite(s) ==
  /\ pump[s] = "write"
  /\ link = "up" /\ WireRoom
  /\ wire' = Append(wire, Frame(s, taken[s]))
  /\ pump' = [pump EXCEPT ![s] = "read"]
  /\ UNCHANGED <<procVars, pipeVars, reader, main, kill, link, got, upVars, clientVars>>

\* On a lost connection the kernel may take the data and drop it later, or
\* report the loss.
PumpWriteLost(s) ==
  /\ pump[s] = "write"
  /\ link = "lost"
  /\ \E next \in {"read", "kill"} : pump' = [pump EXCEPT ![s] = next]
  /\ UNCHANGED <<procVars, pipeVars, reader, main, kill, netVars, clientVars>>

PumpKilled(s) ==
  /\ pump[s] = "kill"
  /\ KillReturned
  /\ pump' = [pump EXCEPT ![s] = "done"]
  /\ UNCHANGED <<procVars, pipeVars, reader, main, kill, netVars, clientVars>>

\* Mutant: a pump stops with the command, whatever is left in the pipe.
PumpStopsEarly(s) ==
  /\ pump[s] = "read"
  /\ ~HoldsPipe
  /\ pump' = [pump EXCEPT ![s] = "done"]
  /\ UNCHANGED <<procVars, pipeVars, reader, main, kill, netVars, clientVars>>

PumpEOF(s) ==
  /\ pump[s] = "read"
  /\ taken[s] = made[s]
  /\ ~HoldsPipe
  /\ pump' = [pump EXCEPT ![s] = "done"]
  /\ UNCHANGED <<procVars, pipeVars, reader, main, kill, netVars, clientVars>>

\* Mutant: c.Wait is not held back for the pumps.
WaitAtOnce ==
  /\ main = "pumps"
  /\ leader = "zombie"
  /\ leader' = "reaped"
  /\ stdin' = "closed"
  /\ main' = "reaped"
  /\ UNCHANGED <<cmd, child, code, reused, stray, made, taken, fed, eaten,
                 pump, reader, kill, netVars, clientVars>>

\* Mutant: main waits for readClientFrames as well as for the pumps.
WaitForAll ==
  /\ main = "pumps"
  /\ \A s \in Streams : pump[s] = "done"
  /\ reader = "done"
  /\ leader = "zombie"
  /\ leader' = "reaped"
  /\ stdin' = "closed"
  /\ main' = "reaped"
  /\ UNCHANGED <<cmd, child, code, reused, stray, made, taken, fed, eaten,
                 pump, reader, kill, netVars, clientVars>>

\* c.Wait, after both pumps: reaps the leader and closes the pipes.
Wait ==
  /\ main = "pumps"
  /\ \A s \in Streams : pump[s] = "done"
  /\ leader = "zombie"
  /\ leader' = "reaped"
  /\ stdin' = "closed"
  /\ main' = "reaped"
  /\ UNCHANGED <<cmd, child, code, reused, stray, made, taken, fed, eaten,
                 pump, reader, kill, netVars, clientVars>>

\* close(finished)
Finish ==
  /\ main = "reaped"
  /\ main' = "finished"
  /\ UNCHANGED <<procVars, pipeVars, pump, reader, kill, netVars, clientVars>>

WriteExit ==
  /\ main = "finished"
  /\ \/ link = "up" /\ WireRoom /\ wire' = Append(wire, Frame("exit", code))
     \/ link = "lost" /\ wire' = wire
  /\ main' = "sent"
  /\ UNCHANGED <<procVars, pipeVars, pump, reader, kill, link, got, upVars, clientVars>>

\* handleConn closes the connection on return.  Closing a socket with input
\* still unread resets it, and data on its way to the client may be lost.
CloseConn ==
  /\ main = "sent"
  /\ main' = "closed"
  /\ link' = IF link = "up" /\ upRead < Len(up) THEN "reset" ELSE link
  /\ UNCHANGED <<procVars, pipeVars, pump, reader, kill, wireVars, upVars, clientVars>>

-----------------------------------------------------------------------------
(***************************************************************************)
(* readClientFrames.                                                        *)
(***************************************************************************)
NextUp == up[upRead + 1]

CanReadUp == reader = "read" /\ upRead < Len(up) /\ main # "closed"

ReadStdin ==
  /\ CanReadUp
  /\ NextUp.type = "stdin"
  /\ upRead' = upRead + 1
  /\ reader' = "stdin"
  /\ UNCHANGED <<procVars, pipeVars, pump, main, kill, link, wireVars, up, clientVars>>

ReadEOF ==
  /\ CanReadUp
  /\ NextUp.type = "eof"
  /\ upRead' = upRead + 1
  /\ stdin' = "closed"
  /\ UNCHANGED <<procVars, made, taken, fed, eaten, agentVars, link, wireVars, up, clientVars>>

\* No look at finished here: the signal goes to the group whatever it is now.
ReadSignal ==
  /\ CanReadUp
  /\ NextUp.type = "signal"
  /\ upRead' = upRead + 1
  /\ Signal(NextUp.num)
  /\ UNCHANGED <<pipeVars, agentVars, link, wireVars, up, clientVars>>

\* Mutant: input that finds the stdin pipe full is dropped.
StdinWriteOrDrop ==
  /\ reader = "stdin"
  /\ fed' = IF stdin = "open" /\ HoldsStdin /\ fed < eaten + PipeCap
            THEN up[upRead].num ELSE fed
  /\ reader' = "read"
  /\ UNCHANGED <<procVars, made, taken, eaten, stdin, pump, main, kill, netVars, clientVars>>

\* stdin.Write blocks on a full pipe for as long as anybody, a child of an ended
\* command included, could still read it, unless Wait closes the pipe; once
\* nobody can, it fails.  Its error is ignored.
StdinWrite ==
  /\ reader = "stdin"
  /\ \/ (stdin = "closed" \/ ~HoldsStdin) /\ fed' = fed
     \/ stdin = "open" /\ HoldsStdin /\ fed < eaten + PipeCap
        /\ fed' = up[upRead].num
  /\ reader' = "read"
  /\ UNCHANGED <<procVars, made, taken, eaten, stdin, pump, main, kill, netVars, clientVars>>

\* Mutant: a read error ends the reader and nothing else.
ReadErrorIgnored ==
  /\ reader = "read"
  /\ link # "up" \/ main = "closed"
  /\ reader' = "done"
  /\ UNCHANGED <<procVars, pipeVars, pump, main, kill, netVars, clientVars>>

\* The stream ends only when the client goes away, so a read error always reaps.
ReadError ==
  /\ reader = "read"
  /\ link # "up" \/ main = "closed"
  /\ reader' = "kill"
  /\ UNCHANGED <<procVars, pipeVars, pump, main, kill, netVars, clientVars>>

ReaderKilled ==
  /\ reader = "kill"
  /\ KillReturned
  /\ reader' = "done"
  /\ UNCHANGED <<procVars, pipeVars, pump, main, kill, netVars, clientVars>>

-----------------------------------------------------------------------------
(***************************************************************************)
(* The client: streamOver, and the user at its terminal.                    *)
(***************************************************************************)
UpRoom == Len(up) < upRead + NetCap

\* A write to an agent that has closed its end resets the connection.
ClientSend(f) ==
  IF main = "closed"
  THEN link' = "reset" /\ up' = up
  ELSE link' = link /\ up' = Append(up, f)

SendStdin ==
  /\ outcome = "none" /\ link = "up" /\ UpRoom
  /\ nextIn <= MaxIn
  /\ ClientSend(Frame("stdin", nextIn))
  /\ nextIn' = nextIn + 1
  /\ UNCHANGED <<procVars, pipeVars, agentVars, wireVars, upRead,
                 shown, pending, presses, outcome, ret>>

\* Mutant: the stdin loop does not end after its EOF frame.
SendEOFAgain ==
  /\ outcome = "none" /\ link = "up" /\ UpRoom
  /\ nextIn > MaxIn
  /\ ClientSend(Frame("eof", 0))
  /\ nextIn' = nextIn + 1
  /\ UNCHANGED <<procVars, pipeVars, agentVars, wireVars, upRead,
                 shown, pending, presses, outcome, ret>>

SendEOF ==
  /\ outcome = "none" /\ link = "up" /\ UpRoom
  /\ nextIn = MaxIn + 1
  /\ ClientSend(Frame("eof", 0))
  /\ nextIn' = nextIn + 1
  /\ UNCHANGED <<procVars, pipeVars, agentVars, wireVars, upRead,
                 shown, pending, presses, outcome, ret>>

\* signal.Notify drops a signal that finds the channel full.
Interrupt(n) ==
  /\ outcome = "none"
  /\ presses < MaxSig
  /\ presses' = presses + 1
  /\ pending' = IF pending = 0 THEN n ELSE pending
  /\ UNCHANGED <<procVars, pipeVars, agentVars, netVars, shown, nextIn, outcome, ret>>

\* Mutant: signals are forwarded only as long as stdin is.
SendSignalWithStdin ==
  /\ outcome = "none" /\ link = "up" /\ UpRoom
  /\ pending # 0 /\ nextIn <= MaxIn + 1
  /\ ClientSend(Frame("signal", pending))
  /\ pending' = 0
  /\ UNCHANGED <<procVars, pipeVars, agentVars, wireVars, upRead,
                 shown, nextIn, presses, outcome, ret>>

SendSignal ==
  /\ outcome = "none" /\ link = "up" /\ UpRoom
  /\ pending # 0
  /\ ClientSend(Frame("signal", pending))
  /\ pending' = 0
  /\ UNCHANGED <<procVars, pipeVars, agentVars, wireVars, upRead,
                 shown, nextIn, presses, outcome, ret>>

CanReadWire == outcome = "none" /\ got < Len(wire)

Show ==
  /\ CanReadWire
  /\ wire[got + 1].type \in Streams
  /\ shown' = [shown EXCEPT ![wire[got + 1].type] = wire[got + 1].num]
  /\ got' = got + 1
  /\ UNCHANGED <<procVars, pipeVars, agentVars, link, wire, upVars,
                 nextIn, pending, presses, outcome, ret>>

\* The exit frame ends the run; sess.Close is deferred.
ReadExit ==
  /\ CanReadWire
  /\ wire[got + 1].type = "exit"
  /\ got' = got + 1
  /\ outcome' = "exit"
  /\ ret' = wire[got + 1].num
  /\ link' = IF link = "up" THEN "closed" ELSE link
  /\ UNCHANGED <<procVars, pipeVars, agentVars, wire, upVars,
                 shown, nextIn, pending, presses>>

\* A read error, with frames that were on their way lost or all of them read.
ReadFails ==
  /\ outcome = "none"
  /\ link \in {"lost", "reset"} \/ (main = "closed" /\ got = Len(wire))
  /\ outcome' = "disconnected"
  /\ ret' = ExitDisconnected
  /\ UNCHANGED <<procVars, pipeVars, agentVars, netVars,
                 shown, nextIn, pending, presses>>

\* The machines lose each other, or the client goes away.
Lose ==
  /\ link = "up"
  /\ link' = "lost"
  /\ UNCHANGED <<procVars, pipeVars, agentVars, wireVars, upVars, clientVars>>

-----------------------------------------------------------------------------
CommandStep ==
  \/ \E s \in Streams : Output(s)
  \/ EatStdin \/ Fork \/ ChildExit \/ ReusePid
  \/ \E c \in ExitCodes : LeaderExit(c)

Kill == KillCheck \/ KillInterrupt \/ KillTimeout \/ KillStandDown

Pump(s) ==
  PumpRead(s) \/ PumpWrite(s) \/ PumpWriteLost(s) \/ PumpKilled(s) \/ PumpEOF(s)

Main == Wait \/ Finish \/ WriteExit \/ CloseConn

ReadFrame == ReadStdin \/ ReadEOF \/ ReadSignal

Reader == ReadFrame \/ StdinWrite \/ ReadError \/ ReaderKilled

ReadLoop == Show \/ ReadExit \/ ReadFails

Client ==
  \/ SendStdin \/ SendEOF \/ SendSignal \/ ReadLoop
  \/ \E n \in Signals : Interrupt(n)

Next ==
  \/ CommandStep
  \/ Kill \/ Main \/ Reader
  \/ \E s \in Streams : Pump(s)
  \/ Client
  \/ Lose

Spec == Init /\ [][Next]_vars

Draining ==
  \/ leader = "run" /\ cmd.drains
  \/ child = "run" /\ cmd.inherits /\ cmd.childDrains

\* Every goroutine of the agent and of the client gets to run, and a command
\* or child that drains its stdin goes on reading it while it lives.  Nothing
\* else is promised of commands, users and networks.
Fairness ==
  /\ WF_vars(Kill) /\ WF_vars(Main) /\ WF_vars(Reader)
  /\ \A s \in Streams : WF_vars(Pump(s))
  /\ WF_vars(ReadLoop) /\ WF_vars(SendSignal)
  /\ WF_vars(Draining /\ EatStdin)

FairSpec == Spec /\ Fairness

-----------------------------------------------------------------------------
FrameTypes == Streams \cup {"exit", "stdin", "eof", "signal"}
FrameSet == [type : FrameTypes, num : Nat]

\* Every variable stays in its range.
TypeOK ==
  /\ cmd \in Commands
  /\ leader \in {"run", "zombie", "reaped"}
  /\ child \in {"none", "run", "gone"}
  /\ code \in Nat
  /\ reused \in BOOLEAN /\ stray \in BOOLEAN
  /\ made \in [Streams -> Nat] /\ taken \in [Streams -> Nat]
  /\ fed \in Nat /\ eaten \in Nat
  /\ stdin \in {"open", "closed"}
  /\ pump \in [Streams -> {"read", "write", "kill", "done"}]
  /\ reader \in {"read", "stdin", "kill", "done"}
  /\ main \in {"pumps", "reaped", "finished", "sent", "closed"}
  /\ kill \in {"unused", "skipped", "checked", "armed", "fired", "stood"}
  /\ link \in {"up", "lost", "reset", "closed"}
  /\ wire \in Seq(FrameSet) /\ got \in 0..Len(wire)
  /\ up \in Seq(FrameSet) /\ upRead \in 0..Len(up)
  /\ shown \in [Streams -> Nat]
  /\ nextIn \in 1..(MaxIn + 2)
  /\ pending \in {0} \cup Signals
  /\ presses \in Nat
  /\ outcome \in {"none", "exit", "disconnected"}
  /\ ret \in Nat

\* The exit code reaches the user only with the command ended and every chunk
\* it and its children wrote shown: the pumps finish before c.Wait, and the
\* exit frame follows their last frame (exec.go stream; run.go streamOver).
OutputComplete ==
  outcome = "exit" => leader = "reaped" /\ ret = code /\ shown = made

\* Nothing is ever killed unless the client was lost: the end of a normal run,
\* where the reader also fails, finds finished closed (exec.go:173-178).
NoSpuriousKill ==
  kill \notin {"unused", "skipped"} => link = "lost"

\* A running command sees the end of its input only after all of the input the
\* client had, in spite of write errors being ignored (exec.go:231-234).
EofIsClients ==
  stdin = "closed" /\ leader = "run" => fed = MaxIn

\* What is shown of a stream grows by exactly the next chunk, whatever the two
\* pumps and main put on the wire in between (frame.go, one writer mutex).
InOrder ==
  [][\A s \in Streams : shown'[s] # shown[s] => shown'[s] = shown[s] + 1]_shown

\* A signal of the agent never reaches a process that is not the command's
\* (exec.go:176 "exited on its own; the pid may already be reused").
NoStray == ~stray

\* When the agent is through with a run whose client went away, no process of
\* the group is left (docs/03-protocol.md: "so nothing is orphaned";
\* site/content/trust/troubleshooting.md: "kills it along with everything it
\* started").
GroupReaped ==
  main = "closed" /\ link = "lost" /\ kill \in {"fired", "stood"} => child # "run"

\* A run whose connection is never lost ends with the command's exit code
\* (docs/03-protocol.md: "a clean run ends with an exit frame carrying the
\* process's code, which becomes the client's exit code").
DisconnectedMeansLost ==
  outcome = "disconnected" => link = "lost"

\* Losing the client at any point ends the command (exec.go:163-166), that is, a
\* command of the kinds in Commands: one that leaves stdin unread need not end,
\* nor one whose child leaves it unread and holds the output.
CommandReaped == (link = "lost") ~> (leader = "reaped")

\* Once the command has ended, the user gets its exit code, unless the
\* connection fails first.
ExitRelayed ==
  (leader = "zombie" /\ ~HoldsPipe) ~> (outcome = "exit" \/ link \in {"lost", "reset"})

\* An interrupt typed at knit ends a command that does not ignore it, unless
\* the connection fails first (run.go:219-230).
SignalReaches ==
  (pending # 0 /\ ~cmd.stubborn) ~> (leader # "run" \/ link = "lost")

-----------------------------------------------------------------------------
\* The promise of RemoteRun: produced is what the command wrote, delivered what
\* the client showed.
RR == INSTANCE RemoteRun WITH
        produced <- made, delivered <- shown,
        ended <- (leader # "run"), status <- code

\* The run the user sees is a remote run as RemoteRun describes it.
RemoteRunSpec == RR!Spec

=============================================================================
