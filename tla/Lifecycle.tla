----------------------------- MODULE Lifecycle ------------------------------
(***************************************************************************)
(* Starting and stopping the agent of one machine:                          *)
(* internal/agent/lifecycle.go (daemonize, install, Down, runningPid) over  *)
(* the pid file, the operating system's processes and the service manager   *)
(* of internal/sysinfo/service_linux.go, with as much of Serve as decides   *)
(* which port an agent answers on (internal/agent/agent.go listen).         *)
(*                                                                          *)
(* A command is one run of the knit binary in one of the user's terminals;  *)
(* it looks at the unit file, the pid file and the processes one after the  *)
(* other, and acts on what it saw.  A signalled agent takes its time to go. *)
(***************************************************************************)
EXTENDS Naturals, FiniteSets

CONSTANTS Terminals,   \* where commands are run: one at a time in each
          Pids,        \* process ids
          NoPid,       \* an empty pid file, a terminal that has read none
          Ops,         \* the commands used: "upd", "forever", "down", "up"
          MaxOps,      \* bound: commands run
          MaxDeaths,   \* bound: processes that end of their own accord
          MaxOthers,   \* bound: processes of somebody else's that start
          MaxFaults,   \* bound: failed calls of the service manager
          MaxCuts      \* bound: commands that fail or are interrupted half way,
                       \* and files that cannot be removed

Kinds == {"detached", "service", "foreground"}

ASSUME LifecycleAssumption ==
  /\ NoPid \notin Pids
  /\ Ops \subseteq {"upd", "forever", "down", "up"}
  /\ MaxOps \in Nat /\ MaxDeaths \in Nat /\ MaxOthers \in Nat /\ MaxFaults \in Nat
  /\ MaxCuts \in Nat

VARIABLES
  proc,      \* per pid: an agent of one of Kinds, "other", or "none"
  stopping,  \* agents that have been sent SIGTERM
  listening, \* agents that have their listener
  wellKnown, \* the one of them that has the well-known port, or NoPid
  pidfile,   \* what agent.pid names
  unit,      \* the unit file exists
  loaded,    \* the service manager runs it
  pc, op,    \* per terminal, the step of its command, and which one
  pid,       \* per terminal, the pid runningPid gave it, or it started
  said,      \* per terminal, how its last command ended
  ops, deaths, others, faults, cuts,  \* counted against their bounds
  stray,     \* a process that is no agent was sent SIGTERM
  unrecorded \* agents that a command which was cut short left running without a
             \* pid file that names them

procVars == <<proc, stopping, listening, wellKnown>>
fileVars == <<pidfile, unit, loaded>>
cmdVars  == <<pc, op, pid, said>>
countVars == <<ops, deaths, others, faults, cuts>>
vars == <<procVars, fileVars, cmdVars, countVars, stray, unrecorded>>

Init ==
  /\ proc = [i \in Pids |-> "none"] /\ stopping = {} /\ listening = {} /\ wellKnown = NoPid
  /\ pidfile = NoPid /\ unit = FALSE /\ loaded = FALSE
  /\ pc = [t \in Terminals |-> "idle"] /\ op = [t \in Terminals |-> "down"]
  /\ pid = [t \in Terminals |-> NoPid] /\ said = [t \in Terminals |-> "nothing"]
  /\ ops = 0 /\ deaths = 0 /\ others = 0 /\ faults = 0 /\ cuts = 0
  /\ stray = FALSE /\ unrecorded = {}

Goto(t, label) == pc' = [pc EXCEPT ![t] = label]

\* The command is over.
Say(t, what) == Goto(t, "idle") /\ said' = [said EXCEPT ![t] = what]

Fork(i, kind) == proc[i] = "none" /\ proc' = [proc EXCEPT ![i] = kind]

\* SIGTERM to whatever process has the pid.
Terminate(i) ==
  /\ stopping' = IF proc[i] \in Kinds THEN stopping \cup {i} ELSE stopping
  /\ stray' = (stray \/ proc[i] = "other")

Service == {i \in Pids : proc[i] = "service"}

-----------------------------------------------------------------------------
(***************************************************************************)
(* The commands.                                                            *)
(***************************************************************************)
\* daemonize and Down look for the unit first; install goes to the pid file.
Begin(t, o) ==
  /\ pc[t] = "idle" /\ ops < MaxOps /\ ops' = ops + 1
  /\ op' = [op EXCEPT ![t] = o] /\ said' = [said EXCEPT ![t] = "nothing"]
  /\ Goto(t, CASE o \in {"upd", "down"} -> "unit" [] o = "forever" -> "pid" [] o = "up" -> "start")
  /\ UNCHANGED <<procVars, fileVars, pid, deaths, others, faults, cuts, stray, unrecorded>>

\* Mutant: daemonize does not ask about the unit.
CheckUnitDownOnly(t) ==
  /\ pc[t] = "unit"
  /\ IF unit /\ op[t] = "down" THEN Goto(t, "unload") ELSE Goto(t, "pid")
  /\ UNCHANGED <<procVars, fileVars, op, pid, said, countVars, stray, unrecorded>>

CheckUnit(t) ==
  /\ pc[t] = "unit"
  /\ IF ~unit THEN Goto(t, "pid") /\ said' = said
     ELSE IF op[t] = "upd" THEN Say(t, "already") ELSE Goto(t, "unload") /\ said' = said
  /\ UNCHANGED <<procVars, fileVars, op, pid, countVars, stray, unrecorded>>

\* runningPid: what the file names, if any process has that pid.
Alive == pidfile # NoPid /\ proc[pidfile] # "none"

ReadPid(t) ==
  /\ pc[t] = "pid"
  /\ pid' = [pid EXCEPT ![t] = IF Alive THEN pidfile ELSE NoPid]
  /\ CASE op[t] = "upd"     -> IF Alive THEN Say(t, "already") ELSE Goto(t, "start") /\ said' = said
       [] op[t] = "forever" -> Goto(t, IF Alive THEN "kill" ELSE "write") /\ said' = said
       [] op[t] = "down"    -> Goto(t, "remove") /\ said' = said
  /\ UNCHANGED <<procVars, fileVars, op, countVars, stray, unrecorded>>

\* c.Start: the child runs `knit up`.  A foreground agent is the command.
Start(t, i) ==
  /\ pc[t] = "start"
  /\ IF op[t] = "up"
     THEN Fork(i, "foreground") /\ Say(t, "up") /\ pid' = pid
     ELSE /\ Fork(i, "detached")
          /\ pid' = [pid EXCEPT ![t] = i] /\ Goto(t, "record") /\ said' = said
  /\ UNCHANGED <<stopping, listening, wellKnown, fileVars, op, countVars, stray, unrecorded>>

WritePid(t) ==
  /\ pc[t] = "record"
  /\ pidfile' = pid[t]
  /\ Say(t, "up")
  /\ UNCHANGED <<procVars, unit, loaded, op, pid, countVars, stray, unrecorded>>

\* Mutant: install leaves a detached agent running.
KillDownOnly(t) ==
  /\ pc[t] = "kill"
  /\ IF op[t] = "forever"
     THEN Goto(t, "remove") /\ said' = said /\ UNCHANGED <<stopping, stray>>
     ELSE Terminate(pid[t]) /\ Say(t, "down")
  /\ UNCHANGED <<proc, listening, wellKnown, fileVars, op, pid, countVars, unrecorded>>

\* install sends the signal before it removes the pid file, Down after; only
\* Down minds that there is no process any more.
Kill(t) ==
  /\ pc[t] = "kill"
  /\ Terminate(pid[t])
  /\ IF op[t] = "forever" THEN Goto(t, "remove") /\ said' = said
     ELSE Say(t, IF proc[pid[t]] = "none" THEN "error" ELSE "down")
  /\ UNCHANGED <<proc, listening, wellKnown, fileVars, op, pid, countVars, unrecorded>>

Cut == cuts < MaxCuts /\ cuts' = cuts + 1

\* That the file cannot be removed is ignored.
RemovePid(t) ==
  /\ pc[t] = "remove"
  /\ \/ pidfile' = NoPid /\ cuts' = cuts
     \/ pidfile' = pidfile /\ Cut
  /\ IF op[t] = "forever" THEN Goto(t, "write") /\ said' = said
     ELSE IF pid[t] = NoPid THEN Say(t, "none") ELSE Goto(t, "kill") /\ said' = said
  /\ UNCHANGED <<procVars, unit, loaded, op, pid, ops, deaths, others, faults, stray, unrecorded>>

WriteUnit(t) ==
  /\ pc[t] = "write"
  /\ unit' = TRUE
  /\ Goto(t, "load")
  /\ UNCHANGED <<procVars, pidfile, loaded, op, pid, said, countVars, stray, unrecorded>>

\* systemctl enable --now, which may fail: the unit file stays.
LoadUnit(t) ==
  /\ pc[t] = "load"
  /\ \/ loaded' = TRUE /\ Say(t, "up") /\ faults' = faults
     \/ faults < MaxFaults /\ faults' = faults + 1 /\ loaded' = loaded /\ Say(t, "error")
  /\ UNCHANGED <<procVars, pidfile, unit, op, pid, ops, deaths, others, cuts, stray, unrecorded>>

\* systemctl disable --now, its failure ignored.
Unload(t) ==
  /\ pc[t] = "unload"
  /\ \/ loaded' = FALSE /\ stopping' = stopping \cup Service /\ faults' = faults
     \/ faults < MaxFaults /\ faults' = faults + 1 /\ UNCHANGED <<loaded, stopping>>
  /\ Goto(t, "delete")
  /\ UNCHANGED <<proc, listening, wellKnown, pidfile, unit, op, pid, said, ops, deaths, others,
                 cuts, stray, unrecorded>>

DeleteUnit(t) ==
  /\ pc[t] = "delete"
  /\ unit' = FALSE
  /\ Say(t, "down")
  /\ UNCHANGED <<procVars, pidfile, loaded, op, pid, countVars, stray, unrecorded>>

\* The call a command is at fails, which it reports and ends with, or the command
\* is killed before the call.  A file it was to write may have been created or
\* emptied by then; an agent it had started, or was to signal with the pid file
\* gone, runs on.
CutShort(t) ==
  /\ pc[t] # "idle" /\ Cut
  /\ Say(t, "error")
  /\ pidfile' \in {pidfile} \cup {p \in {NoPid} : pc[t] = "record"}
  /\ unit' \in {unit} \cup {u \in {TRUE} : pc[t] = "write"}
  /\ unrecorded' = unrecorded \cup
       {i \in {pid[t]} \ {pidfile'} : /\ pc[t] = "record" \/ (pc[t] = "kill" /\ op[t] = "down")
                                     /\ proc[i] = "detached"}
  /\ UNCHANGED <<procVars, loaded, op, pid, ops, deaths, others, faults, stray>>

-----------------------------------------------------------------------------
(***************************************************************************)
(* The agents, the service manager and the rest of the machine.             *)
(***************************************************************************)
\* listen: the well-known port if it is free, any other if not.
Listen(i) ==
  /\ proc[i] \in Kinds /\ i \notin listening /\ i \notin stopping
  /\ listening' = listening \cup {i}
  /\ wellKnown' = IF wellKnown = NoPid THEN i ELSE wellKnown
  /\ UNCHANGED <<proc, stopping, fileVars, cmdVars, countVars, stray, unrecorded>>

End(i) ==
  /\ proc' = [proc EXCEPT ![i] = "none"]
  /\ stopping' = stopping \ {i} /\ listening' = listening \ {i}
  /\ wellKnown' = IF wellKnown = i THEN NoPid ELSE wellKnown
  /\ unrecorded' = unrecorded \ {i}
  /\ UNCHANGED <<fileVars, cmdVars, ops, others, faults, cuts, stray>>

\* Mutant: the listener outlives the agent, in a command that inherited it.
StopLeaksListener(i) ==
  /\ i \in stopping /\ stopping' = stopping \ {i}
  /\ proc' = [proc EXCEPT ![i] = "none"] /\ unrecorded' = unrecorded \ {i}
  /\ UNCHANGED <<listening, wellKnown, fileVars, cmdVars, countVars, stray>>

\* A signalled agent closes its listener and returns from Serve.
Stop(i) == i \in stopping /\ End(i) /\ UNCHANGED deaths

\* An agent dies, is ended by Ctrl-C or with the session, or Serve fails; or
\* another process ends.
Die(i) ==
  /\ proc[i] # "none" /\ i \notin stopping
  /\ deaths < MaxDeaths /\ deaths' = deaths + 1
  /\ End(i)

\* The kernel gives a free pid to somebody else's process.
OtherStarts(i) ==
  /\ others < MaxOthers /\ others' = others + 1
  /\ Fork(i, "other")
  /\ UNCHANGED <<stopping, listening, wellKnown, fileVars, cmdVars, ops, deaths, faults, cuts,
                 stray, unrecorded>>

\* Mutant: the unit does not ask for a restart.
ServiceStartsOnce(i) ==
  /\ loaded /\ Service = {} /\ deaths = 0
  /\ Fork(i, "service")
  /\ UNCHANGED <<stopping, listening, wellKnown, fileVars, cmdVars, countVars, stray, unrecorded>>

\* Restart=always, and the start that comes with enable --now.
ServiceStarts(i) ==
  /\ loaded /\ Service = {}
  /\ Fork(i, "service")
  /\ UNCHANGED <<stopping, listening, wellKnown, fileVars, cmdVars, countVars, stray, unrecorded>>

-----------------------------------------------------------------------------
Command(t) ==
  \/ CheckUnit(t) \/ ReadPid(t) \/ WritePid(t) \/ Kill(t) \/ RemovePid(t)
  \/ WriteUnit(t) \/ LoadUnit(t) \/ Unload(t) \/ DeleteUnit(t)
  \/ \E i \in Pids : Start(t, i)

Agent(i) == Listen(i) \/ Stop(i)

Next ==
  \/ \E t \in Terminals : Command(t) \/ CutShort(t) \/ \E o \in Ops : Begin(t, o)
  \/ \E i \in Pids : Agent(i) \/ Die(i) \/ OtherStarts(i) \/ ServiceStarts(i)

Spec == Init /\ [][Next]_vars

\* Commands run to their end, agents get to run, and the service manager
\* starts what it has loaded.
FairSpec ==
  /\ Spec
  /\ \A t \in Terminals : WF_vars(Command(t))
  /\ \A i \in Pids : WF_vars(Agent(i))
  /\ WF_vars(\E i \in Pids : ServiceStarts(i))

-----------------------------------------------------------------------------
\* Every variable stays in its range.
TypeOK ==
  /\ proc \in [Pids -> Kinds \cup {"other", "none"}]
  /\ stopping \subseteq {i \in Pids : proc[i] \in Kinds}
  /\ listening \subseteq {i \in Pids : proc[i] \in Kinds}
  /\ wellKnown \in listening \cup {NoPid}
  /\ pidfile \in Pids \cup {NoPid} /\ unit \in BOOLEAN /\ loaded \in BOOLEAN
  /\ pc \in [Terminals -> {"idle", "unit", "pid", "start", "record", "kill", "remove",
                           "write", "load", "unload", "delete"}]
  /\ op \in [Terminals -> {"upd", "forever", "down", "up"}]
  /\ pid \in [Terminals -> Pids \cup {NoPid}]
  /\ said \in [Terminals -> {"nothing", "already", "up", "down", "none", "error"}]
  /\ ops \in 0..MaxOps /\ deaths \in 0..MaxDeaths
  /\ others \in 0..MaxOthers /\ faults \in 0..MaxFaults /\ cuts \in 0..MaxCuts
  /\ stray \in BOOLEAN
  /\ unrecorded \subseteq {i \in Pids : proc[i] = "detached"}

\* Agents that are up and have not been told to stop.
Running(kinds) == {i \in Pids : proc[i] \in kinds /\ i \notin stopping}

AllIdle == \A t \in Terminals : pc[t] = "idle"

InBackground == Running({"detached", "service"})

\* In one terminal, up -d, up --forever and down, in any order, cut short at any
\* step and with agents dying in between, leave one background agent at most, not
\* counting those that no pid file names because the command was cut short between
\* starting the agent and recording it, or between removing the file and
\* signalling the agent (lifecycle.go:65-74, 79-81 "so there is one agent, not
\* two", 121-127).
OneInBackground == AllIdle => Cardinality(InBackground \ unrecorded) <= 1

\* Whatever was cut short before: after a command that says the agent is down,
\* none runs in the background but such an unrecorded one (lifecycle.go:108 "Down
\* stops the agent however it was started").
DownStops ==
  \A t \in Terminals :
    pc[t] = "idle" /\ said[t] \in {"down", "none"} => InBackground \subseteq unrecorded

\* There is never a second background agent, unrecorded or not (lifecycle.go:26-27
\* "an agent that is already up is reported, not duplicated").
NotDuplicated == AllIdle => Cardinality(InBackground) <= 1

\* No process but an agent is ever signalled (lifecycle.go:136 "reports the pid
\* only if that process is still alive").
NoStranger == ~stray

\* What up -d reports as up already is up, unless it is just being stopped, has
\* ended since, or its pid went to another process, which is NoStranger's matter
\* (lifecycle.go:27 "an agent that is already up is reported").
AlreadyMeansUp ==
  [][\A t \in Terminals : pc[t] # "idle" /\ pc'[t] = "idle" /\ said'[t] = "already" =>
        loaded \/ \E i \in Pids : proc[i] # "none"]_pc

\* Once the one agent of a machine is listening, --peer host finds it, however
\* it was started (agent.go:91 "so --peer host works across restarts").
OnWellKnownPort ==
  AllIdle /\ stopping = {} /\ (\A i \in Pids : proc[i] \in Kinds => i \in listening)
    => \A i \in Pids : proc[i] \in Kinds /\ Cardinality(Running(Kinds)) = 1 => wellKnown = i

\* After up --forever has succeeded a service agent comes to run, and runs
\* again whenever it dies, until down, as long as the machine has a pid to give.
ServiceReturns ==
  loaded ~> (Running({"service"}) # {} \/ ~loaded \/ \A i \in Pids : proc[i] # "none")

=============================================================================
