# knit, specified

TLA+ specifications of [knit](../src/README.md): one Go binary that runs a
command on whichever machine of a small trusted cluster has spare capacity. The
modules are translated from the Go source; TLC checks them on small instances,
and TLAPS proves every safety property the passing runs check for every instance.

    tlc -config RunStreamSafety.cfg MCRunStream.tla     # one run
    tlapm RunStreamProofs.tla                           # the proofs of a component

## The system

`knit up` starts an **agent** that advertises itself over mDNS and serves one
goroutine per TLS connection. `knit run` is the **client**: it loads the cluster
key, gathers and probes peers, picks a machine, and streams the command's stdio
over framed messages until an exit frame.

| Component | Source | State it keeps | Operations | What is hard about it |
|---|---|---|---|---|
| Run streaming | `agent/exec.go`, `client/run.go`, `proto/frame.go`, `proto/exit*.go` | process group, three OS pipes, five agent goroutines, three client ones, both directions of a connection | pump, readClientFrames, kill and its timer, stream, streamOver | interleaving, a connection lost at any point, pids used again, full pipes |
| Sessions and handshake | `transport/transport.go`, `agent/agent.go`, `client/run.go` | per connection: phase, deadlines, proof; the client's map of held sessions | Open, Do, probeForRun, Run, handleConn, readFollowup | timers against late answers, reuse and fallback, keys rotated meanwhile |
| Cluster key | `keys/keys.go`, `client/rotate.go`, `agent/agent.go` (loadKey) | the keyfile, temporary files, the agent's startup key | LoadOrCreate, Rotate, Save, install | several processes, no lock; crashes between steps |
| Agent lifecycle | `agent/lifecycle.go`, `sysinfo/service_linux.go`, `agent/agent.go` (listen) | pid file, unit file, the service manager, processes, the well-known port | up, up -d, up --forever, down | check-then-act, stale pids, half-done installs |
| Directory transfer | `agent/exec.go`, `client/run.go`, `treesync/treesync.go` | two trees, a snapshot, four pipes, archivers and unpackers | WriteTar, ReadTar, Snapshot, ChangedSince, recvTree, sendTree | goroutines joined by unbuffered pipes, one of which may fail |
| Scheduler | `scheduler/scheduler.go`, `proto/proto.go` (Score), `client/run.go` | none beyond a call | Score, Filter, Pick, ByName | a tie that is not transitive, answers in any order |
| knit each | `client/each.go`, `proto/rank.go`, `paths/paths.go` | one goroutine and two prefixers per machine, a mutex, exit codes | Each, eachOne, eachLocal, prefixer | shared slice, lines from many machines, machines left out |
| Discovery | `discovery/*.go`, `client/client.go` (gatherPeers) | the peers cache file | Browse, CachedBrowse, Fresh | concurrent readers and writers of one file, stale entries |
| Proxy | `client/proxy.go`, `agent/dial.go` | two connections and two copying goroutines per tunnel, at each end | serveSocks, handleDial | half-closed connections, two equal deadlines |
| Command line, gauge | `cmd/knit/main.go`, `client/gauge.go` | none | parsing, tables | nothing concurrent |
| System information | `sysinfo/*.go` | none | load, memory, links | nothing concurrent |

They interact as follows. Run (Session) probes the machines Discovery names, the
Scheduler chooses one, and the run request is accepted on a Session. What follows
on that connection is DirSync's upload, then RunStream, then DirSync's mirror,
then the exit frame, which is RunStream's. The key of every Session comes from
KeyFile, read by the client once and by the agent for each connection. Lifecycle
decides which agents there are and on which port. knit each opens one Session per
machine it gathers, and prints what RunStream brings; knit proxy opens a Session
per connection, which then carries a tunnel.

What makes each component correct:

* *Run streaming*: output complete and in order, and the exit code the command's
  own and after all of it; input complete before end of file; no process killed
  while its client is there, none left when it is not; signals delivered.
* *Sessions*: a command starts at most once, on the machine picked, under the key
  in force; a fallback neither repeats nor fails a run; nothing stays open;
  waiting is bounded.
* *Cluster key*: never partial, never missing, replaced by its owner only.
* *Lifecycle*: one agent; down means down; only agents are signalled.
* *Directory transfer*: the command sees the whole tree or is not run; what it
  changed, and nothing else, is back before the exit code; the copy is deleted.
* *Scheduler and discovery*: a machine that is clearly less loaded wins whatever
  the order of the answers; a command stays home on a tie; a cached list is never
  older than it may be, whoever overwrites it.
* *knit each*: every line whole and under its machine's name, the worst code
  returned, every rank started with its environment, no hostfile left.
* *Proxy*: bytes in order and, at a clean end, all of them; nothing of a tunnel
  left when an end or the link is gone.

## Modules

| Module | Models | Kind |
|---|---|---|
| `RemoteRun` | what a remote run promises its user | abstract specification |
| `RunStream` | run streaming; implements `RemoteRun` | component |
| `Session` | one `knit run` up to its acceptance, with the agents it talks to | component |
| `KeyFile` | the keyfile and its users | component |
| `Lifecycle` | the agent processes of one machine | component |
| `DirSync` | `--dir` and `--sync` | component |
| `Placement` | the peers cache, gathering and probing, and the choice of a machine: Scheduler and Discovery together | composition |
| `Each` | one launch of `knit each` | component |
| `Tunnel` | one connection through `knit proxy` | component |
| `...Proofs` | theorems about each of the eight components | proofs |
| `MC...` | constants for TLC | instances |

**RunStream.** `pump`, `reader`, `main` and `kill` are the program counters of the
agent's goroutines and name the call each is in or about to make. `wire` and `up`
are the two directions of the connection as logs of frames, of which `got` and
`upRead` have been read; with at most `NetCap` unread a writer blocks, as it does
on a full socket. A chunk of data is its number. An OS pipe is the difference of
two counters, bounded by `PipeCap`. The command is one of the kinds in `Commands`:
it may ignore interrupts, read its input or not, and fork a child that keeps its
output open, or its input, which the child reads or not, or that ignores interrupts
itself. `FrameWriter`'s mutex and its single
vectored write make a frame one step. The byte layout of frames is left out.

**Session.** `cl` and `ag` are the two ends of each connection; every peer is
probed on its own, and `Fresh` is the one `runRemote` dials. The exchange is
strictly request and reply, so a direction holds one message. A proof is the key
it was made with: HMAC, nonces and the TLS channel binding are assumed to do what
they are for. A timer is the number of ticks it has left, and `Tick` is only
possible when nothing that takes no time (`Prompt`) or is due (`Due`) remains.
Faults are machines that stall, leave or return, connections that break, and
keyfiles that cannot be loaded for a time, `MaxFaults` in all; while its keyfile
cannot be loaded an agent serves under the key it was started with (`InForce`),
whichever that was.

**KeyFile.** Each file-system call of `install` and `LoadOrCreate` is a step of
its caller. Keys are numbers in the order they are generated. `seen`, `failed`,
`crashed` and `joined` only record history for the properties.

**Lifecycle.** A command takes one step for each look at, or change of, the unit
file, the pid file or a process. At any of them it may fail or be interrupted
(`CutShort`, up to `MaxCuts`), which can leave an agent running that no pid file
names: `unrecorded` are those. Agents stop some time after they are signalled; pids
are reused, by agents and by other processes.

**DirSync.** A file is a head, after which it exists and is short, and a tail, and
an archive ends in a footer. Each `io.Pipe` holds one piece that its writer waits
to have taken. What may go wrong is one of `Faults`, each at most once: a walk, on
either machine, that stops between files or within one, a snapshot that stops early,
which the code ignores, files that vanish or grow while the delta is archived, and
the rest. What the
command writes, and input, signals and resets of the connection, are RunStream's.
Directories, permissions, and the names `safeJoin` guards are left out.

**Placement.** One command, `Me`, is followed from its start to its decision, and
what it is and where is a `Scene`: its flags, the peers named, the machines that
are up, what they report. The other commands matter to it through the cache file,
which each truncates and then writes, without a lock; `Torn` is a file that does
not parse. Whoever answers at an address is a candidate, in the order of the
answers. `Filter` and `Pick` are the loops of the code, one candidate a step.
Loads, links and the tie are in a common small unit; the architecture filter, one
more of `Filter`'s constraints, is left out.

**Each.** `pc` is where the goroutine of a rank is, `chunks` what its command has
written and nobody printed, `partial` the line its prefixer holds. A stream is a
sequence of `Letter` and `NL`, cut into frames anywhere. The ranks themselves are
`Placement`'s (`EachProbed`); the code a command ends with is any number. `hostfile` is the file a rank's environment names,
at the agent or here. What is between a command and its frames is RunStream's.

**Tunnel.** Three TCP connections in a row. Closing a side that has unread input
resets the connection, which may destroy what is on its way (`Close`); writing to
a closed side resets it too (`Put`). The four `io.Copy` are `copier`, each with
what it has read in `buf`. A SOCKS5 request arrives whole or not at all, and the
agent's reply, number 0, must not be mixed with the target's data, 1, 2, ...

## Runs

CHECK_DEADLOCK is FALSE throughout: a run, a call, a bounded sequence of commands
ends, and the system then stops.

### The regular runs

| Run | Shows | Bounds |
|---|---|---|
| `run_safety` | output complete before the exit code; input complete before end of file; no kill without a loss; `RunStream` implements `RemoteRun`, whose streams are in order | 2 chunks of output, 2 of input; buffers of one; a command that ignores interrupts, as does the child that holds its pipes; losses anywhere |
| `run_reaped` | a lost client ends a command that reads its input; an ended command's code reaches the user | 1 chunk out, 2 in; commands and children that ignore interrupts, children that inherit stdin; under fairness |
| `run_signals` | Ctrl-C ends a command that reads its input | 2 chunks fill pipe and connection; under fairness |
| `session_safety` | no command repeated, no run failed and nothing left open by a fallback; the probe is bounded; commands start on connections proved under the client's key; a rotated key is dead after the hold, unless the agent was started with it and cannot load another | 2 peers, one with an old agent, 2 keys (symmetric), 1 rotation, 1 fault, a failing keyfile among them; budget 1, dial 2, handshake 3, hold 3 ticks |
| `session_ends` | runs are decided | the same with 1 key, under fairness |
| `key_safety` | the keyfile is whole, and present once it was; results are current | 2 callers (symmetric), 4 calls, 2 faults |
| `lifecycle_safety` | one recorded background agent, none after down, whichever step was cut short; a loaded service returns | 1 terminal, 4 commands, 1 cut short, 2 deaths, 1 other process, 3 pids; systemctl succeeds; under fairness |
| `dir` | no cut-off file is run on; the mirror touches only what changed or the snapshot lacks, and is complete before the exit code but for what vanished or grew meanwhile; answers, walks and copies end unless unpacking failed | 2 files of 2 contents, every fault but an unreadable file, connections of one frame; under fairness |
| `placement` | no list of peers is older than the TTL and a browse; a clear winner wins; the command stays home unless something is clearly better; ties lead only so far | 6 scenes: 3 candidates and this machine with loads around one another's ties; 2 commands on one cache for 4 ticks; the pinned, each and proxy forms among 2 machines |
| `each` | lines whole and complete; the code is the worst of what became of the ranks; a launch that could start everywhere ends and leaves no hostfile | 2 ranks that wait for each other, 3 symbols on one stream cut anywhere, codes 0, 126 and 137, every fault; under fairness |
| `tunnel` | data in order, and whole at a clean end on a link that holds; nothing stays when an end or the link is gone | 1 datum up, 2 down, 2 on their way, 1 loss, with the agent's reply; under fairness |

Two chunks, or a chunk and an end marker, are what is needed to see an order
reversed, one overtaken, or a gap; buffers of one make every writer block, and the
theorems below hold for any size. The one kind of command in `run_safety`
does what the others do, and more: it ignores interrupts, but may exit at any time,
and forking is optional. In `Session` the order of the timers is that of
the code (250 ms < 3 s < 10 s = 10 s), so every race between two of them occurs.
A fault and a rotation let a fallback fail as well. Two callers are what a race on a file
takes, and four calls let one join and one rotate surround two loads. Four
commands reach up, up --forever, down, and one more, or one cut short and a clean
three after it. A code of 126 or 137 lies among or above knit's own, 124, 126 and 127. Two files make a delta that
is some but not all of the tree. Four candidates with the loads 0 to 3 and a tie of
1 form a chain of ties that leads away from the least loaded, in every order; four
ticks let a list be browsed, overwritten and expire. Three symbols hold a whole
line and an unfinished one, or two lines in one frame. Two data down beside the
reply let the reply be overtaken and what follows it be read with it; with one
datum up each half-close and reset meets data in the other direction.

### Counterexamples

Each checks one property that a document, comment or test of the repository
states, and shows how the code fails it. The first is kept among the regular
runs; the others are configurations to be run by hand (one that has two of the
properties with `-continue`).

| Configuration | Property | Says | What happens |
|---|---|---|---|
| `RunStreamReapedIdle` (`run_reaped_idle`) | `CommandReaped` | "Losing the client at any point ... reaps the process group" (`exec.go`) | the reader is stuck writing stdin to a command that does not read it, and never sees the loss; with `Commands <- BlockCommands`, the same for an ended command whose child inherited stdin |
| `RunStreamOrphan` | `GroupReaped` | "nothing is orphaned" (`docs/03-protocol.md`) | the leader's end cancels the SIGKILL its child needs |
| `RunStreamStray` | `NoStray` | "the pid may already be reused" (`exec.go`) | signalGroup does not look, and signals another group |
| `RunStreamReset` | `DisconnectedMeansLost` | a clean run ends with the command's code (`docs/03-protocol.md`) | closing with input unread resets the connection, exit frame included |
| `SessionBudget` | `ProbeWithinBudget` | "hard deadline, slow peers dropped" (`docs/10-performance.md`) | the budget bounds the connect only; a silent peer costs ten seconds |
| `SessionHang` | `ControlBounded` | HandshakeTimeout bounds the control exchange (`transport.go`) | a reused session's request has no deadline |
| `SessionProof` | `CommandAfterProof` | the client verifies before it sends a command (`docs/08-security-model.md`) | a fresh dial sends the command with its own proof |
| `SessionProof` | `RotationTakesEffect` | "takes effect without restarting the agent" (`agent.go`) | an agent that cannot load the keyfile goes back to the key it was started with |
| `KeyFileFirstUse` | `LoadersAgree` | "Stable across reads" (`keys_test.go`) | two first uses generate two keys |
| `KeyFileReadError` | `ReplacedOnlyByOwner` | generated "on first use" (`keys.go`) | any read error replaces the key |
| `KeyFileFirstUse` | `JoinSticks` | "the two machines trust each other" (site) | a first use under way overwrites the joined key |
| `LifecycleStranger` | `NoStranger` | "only if that process is still alive" (`lifecycle.go`) | a reused pid is terminated |
| `LifecyclePort` | `OnWellKnownPort` | --peer host works across restarts (`agent.go`) | the old agent still has the port |
| `LifecycleHalf` | `AlreadyMeansUp` | "an agent that is already up is reported" (`lifecycle.go`) | the unit file of a failed install counts as one |
| `LifecycleHalf` | `DownStops` | "Down stops the agent however it was started" (`lifecycle.go`) | a failed disable is ignored |
| `LifecycleHalf` | `NotDuplicated` | "reported, not duplicated" (`lifecycle.go`) | an `up -d` that fails after starting its agent leaves no pid file, and the next starts a second |
| `DirSyncUnpack` | `CopyDeleted` | "The temporary directory is deleted when the command ends" (site) | a failed ReadTar leaves its writer blocked, and the handler with it |
| `DirSyncSkip` | `GivenWhole` | "The whole directory tree" (site) | a failed walk ends in a valid archive |
| `DirSyncLock` | `EverythingBack` | "copies back every file" (site) | one unreadable file and nothing is sent; or a file grew while it was archived, and those after it are missing, with the exit code and no word |
| `DirSyncLock` | `OnlyTouched` | "only the delta returns" (`docs/02-architecture.md`) | a snapshot that failed is ignored, and files the command left alone are written again |
| `PlacementTie` | `TieStaysHome` | "a true tie prefers staying local" (`scheduler.go`) | a chain of ties over a third machine leads away from home |
| `PlacementNamed` | `NamedExplained` | "a peer the user typed deserves an explanation" (`client.go`) | a typed peer that was also discovered fails in silence |
| `PlacementRanks` | `OneRankEach` | one rank for every machine (`each.go`) | a machine reached under two addresses gets two |
| `EachTogether` | `EachAlwaysEnds` | (no document does) | one rank fails to start and the others wait for it for ever |
| `EachRanked` | `AllRanked` | "Every process is launched with the rank environment" (`each.go`) | a hostfile that cannot be written is ignored, and rank 0 starts without |
| `EachRanked` | `LinesNamed` | "prefixing each output line with the machine name" (`each.go`) | a data race: the local goroutine reads the slice of names while it grows |
| `TunnelHalfClose` | `HalfCloseWhole` | "tunnels raw TCP" (`docs/03-protocol.md`) | the end of one direction closes both, and the answer is cut off |
| `TunnelStalled` | `TunnelEnds` | (with a target that stops reading) | the agent's half of the tunnel stays, blocked in a write |

`LifecycleSafety` with `Terminals <- TwoTerminals` is one more: two `up -d` at
once start two agents, where `lifecycle.go` says "reported, not duplicated".

### Fairness

Goroutines that can take a step take one (weak fairness per goroutine): the Go
scheduler and the kernel see to that. Beyond it:

* `RunStream`: a command of a kind that drains its input goes on reading.
* `Session`: time passes.
* `Lifecycle`: the service manager starts what it has loaded, which is what
  `Restart=always` asks of it.
* `DirSync`: the command ends (for a lost client, `CommandReaped`).
* `Each`: a command that can end does, which one that waits for the other ranks
  can only when all have started; the agent's handler returns when its command is
  over.
* `Tunnel`: the dial and the handshake end, as they have deadlines; the
  application and the target read what there is to read. Neither need ever write,
  close or leave.

Nothing is assumed of users, networks, machines that stall, or the faults, which
stay optional beside the regular outcome of the same step.

## Proofs

Each `...Proofs` module proves, from the assumption its component states about
its constants, theorems of `Spec`: for any number of peers, callers, candidates,
ranks or files, any buffers, timeouts, faults and contents. Two theorems have a
premise besides, the one under which the run checks the property, since without
it the code has a counterexample above. `OneAgent` and `DownMeansDown` are about
one terminal and a service manager that does not fail (two terminals start two
agents, and see `LifecycleHalf`), with any number of commands, of commands cut
short, of deaths and reused pids; and their properties leave out the agents that
a command cut short left unrecorded. Where the code drops an error, other
properties name the exception in the same way: `RotationRevokes` an agent's startup
key, `OnlyDelta` the files a failed snapshot lacks, `SyncComplete` the files that
cannot be read, vanish or grow. The counterexamples show what happens then.

| Module | Theorem | States |
|---|---|---|
| `RunStreamProofs` | `TypeCorrect` | `[]TypeOK` |
| | `NoKillWithoutLoss` | `[]NoSpuriousKill` |
| | `ExitAfterOutput` | `[]OutputComplete` |
| | `EofAfterInput` | `[]EofIsClients` |
| | `StreamsInOrder` | `InOrder` |
| | `RunImplementsRemoteRun` | `RemoteRunSpec` |
| `SessionProofs` | `TypeCorrect` | `[]TypeOK` |
| | `StartedAtMostOnce` | `[]RunsOnceUnlessLost` |
| | `AllClosed` | `[]NothingLeftOpen` |
| | `GatheringBounded` | `[]GatherBounded` |
| | `NeverFailedWithoutCause` | `[]FailedForCause` |
| | `StartedWhereAuthorized` | `StartsWhereAuthorized` |
| | `RotatedKeyDies` | `RotationRevokes` |
| `KeyFileProofs` | `TypeCorrect`, `NothingLeft` | `[]TypeOK`, `[]NoLitter` |
| | `KeysWhole` | `[]NeverPartial` |
| | `KeyStays` | `NeverMissing` |
| | `CallsCurrent` | `[]ResultCurrent` |
| `LifecycleProofs` | `TypeCorrect` | `[]TypeOK` |
| | `OneAgent` | `[]OneInBackground` |
| | `DownMeansDown` | `[]DownStops` |
| `DirSyncProofs` | `TypeCorrect` | `[]TypeOK` |
| | `OnlyDeltaReturns` | `[]OnlyDelta` |
| | `NoneCutShort` | `[]GivenNoneShort` |
| | `DeltaComplete` | `[]SyncComplete` |
| `PlacementProofs` | `TypeCorrect`, `RanksSorted` | `[]TypeOK`, what `Ranked` returns |
| | `ClearlyLessLoadedWins` | `[]ClearWinner` |
| | `HomeUnlessClear` | `[]StaysHome` |
| | `TiesDriftBounded` | `[]DriftBounded` |
| | `CacheNeverStale` | `CacheFresh` |
| `EachProofs` | `LinesWhole` | `[]OutputWhole` |
| | `WorstReturned` | `[]WorstCode` |
| `TunnelProofs` | `DeliveredInOrder` | `[]InOrder` |
| | `EndsWhole` | `[]EndWhole` |

**RunStream** (buffers and bounds are natural numbers, commands are records of
seven Booleans). *Control* ties the goroutines together:
main past the pumps means both pumps are done and nobody holds the pipes, a kill
that went beyond its check means the connection was lost. It is inductive with
`TypeOK` and `FrameHeld` (a reader that is writing stdin has read a frame), and
gives `NoSpuriousKill`. *WireInv* describes the whole log of frames, read or not:
per stream the chunk numbers increase by one and without a gap, all that a pump
has read and is not holding is in the log, and an exit frame is the last frame and
follows all of them. Neither `InOrder` nor `OutputComplete` is inductive: both
speak of what the client has shown, and only the log says what it will show next.
*UpInv* and *FedInv* do the same for the client's direction: the log holds chunks
1, 2, 3, ... and then the end marker, and what was fed to the command is the last
chunk read, which makes end of file come after all of the input. The refinement
maps every step to a `RemoteRun` action or a stutter, with `WireInv` supplying the
guards of `Deliver` and `Report`.

**Session** (the dial and handshake timeouts are positive, the others natural).
None of the properties is inductive, as each speaks of what one
end did while the other was somewhere else. *PhaseInv* says which connections each
phase of `Run` leaves open, *AuthInv* whose key a request or a held connection was
proved with, *TalkInv* where the agent can be at each point of the client's
exchange. *StartInv* adds what the reused connection and the run's own may have
started: the fallback finds the first closed before it started anything, or lost.
*GatherInv* and *RevokeInv* tie the timers to the time since the run began and
since the key was replaced or could be loaded again. *CauseInv* says that with a machine nothing
happened to the exchange never waits, so no deadline of it comes due.

**KeyFile** (`Absent` and `Partial` are no keys). *WholeKeys*: nobody past
`Read` holds part of a key, and whoever installs holds a whole one, as a write goes
to a temporary file of its own. *SeenKeys*: a call has seen every key the file held
since it began, the one it is to return among them.

**Lifecycle.** *Steps*: which commands pass through which step. *Managed* ties the
unit file to what the service manager runs: while it runs nothing, all there is of
the service is one agent that is stopping. *Tracked* is the reason there is never a
second recorded agent: no detached agent but an `unrecorded` one is there beside a
unit file, and the command at
hand either holds its pid already or will read it from the pid file. The pid file
alone does not do, as `forever` and `down` remove it before or after the agent has
gone.

**DirSync** (finitely many files; `None` and `Short` are no contents, and `None` no
piece). For the way back, *Stages* says that until the delta is computed nothing is
on its way to the client and the working directory is as it was, and that the
snapshot is the tree the command was given or lacks some of it; *Mirrored*, that
every piece between the archiver and the client's tree, in whichever of the pipes,
frames and hands it is, belongs to a file of the delta (`Delta`). For the way there,
*Uploaded* says that every piece, and what was made of it, holds what the working
directory did; *Chained*, that the pieces from the reader back to the walk, through
two pipes, the upload loop and the connection, fit together: what follows a file's
head is its tail, at every place where a failure can cut the chain; and *Copied*,
that a file is half written only while the reader expects its tail. A chain that is
cut leaves the reader in the middle of a file, which `EndOf` turns into a failure.
`TypeOK` also says that no pipe is closed over a piece, for which *Bounds* follows who writes each
pipe and when, and what the connection may still hold behind an exit code. For
`SyncComplete`, *Mirror* takes the archive of the delta as one sequence and says
where each piece is: the first `a` applied to the client's tree, the next ones, in
this order, in the client's pipe, on the connection, with sendTree, in its pipe
(*Along*); the tail of every file applied is what the command left (*InPlace*); and
the end of the archive is behind its last piece (*Ended*).

**Placement** (links slower than this machine's own, a natural tie). *Chosen* is
the loop invariant of `Pick`: over the candidates looked at, the choice is a clear
winner if there is one, is off the least load by at most a tie per look, and is
not this machine only if something is clearly less loaded. *FreshLists* and
*FreshCache*: whatever commands do to the file, a list in it that parses was
announced within a browse of the time it carries. `TypeOK` needs that the ranks of
knit each are candidates, and so that `Ranked`, which picks for each rank the
candidate with so many before it, finds one: the ranks are distinct and between 1
and the number of candidates, hence every one is taken.

**Each.** *Exact*: what was printed of a stream, what its prefixer holds and the
chunks nobody has read, put together, is what the command wrote. Putting a sequence
of chunks together is a recursion, about which nothing can be proved by induction
here; *Rest* says the same with the places at which the text is cut. *Progress* ties a
rank's code to its command's end, and makes the code that is returned a bound.

**Tunnel** (any amounts of data, any buffers, any number of losses). For `InOrder`,
*Chain*: from the receiver back, as far as the connections are live, what they and
the copiers hold counts on from what was received; and *Early*: nothing is under
way before the reply. `EndWhole` is about the other end. `Lost(d)` is what was sent
and is neither received nor on its way; from the dial on it only grows. *Ended* says that a
connection is reset only over data of the other direction, which is then lost, and
that otherwise it ends because its writer closed it. So, as long as nothing of the
other direction is lost and the receiver kept its own side open (*Good*), the two
machines can only close one after the other, the sender's first, each with all that
was sent behind it (*Settled*); when the machine next to the receiver has closed,
all has reached the receiver's connection. *Handshake*, *Both* (a machine has both
its connections or neither) and *Awaits* supply the cases.

The inductive invariants were first checked with TLC on the instances above.

Model-checked only: liveness (`CommandReaped`, `ExitRelayed`, `SignalReaches`,
`RunDecided`, `ServiceReturns`, `CopyDeletedIfUnpacked`, `AnsweredIfUnpacked`,
`EachEnds`, `TunnelEnds`), which TLAPS does not reach, as fairness involves ENABLED.
Of the `SetToSeq` of `DirSync`'s archive the proofs use that it lists every file
once (`ListingAll`).

## Not modelled

* Byte layouts, HMAC, TLS, SOCKS5, tar headers and JSON: formats, with no state.
* mDNS itself (a library) and `launchd` (the protocol is systemd's with other
  commands).
* Directories, symbolic links and permissions in archives. (ReadTar makes every
  directory 0755, so directory permissions do not travel as the site says.)
* Parsing lists of peers and classifying links (`discovery/peers.go`): functions of
  formatted text.
* The command line, `gauge` and system information: sequential code whose tests
  enumerate the cases.

## Plan

The regular runs are kept to a dozen, a few minutes in all. Done, in this order:
`RunStream` and its refinement, `Session`, `KeyFile`, `Lifecycle`, `DirSync`,
`Placement`, `Each`, `Tunnel`, and the proofs above. Left:

1. `RunWithDir`, composing `DirSync` and `RunStream`: input frames behind the
   upload, mirror frames between output and exit. Today each module takes the other
   as one step.
2. Proofs: the safety halves of what is only model-checked, such as that a state
   in which nothing more can happen is one that the liveness property allows.
3. `op dial` in `Session`, whose handshake `Tunnel` takes as two steps.
