------------------------------ MODULE DirSync -------------------------------
(***************************************************************************)
(* `knit run --dir` and `--sync`: the working directory streamed to the     *)
(* agent, the command run in a copy of it, and what it changed streamed     *)
(* back.  internal/client/run.go (streamOver's upload and mirror frames),   *)
(* internal/agent/exec.go (handleRunDir, recvTree, sendTree) and            *)
(* internal/treesync.                                                       *)
(*                                                                          *)
(* At each end a goroutine makes or unpacks the archive while another one   *)
(* talks to the connection; an unbuffered pipe joins the two, so a writer   *)
(* waits until a reader has taken what it wrote.  A file is two pieces of   *)
(* an archive, its head (after which it is there, but short) and its tail,  *)
(* and Footer ends the archive.  Only regular files are modelled.  Output,  *)
(* input and signals of the command are RunStream's.                        *)
(***************************************************************************)
EXTENDS Naturals, Sequences, SequencesExt

CONSTANTS Files,     \* names, as numbers; 0 is none of them
          Data,      \* contents a whole file may have
          None,      \* no such file, no piece in a pipe
          Short,     \* the contents of a file that was cut off
          NetCap,    \* frames a direction of the connection buffers
          Faults     \* what may go wrong, once each: see Fault below

ASSUME DirSyncAssumption ==
  /\ Files \subseteq Nat \ {0} /\ IsFiniteSet(Files)
  /\ None \notin Data /\ Short \notin Data /\ None # Short
  /\ None \notin [file : Nat, part : {"head", "tail", "footer"}, data : Data \cup {None, Short}]
  /\ NetCap \in Nat
  /\ Faults \subseteq {"skip", "short", "unpack", "apply", "snapshot", "lock", "spawn", "pack",
                     "vanish", "grow", "lose"}

VARIABLES
  local,     \* the client's working directory
  remote,    \* the agent's temporary copy
  temp,      \* the temporary copy exists
  snap,      \* what Snapshot saw in it
  locked,    \* files the command left unreadable
  sync,      \* --sync was given

  pipe,      \* per pipe: the piece in it, and whether its writer closed it
  gone,      \* pipes whose reading end was closed

  walk,      \* WriteTar's pieces left to write
  unpack,    \* recvTree's ReadTar: "head" or "tail" next, "ok", "failed"
  pack,      \* WriteTarFiles' pieces left to write
  apply,     \* streamOver's ReadTar: "unused", then as unpack

  client,    \* streamOver: "upload", "frame", "end", "run", "apply", "wait", "done"
  agent,     \* handleRunDir: "recv", "put", "errc", "start", "run", "diff",
             \* "read", "frame", "end", "exit", "report", "return", "closed"
  held,      \* per end, the piece between its pipe and its frame
  link,      \* "up" or "lost"
  up, down,  \* frames on their way to the agent, and to the client
  outcome,   \* of streamOver: "none", "exit", "refused", "disconnected"

  before,    \* the working directory when knit was started
  given,     \* the temporary copy when the command was to be started
  happened   \* the faults that did happen

treeVars   == <<local, remote, temp, snap, locked, sync>>
pipeVars   == <<pipe, gone>>
workerVars == <<walk, unpack, pack, apply>>
mainVars   == <<client, agent, held>>
netVars    == <<link, up, down>>
ghostVars  == <<before, given, happened>>
vars == <<treeVars, pipeVars, workerVars, mainVars, netVars, outcome, ghostVars>>

Pipes == {"up", "in", "out", "sync"}
Empty == [piece |-> None, closed |-> FALSE]

Piece(f, part, data) == [file |-> f, part |-> part, data |-> data]
Footer == Piece(0, "footer", None)

\* The archive of some files of a tree, one after the other.
Archive(tree, files) ==
  LET name == SetToSeq(files)
      n == Cardinality(files)
  IN [k \in 1..2 * n + 1 |->
        IF k > 2 * n THEN Footer
        ELSE Piece(name[(k + 1) \div 2], IF k % 2 = 1 THEN "head" ELSE "tail",
                   tree[name[(k + 1) \div 2]])]

Present(tree) == {f \in Files : tree[f] # None}

\* Mutant: everything there is mirrored back.
Everything(tree, s) == Present(tree)

\* ChangedSince: the files that are there and whose contents are not the
\* snapshot's.  What the command deleted is not among them.
ChangedSince(tree, s) == {f \in Present(tree) : s[f] # tree[f]}

Init ==
  /\ local \in [Files -> Data \cup {None}]
  /\ remote = [f \in Files |-> None] /\ temp = TRUE
  /\ snap = [f \in Files |-> None] /\ locked = {} /\ sync \in BOOLEAN
  /\ pipe = [p \in Pipes |-> Empty] /\ gone = {}
  /\ walk = Archive(local, Present(local)) /\ pack = <<>>
  /\ unpack = "head" /\ apply = "unused"
  /\ client = "upload" /\ agent = "recv" /\ held = [e \in {"client", "agent"} |-> None]
  /\ link = "up" /\ up = <<>> /\ down = <<>> /\ outcome = "none"
  /\ before = local /\ given = remote /\ happened = {}

Fault(f) == f \in Faults \ happened /\ happened' = happened \cup {f}

-----------------------------------------------------------------------------
(***************************************************************************)
(* Pipes (io.Pipe) and frames.                                              *)
(***************************************************************************)
\* Nobody has taken the last piece yet.
Busy(p) == pipe[p].piece # None

Write(p, x) == ~Busy(p) /\ pipe' = [pipe EXCEPT ![p].piece = x]
Close(p) == pipe' = [pipe EXCEPT ![p].closed = TRUE]
Take(p) == pipe' = [pipe EXCEPT ![p].piece = None]

\* What a reader finds: a piece, or once all are taken the end.
AtEnd(p) == ~Busy(p) /\ pipe[p].closed

Frame(type, x) == [type |-> type, piece |-> x]

\* A frame is sent, or the lost connection takes it and reports nothing yet.
SendUp(f) ==
  /\ link = "up" => Len(up) < NetCap
  /\ up' = IF link = "up" /\ agent # "closed" THEN Append(up, f) ELSE up
SendDown(f) ==
  /\ link = "up" => Len(down) < NetCap
  /\ down' = IF link = "up" THEN Append(down, f) ELSE down

\* A reader finds the connection gone, and nothing left to read.
UpGone == link = "lost" \/ (up = <<>> /\ client = "done")
DownGone == link = "lost" \/ (down = <<>> /\ agent = "closed")

-----------------------------------------------------------------------------
(***************************************************************************)
(* WriteTar on the client, and streamOver's upload loop.                    *)
(***************************************************************************)
WalkFile ==
  /\ walk # <<>> /\ "up" \notin gone
  /\ Write("up", Head(walk)) /\ walk' = Tail(walk)
  /\ UNCHANGED <<treeVars, gone, unpack, pack, apply, mainVars, netVars, outcome, ghostVars>>

\* An entry whose directory or attributes cannot be read ends the walk between
\* two entries, and so does a file that grew, after as much as its header says;
\* the deferred tw.Close still writes the footer.
WalkSkips ==
  /\ Len(walk) > 1 /\ Head(walk).part = "head" /\ "up" \notin gone
  /\ Fault("skip")
  /\ Write("up", Footer) /\ walk' = <<>>
  /\ UNCHANGED <<treeVars, gone, unpack, pack, apply, mainVars, netVars, outcome, before, given>>

\* A file that cannot be opened, or is shorter by now, ends it in its middle.
WalkShort ==
  /\ walk # <<>> /\ Head(walk).part = "tail" /\ ~Busy("up") /\ "up" \notin gone
  /\ Fault("short")
  /\ walk' = <<>>
  /\ UNCHANGED <<treeVars, pipeVars, unpack, pack, apply, mainVars, netVars, outcome, before, given>>

\* The walk is over, or is told that nobody reads it any more.
WalkEnds ==
  /\ ~pipe["up"].closed
  /\ (walk = <<>> /\ ~Busy("up")) \/ "up" \in gone
  /\ walk' = <<>> /\ Close("up")
  /\ UNCHANGED <<treeVars, gone, unpack, pack, apply, mainVars, netVars, outcome, ghostVars>>

UploadRead ==
  /\ client = "upload"
  /\ \/ /\ Busy("up") /\ Take("up")
        /\ held' = [held EXCEPT !["client"] = pipe["up"].piece] /\ client' = "frame"
     \/ AtEnd("up") /\ client' = "end" /\ UNCHANGED <<pipe, held>>
  /\ UNCHANGED <<treeVars, gone, workerVars, agent, netVars, outcome, ghostVars>>

UploadFrame ==
  /\ client = "frame"
  /\ SendUp(Frame("intar", held["client"]))
  /\ held' = [held EXCEPT !["client"] = None] /\ client' = "upload"
  /\ UNCHANGED <<treeVars, pipeVars, workerVars, agent, link, down, outcome, ghostVars>>

\* The write fails: pr.Close stops the walk.
UploadBroken ==
  /\ client = "frame" /\ (link = "lost" \/ agent = "closed")
  /\ gone' = gone \cup {"up"}
  /\ held' = [held EXCEPT !["client"] = None] /\ client' = "end"
  /\ UNCHANGED <<treeVars, pipe, workerVars, agent, netVars, outcome, ghostVars>>

\* Mutant: the end of the tree is not sent.
UploadEndSilently ==
  /\ client = "end"
  /\ client' = "run"
  /\ UNCHANGED <<treeVars, pipeVars, workerVars, agent, held, netVars, outcome, ghostVars>>

UploadEnd ==
  /\ client = "end"
  /\ SendUp(Frame("inend", None))
  /\ client' = "run"
  /\ UNCHANGED <<treeVars, pipeVars, workerVars, agent, held, link, down, outcome, ghostVars>>

-----------------------------------------------------------------------------
(***************************************************************************)
(* ReadTar, at either end.                                                  *)
(***************************************************************************)
\* What one piece does to a tree and to the reader's state.
Unpacked(tree, x) ==
  IF x.part = "footer" THEN tree
  ELSE [tree EXCEPT ![x.file] = IF x.part = "head" THEN Short ELSE x.data]
Expects(x) == CASE x.part = "head" -> "tail" [] x.part = "tail" -> "head" [] OTHER -> "ok"

\* The stream may end between two entries, but not inside one.
EndOf(state) == IF state = "head" THEN "ok" ELSE "failed"

Reading(state) == state \in {"head", "tail"}

UnpackPiece ==
  /\ Reading(unpack) /\ Busy("in")
  /\ remote' = Unpacked(remote, pipe["in"].piece)
  /\ unpack' = Expects(pipe["in"].piece) /\ Take("in")
  /\ UNCHANGED <<local, temp, snap, locked, sync, gone, walk, pack, apply, mainVars, netVars,
                 outcome, ghostVars>>

\* A full disk, a name the target cannot have: ReadTar returns, and nobody
\* closes its end of the pipe.
UnpackFails ==
  /\ Reading(unpack) /\ Busy("in") /\ Fault("unpack")
  /\ unpack' = "failed"
  /\ UNCHANGED <<treeVars, pipeVars, walk, pack, apply, mainVars, netVars, outcome, before, given>>

UnpackEnds ==
  /\ Reading(unpack) /\ AtEnd("in")
  /\ unpack' = EndOf(unpack)
  /\ UNCHANGED <<treeVars, pipeVars, walk, pack, apply, mainVars, netVars, outcome, ghostVars>>

ApplyPiece ==
  /\ Reading(apply) /\ Busy("sync")
  /\ local' = Unpacked(local, pipe["sync"].piece)
  /\ apply' = Expects(pipe["sync"].piece) /\ Take("sync")
  /\ UNCHANGED <<remote, temp, snap, locked, sync, gone, walk, unpack, pack, mainVars, netVars,
                 outcome, ghostVars>>

ApplyFails ==
  /\ Reading(apply) /\ Busy("sync") /\ Fault("apply")
  /\ apply' = "failed"
  /\ UNCHANGED <<treeVars, pipeVars, walk, unpack, pack, mainVars, netVars, outcome, before, given>>

ApplyEnds ==
  /\ Reading(apply) /\ AtEnd("sync")
  /\ apply' = EndOf(apply)
  /\ UNCHANGED <<treeVars, pipeVars, walk, unpack, pack, mainVars, netVars, outcome, ghostVars>>

-----------------------------------------------------------------------------
(***************************************************************************)
(* recvTree and handleRunDir.                                               *)
(***************************************************************************)
RecvPiece ==
  /\ agent = "recv" /\ up # <<>> /\ Head(up).type = "intar"
  /\ Write("in", Head(up).piece) /\ up' = Tail(up)
  /\ agent' = "put"
  /\ UNCHANGED <<treeVars, gone, workerVars, client, held, link, down, outcome, ghostVars>>

\* pw.Write returns when ReadTar has taken the piece.
RecvPut ==
  /\ agent = "put" /\ ~Busy("in")
  /\ agent' = "recv"
  /\ UNCHANGED <<treeVars, pipeVars, workerVars, client, held, netVars, outcome, ghostVars>>

RecvEnd ==
  /\ agent = "recv" /\ up # <<>> /\ Head(up).type = "inend"
  /\ Close("in") /\ up' = Tail(up)
  /\ agent' = "errc"
  /\ UNCHANGED <<treeVars, gone, workerVars, client, held, link, down, outcome, ghostVars>>

\* Mutant: ReadTar is waited for and not told.
RecvBrokenWaiting ==
  /\ agent = "recv" /\ UpGone
  /\ agent' = "errc"
  /\ UNCHANGED <<treeVars, pipeVars, workerVars, client, held, netVars, outcome, ghostVars>>

\* CloseWithError makes ReadTar fail wherever it is; handleRunDir reports to a
\* client that is gone.
RecvBroken ==
  /\ agent = "recv" /\ UpGone
  /\ unpack' = "failed" /\ agent' = "report"
  /\ UNCHANGED <<treeVars, pipeVars, walk, pack, apply, client, held, netVars, outcome, ghostVars>>

\* Mutant: what ReadTar returned is not looked at.
RecvDoneUnchecked ==
  /\ agent = "errc" /\ ~Reading(unpack)
  /\ agent' = "start"
  /\ UNCHANGED <<treeVars, pipeVars, workerVars, client, held, netVars, outcome, ghostVars>>

RecvDone ==
  /\ agent = "errc" /\ ~Reading(unpack)
  /\ agent' = IF unpack = "ok" THEN "start" ELSE "report"
  /\ UNCHANGED <<treeVars, pipeVars, workerVars, client, held, netVars, outcome, ghostVars>>

\* Snapshot, then the command; if it cannot be started that is reported.
Start ==
  /\ agent = "start"
  /\ snap' = IF sync THEN remote ELSE snap
  /\ given' = remote
  /\ \/ agent' = "run" /\ UNCHANGED happened
     \/ Fault("spawn") /\ agent' = "report"
  /\ UNCHANGED <<local, remote, temp, locked, sync, pipeVars, workerVars, client, held, netVars,
                 outcome, before>>

\* That Snapshot could not read a file is ignored: the command is started, and
\* the snapshot holds the files it came to before.
StartUnseen ==
  /\ agent = "start" /\ sync /\ Fault("snapshot")
  /\ \E f \in Present(remote) : snap' = [g \in Files |-> IF g < f THEN remote[g] ELSE None]
  /\ given' = remote
  /\ agent' = "run"
  /\ UNCHANGED <<local, remote, temp, locked, sync, pipeVars, workerVars, client, held, netVars,
                 outcome, before>>

\* The command has ended (RunStream), and left the copy as it pleased.
CommandEnds ==
  /\ agent = "run"
  /\ remote' \in [Files -> Data \cup {None}]
  /\ \/ locked' = locked /\ happened' = happened
     \/ Fault("lock") /\ \E f \in Files : locked' = {f}
  /\ agent' = "diff"
  /\ UNCHANGED <<local, temp, snap, sync, pipeVars, workerVars, client, held, netVars, outcome,
                 before, given>>

\* A file that cannot be read makes ChangedSince fail, and nothing is sent.
Diff ==
  LET changed == ChangedSince(remote, snap)
      readable == locked \cap Present(remote) = {}
  IN /\ agent = "diff"
     /\ IF sync /\ readable /\ changed # {}
        THEN agent' = "read" /\ pack' = Archive(remote, changed)
        ELSE agent' = "exit" /\ pack' = pack
     /\ UNCHANGED <<treeVars, pipeVars, walk, unpack, apply, client, held, netVars, outcome, ghostVars>>

-----------------------------------------------------------------------------
(***************************************************************************)
(* WriteTarFiles and sendTree.                                              *)
(***************************************************************************)
PackFile ==
  /\ pack # <<>>
  /\ Write("out", Head(pack)) /\ pack' = Tail(pack)
  /\ UNCHANGED <<treeVars, gone, walk, unpack, apply, mainVars, netVars, outcome, ghostVars>>

\* A file that was hashed cannot be opened now, or is shorter.
PackShort ==
  /\ pack # <<>> /\ Head(pack).part = "tail" /\ Fault("pack")
  /\ pack' = <<>>
  /\ UNCHANGED <<treeVars, pipeVars, walk, unpack, apply, mainVars, netVars, outcome, before, given>>

\* A file that is no longer there, or no regular file, is left out.
PackVanished ==
  /\ pack # <<>> /\ Head(pack).part = "head" /\ Fault("vanish")
  /\ pack' = SubSeq(pack, 3, Len(pack))
  /\ UNCHANGED <<treeVars, pipeVars, walk, unpack, apply, mainVars, netVars, outcome, before, given>>

\* A file that something still writes to is longer than its header says: what
\* fits is written, and the deferred tw.Close ends the archive after it.
PackGrew ==
  /\ pack # <<>> /\ Head(pack).part = "tail" /\ Fault("grow")
  /\ Write("out", Head(pack)) /\ pack' = <<Footer>>
  /\ UNCHANGED <<treeVars, gone, walk, unpack, apply, mainVars, netVars, outcome, before, given>>

\* Mutant: the pipe is closed under the last piece.
PackEndsEarly ==
  /\ agent \in {"read", "frame"} /\ pack = <<>> /\ ~pipe["out"].closed
  /\ Close("out")
  /\ UNCHANGED <<treeVars, gone, workerVars, mainVars, netVars, outcome, ghostVars>>

PackEnds ==
  /\ agent \in {"read", "frame"} /\ pack = <<>> /\ ~Busy("out") /\ ~pipe["out"].closed
  /\ Close("out")
  /\ UNCHANGED <<treeVars, gone, workerVars, mainVars, netVars, outcome, ghostVars>>

MirrorRead ==
  /\ agent = "read"
  /\ \/ /\ Busy("out") /\ Take("out")
        /\ held' = [held EXCEPT !["agent"] = pipe["out"].piece] /\ agent' = "frame"
     \/ AtEnd("out") /\ agent' = "end" /\ UNCHANGED <<pipe, held>>
  /\ UNCHANGED <<treeVars, gone, workerVars, client, netVars, outcome, ghostVars>>

MirrorFrame ==
  /\ agent = "frame"
  /\ SendDown(Frame("outtar", held["agent"]))
  /\ held' = [held EXCEPT !["agent"] = None] /\ agent' = "read"
  /\ UNCHANGED <<treeVars, pipeVars, workerVars, client, link, up, outcome, ghostVars>>

\* sendTree returns; the pipe stays open, and WriteTarFiles in it.
MirrorBroken ==
  /\ agent = "frame" /\ (link = "lost" \/ client = "done")
  /\ held' = [held EXCEPT !["agent"] = None] /\ agent' = "exit"
  /\ UNCHANGED <<treeVars, pipeVars, workerVars, client, netVars, outcome, ghostVars>>

MirrorEnd ==
  /\ agent = "end"
  /\ SendDown(Frame("outend", None))
  /\ agent' = "exit"
  /\ UNCHANGED <<treeVars, pipeVars, workerVars, client, held, link, up, outcome, ghostVars>>

SendExit ==
  /\ agent = "exit"
  /\ SendDown(Frame("exit", None))
  /\ agent' = "return"
  /\ UNCHANGED <<treeVars, pipeVars, workerVars, client, held, link, up, outcome, ghostVars>>

\* A stderr frame and knit's own exit code.
Report ==
  /\ agent = "report"
  /\ SendDown(Frame("refused", None))
  /\ agent' = "return"
  /\ UNCHANGED <<treeVars, pipeVars, workerVars, client, held, link, up, outcome, ghostVars>>

\* The deferred calls: the copy is removed, the connection closed.
ReturnFromRun ==
  /\ agent = "return"
  /\ temp' = FALSE /\ agent' = "closed"
  /\ UNCHANGED <<local, remote, snap, locked, sync, pipeVars, workerVars, client, held, netVars,
                 outcome, ghostVars>>

-----------------------------------------------------------------------------
(***************************************************************************)
(* streamOver's read loop.                                                  *)
(***************************************************************************)
ReadOutTar ==
  /\ client = "run" /\ down # <<>> /\ Head(down).type = "outtar"
  /\ Write("sync", Head(down).piece) /\ down' = Tail(down)
  /\ apply' = IF apply = "unused" THEN "head" ELSE apply
  /\ client' = "apply"
  /\ UNCHANGED <<treeVars, gone, walk, unpack, pack, agent, held, link, up, outcome, ghostVars>>

ReadOutTarDone ==
  /\ client = "apply" /\ ~Busy("sync")
  /\ client' = "run"
  /\ UNCHANGED <<treeVars, pipeVars, workerVars, agent, held, netVars, outcome, ghostVars>>

\* Mutant: the end of the archive is not waited for.
ReadOutEndAtOnce ==
  /\ client = "run" /\ down # <<>> /\ Head(down).type = "outend"
  /\ Close("sync") /\ down' = Tail(down)
  /\ UNCHANGED <<treeVars, gone, workerVars, client, agent, held, link, up, outcome, ghostVars>>

ReadOutEnd ==
  /\ client = "run" /\ down # <<>> /\ Head(down).type = "outend"
  /\ Close("sync") /\ down' = Tail(down)
  /\ client' = "wait"
  /\ UNCHANGED <<treeVars, gone, workerVars, agent, held, link, up, outcome, ghostVars>>

\* <-syncErr; an error is printed.
ReadSyncErr ==
  /\ client = "wait" /\ ~Reading(apply)
  /\ client' = "run"
  /\ UNCHANGED <<treeVars, pipeVars, workerVars, agent, held, netVars, outcome, ghostVars>>

ReadExit ==
  /\ client = "run" /\ down # <<>> /\ Head(down).type \in {"exit", "refused"}
  /\ outcome' = Head(down).type /\ down' = Tail(down)
  /\ client' = "done"
  /\ UNCHANGED <<treeVars, pipeVars, workerVars, agent, held, link, up, ghostVars>>

ReadBroken ==
  /\ client = "run" /\ DownGone
  /\ outcome' = "disconnected" /\ client' = "done"
  /\ UNCHANGED <<treeVars, pipeVars, workerVars, agent, held, netVars, ghostVars>>

Lose ==
  /\ link = "up" /\ client # "done" /\ Fault("lose")
  /\ link' = "lost" /\ up' = <<>> /\ down' = <<>>
  /\ UNCHANGED <<treeVars, pipeVars, workerVars, mainVars, outcome, before, given>>

-----------------------------------------------------------------------------
WriteTar == WalkFile \/ WalkSkips \/ WalkShort \/ WalkEnds
ReadTar == UnpackPiece \/ UnpackFails \/ UnpackEnds
ReadTarBack == ApplyPiece \/ ApplyFails \/ ApplyEnds
WriteTarFiles == PackFile \/ PackShort \/ PackVanished \/ PackGrew \/ PackEnds

streamOver ==
  \/ UploadRead \/ UploadFrame \/ UploadBroken \/ UploadEnd
  \/ ReadOutTar \/ ReadOutTarDone \/ ReadOutEnd \/ ReadSyncErr \/ ReadExit \/ ReadBroken

recvTree == RecvPiece \/ RecvPut \/ RecvEnd \/ RecvBroken \/ RecvDone
sendTree == MirrorRead \/ MirrorFrame \/ MirrorBroken \/ MirrorEnd

handleRunDir ==
  recvTree \/ Start \/ StartUnseen \/ CommandEnds \/ Diff \/ sendTree \/ SendExit \/ Report \/ ReturnFromRun

Next ==
  \/ WriteTar \/ ReadTar \/ ReadTarBack \/ WriteTarFiles
  \/ streamOver \/ handleRunDir
  \/ Lose

Spec == Init /\ [][Next]_vars

\* Every goroutine gets to run, and the command ends (RunStream's
\* CommandReaped, when its client is lost).
FairSpec ==
  /\ Spec
  /\ WF_vars(WriteTar) /\ WF_vars(ReadTar) /\ WF_vars(ReadTarBack) /\ WF_vars(WriteTarFiles)
  /\ WF_vars(streamOver) /\ WF_vars(handleRunDir)

-----------------------------------------------------------------------------
Trees == [Files -> Data \cup {None, Short}]
Pieces == {None, Footer} \cup [file : Files, part : {"head", "tail"}, data : Data \cup {None, Short}]
States == {"unused", "head", "tail", "ok", "failed"}

\* Every variable stays in its range, and a pipe is closed only when empty.
TypeOK ==
  /\ local \in Trees /\ remote \in Trees /\ snap \in Trees /\ locked \subseteq Files
  /\ temp \in BOOLEAN /\ sync \in BOOLEAN /\ gone \subseteq Pipes
  /\ \A p \in Pipes : pipe[p].piece \in Pieces /\ pipe[p].closed \in BOOLEAN
  /\ \A p \in Pipes \ {"up"} : pipe[p].closed => ~Busy(p)
  /\ \A i \in DOMAIN walk : walk[i] \in Pieces
  /\ \A i \in DOMAIN pack : pack[i] \in Pieces
  /\ unpack \in States \ {"unused"} /\ apply \in States
  /\ client \in {"upload", "frame", "end", "run", "apply", "wait", "done"}
  /\ agent \in {"recv", "put", "errc", "start", "run", "diff", "read", "frame", "end",
                "exit", "report", "return", "closed"}
  /\ held \in [{"client", "agent"} -> Pieces]
  /\ link \in {"up", "lost"} /\ Len(up) <= NetCap /\ Len(down) <= NetCap
  /\ outcome \in {"none", "exit", "refused", "disconnected"}
  /\ happened \subseteq Faults

\* The command starts in a copy of the whole working directory, every file
\* complete (site guides/files.md "The whole directory tree").
GivenWhole == agent \in {"run", "diff"} => given = before

\* No command starts in a copy with a file cut short: a broken upload is
\* reported instead (exec.go:83-87).
GivenNoneShort == \A f \in Files : given[f] # Short

\* The files the command created or changed; deletions do not count.
Touched == {f \in Present(remote) : sync /\ remote[f] # given[f]}

\* The files Snapshot did not come to.
Unseen == {f \in Present(given) : sync /\ snap[f] = None}

\* What is left out of the mirror without a word: an unreadable file stops it, a
\* file that vanished is passed over, one that grew ends the archive.
Silent == {"lock", "vanish", "grow"}

AsLeft == local = [f \in Files |-> IF f \in Touched THEN remote[f] ELSE before[f]]

\* The exit code is returned only after every file the command created or
\* changed is back as it left it, and every other file is as it was (site
\* guides/files.md "copies back every file it created or changed"), unless
\* applying them failed, which is said, or one of them could not be packed in a
\* way the code does not report.
SyncComplete == outcome = "exit" /\ apply # "failed" /\ happened \cap Silent = {} => AsLeft

\* At no time, in no failure, does the mirror touch a file that the command
\* left alone (docs/02-architecture.md "only the delta returns"), but for those
\* that a failed snapshot lacks: each is written once more, as it was.
OnlyDelta == \A f \in Files : local[f] # before[f] => f \in Touched \cup Unseen

\* What the two say without their exceptions: all that the command created or
\* changed is back when the exit code is returned, and nothing else is touched.
EverythingBack == outcome = "exit" /\ apply # "failed" => AsLeft
OnlyTouched == \A f \in Files : local[f] # before[f] => f \in Touched

\* The handler of a client that is gone, or was answered, ends, and its copy is
\* deleted (site guides/files.md "The temporary directory is deleted when the
\* command ends").
CopyDeleted == (link = "lost" \/ client = "done") ~> ~temp

\* So it is, whatever else fails, unless unpacking did.
CopyDeletedIfUnpacked ==
  (link = "lost" \/ client = "done") ~> (~temp \/ "unpack" \in happened)

\* The user gets an answer, an exit code or a report or the loss, and the walk of
\* the working directory ends (run.go:180 "a dead link stops the walk instead of
\* draining it"), whatever else fails, unless unpacking did, there or back.
AnsweredIfUnpacked ==
  <>((outcome # "none" /\ pipe["up"].closed) \/ {"unpack", "apply"} \cap happened # {})

=============================================================================
