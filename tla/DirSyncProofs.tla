--------------------------- MODULE DirSyncProofs ----------------------------
(***************************************************************************)
(* Only what the command touched, or a failed snapshot lacks, is ever       *)
(* brought back, all of it before the exit code is returned unless it is    *)
(* left out in silence, and no command is started in a copy with a file cut *)
(* short, for any files, contents, buffers and faults.                      *)
(***************************************************************************)
EXTENDS DirSync, FiniteSetTheorems, TLAPS

Contents == Data \cup {None, Short}
Frames == [type : {"intar", "inend", "outtar", "outend", "exit", "refused"}, piece : Pieces]

Ducts == [Pipes -> [piece : Pieces, closed : BOOLEAN]]

\* Trees, archives, pipes and the connection hold what they are for.
Types ==
  /\ local \in Trees /\ remote \in Trees /\ given \in Trees /\ before \in Trees /\ snap \in Trees
  /\ walk \in Seq(Pieces) /\ pack \in Seq(Pieces)
  /\ pipe \in Ducts
  /\ held \in [{"client", "agent"} -> Pieces]
  /\ up \in Seq(Frames) /\ down \in Seq(Frames)

Receiving == agent \in {"recv", "put", "errc"}
Early == Receiving \/ agent \in {"start", "run", "diff"}

\* Until the command has ended and the delta is computed nothing is on its way
\* back; from its start on the copy is the command's alone.
Stages ==
  /\ Reading(unpack) => Receiving
  /\ Early =>
       /\ local = before /\ pack = <<>> /\ down = <<>>
       /\ pipe["out"].piece = None /\ pipe["sync"].piece = None /\ held["agent"] = None
  /\ \A f \in Files : snap[f] = None \/ (sync /\ snap[f] = given[f])

\* What ChangedSince finds: the files that may go back.
Delta == IF sync THEN ChangedSince(remote, snap) ELSE {}

\* A piece that may be on its way back.
Back(x) == x = None \/ x = Footer \/ x.file \in Delta

Mirrored ==
  /\ \A i \in 1..Len(pack) : Back(pack[i])
  /\ \A i \in 1..Len(down) : Back(down[i].piece)
  /\ Back(pipe["out"].piece) /\ Back(pipe["sync"].piece) /\ Back(held["agent"])
  /\ \A f \in Files : local[f] # before[f] => f \in Delta

\* A piece of the upload holds what the working directory did, and so does the copy
\* until the command has it.
Faithful(x) == x = None \/ (x.part = "tail" => x.data = before[x.file])

Uploaded ==
  /\ \A i \in 1..Len(walk) : Faithful(walk[i])
  /\ \A i \in 1..Len(up) : Faithful(up[i].piece)
  /\ Faithful(pipe["up"].piece) /\ Faithful(pipe["in"].piece) /\ Faithful(held["client"])
  /\ \A f \in Files : given[f] \in {None, Short, before[f]}
  /\ Receiving \/ agent = "start" => \A f \in Files : remote[f] \in {None, Short, before[f]}

\* The file a piece finds half written, and the one it leaves so; 0 is none.
Before(x) == IF x.part = "tail" THEN x.file ELSE 0
After(x) == IF x.part = "head" THEN x.file ELSE 0

\* x may follow where file s, or none, is half written.
Fits(s, x) == Before(x) = s /\ (x.part = "tail" => x.data # Short)

HalfWritten(tree, s) == s \in Files \cup {0} /\ \A f \in Files : tree[f] = Short <=> f = s

\* The file that is half written behind the reader, the pipe, the connection,
\* the upload loop and its pipe.
AtReader == CHOOSE s \in Files \cup {0} : HalfWritten(remote, s)
AtPipe  == IF pipe["in"].piece = None THEN AtReader ELSE After(pipe["in"].piece)
AtWire  == IF up = <<>> THEN AtPipe ELSE After(up[Len(up)].piece)
AtFrame == IF held["client"] = None THEN AtWire ELSE After(held["client"])
AtWalk  == IF pipe["up"].piece = None THEN AtFrame ELSE After(pipe["up"].piece)

\* The copy as far as it is unpacked.
Copied ==
  /\ agent = "start" => HalfWritten(remote, 0)
  /\ Receiving /\ unpack \in {"head", "ok"} => HalfWritten(remote, 0)
  /\ Receiving /\ unpack = "tail" => \E s \in Files : HalfWritten(remote, s)
  /\ GivenNoneShort

\* What is on its way to it fits together: in the connection, ...
WireFits ==
  \A i \in 1..Len(up) : up[i].type = "intar" =>
    /\ up[i].piece # None
    /\ IF i = 1 THEN Fits(AtPipe, up[i].piece)
       ELSE up[i - 1].type = "intar" => Fits(After(up[i - 1].piece), up[i].piece)

\* ... in the upload loop and its pipe, ...
LoopFits ==
  /\ \A i \in 1..Len(up) : up[i].type = "intar"
  /\ held["client"] # None => Fits(AtWire, held["client"])
  /\ pipe["up"].piece # None => Fits(AtFrame, pipe["up"].piece)

\* ... and in what is left of the walk.
WalkFits ==
  /\ \A i \in 1..Len(walk) : walk[i] # None
  /\ walk # <<>> => Fits(AtWalk, walk[1])
  /\ \A i \in 2..Len(walk) : Fits(After(walk[i - 1]), walk[i])

Flowing == agent \in {"recv", "put"} /\ Reading(unpack) /\ link = "up"

Chained ==
  /\ client = "upload" => held["client"] = None
  /\ client = "frame" => held["client"] # None
  /\ link # "up" => up = <<>>
  /\ Receiving /\ Reading(unpack) /\ pipe["in"].piece # None => Fits(AtReader, pipe["in"].piece)
  /\ Flowing => WireFits
  /\ Flowing /\ client \in {"upload", "frame"} => LoopFits /\ WalkFits

IInv == Types /\ Stages /\ Mirrored /\ Uploaded /\ Copied /\ Chained

-----------------------------------------------------------------------------
\* SetToSeq lists the members of a finite set, and nothing else.
LEMMA Listing ==
  ASSUME NEW S, IsFiniteSet(S)
  PROVE  Cardinality(S) \in Nat /\ SetToSeq(S) \in [1..Cardinality(S) -> S]
<1>1. Cardinality(S) \in Nat /\ ExistsBijection(1..Cardinality(S), S)
  BY FS_CardinalityType
<1>2. \E f \in [1..Cardinality(S) -> S] : IsInjective(f)
  BY <1>1 DEF ExistsBijection, Bijection, Injection, IsInjective
<1> QED
  BY <1>1, <1>2 DEF SetToSeq

\* An archive has entries of the files it is made of, and the footer.
LEMMA Archives ==
  ASSUME NEW tree \in Trees, NEW files \in SUBSET Files
  PROVE  /\ Archive(tree, files) \in Seq(Pieces)
         /\ \A i \in 1..Len(Archive(tree, files)) :
              LET x == Archive(tree, files)[i] IN x = Footer \/ x.file \in files
<1> DEFINE n == Cardinality(files)
           name == SetToSeq(files)
           part(k) == IF k % 2 = 1 THEN "head" ELSE "tail"
           entry(k) == Piece(name[(k + 1) \div 2], part(k), tree[name[(k + 1) \div 2]])
           a == Archive(tree, files)
<1>1. n \in Nat /\ name \in [1..n -> files]
  BY Listing, FS_Subset, DirSyncAssumption
<1>2. a = [k \in 1..2 * n + 1 |-> IF k > 2 * n THEN Footer ELSE entry(k)]
  BY DEF Archive
<1>3. ASSUME NEW k \in 1..2 * n + 1, k <= 2 * n
      PROVE  entry(k) \in Pieces /\ entry(k).file \in files
  <2>1. (k + 1) \div 2 \in 1..n
    BY <1>1, <1>3
  <2>2. name[(k + 1) \div 2] \in files /\ tree[name[(k + 1) \div 2]] \in Contents
    BY <1>1, <2>1 DEF Trees, Contents
  <2>3. part(k) \in {"head", "tail"}
    OBVIOUS
  <2> HIDE DEF name, part
  <2> QED
    BY <2>2, <2>3 DEF Piece, Pieces, Contents
<1>4. \A k \in 1..2 * n + 1 : a[k] \in Pieces /\ (a[k] = Footer \/ a[k].file \in files)
  <2> HIDE DEF entry, a
  <2> QED
    BY <1>1, <1>2, <1>3 DEF Pieces
<1>5. a \in Seq(Pieces) /\ Len(a) = 2 * n + 1
  <2> HIDE DEF entry, a, n
  <2> QED
    BY <1>1, <1>2, <1>4
<1> QED
  BY <1>4, <1>5

LEMMA Parcels ==
  /\ None \in Pieces /\ Footer \in Pieces
  /\ \A t \in {"intar", "inend", "outtar", "outend", "exit", "refused"}, x \in Pieces :
       Frame(t, x) \in Frames /\ Frame(t, x).piece = x
  /\ Pipes = {"up", "in", "out", "sync"}
BY DEF Pieces, Frames, Frame, Pipes

LEMMA Archived ==
  /\ <<>> \in Seq(Pieces) /\ <<Footer>> \in Seq(Pieces)
  /\ \A q \in Seq(Pieces) :
       /\ q # <<>> => Head(q) \in Pieces /\ Tail(q) \in Seq(Pieces)
       /\ SubSeq(q, 3, Len(q)) \in Seq(Pieces)
       /\ \A i \in 1..Len(SubSeq(q, 3, Len(q))) : SubSeq(q, 3, Len(q))[i] \in {q[k] : k \in 1..Len(q)}
<1> USE Parcels
<1> HIDE DEF Pieces
<1> QED
  OBVIOUS

LEMMA Queued ==
  ASSUME NEW q \in Seq(Frames)
  PROVE  /\ q # <<>> => Head(q).piece \in Pieces /\ Tail(q) \in Seq(Frames)
         /\ \A f \in Frames : Append(q, f) \in Seq(Frames)
<1>1. \A f \in Frames : f.piece \in Pieces
  BY DEF Frames
<1> HIDE DEF Frames
<1> QED
  BY <1>1

\* What can be done to a pipe.
LEMMA Piping ==
  ASSUME pipe \in Ducts, NEW p \in Pipes
  PROVE  /\ pipe[p].piece \in Pieces
         /\ \A x \in Pieces : Write(p, x) =>
              pipe' \in Ducts /\ pipe'[p].piece = x /\ \A q \in Pipes \ {p} : pipe'[q] = pipe[q]
         /\ Take(p) =>
              pipe' \in Ducts /\ pipe'[p].piece = None /\ \A q \in Pipes \ {p} : pipe'[q] = pipe[q]
         /\ Close(p) => pipe' \in Ducts /\ \A q \in Pipes : pipe'[q].piece = pipe[q].piece
<1> USE Parcels DEF Ducts
<1>1. pipe[p].piece \in Pieces
  OBVIOUS
<1>2. ASSUME NEW x \in Pieces, Write(p, x)
      PROVE pipe' \in Ducts /\ pipe'[p].piece = x /\ \A q \in Pipes \ {p} : pipe'[q] = pipe[q]
  BY <1>2 DEF Write
<1>3. ASSUME Take(p)
      PROVE pipe' \in Ducts /\ pipe'[p].piece = None /\ \A q \in Pipes \ {p} : pipe'[q] = pipe[q]
  BY <1>3 DEF Take
<1>4. ASSUME Close(p)
      PROVE pipe' \in Ducts /\ \A q \in Pipes : pipe'[q].piece = pipe[q].piece
  <2>1. pipe' \in Ducts
    BY ZenonT(40), <1>4 DEF Close
  <2>2. pipe'[p].piece = pipe[p].piece
    BY <1>4 DEF Close
  <2>3. \A q \in Pipes \ {p} : pipe'[q] = pipe[q]
    BY <1>4 DEF Close
  <2> QED
    BY <2>1, <2>2, <2>3
<1> QED
  BY <1>1, <1>2, <1>3, <1>4

\* A tree a piece is unpacked into stays one.
LEMMA Unpacking ==
  ASSUME NEW tree \in Trees, NEW x \in Pieces, x # None PROVE Unpacked(tree, x) \in Trees
BY DEF Trees, Pieces, Unpacked, Footer, Piece

\* The client's side and the unpacking at both ends.
LEMMA TypeClient ==
  ASSUME Types, WriteTar \/ ReadTar \/ ReadTarBack \/ streamOver PROVE Types'
<1> USE Parcels DEF Types
<1>1. CASE WriteTar
  <2>1. UNCHANGED <<treeVars, pack, held, up, down, before, given>> /\ walk' \in Seq(Pieces)
    BY <1>1, Archived DEF WriteTar, WalkFile, WalkSkips, WalkShort, WalkEnds, mainVars, netVars, ghostVars
  <2>2. pipe' \in Ducts
    BY <1>1, Archived, Piping DEF WriteTar, WalkFile, WalkSkips, WalkShort, WalkEnds, pipeVars
  <2> QED
    BY <2>1, <2>2 DEF treeVars
<1>2. CASE ReadTar
  <2>1. UNCHANGED <<local, snap, walk, pack, held, up, down, before, given>>
    BY <1>2 DEF ReadTar, UnpackPiece, UnpackFails, UnpackEnds, treeVars, mainVars, netVars, ghostVars
  <2>2. remote' \in Trees /\ pipe' \in Ducts
    BY <1>2, Unpacking, Piping DEF ReadTar, UnpackPiece, UnpackFails, UnpackEnds, Busy, treeVars, pipeVars
  <2> QED
    BY <2>1, <2>2
<1>3. CASE ReadTarBack
  <2>1. UNCHANGED <<remote, snap, walk, pack, held, up, down, before, given>>
    BY <1>3 DEF ReadTarBack, ApplyPiece, ApplyFails, ApplyEnds, treeVars, mainVars, netVars, ghostVars
  <2>2. local' \in Trees /\ pipe' \in Ducts
    BY <1>3, Unpacking, Piping DEF ReadTarBack, ApplyPiece, ApplyFails, ApplyEnds, Busy, treeVars, pipeVars
  <2> QED
    BY <2>1, <2>2
<1>4. CASE streamOver
  <2>1. UNCHANGED <<treeVars, walk, pack, ghostVars>>
    BY <1>4 DEF streamOver, UploadRead, UploadFrame, UploadBroken, UploadEnd, ReadOutTar,
         ReadOutTarDone, ReadOutEnd, ReadSyncErr, ReadExit, ReadBroken, workerVars
  <2>2. pipe' \in Ducts
    <3>1. down # <<>> => Head(down).piece \in Pieces
      BY Queued
    <3> QED
      BY <1>4, <3>1, Piping DEF streamOver, UploadRead, UploadFrame, UploadBroken, UploadEnd, ReadOutTar,
         ReadOutTarDone, ReadOutEnd, ReadSyncErr, ReadExit, ReadBroken, pipeVars
  <2>3. held' \in [{"client", "agent"} -> Pieces]
    <3>1. held' = held \/ \E x \in Pieces : held' = [held EXCEPT !["client"] = x]
      BY <1>4, Piping DEF streamOver, UploadRead, UploadFrame, UploadBroken, UploadEnd, ReadOutTar,
         ReadOutTarDone, ReadOutEnd, ReadSyncErr, ReadExit, ReadBroken
    <3> QED
      BY <3>1
  <2>4. up' \in Seq(Frames)
    BY <1>4, Queued DEF streamOver, UploadRead, UploadFrame, UploadBroken, UploadEnd, ReadOutTar,
         ReadOutTarDone, ReadOutEnd, ReadSyncErr, ReadExit, ReadBroken, SendUp, netVars
  <2>5. down' \in Seq(Frames)
    BY <1>4, Queued DEF streamOver, UploadRead, UploadFrame, UploadBroken, UploadEnd, ReadOutTar,
         ReadOutTarDone, ReadOutEnd, ReadSyncErr, ReadExit, ReadBroken, netVars
  <2> QED
    BY <2>1, <2>2, <2>3, <2>4, <2>5 DEF treeVars, ghostVars
<1> QED
  BY <1>1, <1>2, <1>3, <1>4

LEMMA TypeAgent ==
  ASSUME Types, WriteTarFiles \/ handleRunDir PROVE Types'
<1> USE Parcels DEF Types
<1>1. CASE WriteTarFiles
  <2>1. UNCHANGED <<treeVars, walk, held, up, down, before, given>>
    BY <1>1 DEF WriteTarFiles, PackFile, PackShort, PackVanished, PackGrew, PackEnds,
       mainVars, netVars, ghostVars, workerVars
  <2>3. pack' \in Seq(Pieces)
    <3>1. /\ <<>> \in Seq(Pieces) /\ <<Footer>> \in Seq(Pieces) /\ SubSeq(pack, 3, Len(pack)) \in Seq(Pieces)
          /\ pack # <<>> => Tail(pack) \in Seq(Pieces)
      BY Archived
    <3>2. \/ pack' \in {pack, <<>>, <<Footer>>, SubSeq(pack, 3, Len(pack))}
          \/ pack # <<>> /\ pack' = Tail(pack)
      BY <1>1 DEF WriteTarFiles, PackFile, PackShort, PackVanished, PackGrew, PackEnds, workerVars
    <3> HIDE DEF Pieces
    <3> QED
      BY <3>1, <3>2
  <2>2. pipe' \in Ducts
    <3>1. \A q \in Seq(Pieces) : q # <<>> => Head(q) \in Pieces
      BY Archived
    <3> HIDE DEF Pieces, Ducts
    <3> QED
      BY <1>1, <3>1, Piping, "out" \in Pipes DEF WriteTarFiles, PackFile, PackShort, PackVanished,
         PackGrew, PackEnds, pipeVars, Pipes
  <2> QED
    BY <2>1, <2>2, <2>3 DEF treeVars
<1>2. CASE recvTree
  <2>1. UNCHANGED <<treeVars, walk, pack, held, down, ghostVars>>
    BY <1>2 DEF recvTree, RecvPiece, RecvPut, RecvEnd, RecvBroken, RecvDone, workerVars, netVars
  <2>2. up' \in Seq(Frames)
    BY <1>2, Queued DEF recvTree, RecvPiece, RecvPut, RecvEnd, RecvBroken, RecvDone, netVars
  <2>3. pipe' \in Ducts
    <3>1. up # <<>> => Head(up).piece \in Pieces
      BY Queued
    <3> QED
      BY <1>2, <3>1, Piping DEF recvTree, RecvPiece, RecvPut, RecvEnd, RecvBroken, RecvDone, pipeVars
  <2> QED
    BY <2>1, <2>2, <2>3 DEF treeVars, ghostVars
<1>3. CASE Start
  BY <1>3 DEF Start, pipeVars, workerVars, netVars
<1>7. CASE StartUnseen
  <2>1. snap' \in Trees
    BY <1>7 DEF StartUnseen, Trees
  <2> QED
    BY <1>7, <2>1 DEF StartUnseen, pipeVars, workerVars, netVars
<1>4. CASE CommandEnds
  <2>1. remote' \in Trees
    BY <1>4 DEF CommandEnds, Trees
  <2> QED
    BY <1>4, <2>1 DEF CommandEnds, pipeVars, workerVars, netVars
<1>5. CASE Diff
  <2>1. ChangedSince(remote, snap) \in SUBSET Files
    BY DEF ChangedSince, Present
  <2>2. pack' \in Seq(Pieces)
    BY <1>5, <2>1, Archives DEF Diff
  <2> QED
    BY <1>5, <2>2 DEF Diff, treeVars, pipeVars, netVars, ghostVars
<1>6. CASE sendTree \/ SendExit \/ Report \/ ReturnFromRun
  <2>1. UNCHANGED <<local, remote, snap, walk, pack, up, ghostVars>>
    BY <1>6 DEF sendTree, MirrorRead, MirrorFrame, MirrorBroken, MirrorEnd, SendExit, Report,
         ReturnFromRun, treeVars, workerVars, netVars
  <2>2. pipe' \in Ducts
    BY <1>6, Piping DEF sendTree, MirrorRead, MirrorFrame, MirrorBroken, MirrorEnd, SendExit, Report,
         ReturnFromRun, pipeVars
  <2>3. held' \in [{"client", "agent"} -> Pieces]
    BY <1>6, Piping DEF sendTree, MirrorRead, MirrorFrame, MirrorBroken, MirrorEnd, SendExit, Report,
         ReturnFromRun
  <2>4. down' \in Seq(Frames)
    BY <1>6, Queued DEF sendTree, MirrorRead, MirrorFrame, MirrorBroken, MirrorEnd, SendExit, Report,
         ReturnFromRun, SendDown, netVars
  <2> QED
    BY <2>1, <2>2, <2>3, <2>4 DEF ghostVars
<1> QED
  BY <1>1, <1>2, <1>3, <1>4, <1>5, <1>6, <1>7 DEF handleRunDir

LEMMA TypeStep == Types /\ [Next]_vars => Types'
<1> SUFFICES ASSUME Types, [Next]_vars PROVE Types'
  OBVIOUS
<1>1. CASE UNCHANGED vars
  BY <1>1 DEF Types, vars, treeVars, pipeVars, workerVars, mainVars, netVars, ghostVars
<1>2. CASE Lose
  BY <1>2 DEF Lose, Types, treeVars, pipeVars, workerVars, mainVars
<1> QED
  BY <1>1, <1>2, TypeClient, TypeAgent DEF Next

\* Where the handler is, and what it has not done yet.
LEMMA StageStep == Types /\ Stages /\ [Next]_vars => Stages'
<1> SUFFICES ASSUME Types, Stages, [Next]_vars PROVE Stages'
  OBVIOUS
<1> USE Parcels DEF Types, Stages, Receiving, Early
<1>0. ASSUME UNCHANGED <<local, before, given, snap, sync, unpack, pack, down>>,
             UNCHANGED agent,
             pipe'["out"].piece = pipe["out"].piece, pipe'["sync"].piece = pipe["sync"].piece,
             held'["agent"] = held["agent"]
      PROVE  Stages'
  BY <1>0 DEF Reading
<1>a. ASSUME ~Early, UNCHANGED <<agent, unpack, given, snap, sync>> PROVE Stages'
  BY <1>a DEF Reading
<1>1. CASE UNCHANGED vars
  BY <1>0, <1>1 DEF vars, treeVars, pipeVars, workerVars, mainVars, netVars, ghostVars
<1>2. CASE WriteTar
  <2>1. pipe'["out"].piece = pipe["out"].piece /\ pipe'["sync"].piece = pipe["sync"].piece
    BY <1>2, Piping, Archived DEF WriteTar, WalkFile, WalkSkips, WalkShort, WalkEnds, pipeVars
  <2> QED
    BY <1>0, <1>2, <2>1 DEF WriteTar, WalkFile, WalkSkips, WalkShort, WalkEnds, treeVars, mainVars,
         netVars, ghostVars
<1>3. CASE ReadTar
  <2>1. pipe'["out"] = pipe["out"] /\ pipe'["sync"] = pipe["sync"]
    BY <1>3, Piping DEF ReadTar, UnpackPiece, UnpackFails, UnpackEnds, pipeVars
  <2>2. Receiving /\ UNCHANGED <<local, before, given, snap, sync, pack, down, agent, held>>
    BY <1>3 DEF ReadTar, UnpackPiece, UnpackFails, UnpackEnds, treeVars, mainVars, netVars, ghostVars
  <2> QED
    BY <2>1, <2>2
<1>4. CASE ReadTarBack
  <2>1. CASE ApplyEnds
    BY <1>0, <2>1 DEF ApplyEnds, treeVars, pipeVars, mainVars, netVars, ghostVars
  <2>2. CASE ApplyPiece \/ ApplyFails
    <3>1. ~Early /\ UNCHANGED <<agent, unpack, given, snap, sync>>
      BY <2>2 DEF ApplyPiece, ApplyFails, Busy, mainVars, treeVars, ghostVars
    <3> QED
      BY <1>a, <3>1
  <2> QED
    BY <1>4, <2>1, <2>2 DEF ReadTarBack
<1>5. CASE WriteTarFiles
  <2>1. pack # <<>> \/ agent \in {"read", "frame"}
    BY <1>5 DEF WriteTarFiles, PackFile, PackShort, PackVanished, PackGrew, PackEnds
  <2>2. UNCHANGED <<agent, unpack, given, snap, sync>>
    BY <1>5 DEF WriteTarFiles, PackFile, PackShort, PackVanished, PackGrew, PackEnds, mainVars,
       treeVars, workerVars, ghostVars
  <2> QED
    BY <1>a, <2>1, <2>2
<1>6. CASE streamOver
  <2>1. UNCHANGED <<treeVars, ghostVars, unpack, pack, agent>>
    BY <1>6 DEF streamOver, UploadRead, UploadFrame, UploadBroken, UploadEnd, ReadOutTar,
         ReadOutTarDone, ReadOutEnd, ReadSyncErr, ReadExit, ReadBroken, workerVars
  <2>2. Early => down' = down /\ held'["agent"] = held["agent"]
    BY <1>6 DEF streamOver, UploadRead, UploadFrame, UploadBroken, UploadEnd, ReadOutTar,
         ReadOutTarDone, ReadOutEnd, ReadSyncErr, ReadExit, ReadBroken, netVars
  <2>3. Early => pipe'["out"] = pipe["out"] /\ pipe'["sync"] = pipe["sync"]
    BY <1>6, Piping DEF streamOver, UploadRead, UploadFrame, UploadBroken, UploadEnd, ReadOutTar,
         ReadOutTarDone, ReadOutEnd, ReadSyncErr, ReadExit, ReadBroken, pipeVars
  <2> QED
    BY <2>1, <2>2, <2>3 DEF treeVars, ghostVars, Reading
<1>7. CASE recvTree
  <2>1. pipe'["out"].piece = pipe["out"].piece /\ pipe'["sync"].piece = pipe["sync"].piece
    <3>1. up # <<>> => Head(up).piece \in Pieces
      BY Queued
    <3> QED
      BY <1>7, <3>1, Piping DEF recvTree, RecvPiece, RecvPut, RecvEnd, RecvBroken, RecvDone, pipeVars
  <2>2. /\ Receiving /\ UNCHANGED <<treeVars, ghostVars, pack, down, held>>
        /\ agent' \in {"recv", "put", "errc", "start", "report"}
    BY <1>7 DEF recvTree, RecvPiece, RecvPut, RecvEnd, RecvBroken, RecvDone, workerVars, netVars
  <2>3. Reading(unpack') => agent' \in {"recv", "put", "errc"}
    BY <1>7 DEF recvTree, RecvPiece, RecvPut, RecvEnd, RecvBroken, RecvDone, workerVars, Reading
  <2> QED
    BY <2>1, <2>2, <2>3 DEF treeVars, ghostVars, Reading
<1>8. CASE Start \/ StartUnseen \/ CommandEnds
  <2>1. UNCHANGED <<local, before, sync, pipe, unpack, pack, down, held>> /\ Early
    BY <1>8 DEF Start, StartUnseen, CommandEnds, pipeVars, workerVars, netVars
  <2>2. \A f \in Files : snap'[f] = None \/ (sync' /\ snap'[f] = given'[f])
    <3>1. CASE Start
      BY <3>1 DEF Start
    <3>2. CASE StartUnseen
      BY <3>2 DEF StartUnseen
    <3>3. CASE CommandEnds
      BY <3>3 DEF CommandEnds
    <3> QED
      BY <1>8, <3>1, <3>2, <3>3
  <2> QED
    BY <1>8, <2>1, <2>2 DEF Reading, Start, StartUnseen, CommandEnds
<1>9. CASE Diff \/ sendTree \/ SendExit \/ Report \/ ReturnFromRun
  <2>1. agent' \in {"read", "frame", "end", "exit", "return", "closed"}
        /\ UNCHANGED <<unpack, given, snap, sync>> /\ ~Receiving
    BY <1>9 DEF Diff, sendTree, MirrorRead, MirrorFrame, MirrorBroken, MirrorEnd, SendExit, Report,
         ReturnFromRun, workerVars, treeVars, ghostVars
  <2> QED
    BY <2>1 DEF Reading
<1>10. CASE Lose
  BY <1>0, <1>10 DEF Lose, treeVars, pipeVars, workerVars, mainVars, Reading
<1> QED
  BY <1>1, <1>2, <1>3, <1>4, <1>5, <1>6, <1>7, <1>8, <1>9, <1>10 DEF Next, handleRunDir

\* What is left of the archive, and of the frames, may still go back.
LEMMA Sending ==
  ASSUME Types, Mirrored
  PROVE  /\ pack # <<>> => Back(Head(pack)) /\ \A i \in 1..Len(Tail(pack)) : Back(Tail(pack)[i])
         /\ down # <<>> =>
              Back(Head(down).piece) /\ \A i \in 1..Len(Tail(down)) : Back(Tail(down)[i].piece)
         /\ \A f \in Frames : Back(f.piece) =>
              \A i \in 1..Len(Append(down, f)) : Back(Append(down, f)[i].piece)
<1>1. pack \in Seq(Pieces) /\ down \in Seq(Frames)
  BY DEF Types
<1>2. /\ \A i \in 1..Len(pack) : Back(pack[i])
      /\ \A i \in 1..Len(down) : Back(down[i].piece)
  BY DEF Mirrored
<1> HIDE DEF Pieces, Frames, Back
<1>3. ASSUME pack # <<>>
      PROVE  Back(Head(pack)) /\ \A i \in 1..Len(Tail(pack)) : Back(Tail(pack)[i])
  BY <1>1, <1>2, <1>3
<1>4. ASSUME down # <<>>
      PROVE  Back(Head(down).piece) /\ \A i \in 1..Len(Tail(down)) : Back(Tail(down)[i].piece)
  BY <1>1, <1>2, <1>4
<1>5. ASSUME NEW f \in Frames, Back(f.piece), NEW i \in 1..Len(Append(down, f))
      PROVE  Back(Append(down, f)[i].piece)
  BY <1>1, <1>2, <1>5
<1> QED
  BY <1>3, <1>4, <1>5

\* While nothing can be on its way back, nothing is.
LEMMA BackEarly == Types /\ Stages /\ Early => Mirrored
BY DEF Types, Stages, Mirrored, Back

\* The delta, once it is computed, is what is sent.
LEMMA BackDiff == Types /\ Stages /\ Diff /\ ~Early' => Mirrored'
<1> SUFFICES ASSUME Types, Stages, Diff PROVE Mirrored'
  OBVIOUS
<1> DEFINE changed == ChangedSince(remote, snap)
<1>1. /\ local = before /\ pack = <<>> /\ down = <<>> /\ pipe["out"].piece = None
      /\ pipe["sync"].piece = None /\ held["agent"] = None
  BY DEF Diff, Stages, Early
<1>2. UNCHANGED <<local, remote, snap, sync, before, pipe, held, down>>
  BY DEF Diff, treeVars, pipeVars, netVars, ghostVars
<1>3. Delta' = Delta
  BY <1>2 DEF Delta, ChangedSince, Present
<1>4. sync => changed = Delta
  BY DEF Delta
<1>5. \A i \in 1..Len(pack') : pack'[i] = Footer \/ pack'[i].file \in Delta
  <2>1. CASE pack' = pack
    BY <1>1, <2>1
  <2>2. CASE sync /\ pack' = Archive(remote, changed)
    <3>1. changed \in SUBSET Files /\ remote \in Trees
      BY DEF ChangedSince, Present, Types
    <3>2. \A i \in 1..Len(Archive(remote, changed)) :
             Archive(remote, changed)[i] = Footer \/ Archive(remote, changed)[i].file \in changed
      <4> HIDE DEF changed
      <4> QED
        BY <3>1, Archives
    <3> QED
      BY <1>4, <2>2, <3>2
  <2> QED
    BY <2>1, <2>2 DEF Diff
<1> QED
  BY <1>1, <1>2, <1>3, <1>5 DEF Mirrored, Back

\* Later nothing but a piece that may go back is passed on, or put in place.
LEMMA BackLater == Types /\ Stages /\ Mirrored /\ ~Early /\ Next => Mirrored'
<1> SUFFICES ASSUME Types, Stages, Mirrored, ~Early, Next PROVE Mirrored'
  OBVIOUS
<1> USE Parcels DEF Types
<1>a. UNCHANGED <<remote, snap, sync, before>> /\ ~ReadTar /\ ~recvTree /\ ~Start /\ ~StartUnseen /\ ~CommandEnds
      /\ ~Diff
  <2>1. ~ReadTar
    BY DEF ReadTar, UnpackPiece, UnpackFails, UnpackEnds, Stages, Early
  <2>2. ~recvTree /\ ~Start /\ ~StartUnseen /\ ~CommandEnds /\ ~Diff
    BY DEF recvTree, RecvPiece, RecvPut, RecvEnd, RecvBroken, RecvDone, Start, StartUnseen, CommandEnds, Diff,
       Early, Receiving
  <2>3. WriteTar \/ ReadTarBack \/ WriteTarFiles => UNCHANGED <<remote, snap, sync, before>>
    BY DEF WriteTar, WalkFile, WalkSkips, WalkShort, WalkEnds, ReadTarBack, ApplyPiece, ApplyFails,
       ApplyEnds, WriteTarFiles, PackFile, PackShort, PackVanished, PackGrew, PackEnds, treeVars, ghostVars
  <2>4. streamOver \/ Lose => UNCHANGED <<remote, snap, sync, before>>
    BY DEF streamOver, UploadRead, UploadFrame, UploadBroken, UploadEnd, ReadOutTar,
         ReadOutTarDone, ReadOutEnd, ReadSyncErr, ReadExit, ReadBroken, Lose, treeVars, ghostVars
  <2>5. sendTree \/ SendExit \/ Report \/ ReturnFromRun => UNCHANGED <<remote, snap, sync, before>>
    BY DEF sendTree, MirrorRead, MirrorFrame, MirrorBroken, MirrorEnd, SendExit, Report,
         ReturnFromRun, treeVars, ghostVars
  <2> QED
    BY <2>1, <2>2, <2>3, <2>4, <2>5 DEF Next, handleRunDir
<1>b. Delta' = Delta
  BY <1>a DEF Delta, ChangedSince, Present
<1>c. \A x : Back(x)' <=> Back(x)
  BY <1>b DEF Back
<1>d. ASSUME UNCHANGED <<local, pack, down>>,
             pipe'["out"].piece = pipe["out"].piece, pipe'["sync"].piece = pipe["sync"].piece,
             held'["agent"] = held["agent"]
      PROVE  Mirrored'
  BY <1>a, <1>b, <1>d DEF Mirrored, Back
<1>1. CASE WriteTar
  <2>1. pipe'["out"].piece = pipe["out"].piece /\ pipe'["sync"].piece = pipe["sync"].piece
    BY <1>1, Piping, Archived DEF WriteTar, WalkFile, WalkSkips, WalkShort, WalkEnds, pipeVars
  <2> QED
    BY <1>d, <1>1, <2>1 DEF WriteTar, WalkFile, WalkSkips, WalkShort, WalkEnds, treeVars, mainVars,
         netVars
<1>2. CASE ReadTarBack
  <2>1. CASE ApplyFails \/ ApplyEnds
    BY <1>d, <2>1 DEF ApplyFails, ApplyEnds, treeVars, pipeVars, mainVars, netVars
  <2>2. CASE ApplyPiece
    <3> DEFINE x == pipe["sync"].piece
    <3>1. UNCHANGED <<pack, down, held>> /\ local' = Unpacked(local, x) /\ x # None
      BY <2>2 DEF ApplyPiece, Busy, mainVars, netVars
    <3>2. pipe'["out"] = pipe["out"] /\ pipe'["sync"].piece = None
      BY <2>2, Piping DEF ApplyPiece
    <3>3. x \in Pieces /\ local \in Trees /\ Back(x)
      BY Piping DEF Mirrored
    <3>4. \A f \in Files : local'[f] # local[f] => f \in Delta
      BY <3>1, <3>3 DEF Unpacked, Back, Trees, Footer, Piece
    <3>5. \A f \in Files : local'[f] # before'[f] => f \in Delta'
      BY <1>a, <1>b, <3>4 DEF Mirrored
    <3> QED
      BY <1>b, <3>1, <3>2, <3>5 DEF Mirrored, Back
  <2> QED
    BY <1>2, <2>1, <2>2 DEF ReadTarBack
<1>3. CASE WriteTarFiles
  <2>1. CASE PackFile
    <3>1. /\ UNCHANGED <<local, down, held>>
          /\ pack # <<>> /\ pack' = Tail(pack) /\ Write("out", Head(pack))
      BY <2>1 DEF PackFile, treeVars, mainVars, netVars
    <3>2. pipe'["out"].piece = Head(pack) /\ pipe'["sync"] = pipe["sync"]
      BY <3>1, Archived, Piping
    <3>3. Back(Head(pack)) /\ \A i \in 1..Len(pack') : Back(pack'[i])
      BY <3>1, Sending
    <3> QED
      BY <1>a, <1>b, <3>1, <3>2, <3>3 DEF Mirrored, Back
  <2>4. CASE PackVanished
    <3>1. /\ UNCHANGED <<local, down, held, pipe>> /\ pack' = SubSeq(pack, 3, Len(pack))
      BY <2>4 DEF PackVanished, treeVars, pipeVars, mainVars, netVars
    <3>2. \A i \in 1..Len(pack') : Back(pack'[i])
      BY <3>1, Archived DEF Mirrored
    <3> QED
      BY <1>a, <1>b, <3>1, <3>2 DEF Mirrored, Back
  <2>5. CASE PackGrew
    <3>1. /\ UNCHANGED <<local, down, held>>
          /\ pack # <<>> /\ pack' = <<Footer>> /\ Write("out", Head(pack))
      BY <2>5 DEF PackGrew, treeVars, mainVars, netVars
    <3>2. pipe'["out"].piece = Head(pack) /\ pipe'["sync"] = pipe["sync"]
      BY <3>1, Archived, Piping
    <3>3. Back(Head(pack)) /\ \A i \in 1..Len(pack') : pack'[i] = Footer
      BY <3>1, Sending
    <3> QED
      BY <1>a, <1>b, <3>1, <3>2, <3>3 DEF Mirrored, Back
  <2>2. CASE PackShort
    BY <1>a, <1>b, <2>2 DEF PackShort, Mirrored, Back, treeVars, pipeVars, mainVars, netVars
  <2>3. CASE PackEnds
    <3>1. pipe'["out"].piece = pipe["out"].piece /\ pipe'["sync"].piece = pipe["sync"].piece
      BY <2>3, Piping DEF PackEnds
    <3> QED
      BY <1>d, <2>3, <3>1 DEF PackEnds, treeVars, workerVars, mainVars, netVars
  <2> QED
    BY <1>3, <2>1, <2>2, <2>3, <2>4, <2>5 DEF WriteTarFiles
<1>4. CASE streamOver
  <2>1. UNCHANGED <<local, pack>> /\ held'["agent"] = held["agent"]
    BY <1>4 DEF streamOver, UploadRead, UploadFrame, UploadBroken, UploadEnd, ReadOutTar,
         ReadOutTarDone, ReadOutEnd, ReadSyncErr, ReadExit, ReadBroken, workerVars, treeVars
  <2>2. \A i \in 1..Len(down') : Back(down'[i].piece)
    <3>1. down' = down \/ (down # <<>> /\ down' = Tail(down))
      BY <1>4 DEF streamOver, UploadRead, UploadFrame, UploadBroken, UploadEnd, ReadOutTar,
         ReadOutTarDone, ReadOutEnd, ReadSyncErr, ReadExit, ReadBroken, netVars
    <3> QED
      BY <3>1, Sending DEF Mirrored
  <2>3. pipe'["out"].piece = pipe["out"].piece /\ Back(pipe'["sync"].piece)
    <3>1. CASE ReadOutTar
      <4>1. down # <<>> /\ Write("sync", Head(down).piece)
        BY <3>1 DEF ReadOutTar
      <4>2. Head(down).piece \in Pieces /\ Back(Head(down).piece)
        BY <4>1, Queued, Sending
      <4> QED
        BY <4>1, <4>2, Piping
    <3>2. CASE ~ReadOutTar
      <4>1. pipe'["out"].piece = pipe["out"].piece /\ pipe'["sync"].piece = pipe["sync"].piece
        BY <1>4, <3>2, Piping DEF streamOver, UploadRead, UploadFrame, UploadBroken, UploadEnd,
           ReadOutTarDone, ReadOutEnd, ReadSyncErr, ReadExit, ReadBroken, pipeVars
      <4> QED
        BY <4>1 DEF Mirrored
    <3> QED
      BY <3>1, <3>2
  <2> QED
    BY <1>a, <1>b, <2>1, <2>2, <2>3 DEF Mirrored, Back
<1>5. CASE MirrorRead
  <2>1. UNCHANGED <<local, pack, down>>
    BY <1>5 DEF MirrorRead, treeVars, workerVars, netVars
  <2>2. pipe'["sync"] = pipe["sync"] /\ Back(pipe'["out"].piece) /\ Back(held'["agent"])
    <3>1. CASE UNCHANGED <<pipe, held>>
      BY <3>1 DEF Mirrored
    <3>2. CASE Take("out") /\ held' = [held EXCEPT !["agent"] = pipe["out"].piece]
      <4>1. held'["agent"] = pipe["out"].piece
        BY <3>2
      <4>2. pipe'["sync"] = pipe["sync"] /\ pipe'["out"].piece = None
        BY <3>2, Piping
      <4> QED
        BY <4>1, <4>2 DEF Mirrored, Back
    <3> QED
      BY <1>5, <3>1, <3>2 DEF MirrorRead
  <2> QED
    BY <1>a, <1>b, <2>1, <2>2 DEF Mirrored, Back
<1>6. CASE MirrorFrame \/ MirrorBroken \/ MirrorEnd \/ SendExit \/ Report \/ ReturnFromRun
  <2>1. UNCHANGED <<local, pack, pipe>>
    BY <1>6 DEF MirrorFrame, MirrorBroken, MirrorEnd, SendExit, Report, ReturnFromRun, treeVars,
       workerVars, pipeVars
  <2>2. Back(held'["agent"])
    <3>1. UNCHANGED held \/ held' = [held EXCEPT !["agent"] = None]
      BY <1>6 DEF MirrorFrame, MirrorBroken, MirrorEnd, SendExit, Report, ReturnFromRun
    <3> QED
      BY <3>1 DEF Mirrored, Back
  <2>3. \A i \in 1..Len(down') : Back(down'[i].piece)
    <3>1. down' = down \/ \E f \in Frames : Back(f.piece) /\ down' = Append(down, f)
      <4>1. Back(None) /\ Back(held["agent"])
        BY DEF Mirrored, Back
      <4>2. \A t \in {"outend", "exit", "refused"} : Frame(t, None) \in Frames /\ Back(Frame(t, None).piece)
        BY <4>1
      <4>3. Frame("outtar", held["agent"]) \in Frames /\ Back(Frame("outtar", held["agent"]).piece)
        BY <4>1
      <4> QED
        BY <1>6, <4>2, <4>3 DEF MirrorFrame, MirrorBroken, MirrorEnd, SendExit, Report, ReturnFromRun,
           SendDown, netVars
    <3> QED
      BY <3>1, Sending DEF Mirrored
  <2> QED
    BY <1>a, <1>b, <2>1, <2>2, <2>3 DEF Mirrored, Back
<1>7. CASE Lose
  BY <1>a, <1>b, <1>7 DEF Lose, Mirrored, Back, treeVars, pipeVars, workerVars, mainVars
<1> QED
  BY <1>a, <1>1, <1>2, <1>3, <1>4, <1>5, <1>6, <1>7 DEF Next, handleRunDir, sendTree

LEMMA BackStep == Types /\ Stages /\ Mirrored /\ [Next]_vars => Mirrored'
<1> SUFFICES ASSUME Types, Stages, Mirrored, [Next]_vars PROVE Mirrored'
  OBVIOUS
<1>1. CASE UNCHANGED vars
  BY <1>1 DEF Mirrored, Back, Delta, ChangedSince, Present, vars, treeVars, pipeVars, workerVars,
     mainVars, netVars, ghostVars
<1>2. CASE Early'
  <2>1. Types' /\ Stages'
    BY TypeStep, StageStep
  <2> QED
    BY <1>2, <2>1 DEF Types, Stages, Mirrored, Back
<1>3. CASE Next /\ ~Early
  BY <1>3, BackLater
<1>4. CASE Next /\ Early /\ ~Early'
  <2>1. CASE Diff
    BY <1>4, <2>1, BackDiff
  <2>2. CASE recvTree \/ Start \/ StartUnseen
    <3>1. UNCHANGED <<local, before, pack, down, held>>
      BY <2>2 DEF recvTree, RecvPiece, RecvPut, RecvEnd, RecvBroken, RecvDone, Start, StartUnseen, treeVars,
         ghostVars, workerVars, netVars
    <3>2. agent' \in {"report"}
      BY <1>4, <2>2 DEF recvTree, RecvPiece, RecvPut, RecvEnd, RecvBroken, RecvDone, Start, StartUnseen, Early,
         Receiving
    <3>3. UNCHANGED pipe
      BY <2>2, <3>2 DEF recvTree, RecvPiece, RecvPut, RecvEnd, RecvBroken, RecvDone, Start, StartUnseen, pipeVars
    <3> QED
      BY <1>4, <3>1, <3>3 DEF Types, Stages, Mirrored, Back
  <2>3. CASE ~Diff /\ ~recvTree /\ ~Start /\ ~StartUnseen
    <3>1. agent' = agent \/ agent' = "diff"
      <4>1. ~(sendTree \/ SendExit \/ Report \/ ReturnFromRun)
        BY <1>4 DEF sendTree, MirrorRead, MirrorFrame, MirrorBroken, MirrorEnd, SendExit, Report,
           ReturnFromRun, Early, Receiving
      <4>2. CASE CommandEnds
        BY <4>2 DEF CommandEnds
      <4>3. CASE WriteTar \/ ReadTar \/ ReadTarBack \/ WriteTarFiles \/ streamOver \/ Lose
        BY <4>3 DEF WriteTar, WalkFile, WalkSkips, WalkShort, WalkEnds, ReadTarBack, ApplyPiece,
           ApplyFails, ApplyEnds, WriteTarFiles, PackFile, PackShort, PackVanished, PackGrew, PackEnds, mainVars, ReadTar,
           UnpackPiece, UnpackFails, UnpackEnds, streamOver, UploadRead, UploadFrame, UploadBroken,
           UploadEnd, ReadOutTar, ReadOutTarDone, ReadOutEnd, ReadSyncErr, ReadExit, ReadBroken, Lose
      <4> QED
        BY <1>4, <2>3, <4>1, <4>2, <4>3 DEF Next, handleRunDir
    <3> QED
      BY <1>4, <3>1 DEF Early, Receiving
  <2> QED
    BY <2>1, <2>2, <2>3
<1> QED
  BY <1>1, <1>2, <1>3, <1>4

-----------------------------------------------------------------------------
LEMMA Torn ==
  ASSUME NEW tree \in Trees, NEW s, NEW t, HalfWritten(tree, s), HalfWritten(tree, t)
  PROVE  s = t
BY DirSyncAssumption DEF HalfWritten

LEMMA TornReader ==
  ASSUME remote \in Trees, NEW s, HalfWritten(remote, s) PROVE AtReader = s
<1>1. s \in Files \cup {0}
  BY DEF HalfWritten
<1>2. HalfWritten(remote, AtReader)
  BY <1>1 DEF AtReader
<1> QED
  BY <1>2, Torn

\* A piece that fits leaves the tree as it says.
LEMMA TornStep ==
  ASSUME NEW tree \in Trees, NEW s, HalfWritten(tree, s),
         NEW x \in Pieces, x # None, Fits(s, x)
  PROVE  /\ HalfWritten(Unpacked(tree, x), After(x))
         /\ Expects(x) = "tail" => After(x) \in Files
         /\ Expects(x) \in {"head", "ok"} => After(x) = 0
         /\ Expects(x) \in {"head", "tail", "ok"}
<1>1. CASE x = Footer
  BY <1>1 DEF HalfWritten, Fits, Before, After, Unpacked, Expects, Footer, Piece
<1>2. CASE x # Footer
  <2>1. x.part \in {"head", "tail"} /\ x.file \in Files /\ x.file # 0
    BY <1>2, DirSyncAssumption DEF Pieces
  <2>2. CASE x.part = "head"
    BY <2>1, <2>2, DirSyncAssumption DEF HalfWritten, Fits, Before, After, Unpacked, Expects, Trees
  <2>3. CASE x.part = "tail"
    BY <2>1, <2>3, DirSyncAssumption DEF HalfWritten, Fits, Before, After, Unpacked, Expects, Trees
  <2> QED
    BY <2>1, <2>2, <2>3
<1> QED
  BY <1>1, <1>2

LEMMA NoPiece ==
  ASSUME NEW f \in Files, NEW p \in {"head", "tail"}, NEW d \in Data \cup {None}
  PROVE  Piece(f, p, d) # None
<1>1. Piece(f, p, d) \in
        [file : Nat, part : {"head", "tail", "footer"}, data : Data \cup {None, Short}]
  BY DirSyncAssumption DEF Piece
<1> QED
  BY <1>1, DirSyncAssumption

\* The pieces of an archive of whole files fit together.
LEMMA ArchiveFits ==
  ASSUME NEW tree \in [Files -> Data \cup {None}], NEW files \in SUBSET Files
  PROVE  LET a == Archive(tree, files)
         IN /\ a # <<>> /\ Fits(0, a[1]) /\ \A i \in 2..Len(a) : Fits(After(a[i - 1]), a[i])
            /\ \A i \in 1..Len(a) : a[i] # None
<1> DEFINE n == Cardinality(files)
           name == SetToSeq(files)
           part(k) == IF k % 2 = 1 THEN "head" ELSE "tail"
           entry(k) == Piece(name[(k + 1) \div 2], part(k), tree[name[(k + 1) \div 2]])
           a == Archive(tree, files)
<1>1. n \in Nat /\ name \in [1..n -> files]
  BY Listing, FS_Subset, DirSyncAssumption
<1>2. a = [k \in 1..2 * n + 1 |-> IF k > 2 * n THEN Footer ELSE entry(k)]
  BY DEF Archive
<1>3. Len(a) = 2 * n + 1 /\ a # <<>> /\ \A k \in 1..2 * n + 1 :
        a[k] = IF k > 2 * n THEN Footer ELSE entry(k)
  <2> HIDE DEF entry, a, n
  <2>1. 2 * n + 1 \in Nat
    BY <1>1
  <2> QED
    BY <1>1, <1>2, <2>1
<1>4. \A k \in 1..2 * n : /\ entry(k).file = name[(k + 1) \div 2]
                          /\ entry(k).part = part(k)
                          /\ entry(k).data # Short
  <2> SUFFICES ASSUME NEW k \in 1..2 * n PROVE entry(k).data # Short
    BY DEF Piece
  <2>1. (k + 1) \div 2 \in 1..n
    BY <1>1
  <2>2. tree[name[(k + 1) \div 2]] # Short
    BY <1>1, <2>1, DirSyncAssumption
  <2> QED
    BY <2>2 DEF Piece
<1>5. Before(Footer) = 0 /\ After(Footer) = 0 /\ Footer.part # "tail"
  BY DEF Before, After, Footer, Piece
<1>6. Fits(0, a[1])
  <2>1. CASE n = 0
    BY <1>3, <1>5, <2>1 DEF Fits
  <2>2. CASE n > 0
    <3>1. 1 \in 1..2 * n /\ part(1) = "head"
      BY <1>1, <2>2
    <3>2. a[1] = entry(1)
      BY <1>1, <1>3, <2>2
    <3> HIDE DEF entry, a, part
    <3> QED
      BY <1>4, <3>1, <3>2 DEF Fits, Before
  <2> QED
    BY <1>1, <2>1, <2>2
<1>7. ASSUME NEW i \in 2..2 * n + 1 PROVE Fits(After(a[i - 1]), a[i])
  <2>1. i - 1 \in 1..2 * n /\ a[i - 1] = entry(i - 1)
    <3> HIDE DEF entry, a, n
    <3> QED
      BY <1>1, <1>3, <1>7
  <2>2. CASE i = 2 * n + 1
    <3>1. part(i - 1) = "tail"
      BY <1>1, <2>2
    <3>2. a[i] = Footer
      BY <1>1, <1>3, <2>2
    <3> HIDE DEF entry, a, part
    <3> QED
      BY <1>4, <1>5, <2>1, <3>1, <3>2 DEF Fits, After
  <2>3. CASE i # 2 * n + 1 /\ i % 2 = 1
    <3>1. part(i - 1) = "tail" /\ part(i) = "head"
      BY <1>1, <2>3
    <3>2. a[i] = entry(i) /\ i \in 1..2 * n
      <4> HIDE DEF entry, a, n
      <4> QED
        BY <1>1, <1>3, <2>3
    <3> HIDE DEF entry, a, part
    <3> QED
      BY <1>4, <2>1, <3>1, <3>2 DEF Fits, After, Before
  <2>4. CASE i # 2 * n + 1 /\ i % 2 # 1
    <3>1. part(i - 1) = "head" /\ part(i) = "tail" /\ (i + 1) \div 2 = (i - 1 + 1) \div 2
      BY <1>1, <2>4
    <3>2. a[i] = entry(i) /\ i \in 1..2 * n
      <4> HIDE DEF entry, a, n
      <4> QED
        BY <1>1, <1>3, <2>4
    <3> HIDE DEF entry, a, part
    <3> QED
      BY <1>4, <2>1, <3>1, <3>2 DEF Fits, After, Before
  <2> QED
    BY <2>2, <2>3, <2>4
<1>8. ASSUME NEW i \in 1..2 * n + 1 PROVE a[i] # None
  <2>1. Footer # None
    BY DirSyncAssumption DEF Footer, Piece
  <2>2. CASE i > 2 * n
    <3> HIDE DEF a, n, entry
    <3> QED
      BY <1>3, <2>1, <2>2
  <2>3. CASE ~(i > 2 * n)
    <3>1. i \in 1..2 * n /\ (i + 1) \div 2 \in 1..n
      BY <1>1, <2>3
    <3>2. name[(i + 1) \div 2] \in Files /\ tree[name[(i + 1) \div 2]] \in Data \cup {None}
      BY <1>1, <3>1
    <3>3. part(i) \in {"head", "tail"}
      OBVIOUS
    <3>4. entry(i) # None
      <4> HIDE DEF name, part
      <4> QED
        BY <3>2, <3>3, NoPiece
    <3>5. a[i] = entry(i)
      <4> HIDE DEF a, n, entry
      <4> QED
        BY <1>3, <2>3
    <3> QED
      BY <3>4, <3>5
  <2> QED
    BY <2>2, <2>3
<1> QED
  <2> HIDE DEF n
  <2> QED
    BY <1>3, <1>6, <1>7, <1>8

LEMMA Appended ==
  ASSUME NEW q \in Seq(Frames), NEW f \in Frames
  PROVE  /\ Append(q, f) # <<>> /\ Len(q) \in Nat /\ (q = <<>> <=> Len(q) = 0)
         /\ Len(Append(q, f)) = Len(q) + 1
         /\ Append(q, f)[Len(q) + 1] = f /\ \A i \in 1..Len(q) : Append(q, f)[i] = q[i]
<1> HIDE DEF Frames
<1> QED
  OBVIOUS

\* A step that leaves the upload alone.
LEMMA Quiet ==
  ASSUME Copied, Chained, UNCHANGED <<remote, given, unpack, up, link, walk, agent>>,
         pipe'["in"].piece = pipe["in"].piece, pipe'["up"].piece = pipe["up"].piece,
         held'["client"] = held["client"], client' = client \/ client' \notin {"upload", "frame"}
  PROVE  Copied' /\ Chained'
<1>1. Copied'
  BY DEF Copied, Receiving, HalfWritten, GivenNoneShort
<1>2. /\ AtReader' = AtReader /\ AtPipe' = AtPipe /\ AtWire' = AtWire
      /\ AtFrame' = AtFrame /\ AtWalk' = AtWalk
  BY DEF AtReader, AtPipe, AtWire, AtFrame, AtWalk, HalfWritten
<1>3. Flowing' <=> Flowing
  BY DEF Flowing, Reading
<1>4. (WireFits' <=> WireFits) /\ (LoopFits' <=> LoopFits) /\ (WalkFits' <=> WalkFits)
  BY <1>2 DEF WireFits, LoopFits, WalkFits
<1>5. Chained'
  BY <1>2, <1>3, <1>4 DEF Chained, Receiving, Reading
<1> QED
  BY <1>1, <1>5

\* The walk that ends, whole or not, sends nothing more.
LEMMA FitWalk ==
  ASSUME Types, Copied, Chained, WriteTar PROVE Copied' /\ Chained'
<1> USE Parcels DEF Types
<1>1. /\ UNCHANGED <<remote, given, unpack, up, link, agent, client, held>>
      /\ pipe'["in"].piece = pipe["in"].piece
  <2>1. UNCHANGED <<remote, given, unpack, up, link, agent, client, held>>
    BY DEF WriteTar, WalkFile, WalkSkips, WalkShort, WalkEnds, treeVars, mainVars, netVars, ghostVars
  <2>2. pipe'["in"].piece = pipe["in"].piece
    BY Piping, Archived DEF WriteTar, WalkFile, WalkSkips, WalkShort, WalkEnds, pipeVars
  <2> QED
    BY <2>1, <2>2
<1>2. Copied'
  BY <1>1 DEF Copied, Receiving, HalfWritten, GivenNoneShort
<1>3. AtReader' = AtReader /\ AtPipe' = AtPipe /\ AtWire' = AtWire /\ AtFrame' = AtFrame
  BY <1>1 DEF AtReader, AtPipe, AtWire, AtFrame, HalfWritten
<1>0. (Flowing' <=> Flowing) /\ (WireFits' <=> WireFits)
  BY <1>1, <1>3 DEF Flowing, Reading, WireFits
<1>a. ASSUME LoopFits /\ WalkFits => LoopFits' /\ WalkFits' PROVE Chained'
  BY <1>0, <1>1, <1>3, <1>a DEF Chained, Receiving, Reading
<1>4. CASE walk' = <<>> /\ pipe'["up"].piece = pipe["up"].piece
  <2>1. Len(walk') = 0
    BY <1>4
  <2>2. WalkFits'
    BY <1>4, <2>1 DEF WalkFits
  <2>3. LoopFits => LoopFits'
    BY <1>1, <1>3, <1>4 DEF LoopFits
  <2> QED
    BY <1>2, <1>a, <2>2, <2>3
<1>5. CASE WalkFile
  <2>1. walk # <<>> /\ Write("up", Head(walk)) /\ walk' = Tail(walk) /\ pipe["up"].piece = None
    BY <1>5 DEF WalkFile, Write, Busy
  <2>2. pipe'["up"].piece = Head(walk) /\ Head(walk) = walk[1]
    BY <2>1, Archived, Piping
  <2>3. AtWalk = AtFrame /\ (walk[1] # None => AtWalk' = After(walk[1]))
    BY <1>3, <2>1, <2>2 DEF AtWalk
  <2>4. /\ walk' # <<>> => 2 \in 2..Len(walk) /\ walk'[1] = walk[2]
        /\ \A i \in 2..Len(walk') : i + 1 \in 2..Len(walk) /\ walk'[i] = walk[i + 1]
                                    /\ walk'[i - 1] = walk[i]
    <3> HIDE DEF Pieces
    <3> QED
      BY <2>1
  <2>5. LoopFits /\ WalkFits => LoopFits'
    BY <1>1, <1>3, <2>1, <2>2, <2>3 DEF LoopFits, WalkFits
  <2>6. WalkFits => WalkFits'
    <3>1. Len(walk) \in Nat /\ Len(walk) > 0 /\ Len(walk') = Len(walk) - 1
          /\ \A i \in 1..Len(walk') : i + 1 \in 1..Len(walk) /\ walk'[i] = walk[i + 1]
      <4> HIDE DEF Pieces
      <4> QED
        BY <2>1
    <3>2. ASSUME WalkFits, NEW i \in 2..Len(walk') PROVE Fits(After(walk'[i - 1]), walk'[i])
      <4>1. i + 1 \in 2..Len(walk) /\ (i + 1) - 1 = i
        BY <2>4
      <4>2. Fits(After(walk[(i + 1) - 1]), walk[i + 1])
        BY <3>2, <4>1 DEF WalkFits
      <4> QED
        BY <2>4, <4>1, <4>2
    <3>3. ASSUME WalkFits, walk' # <<>> PROVE Fits(AtWalk', walk'[1])
      <4>1. 1 \in 1..Len(walk) /\ 2 \in 2..Len(walk) /\ walk[2 - 1] = walk[1]
        BY <2>4, <3>1, <3>3
      <4> QED
        BY <2>3, <2>4, <3>3, <4>1 DEF WalkFits
    <3>4. WalkFits => \A i \in 1..Len(walk') : walk'[i] # None
      BY <3>1 DEF WalkFits
    <3> QED
      BY <3>2, <3>3, <3>4 DEF WalkFits
  <2> QED
    BY <1>2, <1>a, <2>5, <2>6
<1>6. CASE WalkSkips
  <2>1. walk # <<>> /\ Head(walk).part = "head" /\ Write("up", Footer) /\ walk' = <<>>
    BY <1>6 DEF WalkSkips
  <2>2. pipe'["up"].piece = Footer /\ pipe["up"].piece = None /\ Head(walk) = walk[1]
        /\ Len(walk') = 0
    <3>1. Head(walk) = walk[1] /\ Len(walk') = 0
      BY <2>1
    <3>2. Write("up", Footer) => pipe'["up"].piece = Footer
      BY Piping
    <3> QED
      BY <2>1, <3>1, <3>2 DEF Write, Busy
  <2>3. Fits(AtWalk, walk[1]) => Fits(AtFrame, Footer)
    BY <2>1, <2>2 DEF AtWalk, Fits, Before, Footer, Piece
  <2>4. LoopFits /\ WalkFits => LoopFits'
    BY <1>1, <1>3, <2>1, <2>2, <2>3 DEF LoopFits, WalkFits
  <2>5. WalkFits'
    BY <2>1, <2>2 DEF WalkFits
  <2> QED
    BY <1>2, <1>a, <2>4, <2>5
<1>7. CASE WalkShort \/ WalkEnds
  <2>1. walk' = <<>> /\ pipe'["up"].piece = pipe["up"].piece
    BY <1>7, Piping DEF WalkShort, WalkEnds, pipeVars
  <2> QED
    BY <1>2, <1>4, <2>1
<1> QED
  BY <1>5, <1>6, <1>7 DEF WriteTar

\* The reader leaves a file half written only when it expects the rest of it.
LEMMA FitRead ==
  ASSUME Types, Stages, Copied, Chained, ReadTar PROVE Copied' /\ Chained'
<1> USE Parcels DEF Types
<1>1. Receiving /\ UNCHANGED <<given, up, link, walk, agent, client, held>>
  BY DEF Stages, ReadTar, UnpackPiece, UnpackFails, UnpackEnds, mainVars, netVars, ghostVars
<1>2. CASE UnpackFails
  BY <1>1, <1>2 DEF UnpackFails, Copied, Chained, Flowing, Reading, Receiving, GivenNoneShort
<1>3. CASE UnpackEnds
  <2>1. UNCHANGED <<remote, pipe>> /\ unpack' = (IF unpack = "head" THEN "ok" ELSE "failed")
    BY <1>3 DEF UnpackEnds, EndOf, treeVars, pipeVars
  <2>2. ~Reading(unpack')
    BY <2>1 DEF Reading
  <2>3. Chained'
    BY <1>1, <2>2 DEF Chained, Flowing
  <2>4. Copied'
    BY <1>1, <2>1 DEF Copied, Receiving, GivenNoneShort
  <2> QED
    BY <2>3, <2>4
<1>4. CASE UnpackPiece
  <2> DEFINE x == pipe["in"].piece
  <2>1. /\ x \in Pieces /\ x # None /\ Reading(unpack)
        /\ remote' = Unpacked(remote, x) /\ unpack' = Expects(x) /\ Take("in")
    BY <1>4, Piping DEF UnpackPiece, Busy
  <2>2. pipe'["in"].piece = None /\ pipe'["up"] = pipe["up"]
    BY <2>1, Piping
  <2>3. PICK s : HalfWritten(remote, s)
    BY <1>1, <2>1 DEF Copied, Reading
  <2>4. Fits(s, x)
    BY <1>1, <2>1, <2>3, TornReader DEF Chained
  <2>5. /\ HalfWritten(remote', After(x))
        /\ Expects(x) = "tail" => After(x) \in Files
        /\ Expects(x) \in {"head", "ok"} => After(x) = 0
    BY <2>1, <2>3, <2>4, TornStep
  <2>6. AtReader' = After(x)
    <3>1. remote' \in Trees
      BY <2>1, Unpacking
    <3>2. AtReader' = CHOOSE t \in Files \cup {0} : HalfWritten(remote', t)
      BY DEF AtReader
    <3>3. After(x) \in Files \cup {0}
      BY <2>5 DEF HalfWritten
    <3>4. HalfWritten(remote', AtReader')
      BY <2>5, <3>2, <3>3
    <3> QED
      BY <2>5, <3>1, <3>4, Torn
  <2>7. AtPipe' = AtPipe
    BY <2>1, <2>2, <2>6 DEF AtPipe
  <2>8. AtWire' = AtWire /\ AtFrame' = AtFrame /\ AtWalk' = AtWalk
    BY <1>1, <2>2, <2>7 DEF AtWire, AtFrame, AtWalk
  <2>9. Copied'
    <3>1. Receiving' /\ agent' # "start" /\ GivenNoneShort'
      BY <1>1 DEF Receiving, Copied, GivenNoneShort
    <3> QED
      BY <2>1, <2>5, <3>1 DEF Copied
  <2>10. (WireFits => WireFits') /\ (LoopFits => LoopFits') /\ (WalkFits => WalkFits')
    BY <1>1, <2>2, <2>7, <2>8 DEF WireFits, LoopFits, WalkFits
  <2>11. Flowing' => Flowing
    BY <1>1, <2>1 DEF Flowing
  <2> QED
    BY <1>1, <2>2, <2>9, <2>10, <2>11 DEF Chained
<1> QED
  BY <1>2, <1>3, <1>4 DEF ReadTar

\* Pieces go into frames in the order they are read.
LEMMA FitUpload ==
  ASSUME Types, Copied, Chained, streamOver PROVE Copied' /\ Chained'
<1> USE Parcels DEF Types
<1>1. UNCHANGED <<remote, given, unpack, link, walk, agent>>
  BY DEF streamOver, UploadRead, UploadFrame, UploadBroken, UploadEnd, ReadOutTar, ReadOutTarDone,
     ReadOutEnd, ReadSyncErr, ReadExit, ReadBroken, treeVars, workerVars, netVars, ghostVars
<1>2. Copied' /\ AtReader' = AtReader
  BY <1>1 DEF Copied, AtReader, Receiving, HalfWritten, GivenNoneShort
<1>a. /\ Flowing' <=> Flowing
      /\ UNCHANGED <<up, pipe>> => AtPipe' = AtPipe /\ (WireFits => WireFits')
      /\ pipe'["in"].piece = pipe["in"].piece =>
           AtPipe' = AtPipe /\ (Receiving' /\ Reading(unpack') /\ pipe'["in"].piece # None
                                 => Fits(AtReader', pipe'["in"].piece))
  <2>1. pipe'["in"].piece = pipe["in"].piece => AtPipe' = AtPipe
    BY <1>2 DEF AtPipe
  <2>2. UNCHANGED <<up, pipe>> => WireFits' = WireFits
    BY <2>1 DEF WireFits
  <2> QED
    BY <1>1, <1>2, <2>1, <2>2 DEF Flowing, Chained, Reading, Receiving
<1>3. CASE ReadOutTar \/ ReadOutTarDone \/ ReadOutEnd \/ ReadSyncErr \/ ReadExit \/ ReadBroken
  <2>1. /\ UNCHANGED <<up, held>>
        /\ client' \notin {"upload", "frame"} \/ client' = client
    BY <1>3 DEF ReadOutTar, ReadOutTarDone, ReadOutEnd, ReadSyncErr, ReadExit, ReadBroken, netVars
  <2>2. pipe'["in"].piece = pipe["in"].piece /\ pipe'["up"].piece = pipe["up"].piece
    <3>1. down # <<>> => Head(down).piece \in Pieces
      BY Queued
    <3> QED
      BY <1>3, <3>1, Piping DEF ReadOutTar, ReadOutTarDone, ReadOutEnd, ReadSyncErr, ReadExit,
         ReadBroken, pipeVars
  <2> QED
    BY <1>1, <2>1, <2>2, Quiet
<1>4. CASE UploadRead
  <2>1. UNCHANGED up /\ client = "upload"
    BY <1>4 DEF UploadRead, netVars
  <2>2. CASE UNCHANGED <<pipe, held>> /\ client' = "end"
    BY <1>1, <2>1, <2>2, Quiet
  <2>3. CASE /\ Busy("up") /\ Take("up")
             /\ held' = [held EXCEPT !["client"] = pipe["up"].piece] /\ client' = "frame"
    <3>1. /\ pipe'["up"].piece = None /\ pipe'["in"] = pipe["in"]
          /\ held'["client"] = pipe["up"].piece
      BY <2>3, Piping
    <3>2. AtPipe' = AtPipe /\ AtWire' = AtWire
      BY <1>2, <2>1, <3>1 DEF AtPipe, AtWire
    <3>3. held["client"] = None
      BY <2>1 DEF Chained
    <3>4. AtFrame = AtWire /\ AtWalk' = AtWalk
      BY <3>1, <3>2, <3>3 DEF AtFrame, AtWalk
    <3>5. WireFits => WireFits'
      BY <2>1, <3>2 DEF WireFits
    <3>6. LoopFits /\ WalkFits => LoopFits' /\ WalkFits'
      <4>1. WalkFits => WalkFits'
        BY <1>1, <3>4 DEF WalkFits
      <4> QED
        BY <2>1, <2>3, <3>1, <3>2, <3>4, <4>1 DEF LoopFits, Busy
    <3> QED
      BY <1>1, <1>2, <1>a, <2>1, <2>3, <3>1, <3>5, <3>6 DEF Chained, Busy
  <2> QED
    BY <1>4, <2>2, <2>3 DEF UploadRead
<1>5. CASE UploadFrame
  <2> DEFINE f == Frame("intar", held["client"])
  <2>1. /\ UNCHANGED pipe /\ client = "frame" /\ client' = "upload"
        /\ held'["client"] = None
        /\ up' = IF link = "up" /\ agent # "closed" THEN Append(up, f) ELSE up
    BY <1>5 DEF UploadFrame, SendUp, pipeVars
  <2>2. AtPipe' = AtPipe
    BY <1>2, <2>1 DEF AtPipe
  <2>3. CASE ~(link = "up" /\ agent # "closed")
    <3>1. ~Flowing /\ pipe'["in"].piece = pipe["in"].piece
      BY <2>1, <2>3 DEF Flowing
    <3> QED
      BY <1>1, <1>2, <1>a, <2>1, <3>1 DEF Chained
  <2>4. CASE link = "up" /\ agent # "closed"
    <3>1. f \in Frames /\ f.type = "intar" /\ f.piece = held["client"]
      BY DEF Frame
    <3>2. /\ up' # <<>> /\ Len(up) \in Nat /\ Len(up') = Len(up) + 1 /\ up'[Len(up) + 1] = f
          /\ \A i \in 1..Len(up) : up'[i] = up[i]
          /\ (up = <<>> <=> Len(up) = 0)
      <4> HIDE DEF f
      <4> QED
        BY <2>1, <2>4, <3>1, Appended
    <3> HIDE DEF f
    <3>3. AtWire' = After(held["client"]) /\ AtFrame' = AtWire'
      BY <2>1, <3>1, <3>2 DEF AtWire, AtFrame
    <3>a. CASE held["client"] # None
      <4>1. AtWalk' = AtWalk /\ AtFrame' = AtFrame
        BY <2>1, <3>3, <3>a DEF AtFrame, AtWalk
      <4>2. ASSUME Flowing
            PROVE  /\ \A i \in 1..Len(up') : up'[i].type = "intar" /\ up'[i].piece # None
                   /\ \A i \in 1..Len(up') :
                        IF i = 1 THEN Fits(AtPipe, up'[i].piece)
                        ELSE Fits(After(up'[i - 1].piece), up'[i].piece)
        <5>1. \A i \in 1..Len(up) : up[i].type = "intar"
          BY <2>1, <4>2 DEF Chained, LoopFits
        <5>0. \A i \in 1..Len(up) : up[i].piece # None
          BY <4>2, <5>1 DEF Chained, WireFits
        <5>2. Fits(AtWire, f.piece)
          BY <2>1, <3>1, <3>a, <4>2 DEF Chained, LoopFits
        <5>3. \A i \in 1..Len(up) : IF i = 1 THEN Fits(AtPipe, up[i].piece)
                                    ELSE Fits(After(up[i - 1].piece), up[i].piece)
          <6>1. WireFits
            BY <4>2 DEF Chained
          <6>2. \A i \in 1..Len(up) : i = 1 \/ i - 1 \in 1..Len(up)
            BY <3>2
          <6> QED
            BY <5>1, <6>1, <6>2 DEF WireFits
        <5>4. Len(up) = 0 => Fits(AtPipe, f.piece)
          BY <3>2, <5>2 DEF AtWire
        <5>5. Len(up) # 0 => Fits(After(up[Len(up)].piece), f.piece)
          BY <3>2, <5>2 DEF AtWire
        <5>6. ASSUME NEW i \in 1..Len(up'), i # Len(up) + 1
              PROVE  i \in 1..Len(up) /\ up'[i] = up[i] /\ (i # 1 => up'[i - 1] = up[i - 1])
          BY <3>2, <5>6
        <5>7. ASSUME NEW i \in 1..Len(up'), i = Len(up) + 1
              PROVE  /\ up'[i] = f
                     /\ i = 1 => Fits(AtPipe, f.piece)
                     /\ i # 1 => Fits(After(up'[i - 1].piece), f.piece)
          <6>1. i - 1 = Len(up) /\ (i # 1 => i - 1 \in 1..Len(up))
            BY <3>2, <5>7
          <6>2. i # 1 => up'[i - 1] = up[Len(up)]
            BY <3>2, <6>1
          <6> QED
            BY <3>2, <5>4, <5>5, <5>7, <6>1, <6>2
        <5> SUFFICES ASSUME NEW i \in 1..Len(up')
                     PROVE  /\ up'[i].type = "intar" /\ up'[i].piece # None
                            /\ i = 1 => Fits(AtPipe, up'[i].piece)
                            /\ i # 1 => Fits(After(up'[i - 1].piece), up'[i].piece)
          OBVIOUS
        <5>8. CASE i = Len(up) + 1
          BY <3>1, <3>a, <5>7, <5>8
        <5>9. CASE i # Len(up) + 1
          BY ZenonT(40), <5>0, <5>1, <5>3, <5>6, <5>9
        <5> QED
          BY <5>8, <5>9
      <4> QED
        <5>1. Flowing => WireFits'
          BY <2>2, <4>2 DEF WireFits
        <5>2. Flowing => LoopFits' /\ WalkFits'
          <6>1. WalkFits => WalkFits'
            BY <1>1, <4>1 DEF WalkFits
          <6> QED
            BY <2>1, <4>1, <4>2, <6>1 DEF LoopFits, Chained
        <5>3. pipe'["in"].piece = pipe["in"].piece
          BY <2>1
        <5> QED
          BY <1>1, <1>2, <1>a, <2>1, <5>1, <5>2, <5>3 DEF Chained
    <3> QED
      BY <2>1, <3>a DEF Chained
  <2> QED
    BY <2>3, <2>4
<1>6. CASE UploadBroken
  <2>1. UNCHANGED <<pipe, up>> /\ client' = "end"
    BY <1>6 DEF UploadBroken, netVars
  <2> QED
    BY <1>1, <1>2, <1>a, <2>1 DEF Chained
<1>7. CASE UploadEnd
  <2> DEFINE f == Frame("inend", None)
  <2>1. /\ UNCHANGED <<pipe, held>> /\ client' = "run"
        /\ up' = IF link = "up" /\ agent # "closed" THEN Append(up, f) ELSE up
    BY <1>7 DEF UploadEnd, SendUp, pipeVars
  <2>2. AtPipe' = AtPipe
    BY <1>2, <2>1 DEF AtPipe
  <2>3. f \in Frames /\ f.type # "intar"
    BY DEF Frame
  <2>4. /\ Len(up) \in Nat /\ Len(up') \in {Len(up), Len(up) + 1}
        /\ \A i \in 1..Len(up) : up'[i] = up[i]
        /\ Len(up') = Len(up) + 1 => up'[Len(up) + 1] = f
    <3> HIDE DEF f
    <3> QED
      BY <2>1, <2>3, Appended
  <2> HIDE DEF f
  <2>5. WireFits => WireFits'
    <3>1. ASSUME NEW i \in 1..Len(up'), up'[i].type = "intar"
          PROVE  i \in 1..Len(up) /\ up'[i] = up[i] /\ (i # 1 => up'[i - 1] = up[i - 1])
      <4>1. i \in 1..Len(up)
        BY <2>3, <2>4, <3>1
      <4>2. i # 1 => i - 1 \in 1..Len(up)
        BY <2>4, <4>1
      <4> QED
        BY <2>4, <4>1, <4>2
    <3> QED
      BY <2>2, <3>1 DEF WireFits
  <2> QED
    BY <1>1, <1>2, <1>a, <2>1, <2>5 DEF Chained
<1> QED
  BY <1>3, <1>4, <1>5, <1>6, <1>7 DEF streamOver

LEMMA Tailed ==
  ASSUME NEW q \in Seq(Frames), q # <<>>
  PROVE  /\ Len(q) \in Nat \ {0} /\ Head(q) = q[1]
         /\ Len(Tail(q)) = Len(q) - 1 /\ (Tail(q) = <<>> <=> Len(q) = 1)
         /\ \A i \in 1..Len(q) - 1 : Tail(q)[i] = q[i + 1]
<1> HIDE DEF Frames
<1>1. Len(q) \in Nat \ {0} /\ Head(q) = q[1]
  OBVIOUS
<1>2. Len(Tail(q)) = Len(q) - 1 /\ Tail(q) \in Seq(Frames)
  OBVIOUS
<1>3. \A i \in 1..Len(q) - 1 : Tail(q)[i] = q[i + 1]
  OBVIOUS
<1>4. Tail(q) = <<>> <=> Len(q) = 1
  BY <1>1, <1>2
<1> QED
  BY <1>1, <1>2, <1>3, <1>4

\* The agent takes a piece off the connection when its pipe is empty.
LEMMA FitReceive ==
  ASSUME Types, Copied, Chained, recvTree PROVE Copied' /\ Chained'
<1> USE Parcels DEF Types
<1>1. Receiving /\ UNCHANGED <<remote, given, link, walk, client, held>>
  BY DEF recvTree, RecvPiece, RecvPut, RecvEnd, RecvBroken, RecvDone, treeVars, workerVars, netVars,
     ghostVars, Receiving
<1>2. AtReader' = AtReader /\ GivenNoneShort'
  BY <1>1 DEF AtReader, HalfWritten, Copied, GivenNoneShort
<1>3. CASE RecvPiece
  <2> DEFINE x == Head(up).piece
  <2>1. /\ agent = "recv" /\ agent' = "put" /\ up # <<>> /\ Head(up).type = "intar"
        /\ Write("in", x) /\ up' = Tail(up) /\ unpack' = unpack /\ pipe["in"].piece = None
    BY <1>3 DEF RecvPiece, Write, Busy, workerVars
  <2>2. x \in Pieces
    BY <2>1, Queued
  <2>3. pipe'["in"].piece = x /\ pipe'["up"] = pipe["up"]
    BY <2>1, <2>2, Piping
  <2>4. /\ Head(up) = up[1] /\ 1 \in 1..Len(up)
        /\ \A i \in 1..Len(up') : /\ i + 1 \in 1..Len(up) /\ i + 1 # 1 /\ (i + 1) - 1 = i
                                  /\ up'[i] = up[i + 1]
                                  /\ i # 1 => up'[i - 1] = up[i]
        /\ up' = <<>> => Len(up) = 1
        /\ up' # <<>> => Len(up') \in 1..Len(up') /\ Len(up') + 1 = Len(up)
    <3>1. /\ Len(up) \in Nat \ {0} /\ Head(up) = up[1]
          /\ Len(up') = Len(up) - 1 /\ (up' = <<>> <=> Len(up) = 1)
          /\ \A i \in 1..Len(up) - 1 : up'[i] = up[i + 1]
      BY <2>1, Tailed
    <3>2. ASSUME NEW i \in 1..Len(up'), i # 1 PROVE up'[i - 1] = up[i]
      <4>1. i - 1 \in 1..Len(up) - 1 /\ (i - 1) + 1 = i
        BY <3>1, <3>2
      <4> QED
        BY <3>1, <4>1
    <3> QED
      BY <3>1, <3>2
  <2>5. Flowing' <=> Flowing
    BY <1>1, <2>1 DEF Flowing
  <2>6. Reading(unpack) => Flowing /\ x # None /\ Fits(AtReader, x)
    <3>1. link = "up"
      BY <2>1 DEF Chained
    <3>2. AtPipe = AtReader
      BY <2>1 DEF AtPipe
    <3> QED
      BY <2>1, <2>4, <3>1, <3>2 DEF Chained, WireFits, Flowing
  <2>7. Reading(unpack) => AtPipe' = After(x)
    BY <2>3, <2>6 DEF AtPipe
  <2>8. Reading(unpack) => AtWire' = AtWire
    <3>1. CASE up' = <<>>
      BY <2>1, <2>4, <2>7, <3>1 DEF AtWire
    <3>2. CASE up' # <<>>
      BY <2>1, <2>4, <3>2 DEF AtWire
    <3> QED
      BY <3>1, <3>2
  <2>9. Reading(unpack) => AtFrame' = AtFrame /\ AtWalk' = AtWalk
    BY <1>1, <2>3, <2>8 DEF AtFrame, AtWalk
  <2>10. Flowing => WireFits'
    <3> SUFFICES ASSUME Flowing, NEW i \in 1..Len(up'), up'[i].type = "intar"
                 PROVE  /\ up'[i].piece # None
                        /\ i = 1 => Fits(AtPipe', up'[i].piece)
                        /\ i # 1 => (up'[i - 1].type = "intar" =>
                                       Fits(After(up'[i - 1].piece), up'[i].piece))
      BY DEF WireFits
    <3>1. WireFits /\ Reading(unpack)
      BY DEF Chained, Flowing
    <3>2. /\ up[i + 1].piece # None
          /\ up[i].type = "intar" => Fits(After(up[i].piece), up[i + 1].piece)
      BY <2>4, <3>1 DEF WireFits
    <3>3. CASE i = 1
      BY <2>1, <2>4, <2>7, <3>1, <3>2, <3>3
    <3>4. CASE i # 1
      BY <2>4, <3>2, <3>4
    <3> QED
      BY <3>3, <3>4
  <2>11. Flowing /\ LoopFits => LoopFits'
    <3>1. ASSUME LoopFits, NEW i \in 1..Len(up') PROVE up'[i].type = "intar"
      <4>1. i + 1 \in 1..Len(up) /\ up'[i] = up[i + 1]
        BY <2>4
      <4> QED
        BY <3>1, <4>1 DEF LoopFits
    <3> QED
      BY <1>1, <2>3, <2>8, <2>9, <3>1 DEF LoopFits, Flowing
  <2>12. Flowing /\ WalkFits => WalkFits'
    BY <1>1, <2>9 DEF WalkFits, Flowing
  <2>13. link' # "up" => up' = <<>>
    BY <1>1, <2>1 DEF Chained
  <2>14. Copied'
    BY <1>1, <1>2, <2>1 DEF Copied, Receiving
  <2> QED
    BY <1>1, <1>2, <2>1, <2>3, <2>5, <2>6, <2>10, <2>11, <2>12, <2>13, <2>14 DEF Chained
<1>4. CASE RecvPut
  <2>1. UNCHANGED <<pipe, up, unpack>> /\ agent \in {"recv", "put"} /\ agent' \in {"recv", "put"}
    BY <1>4 DEF RecvPut, pipeVars, workerVars, netVars
  <2>2. AtPipe' = AtPipe /\ AtWire' = AtWire /\ AtFrame' = AtFrame /\ AtWalk' = AtWalk
    BY <1>1, <1>2, <2>1 DEF AtPipe, AtWire, AtFrame, AtWalk
  <2>3. /\ Flowing' <=> Flowing /\ (WireFits => WireFits') /\ (LoopFits => LoopFits')
        /\ WalkFits => WalkFits'
    BY <1>1, <2>1, <2>2 DEF Flowing, WireFits, LoopFits, WalkFits
  <2>4. Copied'
    BY <1>1, <1>2, <2>1 DEF Copied, Receiving
  <2> QED
    BY <1>1, <1>2, <2>1, <2>3, <2>4 DEF Chained, Receiving
<1>5. CASE RecvEnd
  <2>1. /\ agent' = "errc" /\ UNCHANGED unpack /\ pipe'["in"].piece = pipe["in"].piece
        /\ up # <<>> /\ Len(up) \in Nat
    BY <1>5, Piping DEF RecvEnd, workerVars
  <2>2. link' # "up" => up' = <<>>
    BY <1>1, <2>1 DEF Chained
  <2>3. Copied'
    BY <1>1, <1>2, <2>1 DEF Copied, Receiving
  <2> QED
    BY <1>1, <1>2, <2>1, <2>2, <2>3 DEF Chained, Flowing, Receiving
<1>6. CASE RecvBroken \/ RecvDone
  <2>1. /\ UNCHANGED up
        /\ \/ agent' = "report"
           \/ agent' = "start" /\ unpack = "ok"
           \/ agent' = "errc" /\ UNCHANGED <<unpack, pipe>>
    BY <1>6 DEF RecvBroken, RecvDone, Reading, netVars, pipeVars, workerVars
  <2>2. ~Receiving' \/ UNCHANGED <<unpack, pipe>>
    BY <2>1 DEF Receiving
  <2>3. Copied'
    BY <1>1, <1>2, <2>1 DEF Copied, Receiving
  <2>4. ~Flowing'
    BY <2>1 DEF Flowing
  <2> QED
    BY <1>1, <1>2, <2>1, <2>2, <2>3, <2>4 DEF Chained
<1> QED
  BY <1>3, <1>4, <1>5, <1>6 DEF recvTree

\* From then on the copy is the command's.
LEMMA FitAfter ==
  ASSUME Types, Stages, Copied, Chained,
         Start \/ StartUnseen \/ CommandEnds \/ Diff \/ sendTree \/ SendExit \/ Report \/ ReturnFromRun
  PROVE  Copied' /\ Chained'
<1>1. /\ ~Receiving' /\ agent' # "start"
      /\ UNCHANGED <<client, link, up>> /\ held'["client"] = held["client"]
  <2>1. UNCHANGED <<client, link, up>>
    BY DEF Start, StartUnseen, CommandEnds, Diff, sendTree, MirrorRead, MirrorFrame, MirrorBroken, MirrorEnd,
       SendExit, Report, ReturnFromRun, netVars
  <2>2. held'["client"] = held["client"]
    BY DEF Types, Start, StartUnseen, CommandEnds, Diff, sendTree, MirrorRead, MirrorFrame, MirrorBroken, MirrorEnd,
       SendExit, Report, ReturnFromRun
  <2>3. ~Receiving' /\ agent' # "start"
    BY DEF Start, StartUnseen, CommandEnds, Diff, sendTree, MirrorRead, MirrorFrame, MirrorBroken, MirrorEnd,
       SendExit, Report, ReturnFromRun, Receiving
  <2> QED
    BY <2>1, <2>2, <2>3
<1>2. GivenNoneShort'
  <2>1. CASE Start \/ StartUnseen
    <3>1. given' = remote /\ agent = "start"
      BY <2>1 DEF Start, StartUnseen
    <3>2. \A f \in Files : remote[f] # Short
      BY <3>1, DirSyncAssumption DEF Copied, HalfWritten
    <3> QED
      BY <3>1, <3>2 DEF Copied, GivenNoneShort
  <2>2. CASE ~Start /\ ~StartUnseen
    BY <2>2 DEF CommandEnds, Diff, sendTree, MirrorRead, MirrorFrame, MirrorBroken, MirrorEnd,
       SendExit, Report, ReturnFromRun, Copied, GivenNoneShort, ghostVars
  <2> QED
    BY <2>1, <2>2
<1> QED
  BY <1>1, <1>2 DEF Copied, Chained, Flowing, Receiving

LEMMA FitStep ==
  Types /\ Stages /\ Copied /\ Chained /\ [Next]_vars => Copied' /\ Chained'
<1> SUFFICES ASSUME Types, Stages, Copied, Chained, [Next]_vars PROVE Copied' /\ Chained'
  OBVIOUS
<1>1. CASE UNCHANGED vars
  BY <1>1, Quiet DEF vars, treeVars, pipeVars, workerVars, mainVars, netVars, ghostVars
<1>2. CASE ReadTarBack \/ WriteTarFiles
  <2>1. UNCHANGED <<remote, given, unpack, up, link, walk, mainVars>>
    BY <1>2 DEF ReadTarBack, ApplyPiece, ApplyFails, ApplyEnds, WriteTarFiles, PackFile, PackShort, PackVanished, PackGrew,
       PackEnds, treeVars, netVars, ghostVars, workerVars
  <2>2. pipe'["in"].piece = pipe["in"].piece /\ pipe'["up"].piece = pipe["up"].piece
    BY <1>2, Piping, Archived, Parcels DEF Types, ReadTarBack, ApplyPiece, ApplyFails, ApplyEnds,
       WriteTarFiles, PackFile, PackShort, PackVanished, PackGrew, PackEnds, pipeVars
  <2> QED
    BY <2>1, <2>2, Quiet DEF mainVars
<1>3. CASE Lose
  <2>1. /\ UNCHANGED <<remote, given, unpack, walk, agent, client, held, pipe>>
        /\ link' = "lost" /\ up' = <<>>
    BY <1>3 DEF Lose, treeVars, workerVars, mainVars, pipeVars
  <2>2. AtReader' = AtReader /\ ~Flowing'
    BY <2>1 DEF AtReader, HalfWritten, Flowing
  <2> QED
    BY <2>1, <2>2 DEF Copied, Chained, HalfWritten, GivenNoneShort, Receiving, Reading
<1> QED
  BY <1>1, <1>2, <1>3, FitWalk, FitRead, FitUpload, FitReceive, FitAfter DEF Next, handleRunDir

LEMMA FitInit == Init => Copied /\ Chained
<1> SUFFICES ASSUME Init PROVE Copied /\ Chained
  OBVIOUS
<1>1. remote \in Trees /\ HalfWritten(remote, 0) /\ GivenNoneShort
  BY DirSyncAssumption DEF Init, Trees, HalfWritten, GivenNoneShort
<1>2. AtReader = 0
  BY <1>1, TornReader
<1>3. /\ pipe["in"].piece = None /\ pipe["up"].piece = None /\ held["client"] = None
      /\ up = <<>> /\ Len(up) = 0 /\ client = "upload" /\ agent = "recv" /\ unpack = "head"
  BY Parcels DEF Init, Empty
<1>4. AtWalk = 0
  BY <1>2, <1>3 DEF AtWalk, AtFrame, AtWire, AtPipe
<1>5. WalkFits
  <2>1. /\ walk = Archive(local, Present(local)) /\ local \in [Files -> Data \cup {None}]
        /\ Present(local) \in SUBSET Files
    BY DEF Init, Present
  <2>2. /\ walk # <<>> /\ Fits(0, walk[1])
        /\ \A i \in 2..Len(walk) : Fits(After(walk[i - 1]), walk[i])
        /\ \A i \in 1..Len(walk) : walk[i] # None
    BY <2>1, ArchiveFits
  <2> QED
    BY <1>4, <2>2 DEF WalkFits
<1>6. WireFits /\ LoopFits
  BY <1>3 DEF WireFits, LoopFits
<1> QED
  BY <1>1, <1>3, <1>5, <1>6 DEF Copied, Chained

-----------------------------------------------------------------------------
\* The files of an upload are the working directory's, as far as they are there.
LEMMA Fetched ==
  ASSUME Types, Uploaded
  PROVE  /\ walk # <<>> =>
              Faithful(Head(walk)) /\ \A i \in 1..Len(Tail(walk)) : Faithful(Tail(walk)[i])
         /\ up # <<>> =>
              Faithful(Head(up).piece) /\ \A i \in 1..Len(Tail(up)) : Faithful(Tail(up)[i].piece)
         /\ \A f \in Frames : Faithful(f.piece) =>
              \A i \in 1..Len(Append(up, f)) : Faithful(Append(up, f)[i].piece)
<1>1. walk \in Seq(Pieces) /\ up \in Seq(Frames)
  BY DEF Types
<1>2. /\ \A i \in 1..Len(walk) : Faithful(walk[i])
      /\ \A i \in 1..Len(up) : Faithful(up[i].piece)
  BY DEF Uploaded
<1> HIDE DEF Pieces, Frames, Faithful
<1>3. ASSUME walk # <<>>
      PROVE  Faithful(Head(walk)) /\ \A i \in 1..Len(Tail(walk)) : Faithful(Tail(walk)[i])
  BY <1>1, <1>2, <1>3
<1>4. ASSUME up # <<>>
      PROVE  Faithful(Head(up).piece) /\ \A i \in 1..Len(Tail(up)) : Faithful(Tail(up)[i].piece)
  BY <1>1, <1>2, <1>4
<1>5. ASSUME NEW f \in Frames, Faithful(f.piece), NEW i \in 1..Len(Append(up, f))
      PROVE  Faithful(Append(up, f)[i].piece)
  BY <1>1, <1>2, <1>5
<1> QED
  BY <1>3, <1>4, <1>5

LEMMA UploadStep == Types /\ Stages /\ Uploaded /\ [Next]_vars => Uploaded'
<1> SUFFICES ASSUME Types, Stages, Uploaded, [Next]_vars PROVE Uploaded'
  OBVIOUS
<1> USE Parcels DEF Types
<1>f. Faithful(None) /\ Faithful(Footer)
  BY DEF Faithful, Footer, Piece
<1>a. ASSUME UNCHANGED <<before, walk, up, given>>,
             pipe'["up"].piece \in {None, pipe["up"].piece},
             pipe'["in"].piece \in {None, pipe["in"].piece}, held'["client"] = held["client"],
             Receiving' \/ agent' = "start" => (Receiving \/ agent = "start") /\ UNCHANGED remote
      PROVE  Uploaded'
  BY <1>a, <1>f DEF Uploaded, Faithful
<1>1. CASE UNCHANGED vars
  BY <1>a, <1>1 DEF vars, treeVars, pipeVars, workerVars, mainVars, netVars, ghostVars, Receiving
<1>2. CASE WriteTar
  <2>1. UNCHANGED <<before, up, given, held, agent, remote>>
    BY <1>2 DEF WriteTar, WalkFile, WalkSkips, WalkShort, WalkEnds, treeVars, mainVars, netVars,
       ghostVars
  <2>2. pipe'["in"].piece = pipe["in"].piece
    BY <1>2, Piping, Archived DEF WriteTar, WalkFile, WalkSkips, WalkShort, WalkEnds, pipeVars
  <2>3. Faithful(pipe'["up"].piece)
    <3>1. CASE WalkFile
      BY <3>1, Piping, Archived, Fetched DEF WalkFile
    <3>2. CASE WalkSkips
      BY <1>f, <3>2, Piping DEF WalkSkips
    <3>3. CASE WalkShort \/ WalkEnds
      BY <3>3, Piping DEF WalkShort, WalkEnds, pipeVars, Uploaded
    <3> QED
      BY <1>2, <3>1, <3>2, <3>3 DEF WriteTar
  <2>4. \A i \in 1..Len(walk') : Faithful(walk'[i])
    <3>1. walk' \in {<<>>, walk} \/ (walk # <<>> /\ walk' = Tail(walk))
      BY <1>2 DEF WriteTar, WalkFile, WalkSkips, WalkShort, WalkEnds
    <3>2. CASE walk' = <<>>
      BY <3>2
    <3>3. CASE walk' = walk
      BY <3>3 DEF Uploaded
    <3>4. CASE walk # <<>> /\ walk' = Tail(walk)
      BY <3>4, Fetched
    <3> QED
      BY <3>1, <3>2, <3>3, <3>4
  <2> QED
    BY <2>1, <2>2, <2>3, <2>4 DEF Uploaded, Faithful, Receiving
<1>3. CASE UnpackPiece
  <2> DEFINE x == pipe["in"].piece
  <2>1. UNCHANGED <<before, walk, up, given, held, agent>> /\ remote' = Unpacked(remote, x) /\ x # None
    BY <1>3 DEF UnpackPiece, Busy, mainVars, netVars, ghostVars
  <2>2. pipe'["up"] = pipe["up"] /\ pipe'["in"].piece = None
    BY <1>3, Piping DEF UnpackPiece
  <2>3. x \in Pieces /\ Faithful(x) /\ remote \in Trees
    BY Piping DEF Uploaded
  <2>4. Receiving
    BY <1>3 DEF UnpackPiece, Stages
  <2>5. \A f \in Files : remote'[f] \in {None, Short, before[f]}
    <3>1. \A f \in Files : remote[f] \in {None, Short, before[f]}
      BY <2>4 DEF Uploaded
    <3>2. CASE x.part = "footer"
      BY <2>1, <3>1, <3>2 DEF Unpacked
    <3>3. CASE x.part # "footer"
      <4>1. x.part \in {"head", "tail"}
        BY <2>1, <2>3, <3>3 DEF Pieces, Footer, Piece
      <4>2. x.part = "tail" => x.data = before[x.file]
        BY <2>1, <2>3 DEF Faithful
      <4>3. \A f \in Files : remote'[f] = IF f = x.file THEN (IF x.part = "head" THEN Short ELSE x.data)
                                                      ELSE remote[f]
        BY <2>1, <2>3, <3>3 DEF Unpacked, Trees
      <4> HIDE DEF x
      <4> QED
        BY <3>1, <4>1, <4>2, <4>3
    <3> QED
      BY <3>2, <3>3
  <2> QED
    BY <1>f, <2>1, <2>2, <2>5 DEF Uploaded, Faithful
<1>4. CASE UnpackFails \/ UnpackEnds
  BY <1>a, <1>4 DEF UnpackFails, UnpackEnds, treeVars, pipeVars, mainVars, netVars, ghostVars, Receiving
<1>5. CASE ReadTarBack \/ WriteTarFiles
  <2>1. UNCHANGED <<before, walk, up, given, held, agent, remote>>
    BY <1>5 DEF ReadTarBack, ApplyPiece, ApplyFails, ApplyEnds, WriteTarFiles, PackFile, PackShort,
       PackVanished, PackGrew, PackEnds, treeVars, workerVars, mainVars, netVars, ghostVars
  <2>2. pipe'["up"].piece = pipe["up"].piece /\ pipe'["in"].piece = pipe["in"].piece
    BY <1>5, Piping, Archived DEF ReadTarBack, ApplyPiece, ApplyFails, ApplyEnds, WriteTarFiles,
       PackFile, PackShort, PackVanished, PackGrew, PackEnds, pipeVars
  <2> QED
    BY <1>a, <2>1, <2>2 DEF Receiving
<1>6. CASE UploadRead \/ UploadFrame \/ UploadBroken \/ UploadEnd
  <2>1. UNCHANGED <<before, walk, given, agent, remote>>
    BY <1>6 DEF UploadRead, UploadFrame, UploadBroken, UploadEnd, treeVars, workerVars, ghostVars
  <2>2. pipe'["up"].piece \in {None, pipe["up"].piece} /\ pipe'["in"].piece = pipe["in"].piece
    BY <1>6, Piping DEF UploadRead, UploadFrame, UploadBroken, UploadEnd, pipeVars
  <2>3. Faithful(held'["client"])
    <3>1. held' = held \/ held' = [held EXCEPT !["client"] = None]
            \/ held' = [held EXCEPT !["client"] = pipe["up"].piece]
      BY <1>6 DEF UploadRead, UploadFrame, UploadBroken, UploadEnd
    <3>2. held'["client"] \in {held["client"], None, pipe["up"].piece}
      BY <3>1
    <3> QED
      BY <1>f, <3>2 DEF Uploaded
  <2>4. \A i \in 1..Len(up') : Faithful(up'[i].piece)
    <3>1. up' = up \/ \E f \in Frames : Faithful(f.piece) /\ up' = Append(up, f)
      <4>1. /\ Frame("intar", held["client"]) \in Frames /\ Faithful(Frame("intar", held["client"]).piece)
            /\ Frame("inend", None) \in Frames /\ Faithful(Frame("inend", None).piece)
        BY <1>f DEF Uploaded
      <4> QED
        BY <1>6, <4>1 DEF UploadRead, UploadFrame, UploadBroken, UploadEnd, SendUp, netVars
    <3> QED
      BY <3>1, Fetched DEF Uploaded
  <2> QED
    BY <1>f, <2>1, <2>2, <2>3, <2>4 DEF Uploaded, Faithful, Receiving
<1>7. CASE ReadOutTar \/ ReadOutTarDone \/ ReadOutEnd \/ ReadSyncErr \/ ReadExit \/ ReadBroken
  <2>1. UNCHANGED <<before, walk, up, given, held, agent, remote>>
    BY <1>7 DEF ReadOutTar, ReadOutTarDone, ReadOutEnd, ReadSyncErr, ReadExit, ReadBroken, treeVars,
       workerVars, netVars, ghostVars
  <2>2. pipe'["up"].piece = pipe["up"].piece /\ pipe'["in"].piece = pipe["in"].piece
    <3>1. down # <<>> => Head(down).piece \in Pieces
      BY Queued
    <3> QED
      BY <1>7, <3>1, Piping DEF ReadOutTar, ReadOutTarDone, ReadOutEnd, ReadSyncErr, ReadExit,
         ReadBroken, pipeVars
  <2> QED
    BY <1>a, <2>1, <2>2 DEF Receiving
<1>8. CASE RecvPiece
  <2>1. UNCHANGED <<before, walk, given, held, remote>> /\ up # <<>> /\ up' = Tail(up) /\ Receiving
    BY <1>8 DEF RecvPiece, treeVars, workerVars, ghostVars, Receiving
  <2>2. pipe'["up"] = pipe["up"] /\ pipe'["in"].piece = Head(up).piece
    BY <1>8, <2>1, Queued, Piping DEF RecvPiece
  <2>3. Faithful(Head(up).piece) /\ \A i \in 1..Len(up') : Faithful(up'[i].piece)
    BY <2>1, Fetched
  <2> QED
    BY <2>1, <2>2, <2>3 DEF Uploaded, Faithful
<1>9. CASE RecvPut \/ RecvEnd \/ RecvBroken \/ RecvDone
  <2>1. UNCHANGED <<before, walk, given, held, remote>> /\ Receiving
    BY <1>9 DEF RecvPut, RecvEnd, RecvBroken, RecvDone, treeVars, workerVars, ghostVars, Receiving
  <2>2. pipe'["up"].piece = pipe["up"].piece /\ pipe'["in"].piece = pipe["in"].piece
    BY <1>9, Piping DEF RecvPut, RecvEnd, RecvBroken, RecvDone, pipeVars
  <2>3. \A i \in 1..Len(up') : Faithful(up'[i].piece)
    <3>1. up' = up \/ (up # <<>> /\ up' = Tail(up))
      BY <1>9 DEF RecvPut, RecvEnd, RecvBroken, RecvDone, netVars
    <3> QED
      BY <3>1, Fetched DEF Uploaded
  <2> QED
    BY <2>1, <2>2, <2>3 DEF Uploaded, Faithful
<1>10. CASE Start \/ StartUnseen
  <2>1. /\ UNCHANGED <<before, walk, up, held, pipe>> /\ given' = remote /\ agent = "start"
        /\ agent' \in {"run", "report"}
    BY <1>10 DEF Start, StartUnseen, pipeVars, workerVars, netVars
  <2> QED
    BY <2>1 DEF Uploaded, Faithful, Receiving
<1>11. CASE CommandEnds \/ Diff \/ sendTree \/ SendExit \/ Report \/ ReturnFromRun
  <2>1. /\ UNCHANGED <<before, walk, up, given>> /\ held'["client"] = held["client"]
        /\ ~Receiving' /\ agent' # "start"
    <3>1. UNCHANGED <<before, walk, up, given>> /\ ~Receiving' /\ agent' # "start"
      BY <1>11 DEF CommandEnds, Diff, sendTree, MirrorRead, MirrorFrame, MirrorBroken, MirrorEnd,
         SendExit, Report, ReturnFromRun, Receiving, workerVars, netVars, ghostVars
    <3>2. held'["client"] = held["client"]
      BY <1>11 DEF CommandEnds, Diff, sendTree, MirrorRead, MirrorFrame, MirrorBroken, MirrorEnd,
         SendExit, Report, ReturnFromRun
    <3> QED
      BY <3>1, <3>2
  <2>2. pipe'["up"].piece = pipe["up"].piece /\ pipe'["in"].piece = pipe["in"].piece
    BY <1>11, Piping DEF CommandEnds, Diff, sendTree, MirrorRead, MirrorFrame, MirrorBroken,
       MirrorEnd, SendExit, Report, ReturnFromRun, pipeVars
  <2> QED
    BY <1>a, <2>1, <2>2
<1>12. CASE Lose
  <2>1. UNCHANGED <<before, walk, given, held, agent, remote, pipe>> /\ up' = <<>>
    BY <1>12 DEF Lose, treeVars, pipeVars, workerVars, mainVars
  <2> QED
    BY <2>1 DEF Uploaded, Faithful, Receiving
<1> QED
  BY <1>1, <1>2, <1>3, <1>4, <1>5, <1>6, <1>7, <1>8, <1>9, <1>10, <1>11, <1>12
     DEF Next, ReadTar, streamOver, recvTree, handleRunDir

\* The contents in an archive are the tree's.
LEMMA ArchiveFaithful ==
  ASSUME NEW tree \in Trees, NEW files \in SUBSET Files
  PROVE  \A i \in 1..Len(Archive(tree, files)) :
           LET x == Archive(tree, files)[i] IN x = Footer \/ x.data = tree[x.file]
<1> DEFINE n == Cardinality(files)
           name == SetToSeq(files)
           a == Archive(tree, files)
           entry(k) == Piece(name[(k + 1) \div 2], IF k % 2 = 1 THEN "head" ELSE "tail",
                             tree[name[(k + 1) \div 2]])
<1>1. n \in Nat
  BY Listing, FS_Subset, DirSyncAssumption
<1>2. a = [k \in 1..2 * n + 1 |-> IF k > 2 * n THEN Footer ELSE entry(k)]
  BY DEF Archive
<1>3. \A k : entry(k).data = tree[entry(k).file]
  BY DEF Piece
<1>4. Len(a) = 2 * n + 1
  <2> HIDE DEF entry, n
  <2>1. DOMAIN a = 1..2 * n + 1
    BY <1>2
  <2>2. a \in Seq(Pieces)
    BY Archives
  <2> HIDE DEF a
  <2> QED
    BY <1>1, <2>1, <2>2
<1>5. \A k \in 1..2 * n + 1 : a[k] = Footer \/ a[k].data = tree[a[k].file]
  <2> HIDE DEF entry, n
  <2> QED
    BY <1>2, <1>3
<1> QED
  BY <1>4, <1>5

LEMMA UploadInit == Init => Uploaded
<1> SUFFICES ASSUME Init PROVE Uploaded
  OBVIOUS
<1>1. /\ before = local /\ local \in Trees /\ Present(local) \in SUBSET Files
      /\ walk = Archive(local, Present(local))
  BY DEF Init, Trees, Present
<1>2. \A i \in 1..Len(walk) : Faithful(walk[i])
  BY <1>1, ArchiveFaithful DEF Faithful, Footer, Piece
<1>3. /\ up = <<>> /\ pipe["up"].piece = None /\ pipe["in"].piece = None /\ held["client"] = None
      /\ \A f \in Files : given[f] = None /\ remote[f] = None
  BY DEF Init, Pipes, Empty
<1> QED
  BY <1>2, <1>3 DEF Uploaded, Faithful

-----------------------------------------------------------------------------
LEMMA InitInv == Init => Types /\ Stages /\ Mirrored
<1> SUFFICES ASSUME Init PROVE Types /\ Stages /\ Mirrored
  OBVIOUS
<1>1. before \in Trees /\ remote \in Trees
  BY DEF Init, Trees
<1>2. walk \in Seq(Pieces)
  BY <1>1, Archives DEF Init, Present
<1>3. Types
  <2>1. None \in Pieces /\ <<>> \in Seq(Pieces) /\ <<>> \in Seq(Frames)
    BY DEF Pieces
  <2> QED
    BY <1>1, <1>2, <2>1 DEF Init, Types, Empty, Trees, Ducts
<1>4. Stages
  BY DEF Init, Stages, Empty, Receiving, Early, Pipes
<1>5. Mirrored
  BY <1>4 DEF Init, Mirrored, Back, Empty, Pipes
<1> QED
  BY <1>3, <1>4, <1>5

LEMMA Invariant == Spec => []IInv
<1>1. Init => IInv
  BY InitInv, UploadInit, FitInit DEF IInv
<1>2. IInv /\ [Next]_vars => IInv'
  BY TypeStep, StageStep, BackStep, UploadStep, FitStep DEF IInv
<1> QED
  BY <1>1, <1>2, PTL DEF Spec

\* At no time, whatever fails and wherever a stream is cut, is a file of the
\* working directory other than before unless the command touched it or a failed
\* snapshot lacks it (Snapshot, ChangedSince and the client's ReadTar).
THEOREM OnlyDeltaReturns == Spec => []OnlyDelta
<1>1. IInv => OnlyDelta
  <2> SUFFICES ASSUME IInv, NEW f \in Files, local[f] # before[f] PROVE f \in Touched \cup Unseen
    BY DEF OnlyDelta
  <2>1. f \in Delta
    BY DEF IInv, Mirrored
  <2>2. sync /\ remote[f] # None /\ snap[f] # remote[f] /\ (snap[f] = None \/ snap[f] = given[f])
    BY <2>1 DEF Delta, ChangedSince, Present, IInv, Stages
  <2>3. CASE remote[f] # given[f]
    BY <2>2, <2>3 DEF Touched, Present
  <2>4. CASE remote[f] = given[f]
    BY <2>2, <2>4 DEF Unseen, Present
  <2> QED
    BY <2>3, <2>4
<1> QED
  BY <1>1, Invariant, PTL

\* The command is never started in a copy with a file cut short, wherever the
\* walk or the connection breaks off (WriteTar, recvTree and ReadTar).
THEOREM NoneCutShort == Spec => []GivenNoneShort
<1>1. IInv => GivenNoneShort
  BY DEF IInv, Copied
<1> QED
  BY <1>1, Invariant, PTL

-----------------------------------------------------------------------------
AgentStates == {"recv", "put", "errc", "start", "run", "diff", "read", "frame", "end",
                "exit", "report", "return", "closed"}
ClientStates == {"upload", "frame", "end", "run", "apply", "wait", "done"}

\* The rest of TypeOK: what holds of the pipes because of who writes them, and
\* when.
Ranges ==
  /\ temp \in BOOLEAN /\ sync \in BOOLEAN /\ locked \subseteq Files /\ gone \subseteq Pipes
  /\ unpack \in States \ {"unused"} /\ apply \in States
  /\ client \in ClientStates /\ agent \in AgentStates
  /\ link \in {"up", "lost"} /\ Len(up) <= NetCap /\ Len(down) <= NetCap
  /\ outcome \in {"none", "exit", "refused", "disconnected"}
  /\ happened \subseteq Faults

Over == {"exit", "return", "closed"}
AllTar == \A i \in 1..Len(down) : down[i].type = "outtar"
NoTar == \A i \in 1..Len(down) : down[i].type # "outtar"

\* The handler and its frames: pieces of the archive, its end, the exit code.
Replies ==
  /\ \A i, j \in 1..Len(down) : i < j =>
       /\ down[i].type \notin {"exit", "refused"}
       /\ down[j].type = "outtar" => down[i].type = "outtar"
  /\ \A i \in 1..Len(down) : down[i].type \in {"exit", "refused"} => agent \in {"return", "closed"}
  /\ agent \in {"read", "frame", "end"} => AllTar
  /\ Early \/ agent = "report" => down = <<>>
  /\ agent = "frame" <=> held["agent"] # None
  /\ agent \in Over \cup {"end", "report"} /\ link = "up" => pack = <<>> /\ ~Busy("out")
  /\ link = "lost" => down = <<>>

\* The pipes are written and closed in turn.
Pipelines ==
  /\ agent \in {"recv", "put"} => ~pipe["in"].closed
  /\ agent = "recv" \/ pipe["in"].closed => ~Busy("in")
  /\ pipe["out"].closed => pack = <<>> /\ ~Busy("out") /\ ~Early
  /\ Busy("sync") => client = "apply"
  /\ pipe["sync"].closed =>
       /\ client \in {"wait", "run", "done"} /\ agent \in Over /\ NoTar
       /\ client # "wait" => ~Reading(apply)

\* What streamOver returns.
Outcomes ==
  /\ client = "done" <=> outcome # "none"
  /\ outcome = "exit" => link = "up" /\ down = <<>> /\ agent \in {"return", "closed"}
  /\ outcome = "refused" => agent \in {"return", "closed"}
  /\ outcome = "disconnected" => link = "lost" \/ agent = "closed"

Bounds == Ranges /\ Replies /\ Pipelines /\ Outcomes

-----------------------------------------------------------------------------
\* What is done to a pipe does not close it, and closing it does nothing else.
LEMMA Closing ==
  ASSUME pipe \in Ducts, NEW p \in Pipes
  PROVE  /\ pipe[p].closed \in BOOLEAN
         /\ \A x \in Pieces : Write(p, x) => ~Busy(p) /\ pipe'[p].closed = pipe[p].closed
         /\ Take(p) => pipe'[p].closed = pipe[p].closed
         /\ Close(p) => pipe'[p].closed /\ \A q \in Pipes \ {p} : pipe'[q] = pipe[q]
<1> USE Parcels DEF Ducts
<1>1. pipe[p].closed \in BOOLEAN
  OBVIOUS
<1>2. ASSUME NEW x \in Pieces, Write(p, x)
      PROVE  ~Busy(p) /\ pipe'[p].closed = pipe[p].closed
  BY <1>2 DEF Write
<1>3. ASSUME Take(p) PROVE pipe'[p].closed = pipe[p].closed
  BY <1>3 DEF Take
<1>4. ASSUME Close(p)
      PROVE  pipe'[p].closed /\ \A q \in Pipes \ {p} : pipe'[q] = pipe[q]
  BY <1>4 DEF Close
<1> QED
  BY <1>1, <1>2, <1>3, <1>4

\* A frame is sent while there is a connection.
LEMMA Sent ==
  ASSUME Types, NEW f \in Frames, SendDown(f)
  PROVE  /\ link # "up" => down' = down
         /\ link = "up" =>
              /\ Len(down) \in Nat /\ Len(down) < NetCap /\ Len(down') = Len(down) + 1
              /\ down'[Len(down) + 1] = f /\ \A i \in 1..Len(down) : down'[i] = down[i]
<1>1. down \in Seq(Frames)
  BY DEF Types
<1> HIDE DEF Frames
<1> QED
  BY <1>1, Appended DEF SendDown

LEMMA Taken ==
  ASSUME Types, down # <<>>, down' = Tail(down)
  PROVE  /\ Len(down) \in Nat \ {0} /\ Head(down) = down[1] /\ Len(down') = Len(down) - 1
         /\ \A i \in 1..Len(down') : i + 1 \in 1..Len(down) /\ down'[i] = down[i + 1]
<1>1. down \in Seq(Frames)
  BY DEF Types
<1> HIDE DEF Frames
<1>2. /\ Len(down) \in Nat \ {0} /\ Head(down) = down[1] /\ Len(down') = Len(down) - 1
      /\ \A i \in 1..Len(down) - 1 : down'[i] = down[i + 1]
  BY <1>1, Tailed
<1> QED
  BY <1>2

LEMMA RangeStep == Types /\ Ranges /\ [Next]_vars => Ranges'
<1> SUFFICES ASSUME Types, Ranges, [Next]_vars PROVE Ranges'
  OBVIOUS
<1>1. CASE UNCHANGED vars
  BY <1>1 DEF Ranges, vars, treeVars, pipeVars, workerVars, mainVars, netVars, ghostVars
<1>2. CASE Lose
  <2>1. NetCap \in Nat /\ Len(<<>>) = 0
    BY DirSyncAssumption
  <2> QED
    BY <1>2, <2>1 DEF Lose, Fault, Ranges, treeVars, pipeVars, workerVars, mainVars
<1>3. CASE WriteTar \/ ReadTar \/ ReadTarBack \/ WriteTarFiles
  BY <1>3, DirSyncAssumption DEF Ranges, WriteTar, WalkFile, WalkSkips, WalkShort, WalkEnds,
     ReadTar, UnpackPiece, UnpackFails, UnpackEnds, ReadTarBack, ApplyPiece, ApplyFails, ApplyEnds,
     WriteTarFiles, PackFile, PackShort, PackVanished, PackGrew, PackEnds, Fault, Expects, EndOf, States,
     treeVars, pipeVars, workerVars, mainVars, netVars, ghostVars
<1>4. CASE streamOver
  <2>1. Len(up') <= NetCap
    <3>1. CASE UploadFrame \/ UploadEnd
      <4> DEFINE f == IF UploadFrame THEN Frame("intar", held["client"]) ELSE Frame("inend", None)
      <4>1. f \in Frames
        BY Parcels DEF Types
      <4>2. up' = up \/ (Len(up) < NetCap /\ up' = Append(up, f))
        BY <3>1 DEF UploadFrame, UploadEnd, SendUp
      <4>3. up \in Seq(Frames) /\ NetCap \in Nat
        BY DirSyncAssumption DEF Types
      <4> HIDE DEF f
      <4> QED
        BY <4>1, <4>2, <4>3, Appended DEF Ranges
    <3>2. CASE ~UploadFrame /\ ~UploadEnd
      BY <1>4, <3>2 DEF Ranges, streamOver, UploadRead, UploadBroken, ReadOutTar,
         ReadOutTarDone, ReadOutEnd, ReadSyncErr, ReadExit, ReadBroken, netVars
    <3> QED
      BY <3>1, <3>2
  <2>2. Len(down') <= NetCap
    <3>1. CASE ReadOutTar \/ ReadOutEnd \/ ReadExit
      <4>1. down # <<>> /\ down' = Tail(down)
        BY <3>1 DEF ReadOutTar, ReadOutEnd, ReadExit
      <4> QED
        BY <4>1, Taken, DirSyncAssumption DEF Ranges
    <3>2. CASE ~(ReadOutTar \/ ReadOutEnd \/ ReadExit)
      BY <1>4, <3>2 DEF Ranges, streamOver, UploadRead, UploadFrame, UploadBroken, UploadEnd,
         ReadOutTarDone, ReadSyncErr, ReadBroken, netVars
    <3> QED
      BY <3>1, <3>2
  <2>3. /\ UNCHANGED <<temp, sync, locked, agent, link, happened, unpack>>
        /\ gone' \in {gone, gone \cup {"up"}} /\ apply' \in {apply, "head"}
        /\ client' \in ClientStates
        /\ outcome' \in {outcome, "exit", "refused", "disconnected"}
    BY <1>4 DEF streamOver, UploadRead, UploadFrame, UploadBroken, UploadEnd, ReadOutTar,
       ReadOutTarDone, ReadOutEnd, ReadSyncErr, ReadExit, ReadBroken, ClientStates,
       treeVars, pipeVars, workerVars, netVars, ghostVars
  <2> QED
    BY <2>1, <2>2, <2>3, Parcels DEF Ranges, States
<1>5. CASE handleRunDir
  <2>1. Len(up') <= NetCap
    <3>1. up' = up \/ (up # <<>> /\ up' = Tail(up))
      BY <1>5 DEF handleRunDir, recvTree, RecvPiece, RecvPut, RecvEnd, RecvBroken, RecvDone, Start, StartUnseen,
         CommandEnds, Diff, sendTree, MirrorRead, MirrorFrame, MirrorBroken, MirrorEnd, SendExit,
         Report, ReturnFromRun, netVars
    <3>2. up \in Seq(Frames) /\ NetCap \in Nat
      BY DirSyncAssumption DEF Types
    <3> HIDE DEF Frames
    <3> QED
      BY <3>1, <3>2, Tailed DEF Ranges
  <2>2. Len(down') <= NetCap
    <3>1. down' = down \/ \E f \in Frames : SendDown(f)
      <4>1. Frame("outtar", held["agent"]) \in Frames
        BY Parcels DEF Types
      <4>2. \A t \in {"outend", "exit", "refused"} : Frame(t, None) \in Frames
        BY Parcels
      <4> HIDE DEF Frames
      <4> QED
        BY <1>5, <4>1, <4>2 DEF handleRunDir, recvTree, RecvPiece, RecvPut, RecvEnd, RecvBroken,
           RecvDone, Start, StartUnseen, CommandEnds, Diff, sendTree, MirrorRead, MirrorFrame, MirrorBroken,
           MirrorEnd, SendExit, Report, ReturnFromRun, netVars
    <3> QED
      BY <3>1, Sent, DirSyncAssumption DEF Ranges
  <2>3. /\ UNCHANGED <<sync, client, link, outcome, gone, apply>>
        /\ temp' \in {temp, FALSE} /\ agent' \in AgentStates
        /\ unpack' \in {unpack, "failed"}
        /\ happened' = happened \/ \E f \in Faults : happened' = happened \cup {f}
    BY <1>5 DEF handleRunDir, recvTree, RecvPiece, RecvPut, RecvEnd, RecvBroken, RecvDone, Start, StartUnseen,
       CommandEnds, Diff, sendTree, MirrorRead, MirrorFrame, MirrorBroken, MirrorEnd, SendExit,
       Report, ReturnFromRun, Fault, AgentStates, treeVars, pipeVars, workerVars, mainVars, netVars,
       ghostVars
  <2>4. locked' \subseteq Files
    BY <1>5 DEF handleRunDir, recvTree, RecvPiece, RecvPut, RecvEnd, RecvBroken, RecvDone, Start, StartUnseen,
       CommandEnds, Diff, sendTree, MirrorRead, MirrorFrame, MirrorBroken, MirrorEnd, SendExit,
       Report, ReturnFromRun, treeVars, Ranges
  <2> QED
    BY ZenonT(40), <2>1, <2>2, <2>3, <2>4 DEF Ranges, States
<1> QED
  BY <1>1, <1>2, <1>3, <1>4, <1>5 DEF Next

\* A step of the pieces' and the frames' owners keeps them in order.
LEMMA ReplyStep ==
  Types /\ Stages /\ Ranges /\ Pipelines /\ Outcomes /\ Replies /\ [Next]_vars => Replies'
<1> SUFFICES ASSUME Types, Stages, Ranges, Pipelines, Outcomes, Replies, [Next]_vars PROVE Replies'
  OBVIOUS
<1> USE Parcels DEF Types
<1>0. ASSUME UNCHANGED <<down, agent, link, pack>>,
             pipe'["out"].piece = pipe["out"].piece, held'["agent"] = held["agent"]
      PROVE  Replies'
  BY <1>0 DEF Replies, AllTar, Early, Receiving, Busy
<1>1. CASE UNCHANGED vars
  BY <1>0, <1>1 DEF vars, pipeVars, workerVars, mainVars, netVars
<1>2. CASE WriteTar
  <2>1. pipe'["out"].piece = pipe["out"].piece
    BY <1>2, Piping, Archived DEF WriteTar, WalkFile, WalkSkips, WalkShort, WalkEnds, pipeVars
  <2> QED
    BY <1>0, <1>2, <2>1 DEF WriteTar, WalkFile, WalkSkips, WalkShort, WalkEnds, mainVars, netVars
<1>3. CASE ReadTar \/ ReadTarBack
  <2>1. pipe'["out"] = pipe["out"]
    BY <1>3, Piping DEF ReadTar, UnpackPiece, UnpackFails, UnpackEnds, ReadTarBack, ApplyPiece,
       ApplyFails, ApplyEnds, pipeVars
  <2> QED
    BY <1>0, <1>3, <2>1 DEF ReadTar, UnpackPiece, UnpackFails, UnpackEnds, ReadTarBack, ApplyPiece,
       ApplyFails, ApplyEnds, mainVars, netVars
<1>4. CASE WriteTarFiles
  <2>1. UNCHANGED <<down, agent, link, held>> /\ agent \notin {"recv", "put", "errc"}
    BY <1>4 DEF WriteTarFiles, PackFile, PackShort, PackVanished, PackGrew, PackEnds, mainVars, netVars, Stages, Early, Receiving
  <2>2. agent \in Over \cup {"end", "report"} /\ link = "up" => pack' = <<>> /\ ~Busy("out")'
    <3>1. CASE PackEnds
      BY <3>1 DEF PackEnds, Over
    <3>2. CASE PackFile \/ PackShort \/ PackVanished \/ PackGrew
      BY <3>2 DEF PackFile, PackShort, PackVanished, PackGrew, Replies
    <3> QED
      BY <1>4, <3>1, <3>2 DEF WriteTarFiles, Over, Busy
  <2> QED
    BY <2>1, <2>2 DEF Replies, AllTar, Early, Receiving
<1>5. CASE streamOver
  <2>1. UNCHANGED <<agent, link, pack>> /\ held'["agent"] = held["agent"]
    BY <1>5 DEF streamOver, UploadRead, UploadFrame, UploadBroken, UploadEnd, ReadOutTar,
       ReadOutTarDone, ReadOutEnd, ReadSyncErr, ReadExit, ReadBroken, workerVars, netVars
  <2>2. pipe'["out"].piece = pipe["out"].piece
    <3>1. down # <<>> => Head(down).piece \in Pieces
      BY Queued
    <3> QED
      BY <1>5, <3>1, Piping DEF streamOver, UploadRead, UploadFrame, UploadBroken, UploadEnd,
         ReadOutTar, ReadOutTarDone, ReadOutEnd, ReadSyncErr, ReadExit, ReadBroken, pipeVars
  <2>3. down' = down \/ (down # <<>> /\ down' = Tail(down))
    BY <1>5 DEF streamOver, UploadRead, UploadFrame, UploadBroken, UploadEnd, ReadOutTar,
       ReadOutTarDone, ReadOutEnd, ReadSyncErr, ReadExit, ReadBroken, netVars
  <2>4. CASE down # <<>> /\ down' = Tail(down)
    <3>1. /\ Len(down) \in Nat \ {0} /\ Len(down') = Len(down) - 1
          /\ \A i \in 1..Len(down') : i + 1 \in 1..Len(down) /\ down'[i] = down[i + 1]
      BY <2>4, Taken
    <3>2. \A i, j \in 1..Len(down') : i < j =>
            /\ down'[i].type \notin {"exit", "refused"}
            /\ down'[j].type = "outtar" => down'[i].type = "outtar"
      <4> SUFFICES ASSUME NEW i \in 1..Len(down'), NEW j \in 1..Len(down'), i < j
                   PROVE  /\ down'[i].type \notin {"exit", "refused"}
                          /\ down'[j].type = "outtar" => down'[i].type = "outtar"
        OBVIOUS
      <4>1. PICK k \in 1..Len(down), l \in 1..Len(down) :
              k < l /\ down'[i] = down[k] /\ down'[j] = down[l]
        <5>1. i + 1 \in 1..Len(down) /\ down'[i] = down[i + 1]
          BY <3>1
        <5>2. j + 1 \in 1..Len(down) /\ down'[j] = down[j + 1]
          BY <3>1
        <5>3. i + 1 < j + 1
          BY <3>1
        <5> QED
          BY <5>1, <5>2, <5>3
      <4>2. /\ down[k].type \notin {"exit", "refused"}
            /\ down[l].type = "outtar" => down[k].type = "outtar"
        BY <4>1 DEF Replies
      <4> QED
        BY <4>1, <4>2
    <3>3. /\ \A i \in 1..Len(down') : down'[i].type \in {"exit", "refused"} =>
                agent' \in {"return", "closed"}
          /\ agent' \in {"read", "frame", "end"} => AllTar'
      <4>1. \A i \in 1..Len(down') : \E k \in 1..Len(down) : down'[i] = down[k]
        BY <3>1
      <4>2. /\ \A i \in 1..Len(down) : down[i].type \in {"exit", "refused"} =>
                  agent \in {"return", "closed"}
            /\ agent \in {"read", "frame", "end"} =>
                  \A i \in 1..Len(down) : down[i].type = "outtar"
        BY DEF Replies, AllTar
      <4>3. ASSUME NEW i \in 1..Len(down')
            PROVE  /\ down'[i].type \in {"exit", "refused"} => agent' \in {"return", "closed"}
                   /\ agent' \in {"read", "frame", "end"} => down'[i].type = "outtar"
        <5>1. PICK k \in 1..Len(down) : down'[i] = down[k]
          BY <4>1
        <5> QED
          BY <2>1, <4>2, <5>1
      <4> QED
        BY <4>3 DEF AllTar
    <3>4. ~Early' /\ agent' # "report" /\ link' # "lost"
      BY <2>1, <2>4 DEF Replies, Early, Receiving
    <3>5. /\ agent' = "frame" <=> held'["agent"] # None
      BY <2>1 DEF Replies
    <3>6. agent' \in Over \cup {"end", "report"} /\ link' = "up" => pack' = <<>> /\ ~Busy("out")'
      BY <2>1, <2>2 DEF Replies, Busy
    <3> QED
      BY <3>2, <3>3, <3>4, <3>5, <3>6 DEF Replies
  <2> QED
    BY <1>0, <2>1, <2>2, <2>3, <2>4
<1>6. CASE recvTree \/ Start \/ StartUnseen \/ CommandEnds
  <2>1. Early /\ UNCHANGED <<down, link, pack>> /\ held'["agent"] = held["agent"]
    BY <1>6 DEF recvTree, RecvPiece, RecvPut, RecvEnd, RecvBroken, RecvDone, Start, StartUnseen, CommandEnds,
       workerVars, netVars, Early, Receiving
  <2>2. pipe'["out"].piece = pipe["out"].piece
    <3>1. up # <<>> => Head(up).piece \in Pieces
      BY Queued
    <3> QED
      BY <1>6, <3>1, Piping DEF recvTree, RecvPiece, RecvPut, RecvEnd, RecvBroken, RecvDone,
         Start, StartUnseen, CommandEnds, pipeVars
  <2>3. agent' \in {"recv", "put", "errc", "start", "run", "diff", "report"}
    BY <1>6 DEF recvTree, RecvPiece, RecvPut, RecvEnd, RecvBroken, RecvDone, Start, StartUnseen, CommandEnds
  <2>4. /\ down = <<>> /\ Len(down) = 0 /\ pack = <<>> /\ held["agent"] = None
        /\ pipe["out"].piece = None
    BY <2>1 DEF Stages
  <2> QED
    BY <2>1, <2>2, <2>3, <2>4 DEF Replies, AllTar, Over, Early, Receiving, Busy
<1>7. CASE Diff
  <2>1. /\ Early /\ UNCHANGED <<down, link, held, pipe>> /\ agent' \in {"read", "exit"}
        /\ agent' = "exit" => pack' = pack
    BY <1>7 DEF Diff, netVars, pipeVars, Early
  <2>2. /\ down = <<>> /\ Len(down) = 0 /\ pack = <<>> /\ held["agent"] = None
        /\ pipe["out"].piece = None
    BY <2>1 DEF Stages
  <2> QED
    BY <2>1, <2>2 DEF Replies, AllTar, Over, Early, Receiving, Busy
<1>8. CASE MirrorRead
  <2>1. /\ agent = "read" /\ UNCHANGED <<down, link, pack>>
        /\ \/ agent' = "frame" /\ pipe["out"].piece # None
              /\ held'["agent"] = pipe["out"].piece
           \/ /\ agent' = "end" /\ pipe["out"].closed /\ pipe' = pipe /\ held' = held
    BY <1>8 DEF MirrorRead, Busy, AtEnd, netVars, workerVars
  <2>2. agent' = "end" => pack' = <<>> /\ ~Busy("out")'
    BY <2>1 DEF Pipelines, Busy
  <2> QED
    BY <2>1, <2>2 DEF Replies, AllTar, Over, Early, Receiving
<1>9. CASE MirrorFrame \/ MirrorEnd \/ SendExit \/ Report
  <2> DEFINE f == IF agent = "frame" THEN Frame("outtar", held["agent"])
                  ELSE IF agent = "end" THEN Frame("outend", None)
                  ELSE IF agent = "exit" THEN Frame("exit", None)
                  ELSE Frame("refused", None)
  <2>1. /\ UNCHANGED <<pipe, pack, link>> /\ f \in Frames
        /\ SendDown(f)
        /\ held'["agent"] = IF agent = "frame" THEN None ELSE held["agent"]
        /\ \/ agent = "frame" /\ agent' = "read" /\ f.type = "outtar"
           \/ agent = "end" /\ agent' = "exit" /\ f.type = "outend"
           \/ agent = "exit" /\ agent' = "return" /\ f.type = "exit"
           \/ agent = "report" /\ agent' = "return" /\ f.type = "refused"
    <3>1. CASE MirrorFrame
      BY <3>1 DEF MirrorFrame, Frame, Frames, pipeVars, workerVars
    <3>2. CASE MirrorEnd
      BY <3>2 DEF MirrorEnd, Frame, Frames, pipeVars, workerVars
    <3>3. CASE SendExit
      BY <3>3 DEF SendExit, Frame, Frames, pipeVars, workerVars
    <3>4. CASE Report
      BY <3>4 DEF Report, Frame, Frames, pipeVars, workerVars
    <3> QED
      BY <1>9, <3>1, <3>2, <3>3, <3>4
  <2> HIDE DEF f
  <2>2. CASE link # "up"
    <3>1. down' = down
      BY <2>1, <2>2, Sent
    <3> QED
      BY <2>1, <2>2, <3>1 DEF Replies, AllTar, Over, Early, Receiving, Busy
  <2>3. CASE link = "up"
    <3>1. /\ Len(down) \in Nat /\ Len(down') = Len(down) + 1
          /\ down'[Len(down) + 1] = f /\ \A i \in 1..Len(down) : down'[i] = down[i]
      BY <2>1, <2>3, Sent
    <3>2. /\ \A i \in 1..Len(down) : down[i].type \notin {"exit", "refused"}
          /\ agent = "frame" => AllTar
      BY <2>1 DEF Replies
    <3>3. ASSUME NEW i \in 1..Len(down'), NEW j \in 1..Len(down'), i < j
          PROVE  /\ down'[i].type \notin {"exit", "refused"}
                 /\ down'[j].type = "outtar" => down'[i].type = "outtar"
      <4>1. i \in 1..Len(down)
        BY <3>1, <3>3
      <4>2. CASE j \in 1..Len(down)
        <5>1. /\ down[i].type \notin {"exit", "refused"}
              /\ down[j].type = "outtar" => down[i].type = "outtar"
          BY <3>3, <4>1, <4>2 DEF Replies
        <5> QED
          BY <3>1, <4>1, <4>2, <5>1
      <4>3. CASE j = Len(down) + 1
        BY <2>1, <3>1, <3>2, <4>1, <4>3 DEF AllTar
      <4> QED
        BY <3>1, <4>2, <4>3
    <3>4. \A i \in 1..Len(down') : down'[i].type \in {"exit", "refused"} => agent' = "return"
      <4> SUFFICES ASSUME NEW i \in 1..Len(down'), down'[i].type \in {"exit", "refused"}
                   PROVE  agent' = "return"
        OBVIOUS
      <4>1. i = Len(down) + 1
        BY <3>1, <3>2
      <4> QED
        BY <2>1, <3>1, <4>1
    <3>5. agent' = "read" => AllTar'
      <4> SUFFICES ASSUME agent' = "read", NEW i \in 1..Len(down')
                   PROVE  down'[i].type = "outtar"
        BY DEF AllTar
      <4>1. agent = "frame" /\ f.type = "outtar" /\ AllTar
        BY <2>1, <3>2
      <4>2. CASE i \in 1..Len(down)
        BY <3>1, <4>1, <4>2 DEF AllTar
      <4>3. CASE i = Len(down) + 1
        BY <3>1, <4>1, <4>3
      <4> QED
        BY <3>1, <4>2, <4>3
    <3>6. agent' \in Over => pack' = <<>> /\ ~Busy("out")'
      BY <2>1, <2>3 DEF Replies, Over, Busy
    <3>7. link' = "up" /\ (held'["agent"] # None <=> agent' = "frame")
      BY <2>1, <2>3 DEF Replies
    <3>8. agent' \in {"read", "exit", "return"}
      BY <2>1
    <3> QED
      BY <3>3, <3>4, <3>5, <3>6, <3>7, <3>8 DEF Replies, Over, Early, Receiving
  <2> QED
    BY <2>2, <2>3
<1>10. CASE MirrorBroken
  <2>1. /\ agent = "frame" /\ agent' = "exit" /\ UNCHANGED <<pipe, pack, link, down>>
        /\ held'["agent"] = None /\ (link = "lost" \/ client = "done")
    BY <1>10 DEF MirrorBroken, pipeVars, workerVars, netVars
  <2>2. link # "up"
    BY <2>1 DEF Outcomes, Ranges
  <2> QED
    BY <2>1, <2>2 DEF Replies, AllTar, Early, Receiving
<1>11. CASE ReturnFromRun
  BY <1>11 DEF ReturnFromRun, Replies, AllTar, Over, Early, Receiving, Busy, pipeVars, workerVars, netVars
<1>12. CASE Lose
  <2>1. /\ link' = "lost" /\ down' = <<>> /\ Len(down') = 0
        /\ UNCHANGED <<agent, pack, held, pipe>>
    BY <1>12 DEF Lose, pipeVars, workerVars, mainVars
  <2> QED
    BY <2>1 DEF Replies, AllTar, Early, Receiving
<1> QED
  BY <1>1, <1>2, <1>3, <1>4, <1>5, <1>6, <1>7, <1>8, <1>9, <1>10, <1>11, <1>12
     DEF Next, handleRunDir, sendTree

\* Whoever closes a pipe has nothing left to write into it.
LEMMA PipelineStep ==
  Types /\ Ranges /\ Replies /\ Pipelines /\ [Next]_vars => Pipelines'
<1> SUFFICES ASSUME Types, Ranges, Replies, Pipelines, [Next]_vars PROVE Pipelines'
  OBVIOUS
<1> USE Parcels DEF Types
<1>0. ASSUME UNCHANGED <<agent, client, pack, down, apply>>,
             \A p \in Pipes \ {"up"} : pipe'[p] = pipe[p]
      PROVE  Pipelines'
  BY <1>0 DEF Pipelines, NoTar, Early, Receiving, Busy, Reading
<1>1. CASE UNCHANGED vars
  BY <1>0, <1>1 DEF vars, pipeVars, workerVars, mainVars, netVars
<1>2. CASE WriteTar
  <2>1. \A p \in Pipes \ {"up"} : pipe'[p] = pipe[p]
    BY <1>2, Piping, Closing, Archived DEF WriteTar, WalkFile, WalkSkips, WalkShort, WalkEnds, pipeVars
  <2> QED
    BY <1>0, <1>2, <2>1 DEF WriteTar, WalkFile, WalkSkips, WalkShort, WalkEnds, mainVars, netVars
<1>3. CASE ReadTar
  <2>1. /\ pipe'["in"].piece \in {None, pipe["in"].piece} /\ pipe'["in"].closed = pipe["in"].closed
        /\ pipe'["out"] = pipe["out"] /\ pipe'["sync"] = pipe["sync"]
    BY <1>3, Piping, Closing DEF ReadTar, UnpackPiece, UnpackFails, UnpackEnds, pipeVars
  <2>2. UNCHANGED <<agent, client, pack, down, apply>>
    BY <1>3 DEF ReadTar, UnpackPiece, UnpackFails, UnpackEnds, mainVars, netVars
  <2> QED
    BY <2>1, <2>2 DEF Pipelines, NoTar, Early, Receiving, Busy, Reading
<1>4. CASE ReadTarBack
  <2>1. /\ pipe'["sync"].piece \in {None, pipe["sync"].piece}
        /\ pipe'["sync"].closed = pipe["sync"].closed
        /\ pipe'["out"] = pipe["out"] /\ pipe'["in"] = pipe["in"]
    BY <1>4, Piping, Closing DEF ReadTarBack, ApplyPiece, ApplyFails, ApplyEnds, pipeVars
  <2>2. UNCHANGED <<agent, client, pack, down>>
    BY <1>4 DEF ReadTarBack, ApplyPiece, ApplyFails, ApplyEnds, mainVars, netVars
  <2>3. pipe["sync"].closed => ~Reading(apply')
    BY <1>4 DEF ReadTarBack, ApplyPiece, ApplyFails, ApplyEnds, EndOf, Reading, Busy, Pipelines
  <2> QED
    BY <2>1, <2>2, <2>3 DEF Pipelines, NoTar, Early, Receiving, Busy, Reading
<1>5. CASE WriteTarFiles
  <2>1. UNCHANGED <<agent, client, down, apply>>
    BY <1>5 DEF WriteTarFiles, PackFile, PackShort, PackVanished, PackGrew, PackEnds, mainVars, netVars, workerVars
  <2>2. pipe'["in"] = pipe["in"] /\ pipe'["sync"] = pipe["sync"]
    BY <1>5, Piping, Closing, Archived DEF WriteTarFiles, PackFile, PackShort, PackVanished, PackGrew, PackEnds, pipeVars
  <2>3. pipe'["out"].closed => pack' = <<>> /\ ~Busy("out")' /\ ~Early'
    <3>1. CASE PackFile
      <4>1. pipe'["out"].closed = pipe["out"].closed /\ pack # <<>>
        BY <3>1, Closing, Archived DEF PackFile
      <4> QED
        BY <4>1 DEF Pipelines
    <3>4. CASE PackGrew
      <4>1. pipe'["out"].closed = pipe["out"].closed /\ pack # <<>>
        BY <3>4, Closing, Archived DEF PackGrew
      <4> QED
        BY <4>1 DEF Pipelines
    <3>2. CASE PackShort \/ PackVanished
      BY <3>2 DEF PackShort, PackVanished, Pipelines, pipeVars
    <3>3. CASE PackEnds
      <4>1. pipe'["out"].piece = None /\ pack' = <<>> /\ agent' \in {"read", "frame"}
        BY <3>3, Piping DEF PackEnds, Busy, workerVars, mainVars
      <4> QED
        BY <4>1 DEF Early, Receiving, Busy
    <3> QED
      BY <1>5, <3>1, <3>2, <3>3, <3>4 DEF WriteTarFiles
  <2> QED
    BY <2>1, <2>2, <2>3 DEF Pipelines, NoTar, Early, Receiving, Busy, Reading
<1>6. CASE UploadRead \/ UploadFrame \/ UploadBroken \/ UploadEnd
  <2>1. /\ UNCHANGED <<agent, pack, down, apply>> /\ client \in {"upload", "frame", "end"}
    BY <1>6 DEF UploadRead, UploadFrame, UploadBroken, UploadEnd, workerVars, netVars
  <2>2. \A p \in Pipes \ {"up"} : pipe'[p] = pipe[p]
    BY <1>6, Piping DEF UploadRead, UploadFrame, UploadBroken, UploadEnd, pipeVars
  <2>3. ~Busy("sync")' /\ ~pipe'["sync"].closed
    BY <2>1, <2>2 DEF Pipelines, Busy
  <2> QED
    BY <2>1, <2>2, <2>3 DEF Pipelines, Early, Receiving, Busy
<1>7. CASE ReadOutTar
  <2>1. /\ UNCHANGED <<agent, pack>> /\ client' = "apply" /\ down # <<>>
        /\ Head(down).type = "outtar" /\ Write("sync", Head(down).piece)
    BY <1>7 DEF ReadOutTar, workerVars, netVars
  <2>2. /\ pipe'["in"] = pipe["in"] /\ pipe'["out"] = pipe["out"]
        /\ pipe'["sync"].closed = pipe["sync"].closed
    BY <2>1, Queued, Piping, Closing
  <2>3. ~NoTar
    BY <1>7, <2>1, Tailed DEF NoTar
  <2> QED
    BY <2>1, <2>2, <2>3 DEF Pipelines, Early, Receiving, Busy
<1>8. CASE ReadOutTarDone \/ ReadSyncErr
  <2>1. /\ UNCHANGED <<agent, pack, down, apply, pipe>> /\ client' = "run"
        /\ \/ client = "apply" /\ ~Busy("sync")
           \/ client = "wait" /\ ~Reading(apply)
    BY <1>8 DEF ReadOutTarDone, ReadSyncErr, workerVars, netVars, pipeVars
  <2> QED
    BY <2>1 DEF Pipelines, NoTar, Early, Receiving, Busy, Reading
<1>9. CASE ReadOutEnd
  <2>1. /\ UNCHANGED <<agent, pack, apply>> /\ client = "run" /\ client' = "wait" /\ down # <<>>
        /\ Head(down).type = "outend" /\ Close("sync") /\ down' = Tail(down)
    BY <1>9 DEF ReadOutEnd, workerVars, netVars
  <2>2. /\ pipe'["in"] = pipe["in"] /\ pipe'["out"] = pipe["out"]
        /\ pipe'["sync"].piece = pipe["sync"].piece
    BY <2>1, Piping, Closing
  <2>3. /\ Len(down) \in Nat \ {0} /\ down[1].type = "outend" /\ 1 \in 1..Len(down)
        /\ \A i \in 1..Len(down') : i + 1 \in 1..Len(down) /\ 1 < i + 1 /\ down'[i] = down[i + 1]
    BY <2>1, Taken
  <2>4. agent \in Over
    <3>1. agent \notin {"read", "frame", "end"}
      BY <2>3 DEF Replies, AllTar
    <3>2. ~Early /\ agent # "report"
      BY <2>1 DEF Replies
    <3>3. agent \in AgentStates
      BY DEF Ranges
    <3> QED
      BY <3>1, <3>2, <3>3 DEF Over, Early, Receiving, AgentStates
  <2>5. NoTar'
    <3> SUFFICES ASSUME NEW i \in 1..Len(down') PROVE down'[i].type # "outtar"
      BY DEF NoTar
    <3>1. PICK k \in 1..Len(down) : 1 < k /\ down'[i] = down[k]
      BY <2>3
    <3>2. down[k].type = "outtar" => down[1].type = "outtar"
      BY <2>3, <3>1 DEF Replies
    <3> QED
      BY <2>3, <3>1, <3>2
  <2> QED
    BY <2>1, <2>2, <2>4, <2>5 DEF Pipelines, Early, Receiving, Busy
<1>10. CASE ReadExit \/ ReadBroken
  <2>1. /\ UNCHANGED <<agent, pack, apply, pipe>> /\ client = "run" /\ client' = "done"
        /\ down' = down \/ (down # <<>> /\ down' = Tail(down))
    BY <1>10 DEF ReadExit, ReadBroken, workerVars, netVars, pipeVars
  <2>2. NoTar => NoTar'
    <3> SUFFICES ASSUME NoTar, NEW i \in 1..Len(down') PROVE down'[i].type # "outtar"
      BY DEF NoTar
    <3>1. PICK k \in 1..Len(down) : down'[i] = down[k]
      BY <2>1, Taken
    <3> QED
      BY <3>1 DEF NoTar
  <2> QED
    BY <2>1, <2>2 DEF Pipelines, Early, Receiving, Busy, Reading
<1>11. CASE recvTree
  <2>1. UNCHANGED <<client, pack, down, apply>> /\ Early /\ agent \notin Over
    BY <1>11 DEF recvTree, RecvPiece, RecvPut, RecvEnd, RecvBroken, RecvDone, workerVars, netVars,
       Early, Receiving, Over
  <2>2. pipe'["out"] = pipe["out"] /\ pipe'["sync"] = pipe["sync"]
    <3>1. up # <<>> => Head(up).piece \in Pieces
      BY Queued
    <3> QED
      BY <1>11, <3>1, Piping, Closing DEF recvTree, RecvPiece, RecvPut, RecvEnd, RecvBroken, RecvDone,
         pipeVars
  <2>3. ~pipe["out"].closed /\ ~pipe["sync"].closed
    BY <2>1 DEF Pipelines
  <2>4. /\ agent' \in {"recv", "put"} => ~pipe'["in"].closed
        /\ agent' = "recv" \/ pipe'["in"].closed => ~Busy("in")'
    <3>1. CASE RecvPiece
      <4>1. agent' = "put" /\ pipe'["in"].closed = pipe["in"].closed /\ agent = "recv"
        BY <3>1, Queued, Closing DEF RecvPiece
      <4> QED
        BY <4>1 DEF Pipelines
    <3>2. CASE RecvEnd
      <4>1. agent' = "errc" /\ pipe'["in"].piece = pipe["in"].piece /\ agent = "recv"
        BY <3>2, Piping DEF RecvEnd
      <4> QED
        BY <4>1 DEF Pipelines, Busy
    <3>3. CASE RecvPut \/ RecvBroken \/ RecvDone
      BY <3>3 DEF RecvPut, RecvBroken, RecvDone, Pipelines, Busy, pipeVars
    <3> QED
      BY <1>11, <3>1, <3>2, <3>3 DEF recvTree
  <2> QED
    BY <2>1, <2>2, <2>3, <2>4 DEF Pipelines, Busy
<1>12. CASE Start \/ StartUnseen \/ CommandEnds \/ Diff
  <2>1. UNCHANGED <<client, down, apply, pipe>> /\ Early /\ agent \notin Over
    BY <1>12 DEF Start, StartUnseen, CommandEnds, Diff, workerVars, netVars, pipeVars, Early, Receiving, Over
  <2>2. ~pipe["out"].closed /\ ~pipe["sync"].closed /\ agent' \notin {"recv", "put"}
    BY <1>12, <2>1 DEF Pipelines, Start, StartUnseen, CommandEnds, Diff
  <2> QED
    BY <2>1, <2>2 DEF Pipelines, Busy
<1>13. CASE sendTree \/ Report
  <2>1. /\ UNCHANGED <<client, pack, apply>> /\ pipe'["in"] = pipe["in"]
        /\ pipe'["sync"] = pipe["sync"] /\ pipe'["out"].piece \in {None, pipe["out"].piece}
        /\ pipe'["out"].closed = pipe["out"].closed
    BY <1>13, Piping, Closing DEF sendTree, MirrorRead, MirrorFrame, MirrorBroken, MirrorEnd, Report,
       workerVars, netVars, pipeVars
  <2>2. agent \notin Over /\ agent' \in {"read", "frame", "end", "exit", "return"}
    BY <1>13 DEF sendTree, MirrorRead, MirrorFrame, MirrorBroken, MirrorEnd, Report, Over
  <2> QED
    BY <2>1, <2>2 DEF Pipelines, Early, Receiving, Busy
<1>14. CASE SendExit
  <2>1. /\ UNCHANGED <<client, pack, apply, pipe>> /\ agent' = "return"
        /\ SendDown(Frame("exit", None)) /\ agent = "exit"
    BY <1>14 DEF SendExit, workerVars, pipeVars
  <2>2. Frame("exit", None) \in Frames /\ Frame("exit", None).type = "exit"
    BY DEF Frame
  <2>3. NoTar => NoTar'
    <3>1. down' = down \/ (/\ Len(down) \in Nat /\ Len(down') = Len(down) + 1
                          /\ down'[Len(down) + 1].type = "exit"
                          /\ \A i \in 1..Len(down) : down'[i] = down[i])
      BY <2>1, <2>2, Sent
    <3>2. CASE down' = down
      BY <3>2 DEF NoTar
    <3>3. CASE down' # down
      <4>1. \A i \in 1..Len(down') : i \in 1..Len(down) \/ i = Len(down) + 1
        BY <3>1, <3>3
      <4> QED
        <5> SUFFICES ASSUME NoTar, NEW i \in 1..Len(down') PROVE down'[i].type # "outtar"
          BY DEF NoTar
        <5>1. CASE i \in 1..Len(down)
          BY <3>1, <3>3, <5>1 DEF NoTar
        <5>2. CASE i = Len(down) + 1
          BY <3>1, <3>3, <5>2
        <5> QED
          BY <4>1, <5>1, <5>2
    <3> QED
      BY <3>2, <3>3
  <2> QED
    BY <2>1, <2>3 DEF Pipelines, Over, Early, Receiving, Busy, Reading
<1>15. CASE ReturnFromRun
  BY <1>15 DEF ReturnFromRun, Pipelines, NoTar, Over, Early, Receiving, Busy, Reading, pipeVars,
     workerVars, netVars
<1>16. CASE Lose
  <2>1. down' = <<>> /\ Len(down') = 0 /\ UNCHANGED <<agent, client, pack, apply, pipe>>
    BY <1>16 DEF Lose, pipeVars, workerVars, mainVars
  <2> QED
    BY <2>1 DEF Pipelines, NoTar, Early, Receiving, Busy, Reading
<1> QED
  BY <1>1, <1>2, <1>3, <1>4, <1>5, <1>6, <1>7, <1>8, <1>9, <1>10, <1>11, <1>12, <1>13, <1>14,
     <1>15, <1>16 DEF Next, streamOver, handleRunDir

\* The answer is the last frame, and only a lost connection or a closed one is
\* taken for none.
LEMMA OutcomeStep ==
  Types /\ Ranges /\ Replies /\ Outcomes /\ [Next]_vars => Outcomes'
<1> SUFFICES ASSUME Types, Ranges, Replies, Outcomes, [Next]_vars PROVE Outcomes'
  OBVIOUS
<1> USE DEF Types
<1>0. ASSUME UNCHANGED <<client, outcome, link, down, agent>> PROVE Outcomes'
  BY <1>0 DEF Outcomes
<1>1. CASE UNCHANGED vars
  BY <1>0, <1>1 DEF vars, mainVars, netVars
<1>2. CASE WriteTar \/ ReadTar \/ ReadTarBack \/ WriteTarFiles
  BY <1>0, <1>2 DEF WriteTar, WalkFile, WalkSkips, WalkShort, WalkEnds, ReadTar, UnpackPiece,
     UnpackFails, UnpackEnds, ReadTarBack, ApplyPiece, ApplyFails, ApplyEnds, WriteTarFiles, PackFile,
     PackShort, PackVanished, PackGrew, PackEnds, mainVars, netVars
<1>3. CASE streamOver /\ ~ReadExit /\ ~ReadBroken
  <2>1. UNCHANGED <<agent, link, outcome>> /\ client # "done" /\ client' # "done"
    BY <1>3 DEF streamOver, UploadRead, UploadFrame, UploadBroken, UploadEnd, ReadOutTar,
       ReadOutTarDone, ReadOutEnd, ReadSyncErr, netVars
  <2> QED
    BY <2>1 DEF Outcomes
<1>4. CASE ReadExit
  <2>1. /\ down # <<>> /\ down' = Tail(down) /\ Head(down).type \in {"exit", "refused"}
        /\ outcome' = Head(down).type /\ client' = "done" /\ UNCHANGED <<agent, link>>
    BY <1>4 DEF ReadExit
  <2>2. Len(down) \in Nat \ {0} /\ Head(down) = down[1] /\ 1 \in 1..Len(down)
    BY <2>1, Taken
  <2>3. ~(2 \in 1..Len(down))
    <3>1. \A j \in 1..Len(down) : 1 < j => down[1].type \notin {"exit", "refused"}
      BY <2>2 DEF Replies
    <3> QED
      BY <2>1, <2>2, <3>1
  <2>4. down' = <<>>
    <3>1. Len(down) = 1
      <4>1. \A n \in Nat \ {0} : ~(2 \in 1..n) => n = 1
        OBVIOUS
      <4> QED
        BY <2>2, <2>3, <4>1
    <3>2. down \in Seq(Frames)
      OBVIOUS
    <3> QED
      BY <2>1, <3>1, <3>2, Tailed
  <2>5. agent \in {"return", "closed"} /\ link = "up"
    BY <2>1, <2>2 DEF Replies, Ranges
  <2> QED
    BY <2>1, <2>4, <2>5 DEF Outcomes
<1>5. CASE ReadBroken
  BY <1>5 DEF ReadBroken, DownGone, Outcomes, netVars
<1>6. CASE handleRunDir
  <2>1. UNCHANGED <<client, outcome, link>>
    BY <1>6 DEF handleRunDir, recvTree, RecvPiece, RecvPut, RecvEnd, RecvBroken, RecvDone, Start, StartUnseen,
       CommandEnds, Diff, sendTree, MirrorRead, MirrorFrame, MirrorBroken, MirrorEnd, SendExit,
       Report, ReturnFromRun, mainVars, netVars
  <2>2. agent # "closed" /\ (agent = "return" => agent' = "closed" /\ down' = down)
    BY <1>6 DEF handleRunDir, recvTree, RecvPiece, RecvPut, RecvEnd, RecvBroken, RecvDone, Start, StartUnseen,
       CommandEnds, Diff, sendTree, MirrorRead, MirrorFrame, MirrorBroken, MirrorEnd, SendExit,
       Report, ReturnFromRun, netVars
  <2> QED
    BY <2>1, <2>2 DEF Outcomes
<1>7. CASE Lose
  <2>1. link' = "lost" /\ outcome = "none" /\ UNCHANGED <<client, outcome, agent>>
    BY <1>7 DEF Lose, mainVars, Outcomes
  <2> QED
    BY <2>1 DEF Outcomes
<1> QED
  BY <1>1, <1>2, <1>3, <1>4, <1>5, <1>6, <1>7 DEF Next

LEMMA InitBounds == Init => Bounds
<1> SUFFICES ASSUME Init PROVE Bounds
  OBVIOUS
<1>1. /\ \A p \in Pipes : pipe[p] = [piece |-> None, closed |-> FALSE]
      /\ held["agent"] = None /\ down = <<>> /\ Len(down) = 0 /\ Len(up) = 0 /\ pack = <<>>
      /\ agent = "recv" /\ client = "upload" /\ link = "up" /\ outcome = "none"
  BY DEF Init, Empty
<1>2. Ranges
  BY <1>1, DirSyncAssumption DEF Init, Ranges, States, ClientStates, AgentStates
<1>3. Replies
  BY <1>1 DEF Replies, AllTar, Over, Early, Receiving, Busy
<1>4. Pipelines
  BY <1>1, Parcels DEF Pipelines, NoTar, Over, Early, Receiving, Busy
<1>5. Outcomes
  BY <1>1 DEF Outcomes
<1> QED
  BY <1>2, <1>3, <1>4, <1>5 DEF Bounds

LEMMA BoundsHold == Spec => [](IInv /\ Bounds)
<1>1. Init => Bounds
  BY InitBounds
<1>2. IInv /\ Bounds /\ [Next]_vars => Bounds'
  BY RangeStep, ReplyStep, PipelineStep, OutcomeStep DEF IInv, Bounds
<1> QED
  BY <1>1, <1>2, Invariant, PTL DEF Spec

\* No frame is sent into a full connection, no pipe is closed over a piece nobody
\* has taken (io.Pipe), and everything else stays in its range.
THEOREM TypeCorrect == Spec => []TypeOK
<1>1. IInv /\ Bounds => TypeOK
  <2> SUFFICES ASSUME IInv, Bounds PROVE TypeOK
    OBVIOUS
  <2>1. Types /\ Ranges /\ Pipelines
    BY DEF IInv, Bounds
  <2>2. /\ \A p \in Pipes : pipe[p].piece \in Pieces /\ pipe[p].closed \in BOOLEAN
        /\ \A p \in Pipes \ {"up"} : pipe[p].closed => ~Busy(p)
    <3>1. \A p \in Pipes : pipe[p].piece \in Pieces /\ pipe[p].closed \in BOOLEAN
      BY <2>1, Piping, Closing DEF Types
    <3>2. \A p \in {"in", "out", "sync"} : pipe[p].closed => ~Busy(p)
      BY <2>1 DEF Pipelines
    <3> QED
      BY <3>1, <3>2, Parcels
  <2>3. /\ \A i \in DOMAIN walk : walk[i] \in Pieces
        /\ \A i \in DOMAIN pack : pack[i] \in Pieces
    <3>1. walk \in Seq(Pieces) /\ pack \in Seq(Pieces)
      BY <2>1 DEF Types
    <3> HIDE DEF Pieces
    <3> QED
      BY <3>1
  <2> QED
    BY <2>1, <2>2, <2>3 DEF TypeOK, Types, Ranges, ClientStates, AgentStates
<1> QED
  BY <1>1, BoundsHold, PTL
-----------------------------------------------------------------------------
\* The handler has a delta to send, or has sent it, over a connection that stands,
\* and nothing was left out of it in silence.
Answering ==
  /\ link = "up" /\ Delta # {} /\ happened \cap Silent = {}
  /\ \/ agent \in {"read", "frame", "end", "exit"} \/ outcome = "exit"
     \/ \E i \in 1..Len(down) : down[i].type = "exit"

Sheet == Archive(remote, Delta)
One(x) == IF x = None THEN 0 ELSE 1

\* Of the archive of the delta: how far it got with the client, its pipe and the
\* connection, the first t frames of which are the archive's, and with sendTree and
\* its pipe, when a pieces are in place.
AtSync(a) == a + One(pipe["sync"].piece)
AtDown(a, t) == AtSync(a) + t
AtHeld(a, t) == AtDown(a, t) + One(held["agent"])
AtOut(a, t) == AtHeld(a, t) + One(pipe["out"].piece)

\* Every piece up to the e-th, after which the archiver ends or broke off, is where
\* it should be.
Along(e, a, t) ==
  /\ AtOut(a, t) + Len(pack) = e
  /\ e = Len(Sheet) \/ (pack = <<>> /\ Sheet[e].part = "head")
  /\ Busy("sync") => pipe["sync"].piece = Sheet[a + 1]
  /\ \A i \in 1..Len(down) : (down[i].type = "outtar") <=> (i <= t)
  /\ \A i \in 1..t : down[i].piece = Sheet[AtSync(a) + i]
  /\ held["agent"] # None => held["agent"] = Sheet[AtDown(a, t) + 1]
  /\ Busy("out") => pipe["out"].piece = Sheet[AtHeld(a, t) + 1]
  /\ \A i \in 1..Len(pack) : pack[i] = Sheet[AtOut(a, t) + i]

\* What is in place is as the command left it, and a file that is half written
\* has the reader wait for the rest of it.
InPlace(a) ==
  /\ \A k \in 1..a : Sheet[k].part = "tail" => local[Sheet[k].file] = remote[Sheet[k].file]
  /\ a > 0 /\ Sheet[a].part = "head" => apply \in {"tail", "failed"}

Underway ==
  \E e \in 1..Len(Sheet), a \in 0..Len(Sheet), t \in 0..Len(down) : Along(e, a, t) /\ InPlace(a)
Coming == Answering => Underway

\* A reader is told the end of what it reads.
Ended ==
  Answering /\ agent \in Over =>
    pipe["sync"].closed \/ \E i \in 1..Len(down) : down[i].type = "outend"

Mirror == (locked = {} \/ "lock" \in happened) /\ Coming /\ Ended
-----------------------------------------------------------------------------
\* SetToSeq lists every member of a finite set once.
LEMMA ListingAll ==
  ASSUME NEW S, IsFiniteSet(S)
  PROVE  /\ \A i, j \in 1..Cardinality(S) : SetToSeq(S)[i] = SetToSeq(S)[j] => i = j
         /\ \A x \in S : \E i \in 1..Cardinality(S) : SetToSeq(S)[i] = x
<1> DEFINE n == Cardinality(S)
           name == SetToSeq(S)
<1>1. n \in Nat /\ ExistsBijection(1..n, S)
  BY FS_CardinalityType
<1>2. \E f \in [1..n -> S] : IsInjective(f)
  BY <1>1 DEF ExistsBijection, Bijection, Injection, IsInjective
<1>3. name \in [1..n -> S] /\ IsInjective(name)
  BY <1>2 DEF SetToSeq
<1>4. name \in Injection(1..n, S)
  BY <1>3 DEF Injection, IsInjective
<1>5. Cardinality(1..n) = n
  BY <1>1, FS_Interval
<1>6. name \in Surjection(1..n, S)
  BY <1>4, <1>5, FS_Injection
<1> QED
  BY <1>3, <1>6 DEF IsInjective, Surjection

\* An archive is a head and a tail of each of its files, and the footer.
LEMMA Sheets ==
  ASSUME NEW tree \in Trees, NEW files \in SUBSET Files
  PROVE  LET a == Archive(tree, files) IN
         /\ Len(a) \in Nat \ {0} /\ a[Len(a)].part = "footer"
         /\ \A k \in 1..Len(a) :
              /\ a[k] # None /\ a[k].part \in {"head", "tail", "footer"}
              /\ a[k].part # "footer" => a[k].file \in files /\ a[k].data = tree[a[k].file]
              /\ a[k].part = "tail" =>
                   k - 1 \in 1..Len(a) /\ a[k - 1].part = "head"
         /\ \A f \in files : \E k \in 1..Len(a) : a[k].part = "tail" /\ a[k].file = f
         /\ \A j, k \in 1..Len(a) :
              a[j].part = "head" /\ a[k].part = "tail" /\ a[j].file = a[k].file => k = j + 1
<1> DEFINE n == Cardinality(files)
           name == SetToSeq(files)
           part(k) == IF k % 2 = 1 THEN "head" ELSE "tail"
           entry(k) == Piece(name[(k + 1) \div 2], part(k), tree[name[(k + 1) \div 2]])
           a == Archive(tree, files)
<1>0. IsFiniteSet(files)
  BY FS_Subset, DirSyncAssumption
<1>1. n \in Nat /\ name \in [1..n -> files]
  BY <1>0, Listing
<1>2. /\ \A i, j \in 1..n : name[i] = name[j] => i = j
      /\ \A x \in files : \E i \in 1..n : name[i] = x
  BY <1>0, ListingAll
<1>3. a = [k \in 1..2 * n + 1 |-> IF k > 2 * n THEN Footer ELSE entry(k)]
  BY DEF Archive
<1>4. Len(a) = 2 * n + 1 /\ \A k \in 1..2 * n + 1 : a[k] = IF k > 2 * n THEN Footer ELSE entry(k)
  <2> HIDE DEF entry, a, n
  <2>1. 2 * n + 1 \in Nat
    BY <1>1
  <2> QED
    BY <1>1, <1>3, <2>1
<1>5. ASSUME NEW k \in 1..2 * n
      PROVE  /\ (k + 1) \div 2 \in 1..n
             /\ entry(k) # None /\ entry(k).part = part(k) /\ entry(k).file = name[(k + 1) \div 2]
             /\ entry(k).file \in files /\ entry(k).data = tree[entry(k).file]
  <2>1. (k + 1) \div 2 \in 1..n
    BY <1>1
  <2>2. name[(k + 1) \div 2] \in files
    BY <1>1, <2>1
  <2>3. part(k) \in {"head", "tail"}
    OBVIOUS
  <2>4. tree[name[(k + 1) \div 2]] \in Data \cup {None, Short}
    BY <2>2 DEF Trees
  <2>5. entry(k) \in [file : Nat, part : {"head", "tail", "footer"}, data : Data \cup {None, Short}]
    <3> HIDE DEF part, name
    <3> QED
      BY <2>2, <2>3, <2>4, DirSyncAssumption DEF Piece
  <2>6. entry(k) # None
    BY <2>5, DirSyncAssumption
  <2> QED
    BY <2>1, <2>2, <2>6 DEF Piece
<1>6. Footer # None /\ Footer.part = "footer"
  <2>1. Footer \in [file : Nat, part : {"head", "tail", "footer"}, data : Data \cup {None, Short}]
    BY DEF Footer, Piece
  <2> QED
    BY <2>1, DirSyncAssumption DEF Footer, Piece
<1> HIDE DEF entry, a, n, name
<1>7. ASSUME NEW k \in 1..Len(a)
      PROVE  \/ k = 2 * n + 1 /\ a[k] = Footer
             \/ k \in 1..2 * n /\ a[k] = entry(k)
  BY <1>1, <1>4
<1>8. ASSUME NEW k \in 1..Len(a), a[k].part = "tail"
      PROVE  k - 1 \in 1..Len(a) /\ a[k - 1].part = "head"
  <2>1. k \in 1..2 * n /\ k % 2 = 0
    BY <1>1, <1>5, <1>6, <1>7, <1>8
  <2>2. k - 1 \in 1..2 * n /\ (k - 1) % 2 = 1
    BY <1>1, <2>1
  <2>3. a[k - 1] = entry(k - 1) /\ entry(k - 1).part = "head"
    BY <1>1, <1>4, <1>5, <2>2
  <2> QED
    BY <1>1, <1>4, <2>2, <2>3
<1>9. ASSUME NEW f \in files PROVE \E k \in 1..Len(a) : a[k].part = "tail" /\ a[k].file = f
  <2>1. PICK i \in 1..n : name[i] = f
    BY <1>2
  <2>2. 2 * i \in 1..2 * n /\ (2 * i) % 2 = 0 /\ (2 * i + 1) \div 2 = i
    BY <1>1
  <2>3. a[2 * i] = entry(2 * i) /\ 2 * i \in 1..Len(a)
    BY <1>1, <1>4, <2>2
  <2> QED
    BY <1>5, <2>1, <2>2, <2>3
<1>10. ASSUME NEW j \in 1..Len(a), NEW k \in 1..Len(a), a[j].part = "head", a[k].part = "tail",
              a[j].file = a[k].file
       PROVE  k = j + 1
  <2>1. j \in 1..2 * n /\ k \in 1..2 * n /\ j % 2 = 1 /\ k % 2 = 0
    BY <1>1, <1>5, <1>6, <1>7, <1>10
  <2>2. (j + 1) \div 2 = (k + 1) \div 2
    <3>1. a[j] = entry(j) /\ a[k] = entry(k)
      BY <1>1, <1>7, <2>1
    <3>2. (j + 1) \div 2 \in 1..n /\ entry(j).file = name[(j + 1) \div 2]
      BY <1>5, <2>1
    <3>3. (k + 1) \div 2 \in 1..n /\ entry(k).file = name[(k + 1) \div 2]
      BY <1>5, <2>1
    <3>4. name[(j + 1) \div 2] = name[(k + 1) \div 2]
      BY <1>10, <3>1, <3>2, <3>3
    <3> QED
      BY <1>2, <3>2, <3>3, <3>4
  <2> QED
    BY <1>1, <2>1, <2>2
<1>11. Len(a) \in Nat \ {0} /\ a[Len(a)].part = "footer"
  BY <1>1, <1>4, <1>6
<1>12. ASSUME NEW k \in 1..Len(a)
       PROVE  /\ a[k] # None /\ a[k].part \in {"head", "tail", "footer"}
              /\ a[k].part # "footer" => a[k].file \in files /\ a[k].data = tree[a[k].file]
  BY <1>5, <1>6, <1>7
<1> QED
  BY <1>8, <1>9, <1>10, <1>11, <1>12 DEF a

\* Until the delta is computed there is nothing to send of it.
LEMMA NotYet ==
  ASSUME Stages, Replies, Outcomes, Early \/ agent = "report"
  PROVE  ~Answering /\ outcome # "exit" /\ down = <<>>
<1>1. down = <<>> /\ Len(down) = 0
  BY DEF Replies
<1>2. agent \notin {"read", "frame", "end", "exit", "return", "closed"}
  BY DEF Early, Receiving
<1> QED
  BY <1>1, <1>2 DEF Answering, Outcomes

\* A fault that happened is not taken back.
LEMMA Remembers == [Next]_vars => happened \subseteq happened'
<1> SUFFICES ASSUME [Next]_vars PROVE happened \subseteq happened'
  OBVIOUS
<1>1. CASE WriteTar \/ ReadTar \/ ReadTarBack \/ WriteTarFiles
  BY <1>1 DEF WriteTar, WalkFile, WalkSkips, WalkShort, WalkEnds, ReadTar, UnpackPiece, UnpackFails,
     UnpackEnds, ReadTarBack, ApplyPiece, ApplyFails, ApplyEnds, WriteTarFiles, PackFile, PackShort,
     PackVanished, PackGrew, PackEnds, Fault, ghostVars
<1>2. CASE streamOver \/ Lose \/ UNCHANGED vars
  BY <1>2 DEF streamOver, UploadRead, UploadFrame, UploadBroken, UploadEnd, ReadOutTar, ReadOutTarDone,
     ReadOutEnd, ReadSyncErr, ReadExit, ReadBroken, Lose, Fault, vars, ghostVars
<1>3. CASE handleRunDir
  BY <1>3 DEF handleRunDir, recvTree, RecvPiece, RecvPut, RecvEnd, RecvBroken, RecvDone, Start,
     StartUnseen, CommandEnds, Diff, sendTree, MirrorRead, MirrorFrame, MirrorBroken, MirrorEnd, SendExit,
     Report, ReturnFromRun, Fault, ghostVars
<1> QED
  BY <1>1, <1>2, <1>3 DEF Next

\* What is being sent was so before, and the copy stands still.
LEMMA StillAnswering ==
  ASSUME Types, Stages, Ranges, Replies, Outcomes, [Next]_vars, ~Diff, Answering'
  PROVE  Answering /\ UNCHANGED <<remote, snap, sync>>
<1> USE DEF Types
<1>h. happened \cap Silent = {}
  BY Remembers DEF Answering, Silent
<1>0. ASSUME UNCHANGED <<remote, snap, sync, link, agent>>, outcome' # outcome => outcome' # "exit",
             \A i \in 1..Len(down') : \E k \in 1..Len(down) : down'[i] = down[k]
      PROVE  Answering
  BY <1>0, <1>h DEF Answering, Delta, ChangedSince, Present
<1>1. CASE UNCHANGED vars
  BY <1>0, <1>1 DEF vars, treeVars, mainVars, netVars, ghostVars
<1>2. CASE WriteTar \/ ReadTarBack \/ WriteTarFiles
  <2>1. UNCHANGED <<remote, snap, sync, link, agent, outcome, down>>
    BY <1>2 DEF WriteTar, WalkFile, WalkSkips, WalkShort, WalkEnds, ReadTarBack, ApplyPiece,
       ApplyFails, ApplyEnds, WriteTarFiles, PackFile, PackShort, PackVanished, PackGrew, PackEnds, treeVars, mainVars,
       netVars, ghostVars
  <2> QED
    BY <1>0, <2>1
<1>3. CASE ReadTar \/ recvTree \/ Start \/ StartUnseen \/ CommandEnds
  <2>1. Early
    BY <1>3 DEF ReadTar, UnpackPiece, UnpackFails, UnpackEnds, recvTree, RecvPiece, RecvPut, RecvEnd,
       RecvBroken, RecvDone, Start, StartUnseen, CommandEnds, Stages, Early, Receiving
  <2>2. agent' \notin {"read", "frame", "end", "exit"} /\ UNCHANGED <<outcome, down>>
    BY <1>3, <2>1 DEF ReadTar, UnpackPiece, UnpackFails, UnpackEnds, recvTree, RecvPiece, RecvPut,
       RecvEnd, RecvBroken, RecvDone, Start, StartUnseen, CommandEnds, Early, Receiving, mainVars, netVars
  <2>3. outcome # "exit" /\ Len(down) = 0
    BY <2>1, NotYet
  <2> QED
    BY <2>2, <2>3 DEF Answering
<1>4. CASE streamOver
  <2>1. UNCHANGED <<remote, snap, sync, link, agent>>
    BY <1>4 DEF streamOver, UploadRead, UploadFrame, UploadBroken, UploadEnd, ReadOutTar,
       ReadOutTarDone, ReadOutEnd, ReadSyncErr, ReadExit, ReadBroken, treeVars, netVars, ghostVars
  <2>2. down' = down \/ (down # <<>> /\ down' = Tail(down))
    BY <1>4 DEF streamOver, UploadRead, UploadFrame, UploadBroken, UploadEnd, ReadOutTar,
       ReadOutTarDone, ReadOutEnd, ReadSyncErr, ReadExit, ReadBroken, netVars
  <2>3. \A i \in 1..Len(down') : \E k \in 1..Len(down) : down'[i] = down[k]
    BY <2>2, Taken
  <2>4. CASE ReadExit /\ outcome' = "exit"
    <3>1. 1 \in 1..Len(down) /\ down[1].type = "exit"
      BY <2>4, Taken DEF ReadExit
    <3> QED
      BY <1>h, <2>1, <3>1 DEF Answering, Delta, ChangedSince, Present
  <2>5. CASE ~(ReadExit /\ outcome' = "exit")
    <3>1. outcome' # outcome => outcome' # "exit"
      BY <1>4, <2>5 DEF streamOver, UploadRead, UploadFrame, UploadBroken, UploadEnd, ReadOutTar,
         ReadOutTarDone, ReadOutEnd, ReadSyncErr, ReadBroken
    <3> QED
      BY <1>0, <2>1, <2>3, <3>1
  <2> QED
    BY <2>1, <2>4, <2>5
<1>5. CASE sendTree \/ SendExit
  <2>1. /\ UNCHANGED <<remote, snap, sync, link>> /\ agent \in {"read", "frame", "end", "exit"}
    BY <1>5 DEF sendTree, MirrorRead, MirrorFrame, MirrorBroken, MirrorEnd, SendExit, treeVars,
       netVars, ghostVars
  <2> QED
    BY <1>h, <2>1 DEF Answering, Delta, ChangedSince, Present
<1>6. CASE Report
  <2>1. /\ agent' = "return" /\ agent = "report" /\ UNCHANGED <<link, outcome>>
        /\ SendDown(Frame("refused", None))
    BY <1>6 DEF Report
  <2>2. down = <<>> /\ Len(down) = 0 /\ outcome # "exit"
    BY <2>1, NotYet
  <2>3. Frame("refused", None) \in Frames /\ Frame("refused", None).type = "refused"
    BY Parcels DEF Frame
  <2>4. \A i \in 1..Len(down') : down'[i].type = "refused"
    <3>1. down' = down \/ (Len(down') = 1 /\ down'[1].type = "refused")
      BY <2>1, <2>2, <2>3, Sent DEF Ranges
    <3> QED
      BY <2>2, <3>1
  <2> QED
    BY <2>1, <2>2, <2>4 DEF Answering
<1>7. CASE ReturnFromRun
  <2>1. UNCHANGED <<remote, snap, sync, link, outcome, down>> /\ agent' = "closed"
    BY <1>7 DEF ReturnFromRun, netVars, ghostVars
  <2> QED
    BY <1>h, <2>1 DEF Answering, Delta, ChangedSince, Present
<1>8. CASE Lose
  BY <1>8 DEF Lose, Answering
<1> QED
  BY <1>1, <1>2, <1>3, <1>4, <1>5, <1>6, <1>7, <1>8 DEF Next, handleRunDir

LEMMA SheetStays ==
  ASSUME UNCHANGED <<remote, snap, sync>>
  PROVE  Delta' = Delta /\ Sheet' = Sheet
BY DEF Sheet, Delta, ChangedSince, Present, Archive

LEMMA StillInPlace ==
  ASSUME UNCHANGED <<local, remote, snap, sync, apply>>, NEW a, InPlace(a) PROVE InPlace(a)'
<1>1. Sheet' = Sheet
  BY SheetStays
<1> HIDE DEF Sheet
<1> QED
  BY <1>1 DEF InPlace

\* The archive of the delta.
LEMMA TheSheet ==
  ASSUME Types
  PROVE  /\ Len(Sheet) \in Nat \ {0} /\ Sheet[Len(Sheet)].part = "footer"
         /\ \A k \in 1..Len(Sheet) :
              /\ Sheet[k] # None /\ Sheet[k].part \in {"head", "tail", "footer"}
              /\ Sheet[k].part # "footer" =>
                   Sheet[k].file \in Delta /\ Sheet[k].data = remote[Sheet[k].file]
              /\ Sheet[k].part = "tail" =>
                   k - 1 \in 1..Len(Sheet) /\ Sheet[k - 1].part = "head"
         /\ \A f \in Delta : \E k \in 1..Len(Sheet) : Sheet[k].part = "tail" /\ Sheet[k].file = f
<1> DEFINE a == Archive(remote, Delta)
<1>1. Delta \in SUBSET Files /\ remote \in Trees
  BY DEF Types, Delta, ChangedSince, Present
<1>2. Sheet = a
  BY DEF Sheet
<1>3. /\ Len(a) \in Nat \ {0} /\ a[Len(a)].part = "footer"
      /\ \A k \in 1..Len(a) :
           /\ a[k] # None /\ a[k].part \in {"head", "tail", "footer"}
           /\ a[k].part # "footer" => a[k].file \in Delta /\ a[k].data = remote[a[k].file]
           /\ a[k].part = "tail" => k - 1 \in 1..Len(a) /\ a[k - 1].part = "head"
      /\ \A f \in Delta : \E k \in 1..Len(a) : a[k].part = "tail" /\ a[k].file = f
  BY <1>1, Sheets
<1> HIDE DEF a
<1> QED
  BY <1>2, <1>3

LEMMA TailOfHead ==
  ASSUME Types, NEW j \in 1..Len(Sheet), NEW k \in 1..Len(Sheet),
         Sheet[j].part = "head", Sheet[k].part = "tail", Sheet[k].file = Sheet[j].file
  PROVE  k = j + 1
<1> DEFINE a == Archive(remote, Delta)
<1>1. Delta \in SUBSET Files /\ remote \in Trees
  BY DEF Types, Delta, ChangedSince, Present
<1>2. \A l, m \in 1..Len(a) :
        a[l].part = "head" /\ a[m].part = "tail" /\ a[l].file = a[m].file => m = l + 1
  BY <1>1, Sheets
<1>3. Sheet = a
  BY DEF Sheet
<1> HIDE DEF a
<1> QED
  BY <1>2, <1>3

\* The archive of the delta, and where its pieces are.
LEMMA OnTheWay ==
  ASSUME Types, NEW e \in 1..Len(Sheet), NEW a \in 0..Len(Sheet), NEW t \in 0..Len(down),
         Along(e, a, t)
  PROVE  /\ Len(Sheet) \in Nat /\ \A k \in 1..Len(Sheet) : Sheet[k] # None
         /\ Len(pack) \in Nat /\ Len(down) \in Nat
         /\ AtSync(a) \in Nat /\ AtDown(a, t) \in Nat /\ AtHeld(a, t) \in Nat /\ AtOut(a, t) \in Nat
         /\ AtSync(a) = IF Busy("sync") THEN a + 1 ELSE a
         /\ AtHeld(a, t) = IF held["agent"] = None THEN AtDown(a, t) ELSE AtDown(a, t) + 1
         /\ AtOut(a, t) = IF Busy("out") THEN AtHeld(a, t) + 1 ELSE AtHeld(a, t)
         /\ AtSync(a) <= AtDown(a, t) /\ AtDown(a, t) <= AtHeld(a, t) /\ AtHeld(a, t) <= AtOut(a, t)
         /\ AtOut(a, t) <= e
<1>1. Len(Sheet) \in Nat /\ \A k \in 1..Len(Sheet) : Sheet[k] # None
  BY TheSheet
<1>2. Len(pack) \in Nat /\ Len(down) \in Nat
  BY DEF Types
<1> HIDE DEF Sheet
<1>3. e \in Nat /\ a \in Nat /\ t \in Nat
  BY <1>1, <1>2
<1>4. AtSync(a) \in Nat /\ AtSync(a) = IF Busy("sync") THEN a + 1 ELSE a
  BY <1>3 DEF AtSync, One, Busy
<1>5. AtDown(a, t) \in Nat /\ AtSync(a) <= AtDown(a, t)
  BY <1>3, <1>4 DEF AtDown
<1>6. /\ AtHeld(a, t) \in Nat
      /\ AtHeld(a, t) = IF held["agent"] = None THEN AtDown(a, t) ELSE AtDown(a, t) + 1
  BY <1>5 DEF AtHeld, One
<1>7. AtOut(a, t) \in Nat /\ AtOut(a, t) = IF Busy("out") THEN AtHeld(a, t) + 1 ELSE AtHeld(a, t)
  BY <1>6 DEF AtOut, One, Busy
<1>8. AtOut(a, t) <= e
  <2>1. AtOut(a, t) + Len(pack) = e
    BY DEF Along
  <2> QED
    BY <1>2, <1>3, <1>7, <2>1
<1> QED
  BY <1>1, <1>2, <1>4, <1>5, <1>6, <1>7, <1>8

\* A step that moves no piece.
LEMMA NotMoved ==
  ASSUME UNCHANGED <<remote, snap, sync, down, pack>>,
         pipe'["sync"].piece = pipe["sync"].piece, pipe'["out"].piece = pipe["out"].piece,
         held'["agent"] = held["agent"],
         NEW e, NEW a, NEW t, Along(e, a, t)
  PROVE  Along(e, a, t)'
<1>1. Sheet' = Sheet
  BY SheetStays
<1>2. /\ AtSync(a)' = AtSync(a) /\ AtDown(a, t)' = AtDown(a, t) /\ AtHeld(a, t)' = AtHeld(a, t)
      /\ AtOut(a, t)' = AtOut(a, t)
  BY DEF AtSync, AtDown, AtHeld, AtOut
<1> HIDE DEF Sheet
<1> QED
  BY <1>1, <1>2 DEF Along, Busy

\* The archiver hands over the next piece, or breaks off after a head.
LEMMA Packing ==
  ASSUME Types, Underway, WriteTarFiles, ~PackVanished, ~PackGrew PROVE Underway'
<1> USE Parcels DEF Types
<1>0. PICK e \in 1..Len(Sheet), a \in 0..Len(Sheet), t \in 0..Len(down) : Along(e, a, t) /\ InPlace(a)
  BY DEF Underway
<1>1. UNCHANGED <<local, remote, snap, sync, apply, down, held>>
  BY DEF WriteTarFiles, PackFile, PackShort, PackVanished, PackGrew, PackEnds, treeVars, mainVars, netVars, ghostVars, workerVars
<1>2. Sheet' = Sheet /\ InPlace(a)'
  BY <1>0, <1>1, SheetStays, StillInPlace
<1>3. pipe'["sync"].piece = pipe["sync"].piece
  BY Piping, Archived DEF WriteTarFiles, PackFile, PackShort, PackVanished, PackGrew, PackEnds, pipeVars
<1>4. SUFFICES \E f \in 1..Len(Sheet) : Along(f, a, t)'
  BY <1>1, <1>2 DEF Underway
<1>5. CASE PackEnds
  <2>1. pipe'["out"].piece = pipe["out"].piece /\ pack' = pack
    BY <1>5, Piping DEF PackEnds, workerVars
  <2> QED
    BY <1>0, <1>1, <1>3, <2>1, NotMoved
<1> HIDE DEF Sheet
<1>6. /\ AtSync(a)' = AtSync(a) /\ AtDown(a, t)' = AtDown(a, t) /\ AtHeld(a, t)' = AtHeld(a, t)
      /\ (Busy("sync"))' = Busy("sync")
  BY <1>1, <1>3 DEF AtSync, AtDown, AtHeld, Busy
<1>7. /\ Len(Sheet) \in Nat /\ AtHeld(a, t) \in Nat /\ AtOut(a, t) \in Nat
      /\ Len(pack) \in Nat /\ AtOut(a, t) + Len(pack) = e /\ e \in Nat /\ e <= Len(Sheet)
      /\ AtOut(a, t) = IF Busy("out") THEN AtHeld(a, t) + 1 ELSE AtHeld(a, t)
  <2>1. AtOut(a, t) + Len(pack) = e
    BY <1>0 DEF Along
  <2> QED
    BY <1>0, <2>1, OnTheWay
<1>n. \A k \in 1..Len(Sheet) : Sheet[k] # None
  BY <1>0, OnTheWay
<1>8. /\ \A i \in 1..Len(pack) : pack[i] = Sheet[AtOut(a, t) + i]
      /\ e = Len(Sheet) \/ (pack = <<>> /\ Sheet[e].part = "head")
      /\ Busy("out") => pipe["out"].piece = Sheet[AtHeld(a, t) + 1]
  BY <1>0 DEF Along
<1>9. /\ Busy("sync") => pipe["sync"].piece = Sheet[a + 1]
      /\ \A i \in 1..Len(down) : (down[i].type = "outtar") <=> (i <= t)
      /\ \A i \in 1..t : down[i].piece = Sheet[AtSync(a) + i]
      /\ held["agent"] # None => held["agent"] = Sheet[AtDown(a, t) + 1]
  BY <1>0 DEF Along
<1>10. CASE PackFile
  <2>1. /\ pack # <<>> /\ Len(pack) > 0 /\ Head(pack) = pack[1] /\ Len(pack') = Len(pack) - 1
        /\ \A i \in 1..Len(pack') : pack'[i] = pack[i + 1]
    <3>1. pack # <<>> /\ pack' = Tail(pack) /\ pack \in Seq(Pieces)
      BY <1>10 DEF PackFile
    <3> HIDE DEF Pieces
    <3> QED
      BY <3>1
  <2>2. pipe["out"].piece = None /\ pipe'["out"].piece = pack[1]
    BY <1>10, <2>1, Piping, Archived DEF PackFile, Write, Busy
  <2>3. AtOut(a, t) = AtHeld(a, t)
    BY <1>7, <2>2 DEF Busy
  <2>4. 1 \in 1..Len(pack) /\ AtHeld(a, t) + 1 \in 1..Len(Sheet)
    <3> HIDE DEF Types
    <3> QED
      BY <1>7, <2>1, <2>3
  <2>5. pack[1] = Sheet[AtHeld(a, t) + 1] /\ pack[1] # None
    BY <1>n, <1>8, <2>3, <2>4
  <2>6. AtOut(a, t)' = AtHeld(a, t) + 1
    BY <1>6, <2>2, <2>5 DEF AtOut, One
  <2>7. AtOut(a, t)' + Len(pack') = e
    <3> HIDE DEF Types
    <3> QED
      BY <1>7, <2>1, <2>3, <2>6
  <2>8. ASSUME NEW i \in 1..Len(pack') PROVE pack'[i] = Sheet[AtOut(a, t)' + i]
    <3>1. i + 1 \in 1..Len(pack) /\ pack'[i] = pack[i + 1]
      BY <1>7, <2>1
    <3>2. pack[i + 1] = Sheet[AtOut(a, t) + (i + 1)]
      BY <1>8, <3>1
    <3>3. AtOut(a, t) + (i + 1) = AtOut(a, t)' + i
      <4>1. i \in Nat
        BY <1>7, <2>1
      <4>2. \A n \in Nat : n + (i + 1) = (n + 1) + i
        BY <4>1
      <4> QED
        BY <1>7, <2>3, <2>6, <4>2
    <3> QED
      BY <3>1, <3>2, <3>3
  <2>9. e = Len(Sheet)
    BY <1>8, <2>1
  <2>10. (Busy("out") => pipe["out"].piece = Sheet[AtHeld(a, t) + 1])'
    BY <1>2, <1>6, <2>2, <2>5
  <2>11. Along(e, a, t)'
    BY <1>1, <1>2, <1>3, <1>6, <1>9, <2>7, <2>8, <2>9, <2>10 DEF Along
  <2> QED
    BY <2>11
<1>11. CASE PackShort
  <2>1. /\ pack # <<>> /\ pack[1].part = "tail" /\ pack' = <<>> /\ Len(pack') = 0 /\ pipe' = pipe
        /\ Len(pack) > 0
    <3>1. pack # <<>> /\ pack \in Seq(Pieces)
      BY <1>11 DEF PackShort
    <3>2. Head(pack) = pack[1] /\ Len(pack) > 0
      <4> HIDE DEF Pieces
      <4> QED
        BY <3>1
    <3> QED
      BY <1>11, <3>1, <3>2 DEF PackShort, pipeVars
  <2>h. PICK h \in Nat : h = AtOut(a, t)
    BY <1>7
  <2>2. 1 \in 1..Len(pack) /\ h + 1 \in 1..Len(Sheet)
    <3>1. Len(pack) \in Nat \ {0} /\ h + Len(pack) = e /\ e \in Nat /\ e <= Len(Sheet)
      BY <1>7, <2>1, <2>h
    <3>2. \A l \in Nat \ {0}, s \in Nat : h + l <= s => 1 \in 1..l /\ h + 1 \in 1..s
      OBVIOUS
    <3> QED
      BY <1>7, <3>1, <3>2
  <2>3. Sheet[h + 1].part = "tail"
    BY <1>8, <2>1, <2>2, <2>h
  <2>4. h \in 1..Len(Sheet) /\ Sheet[h].part = "head"
    <3>1. (h + 1) - 1 = h
      BY <2>h
    <3> QED
      BY SMTT(30), <2>2, <2>3, <3>1, TheSheet
  <2>5. (AtOut(a, t))' = h
    BY <1>6, <2>1, <2>h DEF AtOut
  <2>6. Along(h, a, t)'
    <3>1. h + Len(pack') = h
      BY <2>1, <2>h
    <3>2. (Busy("out") => pipe["out"].piece = Sheet[AtHeld(a, t) + 1])'
      BY <1>2, <1>6, <1>8, <2>1 DEF Busy
    <3>3. \A i \in 1..Len(pack') : pack'[i] = Sheet'[(AtOut(a, t))' + i]
      BY <2>1
    <3> QED
      BY <1>1, <1>2, <1>3, <1>6, <1>9, <2>1, <2>4, <2>5, <3>1, <3>2, <3>3 DEF Along
  <2> QED
    BY <2>4, <2>6
<1> QED
  BY <1>5, <1>10, <1>11 DEF WriteTarFiles

\* sendTree takes a piece out of its pipe and sends it; the frames that end the
\* archive and the answer come after it.
LEMMA Mirroring ==
  ASSUME Types, Ranges, Replies, Outcomes, Underway, link = "up",
         sendTree \/ SendExit \/ ReturnFromRun
  PROVE  Underway'
<1> USE Parcels DEF Types
<1>0. PICK e \in 1..Len(Sheet), a \in 0..Len(Sheet), t \in 0..Len(down) : Along(e, a, t) /\ InPlace(a)
  BY DEF Underway
<1>1. UNCHANGED <<local, remote, snap, sync, apply, pack>>
  BY DEF sendTree, MirrorRead, MirrorFrame, MirrorBroken, MirrorEnd, SendExit, ReturnFromRun, treeVars,
     workerVars, ghostVars
<1>2. Sheet' = Sheet /\ InPlace(a)'
  BY <1>0, <1>1, SheetStays, StillInPlace
<1>3. pipe'["sync"].piece = pipe["sync"].piece
  BY Piping DEF sendTree, MirrorRead, MirrorFrame, MirrorBroken, MirrorEnd, SendExit, ReturnFromRun,
     pipeVars
<1>4. SUFFICES \E s \in 0..Len(down') : Along(e, a, s)'
  BY <1>1, <1>2 DEF Underway
<1> HIDE DEF Sheet
<1>5. /\ AtSync(a)' = AtSync(a) /\ (Busy("sync"))' = Busy("sync")
      /\ down' = down => AtDown(a, t)' = AtDown(a, t)
  BY <1>1, <1>3 DEF AtSync, AtDown, Busy
<1>6. /\ AtSync(a) \in Nat /\ AtDown(a, t) \in Nat /\ AtHeld(a, t) \in Nat /\ AtOut(a, t) \in Nat
      /\ Len(down) \in Nat /\ t \in Nat /\ t <= Len(down)
      /\ AtHeld(a, t) = IF held["agent"] = None THEN AtDown(a, t) ELSE AtDown(a, t) + 1
      /\ AtOut(a, t) = IF Busy("out") THEN AtHeld(a, t) + 1 ELSE AtHeld(a, t)
      /\ AtDown(a, t) = AtSync(a) + t
  <2>1. Len(down) \in Nat
    BY <1>0, OnTheWay
  <2> QED
    BY <1>0, <2>1, OnTheWay DEF AtDown
<1>7. /\ e = Len(Sheet) \/ (pack = <<>> /\ Sheet[e].part = "head")
      /\ AtOut(a, t) + Len(pack) = e
      /\ \A i \in 1..Len(pack) : pack[i] = Sheet[AtOut(a, t) + i]
      /\ Busy("sync") => pipe["sync"].piece = Sheet[a + 1]
  BY <1>0 DEF Along
<1>8. /\ \A i \in 1..Len(down) : (down[i].type = "outtar") <=> (i <= t)
      /\ \A i \in 1..t : down[i].piece = Sheet[AtSync(a) + i]
  BY <1>0 DEF Along
<1>9. /\ held["agent"] # None => held["agent"] = Sheet[AtDown(a, t) + 1]
      /\ Busy("out") => pipe["out"].piece = Sheet[AtHeld(a, t) + 1]
  BY <1>0 DEF Along
<1>10. CASE MirrorRead
  <2>1. CASE Busy("out")
    <3>1. /\ down' = down /\ pipe'["out"].piece = None /\ held["agent"] = None
          /\ held'["agent"] = pipe["out"].piece /\ held'["agent"] # None
      BY <1>10, <2>1, Piping DEF MirrorRead, Busy, AtEnd, netVars, Replies
    <3>2. AtHeld(a, t) = AtDown(a, t) /\ AtOut(a, t) = AtHeld(a, t) + 1
      BY <1>6, <2>1, <3>1
    <3>3. AtDown(a, t)' = AtDown(a, t)
      BY <1>5, <3>1
    <3>4. AtHeld(a, t)' = AtDown(a, t) + 1
      BY <3>1, <3>3 DEF AtHeld, One
    <3>5. AtOut(a, t)' = AtOut(a, t)
      BY <1>6, <3>1, <3>2, <3>4 DEF AtOut, One
    <3>6. held'["agent"] = Sheet[AtDown(a, t) + 1]
      BY <1>9, <2>1, <3>1, <3>2
    <3>7. Along(e, a, t)'
      BY <1>1, <1>2, <1>3, <1>5, <1>7, <1>8, <3>1, <3>3, <3>5, <3>6 DEF Along, Busy
    <3> QED
      BY <3>1, <3>7
  <2>2. CASE ~Busy("out")
    <3>1. UNCHANGED <<down, pipe, held>>
      BY <1>10, <2>2 DEF MirrorRead, netVars
    <3> QED
      BY <1>0, <1>1, <3>1, NotMoved
  <2> QED
    BY <2>1, <2>2
<1>11. CASE MirrorFrame
  <2> DEFINE f == Frame("outtar", held["agent"])
  <2>1. /\ SendDown(f) /\ agent = "frame" /\ held'["agent"] = None /\ held["agent"] # None /\ pipe' = pipe
    BY <1>11 DEF MirrorFrame, pipeVars, Replies
  <2>2. f \in Frames /\ f.type = "outtar" /\ f.piece = held["agent"]
    BY DEF Frame
  <2> HIDE DEF f
  <2>3. /\ Len(down') = Len(down) + 1 /\ down'[Len(down) + 1] = f
        /\ \A i \in 1..Len(down) : down'[i] = down[i]
    BY <2>1, <2>2, Sent
  <2>4. t = Len(down)
    <3>1. AllTar
      BY <2>1 DEF Replies
    <3>2. Len(down) # 0 => Len(down) \in 1..Len(down)
      BY <1>6
    <3>3. Len(down) # 0 => Len(down) <= t
      <4> HIDE DEF Types
      <4> QED
        BY <1>8, <3>1, <3>2 DEF AllTar
    <3>4. t \in Nat /\ Len(down) \in Nat /\ t <= Len(down)
      BY <1>6
    <3> QED
      BY <3>3, <3>4
  <2>5. AtHeld(a, t) = AtDown(a, t) + 1 /\ f.piece = Sheet[AtDown(a, t) + 1]
    BY <1>6, <1>9, <2>1, <2>2
  <2>6. AtDown(a, t + 1)' = AtDown(a, t) + 1
    BY <1>5, <1>6 DEF AtDown
  <2>7. AtHeld(a, t + 1)' = AtHeld(a, t)
    BY <1>6, <2>1, <2>5, <2>6 DEF AtHeld, One
  <2>8. AtOut(a, t + 1)' = AtOut(a, t)
    BY <2>1, <2>7 DEF AtOut
  <2>9. \A i \in 1..Len(down') : (down'[i].type = "outtar") <=> (i <= t + 1)
    <3> SUFFICES ASSUME NEW i \in 1..Len(down') PROVE i <= t + 1 /\ down'[i].type = "outtar"
      OBVIOUS
    <3>1. CASE i \in 1..Len(down)
      BY SMTT(30), <1>6, <1>8, <2>3, <2>4, <3>1
    <3>2. CASE i = Len(down) + 1
      BY <1>6, <2>2, <2>3, <2>4, <3>2
    <3>3. i \in 1..Len(down) \/ i = Len(down) + 1
      BY SMTT(30), <1>6, <2>3
    <3> QED
      BY <3>1, <3>2, <3>3
  <2>10. \A i \in 1..t + 1 : down'[i].piece = Sheet[AtSync(a) + i]
    <3> SUFFICES ASSUME NEW i \in 1..t + 1 PROVE down'[i].piece = Sheet[AtSync(a) + i]
      OBVIOUS
    <3>1. CASE i \in 1..t
      BY <1>8, <2>3, <2>4, <3>1
    <3>2. CASE i = t + 1
      <4>1. AtDown(a, t) + 1 = AtSync(a) + i
        BY <1>6, <3>2
      <4> QED
        BY <2>3, <2>4, <2>5, <3>2, <4>1
    <3>3. i \in 1..t \/ i = t + 1
      BY <1>6
    <3> QED
      BY <3>1, <3>2, <3>3
  <2>11. Along(e, a, t + 1)'
    BY <1>1, <1>2, <1>5, <1>7, <1>9, <2>1, <2>7, <2>8, <2>9, <2>10 DEF Along, Busy
  <2>12. t + 1 \in 0..Len(down')
    BY SMTT(30), <1>6, <2>3
  <2> QED
    BY <2>11, <2>12
<1>12. CASE MirrorEnd \/ SendExit
  <2> DEFINE f == Frame(IF MirrorEnd THEN "outend" ELSE "exit", None)
  <2>1. SendDown(f) /\ UNCHANGED <<held, pipe>>
    BY <1>12 DEF MirrorEnd, SendExit, pipeVars
  <2>2. f \in Frames /\ f.type # "outtar"
    BY DEF Frame
  <2> HIDE DEF f
  <2>3. /\ Len(down') = Len(down) + 1 /\ down'[Len(down) + 1] = f
        /\ \A i \in 1..Len(down) : down'[i] = down[i]
    BY <2>1, <2>2, Sent
  <2>4. /\ AtDown(a, t)' = AtDown(a, t) /\ AtHeld(a, t)' = AtHeld(a, t) /\ AtOut(a, t)' = AtOut(a, t)
    BY <1>5, <2>1 DEF AtDown, AtHeld, AtOut
  <2>5. \A i \in 1..Len(down') : (down'[i].type = "outtar") <=> (i <= t)
    <3> SUFFICES ASSUME NEW i \in 1..Len(down') PROVE (down'[i].type = "outtar") <=> (i <= t)
      OBVIOUS
    <3>1. CASE i \in 1..Len(down)
      BY <1>8, <2>3, <3>1
    <3>2. CASE i = Len(down) + 1
      BY <1>6, <2>2, <2>3, <3>2
    <3>3. i \in 1..Len(down) \/ i = Len(down) + 1
      BY SMTT(30), <1>6, <2>3
    <3> QED
      BY <3>1, <3>2, <3>3
  <2>6. \A i \in 1..t : down'[i].piece = Sheet[AtSync(a) + i]
    <3>1. \A i \in 1..t : i \in 1..Len(down)
      BY <1>6
    <3> QED
      BY <1>8, <2>3, <3>1
  <2>7. Along(e, a, t)'
    BY <1>1, <1>2, <1>5, <1>7, <1>9, <2>1, <2>4, <2>5, <2>6 DEF Along, Busy
  <2>8. t \in 0..Len(down')
    BY <1>6, <2>3
  <2> QED
    BY <2>7, <2>8
<1>13. CASE MirrorBroken
  BY <1>13 DEF MirrorBroken, Ranges, Outcomes
<1>14. CASE ReturnFromRun
  <2>1. UNCHANGED <<down, pipe, held>>
    BY <1>14 DEF ReturnFromRun, netVars, pipeVars
  <2> QED
    BY <1>0, <1>1, <2>1, NotMoved
<1> QED
  BY <1>10, <1>11, <1>12, <1>13, <1>14 DEF sendTree

\* streamOver takes the frames off the connection in the order they were sent.
LEMMA Bringing ==
  ASSUME Types, Underway, streamOver PROVE Underway'
<1> USE Parcels DEF Types
<1>0. PICK e \in 1..Len(Sheet), a \in 0..Len(Sheet), t \in 0..Len(down) : Along(e, a, t) /\ InPlace(a)
  BY DEF Underway
<1>1. UNCHANGED <<local, remote, snap, sync, pack>> /\ held'["agent"] = held["agent"]
  BY DEF streamOver, UploadRead, UploadFrame, UploadBroken, UploadEnd, ReadOutTar, ReadOutTarDone,
     ReadOutEnd, ReadSyncErr, ReadExit, ReadBroken, treeVars, workerVars, ghostVars
<1>2. Sheet' = Sheet
  BY <1>1, SheetStays
<1>3. down # <<>> => Head(down).piece \in Pieces
  BY Queued
<1>4. pipe'["out"].piece = pipe["out"].piece
  BY <1>3, Piping DEF streamOver, UploadRead, UploadFrame, UploadBroken, UploadEnd, ReadOutTar,
     ReadOutTarDone, ReadOutEnd, ReadSyncErr, ReadExit, ReadBroken, pipeVars
<1> HIDE DEF Sheet
<1>5. InPlace(a)'
  <2>1. apply' = apply \/ (apply = "unused" /\ apply' = "head")
    BY DEF streamOver, UploadRead, UploadFrame, UploadBroken, UploadEnd, ReadOutTar, ReadOutTarDone,
       ReadOutEnd, ReadSyncErr, ReadExit, ReadBroken, workerVars
  <2> QED
    BY <1>0, <1>1, <1>2, <2>1 DEF InPlace
<1>6. SUFFICES \E s \in 0..Len(down') : Along(e, a, s)'
  BY <1>2, <1>5 DEF Underway
<1>7. /\ AtSync(a) \in Nat /\ AtDown(a, t) \in Nat /\ Len(down) \in Nat /\ a \in Nat /\ t \in Nat
      /\ t <= Len(down) /\ AtDown(a, t) = AtSync(a) + t /\ AtDown(a, t) + 0 <= Len(Sheet)
      /\ Len(Sheet) \in Nat
      /\ AtSync(a) = IF Busy("sync") THEN a + 1 ELSE a
  <2>1. Len(down) \in Nat /\ Len(Sheet) \in Nat
    BY <1>0, OnTheWay
  <2>2. AtDown(a, t) \in Nat /\ AtOut(a, t) \in Nat /\ AtHeld(a, t) \in Nat
        /\ AtDown(a, t) <= AtHeld(a, t) /\ AtHeld(a, t) <= AtOut(a, t) /\ AtOut(a, t) <= e
    BY <1>0, OnTheWay
  <2>3. AtSync(a) \in Nat /\ AtSync(a) = IF Busy("sync") THEN a + 1 ELSE a
    BY <1>0, OnTheWay
  <2>4. AtDown(a, t) <= Len(Sheet)
    BY <1>0, <2>1, <2>2
  <2> QED
    BY <1>0, <2>1, <2>2, <2>3, <2>4 DEF AtDown
<1>8. /\ e = Len(Sheet) \/ (pack = <<>> /\ Sheet[e].part = "head")
      /\ AtOut(a, t) + Len(pack) = e
      /\ \A i \in 1..Len(pack) : pack[i] = Sheet[AtOut(a, t) + i]
      /\ held["agent"] # None => held["agent"] = Sheet[AtDown(a, t) + 1]
      /\ Busy("out") => pipe["out"].piece = Sheet[AtHeld(a, t) + 1]
  BY <1>0 DEF Along
<1>9. /\ \A i \in 1..Len(down) : (down[i].type = "outtar") <=> (i <= t)
      /\ \A i \in 1..t : down[i].piece = Sheet[AtSync(a) + i]
      /\ Busy("sync") => pipe["sync"].piece = Sheet[a + 1]
  BY <1>0 DEF Along
<1>a. \A s \in 0..Len(down') : AtDown(a, s)' = AtDown(a, t) =>
        AtHeld(a, s)' = AtHeld(a, t) /\ AtOut(a, s)' = AtOut(a, t)
  BY <1>1, <1>4 DEF AtHeld, AtOut
<1>10. CASE ReadOutTar
  <2>1. /\ down # <<>> /\ Head(down).type = "outtar" /\ Write("sync", Head(down).piece)
        /\ down' = Tail(down)
    BY <1>10 DEF ReadOutTar
  <2>2. /\ Head(down) = down[1] /\ Len(down') = Len(down) - 1 /\ Len(down) # 0
        /\ \A i \in 1..Len(down') : i + 1 \in 1..Len(down) /\ down'[i] = down[i + 1]
    BY <2>1, Taken
  <2>3. pipe["sync"].piece = None /\ pipe'["sync"].piece = down[1].piece
    BY <1>3, <2>1, <2>2, Piping DEF Write, Busy
  <2>4. 1 \in 1..Len(down) /\ 1 <= t /\ 1 \in 1..t
    <3>1. 1 \in 1..Len(down)
      BY <1>7, <2>2
    <3>2. 1 <= t
      BY <1>9, <2>1, <2>2, <3>1
    <3> QED
      BY <1>7, <3>1, <3>2
  <2>5. AtSync(a) = a /\ AtSync(a) + 1 = a + 1 /\ a + 1 \in 1..Len(Sheet)
    BY <1>7, <2>3, <2>4 DEF Busy
  <2>6. down[1].piece = Sheet[a + 1]
    BY <1>9, <2>4, <2>5
  <2>7. pipe'["sync"].piece = Sheet[a + 1] /\ pipe'["sync"].piece # None
    BY <1>0, <2>3, <2>5, <2>6, OnTheWay
  <2>8. AtSync(a)' = a + 1
    BY <2>7 DEF AtSync, One
  <2>9. AtDown(a, t - 1)' = AtDown(a, t)
    <3>1. (a + 1) + (t - 1) = a + t
      BY <1>7
    <3> QED
      BY <1>7, <2>5, <2>8, <3>1 DEF AtDown
  <2>10. t - 1 \in 0..Len(down')
    BY SMTT(30), <1>7, <2>2, <2>4
  <2>11. \A i \in 1..Len(down') : (down'[i].type = "outtar") <=> (i <= t - 1)
    <3> SUFFICES ASSUME NEW i \in 1..Len(down') PROVE (down'[i].type = "outtar") <=> (i <= t - 1)
      OBVIOUS
    <3>1. PICK k \in 1..Len(down) : k = i + 1 /\ down'[i] = down[k]
      BY <2>2
    <3>2. (down[k].type = "outtar") <=> (k <= t)
      BY <1>9
    <3>3. (k <= t) <=> (i <= t - 1)
      BY <1>7, <3>1
    <3> QED
      BY <3>1, <3>2, <3>3
  <2>12. \A i \in 1..t - 1 : down'[i].piece = Sheet[(a + 1) + i]
    <3> SUFFICES ASSUME NEW i \in 1..t - 1 PROVE down'[i].piece = Sheet[(a + 1) + i]
      OBVIOUS
    <3>1. i \in 1..Len(down') /\ i + 1 \in 1..t /\ a + (i + 1) = (a + 1) + i
      BY <1>7, <2>2
    <3>2. down'[i] = down[i + 1] /\ down[i + 1].piece = Sheet[AtSync(a) + (i + 1)]
      BY <1>9, <2>2, <3>1
    <3> QED
      BY <2>5, <3>1, <3>2
  <2>13. /\ AtHeld(a, t - 1)' = AtHeld(a, t) /\ AtOut(a, t - 1)' = AtOut(a, t)
    BY <1>a, <2>9, <2>10
  <2>14. Along(e, a, t - 1)'
    BY <1>1, <1>2, <1>4, <1>8, <2>7, <2>8, <2>9, <2>11, <2>12, <2>13 DEF Along, Busy
  <2> QED
    BY <2>10, <2>14
<1>11. CASE ReadOutEnd \/ ReadExit
  <2>1. /\ down # <<>> /\ Head(down).type # "outtar" /\ down' = Tail(down)
    BY <1>11 DEF ReadOutEnd, ReadExit
  <2>2. /\ Head(down) = down[1] /\ Len(down') = Len(down) - 1 /\ Len(down) # 0
        /\ \A i \in 1..Len(down') : i + 1 \in 1..Len(down) /\ down'[i] = down[i + 1]
    BY <2>1, Taken
  <2>3. t = 0
    <3>1. 1 \in 1..Len(down)
      BY <1>7, <2>2
    <3>2. ~(1 <= t)
      BY <1>9, <2>1, <2>2, <3>1
    <3> QED
      BY <1>7, <3>2
  <2>4. pipe'["sync"].piece = pipe["sync"].piece
    BY <1>11, Piping DEF ReadOutEnd, ReadExit, pipeVars
  <2>5. AtSync(a)' = AtSync(a)
    BY <2>4 DEF AtSync
  <2>6. AtDown(a, t)' = AtDown(a, t) /\ t \in 0..Len(down')
    BY <1>7, <2>2, <2>3, <2>5 DEF AtDown
  <2>7. \A i \in 1..Len(down') : (down'[i].type = "outtar") <=> (i <= t)
    <3> SUFFICES ASSUME NEW i \in 1..Len(down') PROVE (down'[i].type = "outtar") <=> (i <= t)
      OBVIOUS
    <3>1. PICK k \in 1..Len(down) : k = i + 1 /\ down'[i] = down[k]
      BY <2>2
    <3>2. (down[k].type = "outtar") <=> (k <= t)
      BY <1>9
    <3>3. ~(k <= t) /\ ~(i <= t)
      BY <1>7, <2>3, <3>1
    <3> QED
      BY <3>1, <3>2, <3>3
  <2>8. /\ AtHeld(a, t)' = AtHeld(a, t) /\ AtOut(a, t)' = AtOut(a, t)
    BY <1>a, <2>6
  <2>9. \A i \in 1..t : down'[i].piece = Sheet[AtSync(a) + i]
    BY <2>3
  <2>10. Along(e, a, t)'
    BY <1>1, <1>2, <1>4, <1>8, <1>9, <2>4, <2>5, <2>6, <2>7, <2>8, <2>9 DEF Along, Busy
  <2> QED
    BY <2>6, <2>10
<1>12. CASE UploadRead \/ UploadFrame \/ UploadBroken \/ UploadEnd \/ ReadOutTarDone
            \/ ReadSyncErr \/ ReadBroken
  <2>1. down' = down /\ pipe'["sync"].piece = pipe["sync"].piece
    BY <1>12, Piping DEF UploadRead, UploadFrame, UploadBroken, UploadEnd, ReadOutTarDone,
       ReadSyncErr, ReadBroken, netVars, pipeVars
  <2> QED
    BY <1>0, <1>1, <1>4, <2>1, NotMoved
<1> QED
  BY <1>10, <1>11, <1>12 DEF streamOver

\* ReadTar puts a piece in its place.
LEMMA Applying ==
  ASSUME Types, Underway, ReadTarBack PROVE Underway'
<1> USE Parcels DEF Types
<1>0. PICK e \in 1..Len(Sheet), a \in 0..Len(Sheet), t \in 0..Len(down) : Along(e, a, t) /\ InPlace(a)
  BY DEF Underway
<1>1. UNCHANGED <<remote, snap, sync, pack, down, held>>
  BY DEF ReadTarBack, ApplyPiece, ApplyFails, ApplyEnds, treeVars, workerVars, mainVars, netVars, ghostVars
<1>2. Sheet' = Sheet
  BY <1>1, SheetStays
<1>3. pipe'["out"].piece = pipe["out"].piece
  BY Piping DEF ReadTarBack, ApplyPiece, ApplyFails, ApplyEnds, pipeVars
<1>s. Delta \in SUBSET Files
  BY DEF Delta, ChangedSince, Present
<1>4. CASE ApplyFails \/ ApplyEnds
  <2>1. local' = local /\ pipe' = pipe
    BY <1>4 DEF ApplyFails, ApplyEnds, treeVars, pipeVars
  <2>2. apply \in {"tail", "failed"} => apply' = "failed"
    BY <1>4 DEF ApplyFails, ApplyEnds, EndOf, Reading
  <2>3. InPlace(a)'
    <3> HIDE DEF Sheet
    <3> QED
      BY <1>0, <1>1, <1>2, <2>1, <2>2 DEF InPlace
  <2>4. Along(e, a, t)'
    BY <1>0, <1>1, <2>1, NotMoved
  <2> QED
    BY <1>1, <1>2, <2>3, <2>4 DEF Underway
<1>5. CASE ApplyPiece
  <2> DEFINE x == pipe["sync"].piece
  <2>1. /\ Busy("sync") /\ x # None /\ local' = Unpacked(local, x) /\ apply' = Expects(x)
        /\ pipe'["sync"].piece = None
    BY <1>5, Piping DEF ApplyPiece, Busy
  <2>2. x = Sheet[a + 1]
    BY <1>0, <2>1 DEF Along
  <2>3. a \in Nat /\ a + 1 \in 1..Len(Sheet) /\ AtSync(a) = a + 1
    <3>1. /\ Len(Sheet) \in Nat /\ AtSync(a) \in Nat /\ AtDown(a, t) \in Nat /\ AtHeld(a, t) \in Nat
          /\ AtOut(a, t) \in Nat /\ AtSync(a) = IF Busy("sync") THEN a + 1 ELSE a
          /\ AtSync(a) <= AtDown(a, t) /\ AtDown(a, t) <= AtHeld(a, t) /\ AtHeld(a, t) <= AtOut(a, t)
          /\ AtOut(a, t) <= e
      BY <1>0, OnTheWay
    <3> HIDE DEF Sheet, Types
    <3> QED
      BY <1>0, <2>1, <3>1
  <2>4. /\ x.part # "footer" => x.file \in Delta /\ x.data = remote[x.file]
        /\ x.part \in {"head", "tail", "footer"}
    <3> HIDE DEF Sheet, x
    <3> QED
      BY <2>2, <2>3, TheSheet
  <2>5. ASSUME NEW k \in 1..a, Sheet[k].part = "tail", x.part = "head" PROVE Sheet[k].file # x.file
    <3>1. k \in 1..Len(Sheet) /\ k # (a + 1) + 1
      <4>1. Len(Sheet) \in Nat
        BY <1>0, OnTheWay
      <4> HIDE DEF Sheet, Types
      <4> QED
        BY <2>3, <4>1
    <3> QED
      <4> HIDE DEF Sheet, x
      <4>1. Sheet[k].file = Sheet[a + 1].file => k = (a + 1) + 1
        BY <2>2, <2>3, <2>5, <3>1, TailOfHead
      <4> QED
        BY <2>2, <3>1, <4>1
  <2>6. \A k \in 1..a : Sheet[k].part = "tail" => Sheet[k].file \in Files
    <3>1. \A k \in 1..a : k \in 1..Len(Sheet)
      <4>1. Len(Sheet) \in Nat
        BY <1>0, OnTheWay
      <4> HIDE DEF Sheet, Types
      <4> QED
        BY <2>3, <4>1
    <3> QED
      <4> HIDE DEF Sheet
      <4> QED
        BY <1>s, <3>1, TheSheet
  <2>7. \A f \in Files : local'[f] = IF x.part # "footer" /\ x.file = f
                                   THEN IF x.part = "head" THEN Short ELSE x.data
                                   ELSE local[f]
    BY <2>1 DEF Unpacked, Trees
  <2>8. \A k \in 1..a : Sheet[k].part = "tail" => local[Sheet[k].file] = remote[Sheet[k].file]
    BY <1>0 DEF InPlace
  <2> HIDE DEF x, Sheet
  <2>9. ASSUME NEW k \in 1..a + 1, Sheet[k].part = "tail"
        PROVE  local'[Sheet[k].file] = remote[Sheet[k].file]
    <3>1. CASE k \in 1..a
      BY <2>4, <2>5, <2>6, <2>7, <2>8, <2>9, <3>1
    <3>2. CASE k = a + 1
      BY <1>s, <2>2, <2>4, <2>7, <2>9, <3>2
    <3> QED
      BY <2>3, <3>1, <3>2
  <2>10. Sheet[a + 1].part = "head" => apply' = "tail"
    BY <2>1, <2>2 DEF Expects
  <2>11. InPlace(a + 1)'
    BY <1>1, <1>2, <2>9, <2>10 DEF InPlace
  <2>12. AtSync(a + 1)' = AtSync(a)
    BY <2>1, <2>3 DEF AtSync, One
  <2>13. /\ AtDown(a + 1, t)' = AtDown(a, t) /\ AtHeld(a + 1, t)' = AtHeld(a, t)
         /\ AtOut(a + 1, t)' = AtOut(a, t)
    BY <1>1, <1>3, <2>12 DEF AtDown, AtHeld, AtOut
  <2>14. Along(e, a + 1, t)'
    BY <1>0, <1>1, <1>2, <1>3, <2>1, <2>12, <2>13 DEF Along, Busy
  <2>15. a + 1 \in 0..Len(Sheet')
    BY <1>2, <2>3
  <2> QED
    BY <1>1, <1>2, <2>11, <2>14, <2>15 DEF Underway
<1> QED
  BY <1>4, <1>5 DEF ReadTarBack

\* Once ChangedSince has read the copy there is the whole archive.
LEMMA Setting ==
  ASSUME Types, Stages, Replies, Outcomes, locked = {} \/ "lock" \in happened, Diff, Answering'
  PROVE  Underway' /\ agent' = "read"
<1> USE Parcels DEF Types
<1>1. /\ agent = "diff" /\ UNCHANGED <<local, remote, snap, sync, pipe, held, down, outcome>>
      /\ UNCHANGED apply
  BY DEF Diff, treeVars, pipeVars, netVars, ghostVars, workerVars
<1>2. /\ down = <<>> /\ Len(down) = 0 /\ pipe["out"].piece = None /\ pipe["sync"].piece = None
      /\ held["agent"] = None /\ outcome # "exit"
  BY <1>1, NotYet DEF Stages, Early
<1>3. Delta' = Delta /\ Sheet' = Sheet
  BY <1>1, SheetStays
<1>4. Delta # {} /\ sync
  BY <1>3 DEF Answering, Delta
<1>5. ChangedSince(remote, snap) = Delta
  BY <1>4 DEF Delta
<1>l. locked = {}
  BY DEF Diff, ghostVars, Answering, Silent
<1>6. agent' = "read" /\ pack' = Archive(remote, Delta)
  BY <1>4, <1>5, <1>l DEF Diff
<1>7. pack' = Sheet
  BY <1>6 DEF Sheet
<1>8. Len(Sheet) \in Nat \ {0}
  BY TheSheet
<1> HIDE DEF Sheet
<1>9. /\ (AtSync(0))' = 0 /\ (AtDown(0, 0))' = 0 /\ (AtHeld(0, 0))' = 0 /\ (AtOut(0, 0))' = 0
  BY <1>1, <1>2 DEF AtSync, AtDown, AtHeld, AtOut, One
<1>10. \A i \in 1..Len(pack') : pack'[i] = Sheet[0 + i]
  BY <1>7, <1>8
<1>11. PICK e \in 1..Len(Sheet) : e = Len(Sheet)
  BY <1>8
<1>12. Along(e, 0, 0)'
  BY <1>1, <1>2, <1>3, <1>7, <1>8, <1>9, <1>10, <1>11 DEF Along, Busy
<1>13. InPlace(0)'
  BY DEF InPlace
<1>14. 0 \in 0..Len(Sheet') /\ 0 \in 0..Len(down') /\ e \in 1..Len(Sheet')
  BY <1>1, <1>2, <1>3, <1>8
<1> QED
  BY <1>6, <1>12, <1>13, <1>14 DEF Underway

LEMMA ComingStep ==
  ASSUME Types, Stages, Ranges, Replies, Outcomes, Mirror, [Next]_vars
  PROVE  Coming'
<1> SUFFICES ASSUME Answering' PROVE Underway'
  BY DEF Coming
<1>1. CASE Diff
  BY <1>1, Setting DEF Mirror
<1>2. CASE ~Diff
  <2>1. Answering /\ UNCHANGED <<remote, snap, sync>> /\ Underway
    BY <1>2, StillAnswering DEF Mirror, Coming
  <2>2. link = "up" /\ ~Early /\ agent # "report"
    BY <2>1, NotYet DEF Answering
  <2>3. CASE WriteTarFiles
    <3>1. ~PackVanished /\ ~PackGrew
      BY DEF Answering, Silent, PackVanished, PackGrew, Fault
    <3> QED
      BY <2>1, <2>3, <3>1, Packing
  <2>4. CASE sendTree \/ SendExit \/ ReturnFromRun
    BY <2>1, <2>2, <2>4, Mirroring
  <2>5. CASE streamOver
    BY <2>1, <2>5, Bringing
  <2>6. CASE ReadTarBack
    BY <2>1, <2>6, Applying
  <2>7. CASE UNCHANGED vars \/ WriteTar
    <3>1. UNCHANGED <<local, remote, snap, sync, down, pack, held, apply>>
      BY <2>7 DEF WriteTar, WalkFile, WalkSkips, WalkShort, WalkEnds, vars, treeVars, workerVars,
         mainVars, netVars, ghostVars
    <3>2. pipe'["sync"].piece = pipe["sync"].piece /\ pipe'["out"].piece = pipe["out"].piece
      BY <2>7, Piping, Archived, Parcels DEF Types, WriteTar, WalkFile, WalkSkips, WalkShort, WalkEnds,
         vars, pipeVars
    <3>3. PICK e \in 1..Len(Sheet), a \in 0..Len(Sheet), t \in 0..Len(down) :
            Along(e, a, t) /\ InPlace(a)
      BY <2>1 DEF Underway
    <3>4. Along(e, a, t)' /\ InPlace(a)' /\ Sheet' = Sheet
      BY <3>1, <3>2, <3>3, NotMoved, StillInPlace, SheetStays
    <3> HIDE DEF Sheet
    <3> QED
      BY <3>1, <3>4 DEF Underway
  <2>8. CASE ReadTar \/ recvTree \/ Start \/ StartUnseen \/ CommandEnds \/ Report
    BY <2>2, <2>8 DEF ReadTar, UnpackPiece, UnpackFails, UnpackEnds, recvTree, RecvPiece, RecvPut,
       RecvEnd, RecvBroken, RecvDone, Start, StartUnseen, CommandEnds, Report, Stages, Early, Receiving
  <2>9. CASE Lose
    BY <2>9 DEF Lose, Answering
  <2> QED
    BY <1>2, <2>3, <2>4, <2>5, <2>6, <2>7, <2>8, <2>9 DEF Next, handleRunDir
<1> QED
  BY <1>1, <1>2

\* A pipe once closed is never opened again.
LEMMA StaysClosed ==
  ASSUME Types, [Next]_vars, NEW p \in Pipes, pipe[p].closed PROVE pipe'[p].closed
<1> USE Parcels
<1>1. ASSUME NEW q \in Pipes, \/ \E x \in Pieces : Write(q, x)
                                \/ Take(q)
                                \/ Close(q)
      PROVE  pipe'[p].closed
  <2>1. pipe \in Ducts
    BY DEF Types
  <2>2. CASE Close(q)
    BY <2>1, <2>2, Closing
  <2>3. CASE ~Close(q)
    <3>1. pipe'[q].closed = pipe[q].closed
      BY <1>1, <2>1, <2>3, Closing
    <3>2. \A r \in Pipes \ {q} : pipe'[r] = pipe[r]
      BY <1>1, <2>1, <2>3, Piping
    <3> QED
      BY <3>1, <3>2
  <2> QED
    BY <2>2, <2>3
<1>2. CASE UNCHANGED pipe
  BY <1>2
<1>3. /\ walk # <<>> => Head(walk) \in Pieces
      /\ pack # <<>> => Head(pack) \in Pieces
      /\ up # <<>> => Head(up).piece \in Pieces
      /\ down # <<>> => Head(down).piece \in Pieces
  BY Archived, Queued DEF Types
<1>4. CASE WriteTar
  <2>1. \/ UNCHANGED pipe \/ Close("up") \/ \E x \in Pieces : Write("up", x)
    BY <1>3, <1>4 DEF WriteTar, WalkFile, WalkSkips, WalkShort, WalkEnds, pipeVars
  <2> QED
    BY <1>1, <1>2, <2>1
<1>5. CASE WriteTarFiles
  <2>1. \/ UNCHANGED pipe \/ Close("out") \/ \E x \in Pieces : Write("out", x)
    BY <1>3, <1>5 DEF WriteTarFiles, PackFile, PackShort, PackVanished, PackGrew, PackEnds, pipeVars
  <2> QED
    BY <1>1, <1>2, <2>1
<1>6. CASE ReadTar \/ ReadTarBack
  <2>1. UNCHANGED pipe \/ Take("in") \/ Take("sync")
    BY <1>6 DEF ReadTar, UnpackPiece, UnpackFails, UnpackEnds, ReadTarBack, ApplyPiece, ApplyFails,
       ApplyEnds, pipeVars
  <2> QED
    BY <1>1, <1>2, <2>1
<1>7. CASE streamOver
  <2>1. \/ UNCHANGED pipe \/ Take("up") \/ Close("sync") \/ \E x \in Pieces : Write("sync", x)
    BY <1>3, <1>7 DEF streamOver, UploadRead, UploadFrame, UploadBroken, UploadEnd, ReadOutTar,
       ReadOutTarDone, ReadOutEnd, ReadSyncErr, ReadExit, ReadBroken, pipeVars
  <2> QED
    BY <1>1, <1>2, <2>1
<1>8. CASE handleRunDir
  <2>1. \/ UNCHANGED pipe \/ Take("out") \/ Close("in") \/ \E x \in Pieces : Write("in", x)
    BY <1>3, <1>8 DEF handleRunDir, recvTree, RecvPiece, RecvPut, RecvEnd, RecvBroken, RecvDone, Start, StartUnseen,
       CommandEnds, Diff, sendTree, MirrorRead, MirrorFrame, MirrorBroken, MirrorEnd, SendExit, Report,
       ReturnFromRun, pipeVars
  <2> QED
    BY <1>1, <1>2, <2>1
<1>9. CASE Lose \/ UNCHANGED vars
  BY <1>2, <1>9 DEF Lose, vars, pipeVars
<1> QED
  BY <1>4, <1>5, <1>6, <1>7, <1>8, <1>9 DEF Next

\* The end of the archive is behind its last piece until the client has seen it.
LEMMA EndedStep ==
  ASSUME Types, Stages, Ranges, Replies, Outcomes, Mirror, [Next]_vars
  PROVE  Ended'
<1> USE Parcels DEF Types
<1> SUFFICES ASSUME Answering', agent' \in Over
             PROVE  pipe'["sync"].closed \/ \E i \in 1..Len(down') : down'[i].type = "outend"
  BY DEF Ended
<1>1. ~Diff
  BY Setting DEF Mirror, Over
<1>2. Answering /\ ~Early /\ agent # "report" /\ link = "up"
  <2>1. Answering
    BY <1>1, StillAnswering
  <2> QED
    BY <2>1, NotYet DEF Answering
<1>3. CASE MirrorEnd
  <2>1. Frame("outend", None) \in Frames /\ Frame("outend", None).type = "outend"
    BY DEF Frame
  <2>2. SendDown(Frame("outend", None))
    BY <1>3 DEF MirrorEnd
  <2>3. Len(down) \in Nat /\ Len(down') = Len(down) + 1 /\ down'[Len(down) + 1].type = "outend"
    BY <1>2, <2>1, <2>2, Sent
  <2>4. Len(down) + 1 \in 1..Len(down')
    BY <2>3
  <2> QED
    BY <2>3, <2>4
<1>4. CASE ~MirrorEnd
  <2>1. agent \in Over
    <3>1. CASE handleRunDir
      BY <1>1, <1>2, <1>4, <3>1 DEF handleRunDir, recvTree, RecvPiece, RecvPut, RecvEnd, RecvBroken,
         RecvDone, Start, StartUnseen, CommandEnds, sendTree, MirrorRead, MirrorFrame, MirrorBroken, SendExit,
         Report, ReturnFromRun, Ranges, Outcomes, Over, Early, Receiving
    <3>2. CASE ~handleRunDir
      BY <3>2 DEF Next, WriteTar, WalkFile, WalkSkips, WalkShort, WalkEnds, ReadTar, UnpackPiece,
         UnpackFails, UnpackEnds, ReadTarBack, ApplyPiece, ApplyFails, ApplyEnds, WriteTarFiles, PackFile,
         PackShort, PackVanished, PackGrew, PackEnds, streamOver, UploadRead, UploadFrame, UploadBroken, UploadEnd, ReadOutTar,
         ReadOutTarDone, ReadOutEnd, ReadSyncErr, ReadExit, ReadBroken, Lose, mainVars, vars
    <3> QED
      BY <3>1, <3>2
  <2>2. pipe["sync"].closed \/ \E i \in 1..Len(down) : down[i].type = "outend"
    BY <1>2, <2>1 DEF Mirror, Ended
  <2>3. pipe["sync"].closed => pipe'["sync"].closed
    BY StaysClosed
  <2>4. ASSUME NEW i \in 1..Len(down), down[i].type = "outend"
        PROVE  pipe'["sync"].closed \/ \E k \in 1..Len(down') : down'[k].type = "outend"
    <3>1. CASE SendExit
      <4>1. Frame("exit", None) \in Frames
        OBVIOUS
      <4>2. Len(down) \in Nat /\ Len(down') = Len(down) + 1 /\ down'[i] = down[i]
        BY <1>2, <3>1, <4>1, Sent DEF SendExit
      <4>3. i \in 1..Len(down')
        BY <4>2
      <4> QED
        BY <2>4, <4>2, <4>3
    <3>2. CASE ReadOutTar \/ ReadExit
      <4>1. /\ down # <<>> /\ down' = Tail(down) /\ Head(down).type # "outend"
        BY <3>2 DEF ReadOutTar, ReadExit
      <4>2. /\ Len(down) \in Nat \ {0} /\ Head(down) = down[1] /\ Len(down') = Len(down) - 1
            /\ \A k \in 1..Len(down') : down'[k] = down[k + 1]
        BY <4>1, Taken
      <4>3. PICK k \in 1..Len(down') : i = k + 1
        <5>1. i # 1
          BY <2>4, <4>1, <4>2
        <5>2. i - 1 \in 1..Len(down') /\ i = (i - 1) + 1
          BY <4>2, <5>1
        <5> QED
          BY <5>2
      <4>4. down'[k] = down[i]
        BY <4>2, <4>3
      <4> QED
        BY <2>4, <4>4
    <3>3. CASE ReadOutEnd
      BY <3>3, Closing DEF ReadOutEnd
    <3>4. CASE UNCHANGED down
      BY <2>4, <3>4
    <3>5. UNCHANGED down \/ SendExit \/ ReadOutTar \/ ReadExit \/ ReadOutEnd
      <4>1. CASE handleRunDir
        BY <2>1, <4>1 DEF handleRunDir, recvTree, RecvPiece, RecvPut, RecvEnd, RecvBroken, RecvDone,
           Start, StartUnseen, CommandEnds, Diff, sendTree, MirrorRead, MirrorFrame, MirrorBroken, MirrorEnd, Report,
           ReturnFromRun, Over, netVars
      <4>2. CASE Lose
        BY <4>2 DEF Lose, Answering
      <4>3. CASE ~handleRunDir /\ ~Lose
        BY <4>3 DEF Next, WriteTar, WalkFile, WalkSkips, WalkShort, WalkEnds, ReadTar, UnpackPiece,
           UnpackFails, UnpackEnds, ReadTarBack, ApplyPiece, ApplyFails, ApplyEnds, WriteTarFiles,
           PackFile, PackShort, PackVanished, PackGrew, PackEnds, streamOver, UploadRead, UploadFrame, UploadBroken, UploadEnd,
           ReadOutTarDone, ReadSyncErr, ReadBroken, netVars, vars
      <4> QED
        BY <4>1, <4>2, <4>3
    <3> QED
      BY <3>1, <3>2, <3>3, <3>4, <3>5
  <2> QED
    BY <2>2, <2>3, <2>4
<1> QED
  BY <1>3, <1>4

LEMMA MirrorHolds == Spec => [](IInv /\ Bounds /\ Mirror)
<1>1. Init => Mirror
  <2> SUFFICES ASSUME Init PROVE Mirror
    OBVIOUS
  <2>1. locked = {} /\ agent = "recv"
    BY DEF Init
  <2>2. ~Answering
    BY DEF Init, Answering
  <2> QED
    BY <2>1, <2>2 DEF Mirror, Coming, Ended
<1>2. IInv /\ Bounds /\ Mirror /\ [Next]_vars => Mirror'
  <2> SUFFICES ASSUME IInv, Bounds, Mirror, [Next]_vars PROVE Mirror'
    OBVIOUS
  <2>1. Types /\ Stages /\ Ranges /\ Replies /\ Outcomes
    BY DEF IInv, Bounds
  <2>2. locked' = {} \/ "lock" \in happened'
    <3>1. locked = {} \/ "lock" \in happened'
      BY Remembers DEF Mirror
    <3>2. CASE CommandEnds
      BY <3>1, <3>2 DEF CommandEnds, Fault
    <3>3. CASE ~CommandEnds
      <4>1. locked' = locked
        BY <3>3 DEF Next, WriteTar, WalkFile, WalkSkips, WalkShort, WalkEnds, ReadTar, UnpackPiece,
         UnpackFails, UnpackEnds, ReadTarBack, ApplyPiece, ApplyFails, ApplyEnds, WriteTarFiles, PackFile,
         PackShort, PackVanished, PackGrew, PackEnds, streamOver, UploadRead, UploadFrame, UploadBroken, UploadEnd, ReadOutTar,
         ReadOutTarDone, ReadOutEnd, ReadSyncErr, ReadExit, ReadBroken, handleRunDir, recvTree, RecvPiece,
         RecvPut, RecvEnd, RecvBroken, RecvDone, Start, StartUnseen, Diff, sendTree, MirrorRead,
         MirrorFrame, MirrorBroken, MirrorEnd, SendExit, Report, ReturnFromRun, Lose, vars, treeVars
      <4> QED
        BY <3>1, <4>1
    <3> QED
      BY <3>2, <3>3
  <2> QED
    BY <2>1, <2>2, ComingStep, EndedStep DEF Mirror
<1> QED
  BY <1>1, <1>2, BoundsHold, PTL DEF Spec

\* The exit code is returned only after every file the command created or changed
\* is back as it left it and every other one as it was, whatever failed and wherever
\* the archive or the connection was cut, unless applying the archive failed, a file
\* of it was left unreadable, vanished or grew (sendTree, WriteTarFiles, streamOver
\* and its ReadTar).
THEOREM DeltaComplete == Spec => []SyncComplete
<1>1. IInv /\ Bounds /\ Mirror => SyncComplete
  <2> SUFFICES ASSUME IInv, Bounds, Mirror, outcome = "exit", apply # "failed",
                      happened \cap Silent = {}
               PROVE  local = [f \in Files |-> IF f \in Touched THEN remote[f] ELSE before[f]]
    BY DEF SyncComplete, AsLeft
  <2>1. Types /\ Ranges /\ Replies /\ Pipelines /\ Outcomes
    BY DEF IInv, Bounds
  <2>2. /\ link = "up" /\ down = <<>> /\ Len(down) = 0 /\ agent \in {"return", "closed"}
        /\ client = "done"
    BY <2>1 DEF Outcomes
  <2>3. /\ pack = <<>> /\ Len(pack) = 0 /\ ~Busy("out") /\ held["agent"] = None
    BY <2>1, <2>2 DEF Replies, Over
  <2>4. ASSUME NEW f \in Delta PROVE local[f] = remote[f]
    <3>1. Answering
      BY <2>2, <2>4 DEF Answering
    <3>2. pipe["sync"].closed
      BY <2>2, <3>1 DEF Mirror, Ended, Over
    <3>3. ~Busy("sync") /\ ~Reading(apply)
      BY <2>1, <2>2, <3>2 DEF Pipelines
    <3>4. PICK e \in 1..Len(Sheet), a \in 0..Len(Sheet), t \in 0..Len(down) :
            Along(e, a, t) /\ InPlace(a)
      BY <3>1 DEF Mirror, Coming, Underway
    <3>5. e = a /\ Len(Sheet) \in Nat
      <4>1. /\ AtSync(a) = a /\ AtHeld(a, t) = AtDown(a, t) /\ AtOut(a, t) = AtHeld(a, t)
            /\ Len(Sheet) \in Nat
        BY <2>1, <2>3, <3>3, <3>4, OnTheWay
      <4>2. AtDown(a, t) = AtSync(a) + t /\ t = 0
        BY <2>2 DEF AtDown
      <4>3. AtOut(a, t) + Len(pack) = e
        BY <3>4 DEF Along
      <4> HIDE DEF Sheet
      <4> QED
        BY <2>3, <4>1, <4>2, <4>3
    <3>6. Sheet[a].part # "head"
      <4>1. a > 0
        BY <3>5
      <4> QED
        BY <3>3, <3>4, <4>1 DEF InPlace, Reading
    <3>7. e = Len(Sheet)
      BY <3>4, <3>5, <3>6 DEF Along
    <3>8. PICK k \in 1..Len(Sheet) : Sheet[k].part = "tail" /\ Sheet[k].file = f
      BY <2>1, <2>4, TheSheet
    <3> HIDE DEF Sheet
    <3> QED
      BY <3>4, <3>5, <3>7, <3>8 DEF InPlace
  <2>5. ASSUME NEW f \in Touched PROVE f \in Delta
    BY DEF Touched, Delta, ChangedSince, Present, IInv, Stages
  <2>6. ASSUME NEW f \in Files \ Touched PROVE local[f] = before[f]
    <3>1. CASE f \in Delta
      <4>1. remote[f] # None /\ remote[f] = given[f]
        BY <2>6, <3>1 DEF Touched, Delta, ChangedSince, Present
      <4>2. given[f] \in {None, Short, before[f]} /\ given[f] # Short
        BY DEF IInv, Uploaded, Copied, GivenNoneShort
      <4> QED
        BY <2>4, <3>1, <4>1, <4>2
    <3>2. CASE f \notin Delta
      BY <3>2 DEF IInv, Mirrored
    <3> QED
      BY <3>1, <3>2
  <2>7. local \in [Files -> Contents]
    BY <2>1 DEF Types, Trees, Contents
  <2> QED
    BY <2>4, <2>5, <2>6, <2>7
<1> QED
  BY <1>1, MirrorHolds, PTL

=============================================================================
