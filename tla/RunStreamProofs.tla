-------------------------- MODULE RunStreamProofs ---------------------------
(***************************************************************************)
(* Proofs about RunStream for every value of its constants.                 *)
(***************************************************************************)
EXTENDS RunStream, TLAPS

-----------------------------------------------------------------------------
(***************************************************************************)
(* Every variable stays in its range.                                       *)
(***************************************************************************)

\* Appending a frame keeps what was there and puts the frame last.
LEMMA AppendFrame ==
  ASSUME NEW q \in Seq(FrameSet), NEW f \in FrameSet
  PROVE  /\ Append(q, f) \in Seq(FrameSet)
         /\ Len(Append(q, f)) = Len(q) + 1
         /\ Append(q, f)[Len(q) + 1] = f
         /\ \A i \in 1..Len(q) : Append(q, f)[i] = q[i]
  OBVIOUS

\* What a log of frames holds are frames.
LEMMA FrameOf ==
  ASSUME NEW q \in Seq(FrameSet), NEW i \in 1..Len(q)
  PROVE  q[i] \in FrameSet /\ q[i].type \in FrameTypes /\ q[i].num \in Nat
<1>1. q[i] \in FrameSet
  OBVIOUS
<1> QED
  BY <1>1 DEF FrameSet

\* A reader that is writing to stdin holds the frame it has read.
FrameHeld == reader = "stdin" => upRead > 0

\* Every action keeps the variables in their ranges.
LEMMA TypeStep == TypeOK /\ FrameHeld /\ [Next]_vars => TypeOK'
<1> SUFFICES ASSUME TypeOK, FrameHeld, [Next]_vars PROVE TypeOK'
  OBVIOUS
<1> USE ConstantsAssumption DEF TypeOK
<1>a. CASE CommandStep
  <2> USE DEF procVars, pipeVars, stdinVars, agentVars, netVars, wireVars, upVars, clientVars
  <2>1. ASSUME NEW s \in Streams, Output(s) PROVE TypeOK'
    <3>1. /\ made' = [made EXCEPT ![s] = @ + 1]
          /\ UNCHANGED <<procVars, taken, stdinVars, agentVars, netVars, clientVars>>
      BY <2>1 DEF Output
    <3> QED
      BY <3>1
  <2>2. CASE EatStdin
    BY <2>2 DEF EatStdin
  <2>3. CASE Fork \/ ChildExit \/ ReusePid
    <3>1. CASE Fork
      <4>1. child' = "run" /\ UNCHANGED <<cmd, leader, code, reused, stray, pipeVars,
                                           agentVars, netVars, clientVars>>
        BY <3>1 DEF Fork
      <4> QED
        BY <4>1
    <3>2. CASE ChildExit
      BY <3>2 DEF ChildExit
    <3>3. CASE ReusePid
      <4>1. reused' = TRUE /\ UNCHANGED <<cmd, leader, child, code, stray, pipeVars,
                                           agentVars, netVars, clientVars>>
        BY <3>3 DEF ReusePid
      <4> QED
        BY <4>1
    <3> QED
      BY <2>3, <3>1, <3>2, <3>3
  <2>4. ASSUME NEW c \in ExitCodes, LeaderExit(c) PROVE TypeOK'
    BY <2>4 DEF LeaderExit
  <2> QED
    BY <1>a, <2>1, <2>2, <2>3, <2>4 DEF CommandStep
<1>b. CASE Kill
  <2>1. ASSUME NEW n \in {SIGINT, SIGKILL}, Signal(n)
        PROVE  /\ leader' \in {"run", "zombie", "reaped"}
               /\ child' \in {"none", "run", "gone"}
               /\ code' \in Nat /\ stray' \in BOOLEAN /\ cmd' = cmd /\ reused' = reused
    BY <2>1 DEF Signal, SIGINT, SIGKILL
  <2>2. CASE KillCheck
    BY <2>2 DEF KillCheck, procVars, pipeVars, stdinVars, netVars, wireVars, upVars, clientVars
  <2>3. CASE KillInterrupt
    BY <2>1, <2>3 DEF KillInterrupt, pipeVars, stdinVars, netVars, wireVars, upVars, clientVars
  <2>4. CASE KillTimeout
    BY <2>1, <2>4 DEF KillTimeout, pipeVars, stdinVars, netVars, wireVars, upVars, clientVars
  <2>5. CASE KillStandDown
    BY <2>5 DEF KillStandDown, procVars, pipeVars, stdinVars, netVars, wireVars, upVars, clientVars
  <2> QED
    BY <1>b, <2>2, <2>3, <2>4, <2>5 DEF Kill
<1>c. CASE Main
  <2>1. CASE Wait
    BY <2>1 DEF Wait, netVars, wireVars, upVars, clientVars
  <2>2. CASE Finish
    BY <2>2 DEF Finish, procVars, pipeVars, stdinVars, netVars, wireVars, upVars, clientVars
  <2>3. CASE WriteExit
    <3>1. Frame("exit", code) \in FrameSet
      BY DEF Frame, FrameSet, FrameTypes
    <3>2. wire' \in Seq(FrameSet) /\ got' \in 0..Len(wire')
      <4>1. wire' = wire \/ wire' = Append(wire, Frame("exit", code))
        BY <2>3 DEF WriteExit
      <4>2. CASE wire' = wire
        BY <2>3, <4>2 DEF WriteExit
      <4>3. CASE wire' = Append(wire, Frame("exit", code))
        BY <2>3, <3>1, <4>3, AppendFrame DEF WriteExit
      <4> QED
        BY <4>1, <4>2, <4>3
    <3> QED
      BY <2>3, <3>2 DEF WriteExit, procVars, pipeVars, stdinVars, upVars, clientVars
  <2>4. CASE CloseConn
    BY <2>4 DEF CloseConn, procVars, pipeVars, stdinVars, wireVars, upVars, clientVars
  <2> QED
    BY <1>c, <2>1, <2>2, <2>3, <2>4 DEF Main
<1>d. CASE Reader
  <2>1. CASE ReadFrame
    <3>1. CanReadUp /\ upRead' = upRead + 1 /\ up' = up
      BY <2>1 DEF ReadFrame, ReadStdin, ReadEOF, ReadSignal
    <3>2. NextUp \in FrameSet /\ NextUp.num \in Nat
      <4>1. upRead + 1 \in 1..Len(up)
        BY <3>1 DEF CanReadUp
      <4> QED
        BY <4>1, FrameOf DEF NextUp
    <3>3. upRead' \in 0..Len(up')
      BY <3>1 DEF CanReadUp
    <3>4. CASE ReadStdin
      BY <3>3, <3>4 DEF ReadStdin, procVars, pipeVars, stdinVars, wireVars, clientVars
    <3>5. CASE ReadEOF
      BY <3>3, <3>5 DEF ReadEOF, procVars, agentVars, wireVars, clientVars
    <3>6. CASE ReadSignal
      <4>1. /\ leader' \in {"run", "zombie", "reaped"}
            /\ child' \in {"none", "run", "gone"}
            /\ code' \in Nat /\ stray' \in BOOLEAN /\ cmd' = cmd /\ reused' = reused
        BY <3>2, <3>6 DEF ReadSignal, Signal
      <4> QED
        BY <3>3, <3>6, <4>1 DEF ReadSignal, pipeVars, stdinVars, agentVars, wireVars, clientVars
    <3> QED
      BY <2>1, <3>4, <3>5, <3>6 DEF ReadFrame
  <2>2. CASE StdinWrite
    <3>1. fed' \in Nat
      <4>1. upRead \in 1..Len(up)
        BY <2>2 DEF StdinWrite, FrameHeld
      <4>2. up[upRead].num \in Nat
        BY <4>1, FrameOf
      <4> QED
        BY <2>2, <4>2 DEF StdinWrite
    <3> QED
      BY <2>2, <3>1 DEF StdinWrite, procVars, netVars, wireVars, upVars, clientVars
  <2>3. CASE ReadError
    BY <2>3 DEF ReadError, procVars, pipeVars, stdinVars, netVars, wireVars, upVars, clientVars
  <2>4. CASE ReaderKilled
    BY <2>4 DEF ReaderKilled, procVars, pipeVars, stdinVars, netVars, wireVars, upVars, clientVars
  <2> QED
    BY <1>d, <2>1, <2>2, <2>3, <2>4 DEF Reader
<1>e. ASSUME NEW s \in Streams, Pump(s) PROVE TypeOK'
  <2>1. CASE PumpRead(s)
    BY <2>1 DEF PumpRead, procVars, pipeVars, stdinVars, netVars, wireVars, upVars, clientVars
  <2>2. CASE PumpWrite(s)
    <3>1. Frame(s, taken[s]) \in FrameSet
      BY DEF Frame, FrameSet, FrameTypes
    <3>2. wire' \in Seq(FrameSet) /\ got' \in 0..Len(wire')
      BY <2>2, <3>1, AppendFrame DEF PumpWrite
    <3> QED
      BY <2>2, <3>2 DEF PumpWrite, procVars, pipeVars, stdinVars, upVars, clientVars
  <2>3. CASE PumpWriteLost(s)
    BY <2>3 DEF PumpWriteLost, procVars, pipeVars, stdinVars, netVars, wireVars, upVars, clientVars
  <2>4. CASE PumpKilled(s)
    BY <2>4 DEF PumpKilled, procVars, pipeVars, stdinVars, netVars, wireVars, upVars, clientVars
  <2>5. CASE PumpEOF(s)
    BY <2>5 DEF PumpEOF, procVars, pipeVars, stdinVars, netVars, wireVars, upVars, clientVars
  <2> QED
    BY <1>e, <2>1, <2>2, <2>3, <2>4, <2>5 DEF Pump
<1>f. CASE Client
  <2>0. ASSUME NEW f \in FrameSet, ClientSend(f)
        PROVE  /\ link' \in {"up", "lost", "reset", "closed"}
               /\ up' \in Seq(FrameSet)
               /\ upRead \in 0..Len(up')
    <3>1. CASE main = "closed"
      BY <2>0, <3>1 DEF ClientSend
    <3>2. CASE main # "closed"
      <4>1. link' = link /\ up' = Append(up, f)
        BY <2>0, <3>2 DEF ClientSend
      <4> QED
        BY <4>1, AppendFrame
    <3> QED
      BY <3>1, <3>2
  <2>1. CASE SendStdin
    <3>1. Frame("stdin", nextIn) \in FrameSet
      BY DEF Frame, FrameSet, FrameTypes
    <3> QED
      BY <2>0, <2>1, <3>1 DEF SendStdin, procVars, pipeVars, stdinVars, agentVars, wireVars
  <2>2. CASE SendEOF
    <3>1. Frame("eof", 0) \in FrameSet
      BY DEF Frame, FrameSet, FrameTypes
    <3> QED
      BY <2>0, <2>2, <3>1 DEF SendEOF, procVars, pipeVars, stdinVars, agentVars, wireVars
  <2>3. CASE SendSignal
    <3>1. Frame("signal", pending) \in FrameSet
      BY DEF Frame, FrameSet, FrameTypes, SIGINT, SIGTERM
    <3> QED
      BY <2>0, <2>3, <3>1 DEF SendSignal, procVars, pipeVars, stdinVars, agentVars, wireVars
  <2>4. CASE Show
    <3>0. got + 1 \in 1..Len(wire)
      BY <2>4 DEF Show, CanReadWire
    <3>1. wire[got + 1].num \in Nat
      BY <3>0, FrameOf
    <3> QED
      BY <2>4, <3>0, <3>1 DEF Show, procVars, pipeVars, stdinVars, agentVars, upVars
  <2>5. CASE ReadExit
    <3>0. got + 1 \in 1..Len(wire)
      BY <2>5 DEF ReadExit, CanReadWire
    <3>1. wire[got + 1].num \in Nat
      BY <3>0, FrameOf
    <3> QED
      BY <2>5, <3>0, <3>1 DEF ReadExit, procVars, pipeVars, stdinVars, agentVars, upVars
  <2>6. CASE ReadFails
    BY <2>6 DEF ReadFails, procVars, pipeVars, stdinVars, agentVars, netVars, wireVars, upVars
  <2>7. ASSUME NEW n \in Signals, Interrupt(n) PROVE TypeOK'
    BY <2>7 DEF Interrupt, procVars, pipeVars, stdinVars, agentVars, netVars, wireVars, upVars
  <2> QED
    BY <1>f, <2>1, <2>2, <2>3, <2>4, <2>5, <2>6, <2>7 DEF Client, ReadLoop
<1>g. CASE Lose
  BY <1>g DEF Lose, procVars, pipeVars, stdinVars, agentVars, wireVars, upVars, clientVars
<1>h. CASE UNCHANGED vars
  BY <1>h DEF vars, procVars, pipeVars, stdinVars, agentVars, netVars, wireVars, upVars, clientVars
<1> QED
  BY <1>a, <1>b, <1>c, <1>d, <1>e, <1>f, <1>g, <1>h DEF Next

\* Only ReadStdin makes the reader hold a frame, and it has then read one.
LEMMA HeldStep == TypeOK /\ FrameHeld /\ [Next]_vars => FrameHeld'
<1> SUFFICES ASSUME TypeOK, FrameHeld, [Next]_vars PROVE FrameHeld'
  OBVIOUS
<1> USE DEF FrameHeld
<1>1. CASE ReadFrame
  BY <1>1 DEF ReadFrame, ReadStdin, ReadEOF, ReadSignal, CanReadUp, agentVars, TypeOK
<1>2. CASE StdinWrite \/ ReadError \/ ReaderKilled
  BY <1>2 DEF StdinWrite, ReadError, ReaderKilled
<1>3. CASE UNCHANGED <<reader, upRead>>
  BY <1>3
<1>4. ReadFrame \/ StdinWrite \/ ReadError \/ ReaderKilled \/ UNCHANGED <<reader, upRead>>
  BY DEF Next, vars, agentVars, netVars, upVars, Reader,
         CommandStep, Output, EatStdin, Fork, LeaderExit, ChildExit, ReusePid,
         Kill, KillCheck, KillInterrupt, KillTimeout, KillStandDown,
         Main, Wait, Finish, WriteExit, CloseConn,
         Pump, PumpRead, PumpWrite, PumpWriteLost, PumpKilled, PumpEOF,
         Client, ReadLoop, SendStdin, SendEOF, SendSignal, Interrupt,
         Show, ReadExit, ReadFails, Lose
<1> QED
  BY <1>1, <1>2, <1>3, <1>4

\* Type correctness of every reachable state (TypeOK of RunStream).
THEOREM TypeCorrect == Spec => []TypeOK
<1>1. Init => TypeOK
  <2> SUFFICES ASSUME Init PROVE TypeOK
    OBVIOUS
  <2>1. wire \in Seq(FrameSet) /\ got \in 0..Len(wire)
    BY DEF Init
  <2>2. up \in Seq(FrameSet) /\ upRead \in 0..Len(up)
    BY DEF Init
  <2>3. nextIn \in 1..(MaxIn + 2)
    BY ConstantsAssumption DEF Init
  <2> QED
    BY <2>1, <2>2, <2>3, ConstantsAssumption DEF Init, TypeOK
<1> QED
  <2>1. Init => FrameHeld
    BY DEF Init, FrameHeld
  <2> QED
    BY <1>1, <2>1, TypeStep, HeldStep, PTL DEF Spec

-----------------------------------------------------------------------------
(***************************************************************************)
(* Who is where: the pumps, main, the reader and the kill against the       *)
(* process, the pipes and the connection.                                   *)
(***************************************************************************)
MainInv ==
  /\ main = "pumps" => leader # "reaped"
  /\ main # "pumps" => leader = "reaped" /\ \A s \in Streams : pump[s] = "done"

\* A pump that is done with the connection still there has read to the end of
\* its pipe, which nobody can write to any more.
PumpInv ==
  /\ \A s \in Streams : taken[s] <= made[s]
  /\ \A s \in Streams : pump[s] = "write" => taken[s] >= 1
  /\ link # "lost" =>
       \A s \in Streams : /\ pump[s] # "kill"
                          /\ pump[s] = "done" => taken[s] = made[s] /\ ~HoldsPipe

\* The exit frame is the last on the wire and carries the command's status.
ExitInv ==
  \A i \in 1..Len(wire) :
    wire[i].type = "exit" =>
      /\ i = Len(wire)
      /\ wire[i].num = code
      /\ main \in {"sent", "closed"}

\* The connection ends in order only once main has closed finished.
LinkInv ==
  /\ link \in {"closed", "reset"} => Finished
  /\ reader = "kill" => link # "up" \/ main = "closed"

Control == MainInv /\ PumpInv /\ ExitInv /\ LinkInv /\ NoSpuriousKill

\* What a signal can do to the processes it is sent to.
LEMMA SignalEffect ==
  ASSUME NEW n, Signal(n)
  PROVE  /\ cmd' = cmd
         /\ \/ leader' = leader /\ code' = code
            \/ leader = "run" /\ leader' = "zombie"
         /\ child' = child \/ child' = "gone"
<1>1. CASE leader = "run" /\ (n = SIGKILL \/ ~cmd.stubborn)
  BY <1>1 DEF Signal
<1>2. CASE ~(leader = "run" /\ (n = SIGKILL \/ ~cmd.stubborn))
  BY <1>2 DEF Signal
<1> QED
  BY <1>1, <1>2

\* Once the output pipes have no writer they never get one again.
LEMMA PipeStaysClosed == ~HoldsPipe /\ [Next]_vars => ~HoldsPipe'
<1> SUFFICES ASSUME ~HoldsPipe, [Next]_vars PROVE ~HoldsPipe'
  OBVIOUS
<1> USE DEF HoldsPipe
<1>1. CASE \E n : Signal(n)
  BY <1>1, SignalEffect
<1>2. CASE ChildExit \/ Fork \/ Wait \/ \E c \in ExitCodes : LeaderExit(c)
  BY <1>2 DEF LeaderExit, ChildExit, Fork, Wait
<1>3. CASE UNCHANGED <<cmd, leader, child>>
  BY <1>3
<1>4. \/ \E n : Signal(n)
      \/ ChildExit \/ Fork \/ Wait \/ \E c \in ExitCodes : LeaderExit(c)
      \/ UNCHANGED <<cmd, leader, child>>
  BY DEF Next, vars, procVars,
         CommandStep, Output, EatStdin, ReusePid,
         Kill, KillCheck, KillInterrupt, KillTimeout, KillStandDown,
         Main, Finish, WriteExit, CloseConn,
         Reader, ReadFrame, ReadStdin, ReadEOF, ReadSignal, StdinWrite, ReadError, ReaderKilled,
         Pump, PumpRead, PumpWrite, PumpWriteLost, PumpKilled, PumpEOF,
         Client, ReadLoop, SendStdin, SendEOF, SendSignal, Interrupt,
         Show, ReadExit, ReadFails, Lose
<1> QED
  BY <1>1, <1>2, <1>3, <1>4

LEMMA MainStep == TypeOK /\ Control /\ [Next]_vars => MainInv'
<1> SUFFICES ASSUME TypeOK, Control, [Next]_vars PROVE MainInv'
  OBVIOUS
<1> USE DEF MainInv, Control
<1>1. CASE Wait
  BY <1>1 DEF Wait
<1>2. CASE Finish \/ WriteExit \/ CloseConn
  BY <1>2 DEF Finish, WriteExit, CloseConn, procVars
<1>3. ASSUME NEW s \in Streams, Pump(s) PROVE MainInv'
  <2>1. pump[s] # "done" /\ main = "pumps"
    BY <1>3 DEF Pump, PumpRead, PumpWrite, PumpWriteLost, PumpKilled, PumpEOF
  <2>2. main' = main /\ leader' = leader
    BY <1>3 DEF Pump, PumpRead, PumpWrite, PumpWriteLost, PumpKilled, PumpEOF, procVars
  <2> QED
    BY <2>1, <2>2
<1>4. CASE (\E n : Signal(n)) /\ main' = main /\ pump' = pump
  BY <1>4, SignalEffect
<1>5. CASE (\E c \in ExitCodes : LeaderExit(c)) /\ main' = main /\ pump' = pump
  BY <1>5 DEF LeaderExit
<1>6. CASE UNCHANGED <<main, leader, pump>>
  BY <1>6
<1>7. \/ Wait \/ Finish \/ WriteExit \/ CloseConn
      \/ \E s \in Streams : Pump(s)
      \/ (\E n : Signal(n)) /\ main' = main /\ pump' = pump
      \/ (\E c \in ExitCodes : LeaderExit(c)) /\ main' = main /\ pump' = pump
      \/ UNCHANGED <<main, leader, pump>>
  BY DEF Next, vars, procVars, agentVars,
         CommandStep, Output, EatStdin, ReusePid, Fork, ChildExit, LeaderExit,
         Kill, KillCheck, KillInterrupt, KillTimeout, KillStandDown, Main,
         Reader, ReadFrame, ReadStdin, ReadEOF, ReadSignal, StdinWrite, ReadError, ReaderKilled,
         Client, ReadLoop, SendStdin, SendEOF, SendSignal, Interrupt,
         Show, ReadExit, ReadFails, Lose
<1> QED
  BY <1>1, <1>2, <1>3, <1>4, <1>5, <1>6, <1>7

LEMMA PumpStep == TypeOK /\ Control /\ [Next]_vars => PumpInv'
<1> SUFFICES ASSUME TypeOK, Control, [Next]_vars PROVE PumpInv'
  OBVIOUS
<1> USE DEF PumpInv, Control, TypeOK
<1>0. ~HoldsPipe => ~HoldsPipe'
  BY PipeStaysClosed
<1>1. ASSUME NEW s \in Streams, Output(s) PROVE PumpInv'
  BY SMTT(30), <1>0, <1>1 DEF Output, agentVars, netVars
<1>2. ASSUME NEW s \in Streams, Pump(s) PROVE PumpInv'
  <2>1. CASE PumpRead(s)
    BY <1>0, <2>1 DEF PumpRead, netVars
  <2>2. CASE PumpWrite(s)
    BY <1>0, <2>2 DEF PumpWrite, pipeVars
  <2>3. CASE PumpWriteLost(s)
    BY <2>3 DEF PumpWriteLost, pipeVars, netVars
  <2>4. CASE PumpKilled(s)
    BY <1>0, <2>4 DEF PumpKilled, pipeVars, netVars
  <2>5. CASE PumpEOF(s)
    BY <1>0, <2>5 DEF PumpEOF, pipeVars, netVars
  <2> QED
    BY <1>2, <2>1, <2>2, <2>3, <2>4, <2>5 DEF Pump
<1>3. CASE UNCHANGED <<made, taken, pump>> /\ (link' # "lost" => link # "lost")
  BY <1>0, <1>3
<1>4. \/ \E s \in Streams : Output(s) \/ Pump(s)
      \/ UNCHANGED <<made, taken, pump>> /\ (link' # "lost" => link # "lost")
  BY DEF Next, vars, pipeVars, agentVars, netVars,
         CommandStep, EatStdin, ReusePid, Fork, ChildExit, LeaderExit,
         Kill, KillCheck, KillInterrupt, KillTimeout, KillStandDown,
         Main, Wait, Finish, WriteExit, CloseConn,
         Reader, ReadFrame, ReadStdin, ReadEOF, ReadSignal, StdinWrite, ReadError, ReaderKilled,
         Client, ReadLoop, SendStdin, SendEOF, SendSignal, ClientSend, Interrupt,
         Show, ReadExit, ReadFails, Lose
<1> QED
  BY <1>1, <1>2, <1>3, <1>4

LEMMA ExitStep == TypeOK /\ Control /\ [Next]_vars => ExitInv'
<1> SUFFICES ASSUME TypeOK, Control, [Next]_vars PROVE ExitInv'
  OBVIOUS
<1> USE DEF ExitInv, Control, TypeOK
<1>1. CASE WriteExit
  <2>1. code' = code /\ main' = "sent" /\ main = "finished"
    BY <1>1 DEF WriteExit, procVars
  <2>2. \A i \in 1..Len(wire) : wire[i].type # "exit"
    BY <2>1
  <2>3. wire' = wire \/ wire' = Append(wire, Frame("exit", code))
    BY <1>1 DEF WriteExit
  <2>4. CASE wire' = Append(wire, Frame("exit", code))
    <3>1. Frame("exit", code) \in FrameSet
      BY DEF Frame, FrameSet, FrameTypes
    <3> QED
      BY <2>1, <2>2, <2>4, <3>1, AppendFrame DEF Frame
  <2> QED
    BY <2>1, <2>2, <2>3, <2>4
<1>2. ASSUME NEW s \in Streams, PumpWrite(s) PROVE ExitInv'
  <2>1. main = "pumps"
    BY <1>2 DEF PumpWrite, MainInv
  <2>2. Frame(s, taken[s]) \in FrameSet /\ Frame(s, taken[s]).type # "exit"
    BY DEF Frame, FrameSet, FrameTypes, Streams
  <2>3. wire' = Append(wire, Frame(s, taken[s]))
    BY <1>2 DEF PumpWrite
  <2>4. \A i \in 1..Len(wire) : wire[i].type # "exit"
    BY <2>1
  <2> QED
    BY <2>2, <2>3, <2>4, AppendFrame
<1>4. CASE wire' = wire /\ (main \in {"sent", "closed"} => main' \in {"sent", "closed"})
                        /\ (leader = "reaped" => code' = code)
  <2>1. main \in {"sent", "closed"} => leader = "reaped"
    BY DEF MainInv
  <2> QED
    BY <1>4, <2>1
<1>5. \/ WriteExit \/ \E s \in Streams : PumpWrite(s)
      \/ /\ wire' = wire
         /\ main \in {"sent", "closed"} => main' \in {"sent", "closed"}
         /\ leader = "reaped" => code' = code
  BY SignalEffect
     DEF Next, vars, procVars, agentVars, netVars, wireVars,
         CommandStep, Output, EatStdin, ReusePid, Fork, ChildExit, LeaderExit,
         Kill, KillCheck, KillInterrupt, KillTimeout, KillStandDown,
         Main, Wait, Finish, CloseConn,
         Reader, ReadFrame, ReadStdin, ReadEOF, ReadSignal, StdinWrite, ReadError, ReaderKilled,
         Pump, PumpRead, PumpWriteLost, PumpKilled, PumpEOF,
         Client, ReadLoop, SendStdin, SendEOF, SendSignal, Interrupt,
         Show, ReadExit, ReadFails, Lose
<1> QED
  BY <1>1, <1>2, <1>4, <1>5

LEMMA LinkStep == TypeOK /\ Control /\ [Next]_vars => LinkInv'
<1> SUFFICES ASSUME TypeOK, Control, [Next]_vars PROVE LinkInv'
  OBVIOUS
<1> USE DEF LinkInv, Control, TypeOK, Finished
<1>1. CASE ReadExit
  <2>1. main \in {"sent", "closed"}
    BY <1>1 DEF ReadExit, CanReadWire, ExitInv
  <2> QED
    BY <1>1, <2>1 DEF ReadExit, agentVars
<1>2. CASE CloseConn
  BY <1>2 DEF CloseConn
<1>3. CASE (\E f : ClientSend(f)) /\ link = "up" /\ UNCHANGED agentVars
  BY <1>3 DEF ClientSend, agentVars
<1>4. CASE ReadError
  BY <1>4 DEF ReadError, netVars
<1>5. CASE /\ link' = link \/ (link = "up" /\ link' = "lost")
           /\ Finished => Finished'
           /\ reader' = "kill" => reader = "kill"
           /\ main = "closed" => main' = "closed"
  BY <1>5
<1>6. \/ ReadExit \/ CloseConn \/ ReadError
      \/ (\E f : ClientSend(f)) /\ link = "up" /\ UNCHANGED agentVars
      \/ /\ link' = link \/ (link = "up" /\ link' = "lost")
         /\ Finished => Finished'
         /\ reader' = "kill" => reader = "kill"
         /\ main = "closed" => main' = "closed"
  <2>1. CASE Client
    <3>1. CASE SendStdin \/ SendEOF \/ SendSignal
      BY <3>1 DEF SendStdin, SendEOF, SendSignal
    <3>2. CASE ReadExit
      BY <3>2
    <3>3. CASE Show \/ ReadFails \/ \E n \in Signals : Interrupt(n)
      BY <3>3 DEF Show, ReadFails, Interrupt, agentVars, netVars
    <3> QED
      BY <2>1, <3>1, <3>2, <3>3 DEF Client, ReadLoop
  <2>2. CASE Kill \/ Main
    BY <2>2 DEF Kill, KillCheck, KillInterrupt, KillTimeout, KillStandDown,
                Main, Wait, Finish, WriteExit, netVars
  <2>3. CASE Reader
    BY <2>3 DEF Reader, ReadFrame, ReadStdin, ReadEOF, ReadSignal, StdinWrite,
                ReaderKilled, agentVars, netVars
  <2>4. CASE \E s \in Streams : Pump(s)
    BY <2>4 DEF Pump, PumpRead, PumpWrite, PumpWriteLost, PumpKilled, PumpEOF, netVars
  <2>5. CASE CommandStep \/ Lose \/ UNCHANGED vars
    BY <2>5 DEF CommandStep, Output, EatStdin, ReusePid, Fork, ChildExit, LeaderExit, Lose,
                vars, agentVars, netVars
  <2> QED
    BY <2>1, <2>2, <2>3, <2>4, <2>5 DEF Next
<1> QED
  BY <1>1, <1>2, <1>3, <1>4, <1>5, <1>6

\* Whoever calls kill before main is through has seen the connection lost.
LEMMA SpuriousStep == TypeOK /\ Control /\ [Next]_vars => NoSpuriousKill'
<1> SUFFICES ASSUME TypeOK, Control, [Next]_vars PROVE NoSpuriousKill'
  OBVIOUS
<1> USE DEF NoSpuriousKill, Control, TypeOK
<1>1. CASE KillCheck
  <2>1. CASE Finished
    BY <1>1, <2>1 DEF KillCheck, netVars
  <2>2. CASE ~Finished
    <3>1. link = "lost"
      <4>1. CASE reader = "kill"
        BY <2>2, <4>1 DEF LinkInv, Finished
      <4>2. CASE \E s \in Streams : pump[s] = "kill"
        BY <4>2 DEF PumpInv
      <4> QED
        BY <1>1, <4>1, <4>2 DEF KillCheck, KillCalled
    <3> QED
      BY <1>1, <3>1 DEF KillCheck, netVars
  <2> QED
    BY <2>1, <2>2
<1>2. CASE /\ link = "lost" => link' = "lost"
           /\ kill' \notin {"unused", "skipped"} => kill \notin {"unused", "skipped"}
  BY <1>2
<1>3. \/ KillCheck
      \/ /\ link = "lost" => link' = "lost"
         /\ kill' \notin {"unused", "skipped"} => kill \notin {"unused", "skipped"}
  BY DEF Next, vars, agentVars, netVars,
         CommandStep, Output, EatStdin, ReusePid, Fork, ChildExit, LeaderExit,
         Kill, KillInterrupt, KillTimeout, KillStandDown,
         Main, Wait, Finish, WriteExit, CloseConn,
         Reader, ReadFrame, ReadStdin, ReadEOF, ReadSignal, StdinWrite, ReadError, ReaderKilled,
         Pump, PumpRead, PumpWrite, PumpWriteLost, PumpKilled, PumpEOF,
         Client, ReadLoop, SendStdin, SendEOF, SendSignal, ClientSend, Interrupt,
         Show, ReadExit, ReadFails, Lose
<1> QED
  BY <1>1, <1>2, <1>3

LEMMA ControlInductive ==
  /\ Init => Control
  /\ TypeOK /\ Control /\ [Next]_vars => Control'
<1>1. Init => Control
  BY DEF Init, Control, MainInv, PumpInv, ExitInv, LinkInv, NoSpuriousKill, Finished
<1> QED
  BY <1>1, MainStep, PumpStep, ExitStep, LinkStep, SpuriousStep DEF Control

\* Nothing is killed unless the client was lost (NoSpuriousKill of RunStream).
THEOREM NoKillWithoutLoss == Spec => []NoSpuriousKill
<1>1. Control => NoSpuriousKill
  BY DEF Control
<1> QED
  BY <1>1, TypeCorrect, ControlInductive, PTL DEF Spec

-----------------------------------------------------------------------------
(***************************************************************************)
(* What is on the wire: each stream's chunks, numbered from 1, in order and *)
(* without a gap, up to the last one its pump has handed over; and what the *)
(* client has shown is the last one it has read.                            *)
(***************************************************************************)
IsChunk(f, s, k) == f.type = s /\ f.num = k

\* The last chunk of stream s that its pump is through with.
Sent(s) == IF pump[s] = "write" THEN taken[s] - 1 ELSE taken[s]

NoGap ==
  \A s \in Streams : \A i \in 1..Len(wire) :
    wire[i].type = s =>
      /\ wire[i].num >= 1 /\ wire[i].num <= Sent(s)
      /\ wire[i].num > 1 => \E j \in 1..(i-1) : IsChunk(wire[j], s, wire[i].num - 1)

Increasing ==
  \A s \in Streams : \A i, j \in 1..Len(wire) :
    i < j /\ wire[i].type = s /\ wire[j].type = s => wire[i].num < wire[j].num

\* With the connection there, or the exit frame written while it was, all that
\* the pumps are through with is on the wire.
AllSent ==
  link # "lost" \/ (\E i \in 1..Len(wire) : wire[i].type = "exit") =>
    \A s \in Streams : Sent(s) > 0 => \E i \in 1..Len(wire) : IsChunk(wire[i], s, Sent(s))

\* The exit frame is written after both streams were read to their end.
ExitAfterAll ==
  (\E i \in 1..Len(wire) : wire[i].type = "exit") => taken = made

ShownInv ==
  \A s \in Streams :
    /\ shown[s] > 0 => \E i \in 1..got : IsChunk(wire[i], s, shown[s])
    /\ \A i \in 1..got : wire[i].type = s => wire[i].num <= shown[s]

OutcomeInv ==
  outcome = "exit" =>
    /\ got = Len(wire) /\ got >= 1
    /\ wire[got].type = "exit" /\ ret = wire[got].num

WireInv == NoGap /\ Increasing /\ AllSent /\ ExitAfterAll /\ ShownInv /\ OutcomeInv

\* Before main is through with the pumps there is no exit frame.
LEMMA NoExitYet ==
  ASSUME TypeOK, Control, main \notin {"sent", "closed"}
  PROVE  \A i \in 1..Len(wire) : wire[i].type # "exit"
  BY DEF Control, ExitInv

LEMMA WireOnPumpWrite ==
  ASSUME TypeOK, Control, WireInv, NEW s \in Streams, PumpWrite(s)
  PROVE  WireInv'
<1>0. /\ wire \in Seq(FrameSet) /\ Len(wire) \in Nat /\ got \in 0..Len(wire)
      /\ taken \in [Streams -> Nat] /\ pump \in [Streams -> {"read", "write", "kill", "done"}]
  BY DEF TypeOK
<1> DEFINE f == Frame(s, taken[s])
<1>1. /\ f \in FrameSet /\ f.type = s /\ f.num = taken[s]
      /\ s \in Streams /\ s # "exit"
  BY <1>0 DEF Frame, FrameSet, FrameTypes, Streams
<1>2. /\ wire' = Append(wire, f) /\ got' = got /\ link = "up" /\ link' = link
      /\ pump[s] = "write" /\ pump' = [pump EXCEPT ![s] = "read"]
      /\ UNCHANGED <<taken, made, shown, outcome, ret>>
  BY DEF PumpWrite, pipeVars, clientVars
<1> HIDE DEF f
<1>3. /\ Len(wire') = Len(wire) + 1 /\ wire'[Len(wire) + 1] = f
      /\ \A i \in 1..Len(wire) : wire'[i] = wire[i]
  BY <1>0, <1>1, <1>2, AppendFrame
<1>4. taken[s] >= 1 /\ main = "pumps"
  BY <1>2 DEF Control, PumpInv, MainInv
<1>5. /\ Sent(s)' = Sent(s) + 1 /\ Sent(s)' = taken[s]
      /\ \A r \in Streams : r # s => Sent(r)' = Sent(r)
  BY <1>0, <1>2 DEF Sent
<1>6. \A i \in 1..Len(wire) : wire'[i].type # "exit" /\ wire[i].type # "exit"
  BY <1>3, <1>4, NoExitYet
<1>7. \A i \in 1..Len(wire') : i \in 1..Len(wire) \/ i = Len(wire) + 1
  BY <1>0, <1>3
<1>8. \A r \in Streams : Sent(r) \in Nat /\ Sent(r)' \in Nat /\ Sent(r) <= Sent(r)'
  <2>1. \A r \in Streams : Sent(r) \in Nat
    BY <1>0 DEF Sent, Control, PumpInv
  <2> QED
    BY <1>5, <2>1
<1>9. taken[s] \in Nat /\ Sent(s) = taken[s] - 1
  BY <1>0, <1>2 DEF Sent
<1>a. NoGap'
  <2> SUFFICES ASSUME NEW r \in Streams, NEW i \in 1..Len(wire'), wire'[i].type = r
               PROVE  /\ wire'[i].num >= 1 /\ wire'[i].num <= Sent(r)'
                      /\ wire'[i].num > 1 =>
                           \E j \in 1..(i-1) : IsChunk(wire'[j], r, wire'[i].num - 1)
    BY DEF NoGap
  <2>1. CASE i \in 1..Len(wire)
    <3>1. wire'[i] = wire[i] /\ wire[i].num \in Nat
      BY <1>0, <1>3, <2>1, FrameOf
    <3>2. /\ wire[i].num >= 1 /\ wire[i].num <= Sent(r)
          /\ wire[i].num > 1 => \E j \in 1..(i-1) : IsChunk(wire[j], r, wire[i].num - 1)
      BY <2>1, <3>1 DEF WireInv, NoGap
    <3>4. wire[i].num <= Sent(r)'
      BY <3>1, <3>2, <1>8
    <3>5. \A j \in 1..(i-1) : j \in 1..Len(wire)
      BY <1>0, <2>1
    <3> QED
      BY <1>3, <3>1, <3>2, <3>4, <3>5
  <2>2. CASE i = Len(wire) + 1
    <3>1. wire'[i] = f /\ r = s
      BY <1>1, <1>3, <2>2
    <3>2. ASSUME taken[s] > 1 PROVE \E j \in 1..(i-1) : IsChunk(wire'[j], s, taken[s] - 1)
      <4>1. Sent(s) > 0
        BY <1>9, <3>2
      <4>2. PICK j \in 1..Len(wire) : IsChunk(wire[j], s, Sent(s))
        BY <1>2, <4>1 DEF WireInv, AllSent
      <4>3. j \in 1..(i-1) /\ wire'[j] = wire[j]
        BY <1>0, <1>3, <2>2
      <4> QED
        BY <1>9, <4>2, <4>3
    <3> QED
      BY <1>1, <1>4, <1>5, <1>9, <3>1, <3>2
  <2> QED
    BY <1>7, <2>1, <2>2
<1>b. Increasing'
  <2> SUFFICES ASSUME NEW r \in Streams, NEW i \in 1..Len(wire'), NEW j \in 1..Len(wire'),
                      i < j, wire'[i].type = r, wire'[j].type = r
               PROVE  wire'[i].num < wire'[j].num
    BY DEF Increasing
  <2>0. i \in 1..Len(wire) /\ wire'[i] = wire[i]
    <3>1. i \in 1..Len(wire)
      BY <1>0, <1>3
    <3> QED
      BY <1>3, <3>1
  <2>1. CASE j \in 1..Len(wire)
    BY <1>3, <2>0, <2>1 DEF WireInv, Increasing
  <2>2. CASE j = Len(wire) + 1
    <3>1. r = s /\ wire'[j].num = taken[s]
      BY <1>1, <1>3, <2>2
    <3>2. wire[i].num <= Sent(s) /\ wire[i].num \in Nat
      BY <1>0, <2>0, <3>1, FrameOf DEF WireInv, NoGap
    <3> QED
      BY <1>9, <2>0, <3>1, <3>2
  <2> QED
    BY <1>7, <2>1, <2>2
<1>c. AllSent'
  <2> SUFFICES ASSUME NEW r \in Streams, Sent(r)' > 0
               PROVE  \E i \in 1..Len(wire') : IsChunk(wire'[i], r, Sent(r)')
    BY DEF AllSent
  <2>1. CASE r = s
    <3>1. Len(wire) + 1 \in 1..Len(wire') /\ Sent(s)' = taken[s]
      BY <1>0, <1>3, <1>5
    <3> QED
      BY <1>1, <1>3, <2>1, <3>1 DEF IsChunk
  <2>2. CASE r # s
    <3>1. PICK i \in 1..Len(wire) : IsChunk(wire[i], r, Sent(r))
      BY <1>2, <1>5, <2>2 DEF WireInv, AllSent
    <3>2. i \in 1..Len(wire') /\ wire'[i] = wire[i]
      BY <1>0, <1>3
    <3> QED
      BY <1>5, <2>2, <3>1, <3>2
  <2> QED
    BY <2>1, <2>2
<1>d. ExitAfterAll'
  BY <1>1, <1>3, <1>6, <1>7 DEF ExitAfterAll
<1>e. ShownInv'
  <2>1. \A i \in 1..got : wire'[i] = wire[i]
    BY <1>0, <1>3
  <2> QED
    BY <1>2, <2>1 DEF WireInv, ShownInv
<1>f. OutcomeInv'
  <2>1. outcome # "exit"
    BY <1>0, <1>6 DEF WireInv, OutcomeInv
  <2> QED
    BY <1>2, <2>1 DEF OutcomeInv
<1> QED
  BY <1>a, <1>b, <1>c, <1>d, <1>e, <1>f DEF WireInv

LEMMA WireOnWriteExit ==
  ASSUME TypeOK, Control, WireInv, WriteExit, link = "up"
  PROVE  WireInv'
<1> DEFINE f == Frame("exit", code)
<1>0. /\ wire \in Seq(FrameSet) /\ Len(wire) \in Nat /\ got \in 0..Len(wire)
      /\ taken \in [Streams -> Nat] /\ made \in [Streams -> Nat]
  BY DEF TypeOK
<1>1. /\ f \in FrameSet /\ f.type = "exit" /\ f.num = code
      /\ "exit" \notin Streams
  BY DEF Frame, FrameSet, FrameTypes, Streams, TypeOK
<1>2. /\ wire' = Append(wire, f) /\ got' = got /\ main = "finished"
      /\ UNCHANGED <<taken, made, pump, shown, outcome, ret>>
  BY DEF WriteExit, pipeVars, clientVars
<1> HIDE DEF f
<1>3. /\ Len(wire') = Len(wire) + 1 /\ wire'[Len(wire) + 1] = f
      /\ \A i \in 1..Len(wire) : wire'[i] = wire[i]
  BY <1>0, <1>1, <1>2, AppendFrame
<1>4. \A i \in 1..Len(wire) : wire[i].type # "exit"
  BY <1>2, NoExitYet
<1>5. \A i \in 1..Len(wire') : i \in 1..Len(wire) \/ i = Len(wire) + 1
  BY <1>0, <1>3
<1>6. \A i \in 1..Len(wire') : wire'[i].type \in Streams =>
        i \in 1..Len(wire) /\ wire'[i] = wire[i]
  BY <1>1, <1>3, <1>5
<1>7. \A r \in Streams : Sent(r)' = Sent(r)
  BY <1>2 DEF Sent
<1>8. \A i \in 1..Len(wire) : i \in 1..Len(wire')
  BY <1>0, <1>3
<1>a. NoGap'
  <2> SUFFICES ASSUME NEW r \in Streams, NEW i \in 1..Len(wire'), wire'[i].type = r
               PROVE  /\ wire'[i].num >= 1 /\ wire'[i].num <= Sent(r)
                      /\ wire'[i].num > 1 =>
                           \E j \in 1..(i-1) : IsChunk(wire'[j], r, wire'[i].num - 1)
    BY <1>7 DEF NoGap
  <2>1. i \in 1..Len(wire) /\ wire'[i] = wire[i]
    BY <1>6
  <2>2. \A j \in 1..(i-1) : j \in 1..Len(wire) /\ wire'[j] = wire[j]
    BY <1>0, <1>3, <2>1
  <2> QED
    BY <2>1, <2>2 DEF WireInv, NoGap
<1>b. Increasing'
  BY <1>6 DEF WireInv, Increasing
<1>c. AllSent'
  <2> SUFFICES ASSUME NEW r \in Streams, Sent(r) > 0
               PROVE  \E i \in 1..Len(wire') : IsChunk(wire'[i], r, Sent(r))
    BY <1>7 DEF AllSent
  <2>1. PICK i \in 1..Len(wire) : IsChunk(wire[i], r, Sent(r))
    BY DEF WireInv, AllSent
  <2> QED
    BY <1>3, <1>8, <2>1
<1>d. ExitAfterAll'
  <2>1. \A s \in Streams : pump[s] = "done"
    BY <1>2 DEF Control, MainInv
  <2>2. \A s \in Streams : taken[s] = made[s]
    BY <2>1 DEF Control, PumpInv
  <2>3. taken = made
    BY <1>0, <2>2
  <2> QED
    BY <1>2, <2>3 DEF ExitAfterAll
<1>e. ShownInv'
  <2>1. \A i \in 1..got : wire'[i] = wire[i]
    BY <1>0, <1>3
  <2> QED
    BY <1>2, <2>1 DEF WireInv, ShownInv
<1>f. OutcomeInv'
  <2>1. outcome # "exit"
    BY <1>0, <1>4 DEF WireInv, OutcomeInv
  <2> QED
    BY <1>2, <2>1 DEF OutcomeInv
<1> QED
  BY <1>a, <1>b, <1>c, <1>d, <1>e, <1>f DEF WireInv

\* The next frame of a stream that the client reads is the next chunk.
LEMMA NextShown ==
  ASSUME TypeOK, WireInv, got < Len(wire), NEW s \in Streams, wire[got + 1].type = s
  PROVE  wire[got + 1].num = shown[s] + 1 /\ wire[got + 1].num <= Sent(s)
<1> DEFINE k == wire[got + 1].num
<1>1. got \in Nat /\ Len(wire) \in Nat /\ got + 1 \in 1..Len(wire) /\ shown[s] \in Nat
  BY DEF TypeOK
<1>2. k \in Nat /\ k >= 1 /\ k <= Sent(s)
  BY <1>1, FrameOf DEF WireInv, NoGap, TypeOK
<1>3. k > 1 => \E j \in 1..got : IsChunk(wire[j], s, k - 1)
  <2>1. k > 1 => \E j \in 1..((got + 1) - 1) : IsChunk(wire[j], s, k - 1)
    BY <1>1 DEF WireInv, NoGap
  <2> QED
    BY <1>1, <2>1
<1>4. k - 1 <= shown[s]
  <2>1. CASE k > 1
    <3>1. PICK j \in 1..got : IsChunk(wire[j], s, k - 1)
      BY <1>3, <2>1
    <3> QED
      BY <3>1 DEF IsChunk, WireInv, ShownInv
  <2>2. CASE k = 1
    BY <1>1, <2>2
  <2> QED
    BY <1>2, <2>1, <2>2
<1>5. shown[s] < k
  <2>1. CASE shown[s] > 0
    <3>1. PICK i \in 1..got : IsChunk(wire[i], s, shown[s])
      BY <2>1 DEF WireInv, ShownInv
    <3>2. i \in 1..Len(wire) /\ i < got + 1
      BY <1>1
    <3> QED
      BY <1>1, <3>1, <3>2 DEF IsChunk, WireInv, Increasing
  <2>2. CASE shown[s] = 0
    BY <1>2, <2>2
  <2> QED
    BY <1>1, <2>1, <2>2
<1> QED
  BY SMTT(30), <1>1, <1>2, <1>4, <1>5

LEMMA WireOnShow ==
  ASSUME TypeOK, Control, WireInv, Show
  PROVE  WireInv'
<1> DEFINE s == wire[got + 1].type
           k == wire[got + 1].num
<1>1. /\ s \in Streams /\ got < Len(wire) /\ got' = got + 1
      /\ shown' = [shown EXCEPT ![s] = k]
      /\ UNCHANGED <<wire, taken, made, pump, outcome, link>>
      /\ outcome = "none"
  BY DEF Show, CanReadWire, pipeVars, agentVars
<1>2. got \in Nat /\ Len(wire) \in Nat /\ shown \in [Streams -> Nat]
  BY DEF TypeOK
<1>3. k = shown[s] + 1
  BY <1>1, NextShown
<1>4. NoGap' /\ Increasing' /\ AllSent' /\ ExitAfterAll'
  BY <1>1 DEF WireInv, NoGap, Increasing, AllSent, ExitAfterAll, Sent
<1>5. ShownInv'
  <2> SUFFICES ASSUME NEW r \in Streams
               PROVE  /\ shown'[r] > 0 => \E i \in 1..(got + 1) : IsChunk(wire[i], r, shown'[r])
                      /\ \A i \in 1..(got + 1) : wire[i].type = r => wire[i].num <= shown'[r]
    BY <1>1 DEF ShownInv
  <2>1. \A i \in 1..(got + 1) : i \in 1..got \/ i = got + 1
    BY <1>2
  <2>2. \A i \in 1..got : i \in 1..(got + 1)
    BY <1>2
  <2>3. CASE r = s
    <3>1. shown'[r] = k /\ k = shown[r] + 1 /\ shown[r] \in Nat
      BY <1>1, <1>2, <1>3, <2>3
    <3>2. got + 1 \in 1..(got + 1) /\ IsChunk(wire[got + 1], r, k)
      BY <1>2, <2>3 DEF IsChunk
    <3>3. ASSUME NEW i \in 1..(got + 1), wire[i].type = r PROVE wire[i].num <= k
      <4>1. CASE i = got + 1
        BY <1>3, <3>1, <4>1
      <4>2. CASE i \in 1..got
        <5>1. i \in 1..Len(wire)
          BY <1>1, <1>2, <4>2
        <5>2. wire[i].num \in Nat
          BY <5>1, FrameOf DEF TypeOK
        <5>3. wire[i].num <= shown[r]
          BY <3>3, <4>2 DEF WireInv, ShownInv
        <5> QED
          BY <3>1, <5>2, <5>3
      <4> QED
        BY <2>1, <4>1, <4>2
    <3> HIDE DEF k
    <3> QED
      BY <3>1, <3>2, <3>3
  <2>4. CASE r # s
    <3>1. shown'[r] = shown[r]
      BY <1>1, <1>2, <2>4
    <3> QED
      BY <2>1, <2>2, <2>4, <3>1 DEF WireInv, ShownInv
  <2> QED
    BY <2>3, <2>4
<1>6. OutcomeInv'
  BY <1>1 DEF OutcomeInv
<1> QED
  BY <1>4, <1>5, <1>6 DEF WireInv

LEMMA WireOnReadExit ==
  ASSUME TypeOK, Control, WireInv, ReadExit
  PROVE  WireInv'
<1>1. /\ wire[got + 1].type = "exit" /\ got < Len(wire) /\ got' = got + 1
      /\ ret' = wire[got + 1].num
      /\ UNCHANGED <<wire, taken, made, pump, shown>>
      /\ link' # "lost" => link # "lost"
  BY DEF ReadExit, CanReadWire, pipeVars, agentVars
<1>2. got \in Nat /\ Len(wire) \in Nat /\ got + 1 \in 1..Len(wire)
  BY <1>1 DEF TypeOK
<1>3. NoGap' /\ Increasing' /\ AllSent' /\ ExitAfterAll'
  BY <1>1 DEF WireInv, NoGap, Increasing, AllSent, ExitAfterAll, Sent
<1>4. ShownInv'
  <2>1. \A i \in 1..(got + 1) : i \in 1..got \/ i = got + 1
    BY <1>2
  <2>2. \A i \in 1..got : i \in 1..(got + 1)
    BY <1>2
  <2>3. wire[got + 1].type \notin Streams
    BY <1>1 DEF Streams
  <2> QED
    BY <1>1, <2>1, <2>2, <2>3 DEF WireInv, ShownInv
<1>5. OutcomeInv'
  <2>1. got + 1 = Len(wire)
    BY <1>1, <1>2 DEF Control, ExitInv
  <2> QED
    BY <1>1, <1>2, <2>1 DEF OutcomeInv
<1> QED
  BY <1>3, <1>4, <1>5 DEF WireInv

LEMMA SentNat ==
  ASSUME TypeOK, Control, NEW s \in Streams
  PROVE  Sent(s) \in Nat
<1>1. taken[s] \in Nat /\ (pump[s] = "write" => taken[s] >= 1)
  BY DEF TypeOK, Control, PumpInv
<1> QED
  BY <1>1 DEF Sent

\* The steps that write and read nothing.
LEMMA WireOnQuiet ==
  ASSUME TypeOK, Control, WireInv,
         UNCHANGED <<wire, got, shown, ret>>,
         outcome' = outcome \/ outcome' = "disconnected",
         link' # "lost" => link # "lost",
         main \in {"sent", "closed"} => taken' = taken /\ made' = made,
         \A s \in Streams : Sent(s) <= Sent(s)' /\ (link # "lost" => Sent(s)' = Sent(s)),
         main \in {"sent", "closed"} => \A s \in Streams : Sent(s)' = Sent(s),
         TypeOK', PumpInv'
  PROVE  WireInv'
<1>1. (\E i \in 1..Len(wire) : wire[i].type = "exit") => main \in {"sent", "closed"}
  BY NoExitYet
<1>2. ASSUME NEW s \in Streams PROVE Sent(s) \in Nat /\ Sent(s)' \in Nat
  <2>1. taken'[s] \in Nat /\ (pump'[s] = "write" => taken'[s] >= 1)
    BY DEF TypeOK, PumpInv
  <2> QED
    BY <2>1, SentNat DEF Sent
<1>3. NoGap'
  <2> SUFFICES ASSUME NEW s \in Streams, NEW i \in 1..Len(wire), wire[i].type = s
               PROVE  wire[i].num <= Sent(s)'
    BY DEF WireInv, NoGap
  <2>1. wire[i].num \in Nat /\ wire[i].num <= Sent(s)
    BY FrameOf DEF WireInv, NoGap, TypeOK
  <2> QED
    BY <1>2, <2>1
<1>4. AllSent'
  <2> SUFFICES ASSUME link' # "lost" \/ (\E i \in 1..Len(wire) : wire[i].type = "exit"),
                      NEW s \in Streams, Sent(s)' > 0
               PROVE  \E i \in 1..Len(wire) : IsChunk(wire[i], s, Sent(s)')
    BY DEF AllSent
  <2>1. Sent(s)' = Sent(s)
    BY <1>1
  <2> QED
    BY <2>1 DEF WireInv, AllSent
<1>5. Increasing' /\ ExitAfterAll' /\ ShownInv' /\ OutcomeInv'
  BY <1>1 DEF WireInv, Increasing, ExitAfterAll, ShownInv, OutcomeInv
<1> QED
  BY <1>3, <1>4, <1>5 DEF WireInv

LEMMA WireStep ==
  ASSUME TypeOK, Control, WireInv, [Next]_vars, TypeOK', PumpInv'
  PROVE  WireInv'
<1>1. CASE \E s \in Streams : PumpWrite(s)
  BY <1>1, WireOnPumpWrite
<1>2. CASE WriteExit /\ link = "up"
  BY <1>2, WireOnWriteExit
<1>3. CASE Show
  BY <1>3, WireOnShow
<1>4. CASE ReadExit
  BY <1>4, WireOnReadExit
<1>5. ASSUME NEW s \in Streams, Pump(s), ~PumpWrite(s) PROVE WireInv'
  <2>0. /\ pump \in [Streams -> {"read", "write", "kill", "done"}]
        /\ taken \in [Streams -> Nat]
    BY DEF TypeOK
  <2>1. pump[s] # "done" /\ main = "pumps"
    BY <1>5 DEF Pump, PumpRead, PumpWriteLost, PumpKilled, PumpEOF, Control, MainInv
  <2>2. UNCHANGED <<wire, got, shown, ret, outcome, link>>
    BY <1>5 DEF Pump, PumpRead, PumpWriteLost, PumpKilled, PumpEOF, netVars, wireVars, clientVars
  <2>3. \A r \in Streams : Sent(r) <= Sent(r)' /\ (link # "lost" => Sent(r)' = Sent(r))
    <3>1. CASE PumpRead(s)
      BY <2>0, <3>1 DEF PumpRead, Sent
    <3>2. CASE PumpWriteLost(s)
      BY <2>0, <3>2 DEF PumpWriteLost, Sent, pipeVars
    <3>3. CASE PumpKilled(s) \/ PumpEOF(s)
      BY <2>0, <3>3 DEF PumpKilled, PumpEOF, Sent, pipeVars
    <3> QED
      BY <1>5, <3>1, <3>2, <3>3 DEF Pump
  <2> QED
    BY <2>1, <2>2, <2>3, WireOnQuiet
<1>6. ASSUME NEW s \in Streams, Output(s) PROVE WireInv'
  <2>1. /\ main = "pumps"
        /\ UNCHANGED <<taken, pump, wire, got, shown, ret, outcome, link>>
    BY <1>6 DEF Output, agentVars, netVars, wireVars, clientVars
  <2>2. \A r \in Streams : Sent(r)' = Sent(r) /\ Sent(r) \in Nat
    BY <2>1, SentNat DEF Sent
  <2> QED
    BY <2>1, <2>2, WireOnQuiet
<1>7. CASE /\ UNCHANGED <<taken, made, pump, wire, got, shown, ret>>
           /\ outcome' = outcome \/ outcome' = "disconnected"
           /\ link' # "lost" => link # "lost"
  <2>1. \A r \in Streams : Sent(r)' = Sent(r) /\ Sent(r) \in Nat
    BY <1>7, SentNat DEF Sent
  <2> QED
    BY <1>7, <2>1, WireOnQuiet
<1>8. CASE ReadFails
  <2>1. /\ UNCHANGED <<taken, made, pump, wire, got, shown, link>>
        /\ outcome = "none" /\ outcome' = "disconnected"
    BY <1>8 DEF ReadFails, pipeVars, agentVars, netVars, wireVars
  <2> QED
    BY <2>1 DEF WireInv, NoGap, Increasing, AllSent, ExitAfterAll, ShownInv, OutcomeInv, Sent
<1>9. \/ \E s \in Streams : PumpWrite(s) \/ Output(s) \/ Pump(s)
      \/ WriteExit /\ link = "up"
      \/ Show \/ ReadExit \/ ReadFails
      \/ /\ UNCHANGED <<taken, made, pump, wire, got, shown, ret>>
         /\ outcome' = outcome \/ outcome' = "disconnected"
         /\ link' # "lost" => link # "lost"
  <2> USE DEF pipeVars, agentVars, netVars, wireVars, clientVars
  <2>1. CASE CommandStep \/ Lose \/ UNCHANGED vars
    BY <2>1 DEF CommandStep, EatStdin, ReusePid, Fork, ChildExit, LeaderExit, Lose, vars
  <2>2. CASE Kill
    BY <2>2 DEF Kill, KillCheck, KillInterrupt, KillTimeout, KillStandDown
  <2>3. CASE Main
    BY <2>3 DEF Main, Wait, Finish, WriteExit, CloseConn
  <2>4. CASE Reader
    BY <2>4 DEF Reader, ReadFrame, ReadStdin, ReadEOF, ReadSignal, StdinWrite, ReadError, ReaderKilled
  <2>5. CASE Client
    BY <2>5 DEF Client, ReadLoop, SendStdin, SendEOF, SendSignal, ClientSend, Interrupt
  <2> QED
    BY <2>1, <2>2, <2>3, <2>4, <2>5 DEF Next
<1> QED
  BY <1>1, <1>2, <1>3, <1>4, <1>5, <1>6, <1>7, <1>8, <1>9

\* Control and WireInv hold throughout.
THEOREM WireCorrect == Spec => [](TypeOK /\ Control /\ WireInv)
<1>1. Init => WireInv
  BY DEF Init, WireInv, NoGap, Increasing, AllSent, ExitAfterAll, ShownInv, OutcomeInv, Sent
<1>2. TypeOK /\ TypeOK' /\ Control /\ WireInv /\ [Next]_vars => Control' /\ WireInv'
  BY ControlInductive, WireStep DEF Control
<1> QED
  BY <1>1, <1>2, TypeCorrect, ControlInductive, PTL DEF Spec

\* With the exit frame read, everything the command wrote was shown.
LEMMA AllShown ==
  ASSUME TypeOK, Control, WireInv, got + 1 = Len(wire) \/ got = Len(wire),
         \E i \in 1..Len(wire) : wire[i].type = "exit",
         got + 1 = Len(wire) => wire[got + 1].type = "exit"
  PROVE  shown = made
<1>0. /\ got \in Nat /\ Len(wire) \in Nat
      /\ shown \in [Streams -> Nat] /\ made \in [Streams -> Nat]
  BY DEF TypeOK
<1>1. \A s \in Streams : pump[s] = "done" /\ taken = made
  BY NoExitYet DEF Control, MainInv, WireInv, ExitAfterAll
<1>2. \A s \in Streams : Sent(s) = made[s]
  BY <1>1 DEF Sent
<1>3. \A s \in Streams : \A i \in 1..Len(wire) : wire[i].type = s => i \in 1..got
  BY <1>0 DEF Streams
<1>4. \A i \in 1..got : i \in 1..Len(wire)
  BY <1>0
<1>5. ASSUME NEW s \in Streams PROVE shown[s] = made[s]
  <2>1. made[s] > 0 => made[s] <= shown[s]
    <3> SUFFICES ASSUME made[s] > 0 PROVE made[s] <= shown[s]
      OBVIOUS
    <3>1. PICK i \in 1..Len(wire) : IsChunk(wire[i], s, made[s])
      BY <1>2 DEF WireInv, AllSent
    <3> QED
      BY <1>3, <3>1 DEF IsChunk, WireInv, ShownInv
  <2>2. shown[s] > 0 => shown[s] <= made[s]
    <3> SUFFICES ASSUME shown[s] > 0 PROVE shown[s] <= made[s]
      OBVIOUS
    <3>1. PICK i \in 1..got : IsChunk(wire[i], s, shown[s])
      BY DEF WireInv, ShownInv
    <3> QED
      BY <1>2, <1>4, <3>1 DEF IsChunk, WireInv, NoGap
  <2> QED
    BY <1>0, <2>1, <2>2
<1> QED
  BY <1>0, <1>5

\* The exit code is returned only after all of the output and is the command's
\* own (OutputComplete of RunStream).
THEOREM ExitAfterOutput == Spec => []OutputComplete
<1>1. TypeOK /\ Control /\ WireInv => OutputComplete
  <2> SUFFICES ASSUME TypeOK, Control, WireInv, outcome = "exit"
               PROVE  leader = "reaped" /\ ret = code /\ shown = made
    BY DEF OutputComplete
  <2>1. /\ got \in 1..Len(wire) /\ got = Len(wire)
        /\ wire[got].type = "exit" /\ ret = wire[got].num
    BY DEF WireInv, OutcomeInv, TypeOK
  <2>2. main \in {"sent", "closed"} /\ ret = code
    BY <2>1 DEF Control, ExitInv
  <2>3. leader = "reaped"
    BY <2>2 DEF Control, MainInv
  <2>4. shown = made
    BY <2>1, AllShown DEF TypeOK
  <2> QED
    BY <2>2, <2>3, <2>4
<1> QED
  BY <1>1, WireCorrect, PTL

-----------------------------------------------------------------------------
(***************************************************************************)
(* What the client has sent: its input, numbered and in order, all of it    *)
(* before the EOF; and what of it the agent has fed to the command.         *)
(***************************************************************************)
UpInv ==
  /\ \A i \in 1..Len(up) :
       /\ up[i].type = "signal" => up[i].num \in Signals
       /\ up[i].type = "stdin" => up[i].num < nextIn /\ up[i].num <= MaxIn
       /\ up[i].type = "eof" =>
            \A k \in 1..MaxIn : \E j \in 1..(i-1) : IsChunk(up[j], "stdin", k)
  /\ \A i, j \in 1..Len(up) :
       i < j /\ up[i].type = "stdin" /\ up[j].type = "stdin" => up[i].num < up[j].num
  /\ link = "up" =>
       \A k \in 1..MaxIn : k < nextIn => \E i \in 1..Len(up) : IsChunk(up[i], "stdin", k)

\* The chunk of input that the reader has in hand, or has written last.
LastIn == IF reader = "stdin" THEN up[upRead].num ELSE fed

FedInv ==
  /\ reader = "stdin" => upRead >= 1 /\ up[upRead].type = "stdin"
  /\ leader = "run" /\ stdin = "open" =>
       /\ LastIn <= MaxIn
       /\ \A i \in 1..upRead : up[i].type = "stdin" => up[i].num <= LastIn
  /\ EofIsClients

LEMMA UpOnSend ==
  ASSUME TypeOK, UpInv, link = "up", NEW f \in FrameSet, ClientSend(f),
         f.type \in {"stdin", "eof", "signal"},
         f.type = "signal" => f.num \in Signals /\ nextIn' = nextIn,
         f.type = "stdin" => f.num = nextIn /\ nextIn <= MaxIn /\ nextIn' = nextIn + 1,
         f.type = "eof" => nextIn = MaxIn + 1 /\ nextIn' = nextIn + 1
  PROVE  UpInv'
<1>0. /\ up \in Seq(FrameSet) /\ Len(up) \in Nat /\ nextIn \in Nat /\ MaxIn \in Nat
      /\ nextIn' \in Nat /\ nextIn <= nextIn'
  BY ConstantsAssumption DEF TypeOK
<1>1. \A i \in 1..Len(up) : up[i].num \in Nat
  BY <1>0, FrameOf
<1>2. CASE main = "closed"
  <2>1. up' = up /\ link' = "reset"
    BY <1>2 DEF ClientSend
  <2>2. \A i \in 1..Len(up) : up[i].type = "stdin" => up[i].num < nextIn'
    BY <1>0, <1>1 DEF UpInv
  <2> QED
    BY <2>1, <2>2 DEF UpInv
<1>3. CASE main # "closed"
  <2>1. up' = Append(up, f) /\ link' = "up"
    BY <1>3 DEF ClientSend
  <2>2. /\ Len(up') = Len(up) + 1 /\ up'[Len(up) + 1] = f
        /\ \A i \in 1..Len(up) : up'[i] = up[i]
    BY <1>0, <2>1, AppendFrame
  <2>3. \A i \in 1..Len(up') : i \in 1..Len(up) \/ i = Len(up) + 1
    BY <1>0, <2>2
  <2>4. \A k \in 1..MaxIn : k < nextIn => \E i \in 1..Len(up) : IsChunk(up'[i], "stdin", k)
    BY <2>2 DEF UpInv
  <2>a. ASSUME NEW i \in 1..Len(up')
        PROVE  /\ up'[i].type = "signal" => up'[i].num \in Signals
               /\ up'[i].type = "stdin" => up'[i].num < nextIn' /\ up'[i].num <= MaxIn
               /\ up'[i].type = "eof" =>
                    \A k \in 1..MaxIn : \E j \in 1..(i-1) : IsChunk(up'[j], "stdin", k)
    <3>1. CASE i \in 1..Len(up)
      <4>1. up'[i] = up[i] /\ up[i].num \in Nat
        BY <1>1, <2>2, <3>1
      <4>2. \A j \in 1..(i-1) : up'[j] = up[j]
        BY <1>0, <2>2, <3>1
      <4>3. up[i].type = "stdin" => up[i].num < nextIn' /\ up[i].num <= MaxIn
        BY <1>0, <3>1, <4>1 DEF UpInv
      <4> QED
        BY <3>1, <4>1, <4>2, <4>3 DEF UpInv
    <3>2. CASE i = Len(up) + 1
      <4>1. up'[i] = f /\ i - 1 = Len(up)
        BY <1>0, <2>2, <3>2
      <4>2. f.type = "eof" => \A k \in 1..MaxIn : k < nextIn
        BY <1>0
      <4> QED
        BY <1>0, <2>4, <4>1, <4>2
    <3> QED
      BY <2>3, <3>1, <3>2
  <2>b. ASSUME NEW i \in 1..Len(up'), NEW j \in 1..Len(up'),
               i < j, up'[i].type = "stdin", up'[j].type = "stdin"
        PROVE  up'[i].num < up'[j].num
    <3>0. i \in 1..Len(up) /\ up'[i] = up[i]
      <4>1. i \in 1..Len(up)
        BY <1>0, <2>2, <2>b
      <4> QED
        BY <2>2, <4>1
    <3>1. CASE j \in 1..Len(up)
      BY <2>b, <2>2, <3>0, <3>1 DEF UpInv
    <3>2. CASE j = Len(up) + 1
      BY <2>b, <2>2, <3>0, <3>2 DEF UpInv
    <3> QED
      BY <2>3, <3>1, <3>2
  <2>c. ASSUME NEW k \in 1..MaxIn, k < nextIn'
        PROVE  \E i \in 1..Len(up') : IsChunk(up'[i], "stdin", k)
    <3>1. CASE k < nextIn
      <4>1. PICK i \in 1..Len(up) : IsChunk(up'[i], "stdin", k)
        BY <2>4, <3>1
      <4>2. i \in 1..Len(up')
        BY <1>0, <2>2
      <4> QED
        BY <4>1, <4>2
    <3>2. CASE k >= nextIn
      <4>1. f.type = "stdin" /\ k = nextIn
        BY <1>0, <2>c, <3>2
      <4>2. Len(up) + 1 \in 1..Len(up')
        BY <1>0, <2>2
      <4> QED
        BY <2>2, <4>1, <4>2 DEF IsChunk
    <3> QED
      BY <1>0, <3>1, <3>2
  <2> QED
    BY <2>1, <2>a, <2>b, <2>c DEF UpInv
<1> QED
  BY <1>2, <1>3

LEMMA UpStep == TypeOK /\ UpInv /\ [Next]_vars => UpInv'
<1> SUFFICES ASSUME TypeOK, UpInv, [Next]_vars PROVE UpInv'
  OBVIOUS
<1> USE ConstantsAssumption
<1>1. CASE SendStdin
  <2>1. Frame("stdin", nextIn) \in FrameSet
    BY DEF Frame, FrameSet, FrameTypes, TypeOK
  <2> QED
    BY <1>1, <2>1, UpOnSend DEF SendStdin, Frame
<1>2. CASE SendEOF
  <2>1. Frame("eof", 0) \in FrameSet
    BY DEF Frame, FrameSet, FrameTypes
  <2> QED
    BY <1>2, <2>1, UpOnSend DEF SendEOF, Frame
<1>3. CASE SendSignal
  <2>1. Frame("signal", pending) \in FrameSet /\ pending \in Signals
    BY <1>3 DEF Frame, FrameSet, FrameTypes, TypeOK, SendSignal, SIGINT, SIGTERM
  <2> QED
    BY <1>3, <2>1, UpOnSend DEF SendSignal, Frame
<1>4. CASE UNCHANGED <<up, nextIn>> /\ (link' = "up" => link = "up")
  BY <1>4 DEF UpInv
<1>5. \/ SendStdin \/ SendEOF \/ SendSignal
      \/ UNCHANGED <<up, nextIn>> /\ (link' = "up" => link = "up")
  <2> USE DEF netVars, upVars, clientVars
  <2>1. CASE CommandStep \/ Lose \/ UNCHANGED vars
    BY <2>1 DEF CommandStep, Output, EatStdin, ReusePid, Fork, ChildExit, LeaderExit, Lose, vars
  <2>2. CASE Kill \/ Main
    BY <2>2 DEF Kill, KillCheck, KillInterrupt, KillTimeout, KillStandDown,
                Main, Wait, Finish, WriteExit, CloseConn
  <2>3. CASE Reader
    BY <2>3 DEF Reader, ReadFrame, ReadStdin, ReadEOF, ReadSignal, StdinWrite, ReadError, ReaderKilled
  <2>4. CASE \E s \in Streams : Pump(s)
    BY <2>4 DEF Pump, PumpRead, PumpWrite, PumpWriteLost, PumpKilled, PumpEOF
  <2>5. CASE Client
    BY <2>5 DEF Client, ReadLoop, Interrupt, Show, ReadExit, ReadFails
  <2> QED
    BY <2>1, <2>2, <2>3, <2>4, <2>5 DEF Next
<1> QED
  BY <1>1, <1>2, <1>3, <1>4, <1>5

\* Reading the next frame that is not stdin leaves LastIn, and its bound, alone.
LEMMA FedOnRead ==
  ASSUME TypeOK, UpInv, FedInv, ReadFrame
  PROVE  FedInv'
<1>0. /\ up \in Seq(FrameSet) /\ Len(up) \in Nat /\ upRead \in Nat /\ upRead < Len(up)
      /\ upRead + 1 \in 1..Len(up) /\ fed \in Nat /\ MaxIn \in Nat
      /\ reader = "read" /\ upRead' = upRead + 1 /\ up' = up /\ fed' = fed
  BY ConstantsAssumption
     DEF TypeOK, ReadFrame, ReadStdin, ReadEOF, ReadSignal, CanReadUp, pipeVars, stdinVars
<1>1. /\ \A i \in 1..(upRead + 1) : i \in 1..upRead \/ i = upRead + 1
      /\ \A i \in 1..upRead : i \in 1..Len(up)
      /\ (upRead + 1) - 1 = upRead
  BY <1>0
<1>2. LastIn = fed
  BY <1>0 DEF LastIn
<1>3. CASE ReadStdin
  <2>1. /\ up[upRead + 1].type = "stdin" /\ reader' = "stdin"
        /\ leader' = leader /\ stdin' = stdin
    BY <1>3 DEF ReadStdin, NextUp, procVars, pipeVars, stdinVars
  <2>2. LastIn' = up[upRead + 1].num
    BY <1>0, <2>1 DEF LastIn
  <2>3. up[upRead + 1].num <= MaxIn /\ up[upRead + 1].num \in Nat
    BY <1>0, <2>1, FrameOf DEF UpInv
  <2>4. ASSUME NEW i \in 1..(upRead + 1), up[i].type = "stdin"
        PROVE  up[i].num <= up[upRead + 1].num
    <3>1. CASE i = upRead + 1
      BY <2>3, <3>1
    <3>2. CASE i \in 1..upRead
      <4>1. i \in 1..Len(up) /\ i < upRead + 1
        BY <1>0, <1>1, <3>2
      <4>2. up[i].num < up[upRead + 1].num /\ up[i].num \in Nat
        BY <1>0, <2>1, <2>4, <4>1, FrameOf DEF UpInv
      <4> QED
        BY <2>3, <4>2
    <3> QED
      BY <1>1, <3>1, <3>2
  <2> QED
    BY <1>0, <2>1, <2>2, <2>3, <2>4 DEF FedInv, EofIsClients
<1>4. CASE ReadEOF
  <2>1. /\ up[upRead + 1].type = "eof" /\ stdin' = "closed" /\ reader' = "read"
        /\ leader' = leader
    BY <1>0, <1>4 DEF ReadEOF, NextUp, procVars, agentVars
  <2>2. leader = "run" => fed = MaxIn
    <3> SUFFICES ASSUME leader = "run" PROVE fed = MaxIn
      OBVIOUS
    <3>1. CASE stdin = "closed"
      BY <3>1 DEF FedInv, EofIsClients
    <3>2. CASE stdin # "closed"
      <4>1. stdin = "open"
        BY <3>2 DEF TypeOK
      <4>2. fed <= MaxIn /\ \A i \in 1..upRead : up[i].type = "stdin" => up[i].num <= fed
        BY <1>2, <4>1 DEF FedInv
      <4>3. CASE MaxIn = 0
        BY <1>0, <4>2, <4>3
      <4>4. CASE MaxIn >= 1
        <5>1. MaxIn \in 1..MaxIn
          BY <1>0, <4>4
        <5>2. PICK j \in 1..upRead : IsChunk(up[j], "stdin", MaxIn)
          BY <1>0, <1>1, <2>1, <5>1 DEF UpInv
        <5> QED
          BY <1>0, <4>2, <5>2 DEF IsChunk
      <4> QED
        BY <1>0, <4>3, <4>4
    <3> QED
      BY <3>1, <3>2
  <2> QED
    BY <1>0, <2>1, <2>2 DEF FedInv, EofIsClients
<1>5. CASE ReadSignal
  <2>1. /\ up[upRead + 1].type = "signal" /\ stdin' = stdin /\ reader' = "read"
        /\ leader' = "run" => leader = "run"
    BY <1>0, <1>5, SignalEffect DEF ReadSignal, NextUp, pipeVars, stdinVars, agentVars
  <2>2. LastIn' = fed
    BY <1>0, <2>1 DEF LastIn
  <2> QED
    BY <1>0, <1>1, <1>2, <2>1, <2>2 DEF FedInv, EofIsClients
<1> QED
  BY <1>3, <1>4, <1>5 DEF ReadFrame

LEMMA FedStep == TypeOK /\ UpInv /\ FedInv /\ [Next]_vars => FedInv'
<1> SUFFICES ASSUME TypeOK, UpInv, FedInv, [Next]_vars PROVE FedInv'
  OBVIOUS
<1>1. CASE ReadFrame
  BY <1>1, FedOnRead
<1>2. CASE StdinWrite
  <2>1. /\ UNCHANGED <<leader, stdin, up, upRead>> /\ reader = "stdin" /\ reader' = "read"
        /\ \/ (stdin = "closed" \/ leader # "run") /\ fed' = fed
           \/ stdin = "open" /\ fed' = up[upRead].num
    BY <1>2 DEF StdinWrite, HoldsStdin, procVars, netVars, upVars
  <2> QED
    BY <2>1 DEF FedInv, LastIn, EofIsClients
<1>3. CASE Wait
  BY <1>3 DEF Wait, netVars, upVars, FedInv, EofIsClients
<1>4. CASE /\ UNCHANGED <<fed, stdin, up, upRead>>
           /\ leader' = "run" => leader = "run"
           /\ reader' = reader \/ (reader # "stdin" /\ reader' # "stdin")
  BY <1>4 DEF FedInv, LastIn, EofIsClients
<1>5. CASE (\E f \in FrameSet : ClientSend(f)) /\ UNCHANGED <<fed, stdin, upRead, leader, reader>>
  <2>1. PICK f \in FrameSet : ClientSend(f)
    BY <1>5
  <2>2. up' = up \/ up' = Append(up, f)
    BY <2>1 DEF ClientSend
  <2>3. up \in Seq(FrameSet) /\ Len(up) \in Nat /\ upRead \in 0..Len(up)
    BY DEF TypeOK
  <2>4. \A i \in 1..upRead : up'[i] = up[i]
    BY <2>2, <2>3, AppendFrame
  <2>5. reader = "stdin" => upRead \in 1..upRead
    BY <2>3 DEF FedInv
  <2> QED
    BY <1>5, <2>4, <2>5 DEF FedInv, LastIn, EofIsClients
<1>6. \/ ReadFrame \/ StdinWrite \/ Wait
      \/ /\ UNCHANGED <<fed, stdin, up, upRead>>
         /\ leader' = "run" => leader = "run"
         /\ reader' = reader \/ (reader # "stdin" /\ reader' # "stdin")
      \/ (\E f \in FrameSet : ClientSend(f)) /\ UNCHANGED <<fed, stdin, upRead, leader, reader>>
  <2> USE DEF procVars, pipeVars, stdinVars, agentVars, netVars, upVars
  <2>1. CASE CommandStep \/ Lose \/ UNCHANGED vars
    BY <2>1 DEF CommandStep, Output, EatStdin, ReusePid, Fork, ChildExit, LeaderExit, Lose, vars
  <2>2. CASE Kill
    BY <2>2, SignalEffect DEF Kill, KillCheck, KillInterrupt, KillTimeout, KillStandDown
  <2>3. CASE Main \/ Reader
    BY <2>3 DEF Main, Finish, WriteExit, CloseConn, Reader, ReadError, ReaderKilled
  <2>4. CASE \E s \in Streams : Pump(s)
    BY <2>4 DEF Pump, PumpRead, PumpWrite, PumpWriteLost, PumpKilled, PumpEOF
  <2>5. CASE Client
    <3>1. /\ Frame("stdin", nextIn) \in FrameSet /\ Frame("eof", 0) \in FrameSet
          /\ Frame("signal", pending) \in FrameSet
      BY ConstantsAssumption DEF Frame, FrameSet, FrameTypes, TypeOK, SIGINT, SIGTERM
    <3> QED
      BY <2>5, <3>1 DEF Client, ReadLoop, Interrupt, Show, ReadExit, ReadFails,
                        SendStdin, SendEOF, SendSignal
  <2> QED
    BY <2>1, <2>2, <2>3, <2>4, <2>5 DEF Next
<1> QED
  BY <1>1, <1>2, <1>3, <1>4, <1>5, <1>6

\* A running command sees end of file only after all of the client's input
\* (EofIsClients of RunStream).
THEOREM EofAfterInput == Spec => []EofIsClients
<1>1. Init => UpInv /\ FedInv
  BY ConstantsAssumption DEF Init, UpInv, FedInv, LastIn, EofIsClients
<1>2. FedInv => EofIsClients
  BY DEF FedInv
<1> QED
  BY <1>1, <1>2, TypeCorrect, UpStep, FedStep, PTL DEF Spec

-----------------------------------------------------------------------------
(***************************************************************************)
(* RunStream implements RemoteRun.                                          *)
(***************************************************************************)

\* A signal that reaches the leader is its end, with a status of a signal.
LEMMA SignalRefines ==
  ASSUME NEW n \in Signals \cup {SIGINT, SIGKILL}, Signal(n),
         UNCHANGED <<made, shown, outcome, ret>>
  PROVE  RR!Next \/ UNCHANGED RR!vars
<1>1. CASE leader' = leader /\ code' = code
  BY <1>1 DEF RR!vars
<1>2. CASE leader = "run" /\ leader' = "zombie" /\ code' = 128 + n
  <2>1. 128 + n \in Statuses
    BY DEF Statuses
  <2>2. RR!End(128 + n)
    BY <1>2 DEF RR!End
  <2> QED
    BY <2>1, <2>2 DEF RR!Next
<1>3. \/ leader' = leader /\ code' = code
      \/ leader = "run" /\ leader' = "zombie" /\ code' = 128 + n
  <2>1. CASE leader = "run" /\ (n = SIGKILL \/ ~cmd.stubborn)
    BY <2>1 DEF Signal
  <2>2. CASE ~(leader = "run" /\ (n = SIGKILL \/ ~cmd.stubborn))
    BY <2>2 DEF Signal
  <2> QED
    BY <2>1, <2>2
<1> QED
  BY <1>1, <1>2, <1>3

\* Every step of a run is a step of a remote run, or shows nothing of it.
LEMMA RunRefines ==
  ASSUME TypeOK, Control, WireInv, UpInv, [Next]_vars
  PROVE  [RR!Next]_(RR!vars)
<1> USE DEF RR!vars
<1>1. ASSUME NEW s \in Streams, Output(s) PROVE RR!Next
  <2>1. outcome # "exit"
    <3>1. main = "pumps"
      BY <1>1 DEF Output
    <3> QED
      BY <3>1, NoExitYet DEF WireInv, OutcomeInv, TypeOK
  <2>2. RR!Produce(s)
    BY <1>1, <2>1 DEF Output, RR!Produce, procVars, clientVars
  <2> QED
    BY <2>2 DEF RR!Next
<1>2. ASSUME NEW c \in ExitCodes, LeaderExit(c) PROVE RR!Next
  <2>1. c \in Statuses
    BY DEF Statuses
  <2>2. RR!End(c)
    BY <1>2 DEF LeaderExit, RR!End, pipeVars, clientVars
  <2> QED
    BY <2>1, <2>2 DEF RR!Next
<1>3. CASE KillInterrupt \/ KillTimeout
  <2>1. \E n \in Signals \cup {SIGINT, SIGKILL} : Signal(n)
    BY <1>3 DEF KillInterrupt, KillTimeout
  <2>2. UNCHANGED <<made, shown, outcome, ret>>
    BY <1>3 DEF KillInterrupt, KillTimeout, pipeVars, clientVars
  <2> QED
    BY <2>1, <2>2, SignalRefines
<1>4. CASE ReadSignal
  <2>1. upRead + 1 \in 1..Len(up) /\ NextUp.type = "signal" /\ Signal(NextUp.num)
    BY <1>4 DEF ReadSignal, CanReadUp, TypeOK
  <2>2. NextUp.num \in Signals
    BY <2>1 DEF UpInv, NextUp
  <2>3. UNCHANGED <<made, shown, outcome, ret>>
    BY <1>4 DEF ReadSignal, pipeVars, clientVars
  <2> QED
    BY <2>1, <2>2, <2>3, SignalRefines
<1>5. CASE Wait
  BY <1>5 DEF Wait, clientVars
<1>6. CASE Show
  <2> DEFINE s == wire[got + 1].type
  <2>1. /\ s \in Streams /\ got < Len(wire) /\ outcome = "none"
        /\ shown' = [shown EXCEPT ![s] = wire[got + 1].num]
        /\ UNCHANGED <<made, leader, code, outcome, ret>>
    BY <1>6 DEF Show, CanReadWire, procVars, pipeVars
  <2>2. wire[got + 1].num = shown[s] + 1 /\ wire[got + 1].num <= Sent(s)
    BY <2>1, NextShown
  <2>3. Sent(s) <= made[s] /\ Sent(s) \in Nat /\ shown[s] \in Nat /\ made[s] \in Nat
    <3>1. taken[s] <= made[s] /\ taken[s] \in Nat /\ made[s] \in Nat /\ shown[s] \in Nat
      BY <2>1 DEF TypeOK, Control, PumpInv
    <3>2. Sent(s) \in Nat
      BY <2>1, SentNat
    <3> QED
      BY <3>1, <3>2 DEF Sent
  <2> HIDE DEF s
  <2>4. RR!Deliver(s)
    BY <2>1, <2>2, <2>3 DEF RR!Deliver
  <2> QED
    BY <2>1, <2>4 DEF RR!Next
<1>7. CASE ReadExit
  <2>1. /\ wire[got + 1].type = "exit" /\ got + 1 \in 1..Len(wire) /\ outcome = "none"
        /\ outcome' = "exit" /\ ret' = wire[got + 1].num
        /\ UNCHANGED <<made, shown, leader, code>>
    BY <1>7 DEF ReadExit, CanReadWire, procVars, pipeVars, TypeOK
  <2>2. got + 1 = Len(wire) /\ ret' = code /\ main \in {"sent", "closed"}
    BY <2>1 DEF Control, ExitInv
  <2>3. leader = "reaped"
    BY <2>2 DEF Control, MainInv
  <2>4. shown = made
    BY <2>1, <2>2, AllShown
  <2>5. RR!Report
    BY <2>1, <2>2, <2>3, <2>4 DEF RR!Report
  <2> QED
    BY <2>5 DEF RR!Next
<1>8. CASE ReadFails
  <2>1. RR!Disconnect
    BY <1>8 DEF ReadFails, RR!Disconnect, procVars, pipeVars
  <2> QED
    BY <2>1 DEF RR!Next
<1>9. \/ \E s \in Streams : Output(s)
      \/ \E c \in ExitCodes : LeaderExit(c)
      \/ KillInterrupt \/ KillTimeout \/ ReadSignal \/ Wait \/ Show \/ ReadExit \/ ReadFails
      \/ UNCHANGED <<made, shown, leader, code, outcome, ret>>
  <2> USE DEF procVars, pipeVars, clientVars
  <2>1. CASE CommandStep \/ Lose \/ UNCHANGED vars
    BY <2>1 DEF CommandStep, EatStdin, ReusePid, Fork, ChildExit, Lose, vars
  <2>2. CASE Kill \/ Main
    BY <2>2 DEF Kill, KillCheck, KillStandDown, Main, Finish, WriteExit, CloseConn
  <2>3. CASE Reader
    BY <2>3 DEF Reader, ReadFrame, ReadStdin, ReadEOF, StdinWrite, ReadError, ReaderKilled
  <2>4. CASE \E s \in Streams : Pump(s)
    BY <2>4 DEF Pump, PumpRead, PumpWrite, PumpWriteLost, PumpKilled, PumpEOF
  <2>5. CASE Client
    BY <2>5 DEF Client, ReadLoop, SendStdin, SendEOF, SendSignal, Interrupt
  <2> QED
    BY <2>1, <2>2, <2>3, <2>4, <2>5 DEF Next
<1>10. CASE UNCHANGED <<made, shown, leader, code, outcome, ret>>
  BY <1>10
<1>11. Wait => UNCHANGED <<made, shown, outcome, ret, code>> /\ leader # "run" /\ leader' # "run"
  BY DEF Wait, clientVars
<1> QED
  BY <1>1, <1>2, <1>3, <1>4, <1>5, <1>6, <1>7, <1>8, <1>9, <1>10, <1>11

\* Each stream is shown chunk by chunk, in order (InOrder of RunStream).
THEOREM StreamsInOrder == Spec => InOrder
<1>1. ASSUME TypeOK, WireInv, [Next]_vars
      PROVE  [\A s \in Streams : shown'[s] # shown[s] => shown'[s] = shown[s] + 1]_shown
  <2>1. CASE Show
    <3> DEFINE r == wire[got + 1].type
    <3>1. /\ r \in Streams /\ got < Len(wire)
          /\ shown' = [shown EXCEPT ![r] = wire[got + 1].num]
      BY <2>1 DEF Show, CanReadWire
    <3>2. wire[got + 1].num = shown[r] + 1
      BY <1>1, <3>1, NextShown
    <3> HIDE DEF r
    <3>3. shown \in [Streams -> Nat]
      BY <1>1 DEF TypeOK
    <3> QED
      BY <3>1, <3>2, <3>3
  <2>2. CASE UNCHANGED shown
    BY <2>2
  <2>3. Show \/ UNCHANGED shown
    <3> USE DEF clientVars
    <3>1. CASE CommandStep \/ Lose \/ UNCHANGED vars
      BY <3>1 DEF CommandStep, Output, EatStdin, ReusePid, Fork, ChildExit, LeaderExit, Lose, vars
    <3>2. CASE Kill \/ Main
      BY <3>2 DEF Kill, KillCheck, KillInterrupt, KillTimeout, KillStandDown,
                  Main, Wait, Finish, WriteExit, CloseConn
    <3>3. CASE Reader
      BY <3>3 DEF Reader, ReadFrame, ReadStdin, ReadEOF, ReadSignal, StdinWrite, ReadError, ReaderKilled
    <3>4. CASE \E s \in Streams : Pump(s)
      BY <3>4 DEF Pump, PumpRead, PumpWrite, PumpWriteLost, PumpKilled, PumpEOF
    <3>5. CASE Client
      BY <3>5 DEF Client, ReadLoop, SendStdin, SendEOF, SendSignal, Interrupt, ReadExit, ReadFails
    <3> QED
      BY <1>1, <3>1, <3>2, <3>3, <3>4, <3>5 DEF Next
  <2> QED
    BY <2>1, <2>2, <2>3
<1> QED
  BY <1>1, WireCorrect, PTL DEF Spec, InOrder

\* A run, as its user sees it, is a remote run (RemoteRunSpec of RunStream).
THEOREM RunImplementsRemoteRun == Spec => RemoteRunSpec
<1>1. Init => RR!Init
  BY DEF Init, RR!Init
<1>2. Init => UpInv
  BY ConstantsAssumption DEF Init, UpInv
<1> QED
  BY <1>1, <1>2, TypeCorrect, WireCorrect, UpStep, RunRefines, PTL
     DEF Spec, RemoteRunSpec, RR!Spec

=============================================================================
