--------------------------- MODULE LifecycleProofs ---------------------------
(***************************************************************************)
(* Commands that are given one after another leave one background agent at  *)
(* most, and none once one of them has said that it is down, for any number *)
(* of commands, processes and deaths, whichever pids are used again and     *)
(* wherever commands fail or are interrupted, not counting the agents that  *)
(* are left unrecorded then.                                                *)
(* Two of the premises are the run's: one terminal, and a service manager   *)
(* that does what it is told.  Without them the properties are false (the   *)
(* README has the counterexamples).                                         *)
(***************************************************************************)
EXTENDS Lifecycle, FiniteSetTheorems, TLAPS

\* Which commands pass through a step.
Steps ==
  \A t \in Terminals :
    /\ pc[t] = "unit" => op[t] \in {"upd", "down"}
    /\ pc[t] = "pid" => op[t] \in {"upd", "forever", "down"}
    /\ pc[t] = "start" => op[t] \in {"upd", "up"}
    /\ pc[t] = "record" => op[t] = "upd" /\ pid[t] \in Pids
    /\ pc[t] \in {"kill", "remove"} => op[t] \in {"forever", "down"}
    /\ pc[t] = "kill" => pid[t] \in Pids
    /\ pc[t] \in {"write", "load"} => op[t] = "forever"
    /\ pc[t] \in {"unload", "delete"} => op[t] = "down"

\* The unit file is there while the service manager runs it, and while it
\* does not all there is of the service is an agent that is stopping.
Managed ==
  /\ loaded => unit
  /\ ~loaded => Service \subseteq stopping
  /\ \A i, j \in Service : i = j
  /\ \A t \in Terminals :
       /\ pc[t] = "load" => unit
       /\ pc[t] = "delete" => ~loaded
       /\ pc[t] \in {"pid", "start", "record"} /\ op[t] = "upd" => ~unit
       /\ pc[t] \in {"pid", "remove", "kill"} /\ op[t] = "down" => ~unit
       /\ pc[t] = "idle" /\ said[t] \in {"down", "none"} => ~unit

\* The detached agents that a pid file is to name.
Detached == Running({"detached"}) \ unrecorded

\* The command at hand has got hold of detached agent i, or will find it in the
\* pid file.
Traced(t, i) ==
  \/ pidfile = i /\ pc[t] \in {"unit", "pid"}
  \/ pidfile = i /\ pc[t] = "start" /\ op[t] = "up"
  \/ pidfile = i /\ pc[t] = "idle" /\ said[t] \notin {"down", "none"}
  \/ pid[t] = i /\ pc[t] = "record"
  \/ pid[t] = i /\ pc[t] = "kill" /\ (op[t] = "forever" => pidfile = i)
  \/ pid[t] = i /\ pc[t] = "remove" /\ op[t] = "down" /\ pidfile = i

\* A detached agent is not lost sight of, and is never there beside the unit.
Tracked == \A i \in Detached : ~unit /\ \A t \in Terminals : Traced(t, i)

\* With one terminal.
Alone == MaxFaults = 0 /\ \A t, u \in Terminals : t = u

-----------------------------------------------------------------------------
LEMMA TypeStep == TypeOK /\ Steps /\ [Next]_vars => TypeOK' /\ Steps'
<1> SUFFICES ASSUME TypeOK, Steps, [Next]_vars PROVE TypeOK' /\ Steps'
  OBVIOUS
<1> USE LifecycleAssumption
<1>1. ASSUME NEW t \in Terminals, NEW o \in Ops, Begin(t, o)
      PROVE  TypeOK' /\ Steps'
  <2>1. o \in {"upd", "forever", "down", "up"} /\ ops' \in 0..MaxOps
    BY <1>1 DEF Begin, TypeOK
  <2>2. UNCHANGED <<procVars, fileVars, pid, deaths, others, faults, cuts, stray, unrecorded>>
    BY <1>1 DEF Begin
  <2> QED
    BY <1>1, <2>1, <2>2 DEF Begin, Goto, TypeOK, Steps, procVars, fileVars
<1>2. ASSUME NEW t \in Terminals, CheckUnit(t)
      PROVE  TypeOK' /\ Steps'
  BY <1>2 DEF CheckUnit, Say, Goto, TypeOK, Steps, procVars, fileVars, countVars
<1>3. ASSUME NEW t \in Terminals, ReadPid(t)
      PROVE  TypeOK' /\ Steps'
  <2>1. op[t] \in {"upd", "forever", "down"} /\ (Alive => pidfile \in Pids)
    BY <1>3 DEF ReadPid, Steps, Alive, TypeOK
  <2>2. /\ UNCHANGED <<procVars, fileVars, op, countVars, stray, unrecorded>>
        /\ pid' = [pid EXCEPT ![t] = IF Alive THEN pidfile ELSE NoPid]
    BY <1>3 DEF ReadPid
  <2>3. \/ op[t] = "upd" /\ Alive /\ pc' = [pc EXCEPT ![t] = "idle"]
             /\ said' = [said EXCEPT ![t] = "already"]
        \/ op[t] = "upd" /\ pc' = [pc EXCEPT ![t] = "start"] /\ said' = said
        \/ op[t] = "forever" /\ Alive /\ pc' = [pc EXCEPT ![t] = "kill"] /\ said' = said
        \/ op[t] = "forever" /\ pc' = [pc EXCEPT ![t] = "write"] /\ said' = said
        \/ op[t] = "down" /\ pc' = [pc EXCEPT ![t] = "remove"] /\ said' = said
    BY <1>3, <2>1 DEF ReadPid, Say, Goto
  <2> QED
    BY <1>3, <2>1, <2>2, <2>3 DEF TypeOK, Steps, procVars, fileVars, countVars
<1>4. ASSUME NEW t \in Terminals, NEW i \in Pids, Start(t, i)
      PROVE  TypeOK' /\ Steps'
  BY <1>4 DEF Start, Fork, Say, Goto, TypeOK, Steps, Kinds, fileVars, countVars
<1>5. ASSUME NEW t \in Terminals, WritePid(t)
      PROVE  TypeOK' /\ Steps'
  BY <1>5 DEF WritePid, Say, Goto, TypeOK, Steps, procVars, countVars
<1>6. ASSUME NEW t \in Terminals, Kill(t)
      PROVE  TypeOK' /\ Steps'
  <2>1. pid[t] \in Pids
    BY <1>6 DEF Kill, Steps
  <2>2. stopping' \subseteq {i \in Pids : proc[i] \in Kinds} /\ stray' \in BOOLEAN
    BY <1>6, <2>1 DEF Kill, Terminate, TypeOK
  <2> QED
    BY <1>6, <2>2 DEF Kill, Say, Goto, TypeOK, Steps, fileVars, countVars
<1>7. ASSUME NEW t \in Terminals, RemovePid(t)
      PROVE  TypeOK' /\ Steps'
  <2>1. cuts' \in 0..MaxCuts /\ pidfile' \in Pids \cup {NoPid}
    BY <1>7 DEF RemovePid, Cut, TypeOK
  <2>2. UNCHANGED <<procVars, unit, loaded, op, pid, ops, deaths, others, faults, stray, unrecorded>>
    BY <1>7 DEF RemovePid
  <2>3. \/ op[t] = "forever" /\ pc' = [pc EXCEPT ![t] = "write"] /\ said' = said
        \/ pc' = [pc EXCEPT ![t] = "idle"] /\ said' = [said EXCEPT ![t] = "none"]
        \/ op[t] = "down" /\ pid[t] \in Pids /\ pc' = [pc EXCEPT ![t] = "kill"] /\ said' = said
    BY <1>7 DEF RemovePid, Say, Goto, TypeOK, Steps
  <2> QED
    BY <2>1, <2>2, <2>3 DEF TypeOK, Steps, procVars
<1>8. ASSUME NEW t \in Terminals, WriteUnit(t)
      PROVE  TypeOK' /\ Steps'
  BY <1>8 DEF WriteUnit, Goto, TypeOK, Steps, procVars, countVars
<1>9. ASSUME NEW t \in Terminals, LoadUnit(t)
      PROVE  TypeOK' /\ Steps'
  <2>1. faults' \in 0..MaxFaults
    BY <1>9 DEF LoadUnit, TypeOK
  <2>2. loaded' \in BOOLEAN /\ op' = op /\ pid' = pid
    BY <1>9 DEF LoadUnit, TypeOK
  <2>3. /\ pc' = [pc EXCEPT ![t] = "idle"]
        /\ said' = [said EXCEPT ![t] = "up"] \/ said' = [said EXCEPT ![t] = "error"]
    BY <1>9 DEF LoadUnit, Say, Goto
  <2>4. UNCHANGED <<procVars, pidfile, unit, ops, deaths, others, cuts, stray, unrecorded>>
    BY <1>9 DEF LoadUnit
  <2>5. Steps'
    BY <2>2, <2>3 DEF TypeOK, Steps
  <2>6. TypeOK'
    BY <2>1, <2>2, <2>3, <2>4 DEF TypeOK, procVars
  <2> QED
    BY <2>5, <2>6
<1>10. ASSUME NEW t \in Terminals, Unload(t)
       PROVE  TypeOK' /\ Steps'
  <2>1. faults' \in 0..MaxFaults
    BY <1>10 DEF Unload, TypeOK
  <2>2. stopping' \subseteq {i \in Pids : proc[i] \in Kinds}
    BY <1>10 DEF Unload, Service, Kinds, TypeOK
  <2>3. Steps'
    BY <1>10 DEF Unload, Goto, TypeOK, Steps
  <2>4. TypeOK'
    BY <1>10, <2>1, <2>2 DEF Unload, Goto, TypeOK
  <2> QED
    BY <2>3, <2>4
<1>11. ASSUME NEW t \in Terminals, DeleteUnit(t)
       PROVE  TypeOK' /\ Steps'
  BY <1>11 DEF DeleteUnit, Say, Goto, TypeOK, Steps, procVars, countVars
<1>12. ASSUME NEW i \in Pids, Listen(i)
       PROVE  TypeOK' /\ Steps'
  BY <1>12 DEF Listen, TypeOK, Steps, fileVars, cmdVars, countVars
<1>13. ASSUME NEW i \in Pids, Stop(i) \/ Die(i)
       PROVE  TypeOK' /\ Steps'
  <2>1. End(i) /\ deaths' \in 0..MaxDeaths
    BY <1>13 DEF Stop, Die, End, TypeOK
  <2>2. Steps'
    BY <2>1 DEF End, Steps, cmdVars
  <2>3. TypeOK'
    BY <2>1 DEF End, TypeOK, Kinds, fileVars, cmdVars
  <2> QED
    BY <2>2, <2>3
<1>14. ASSUME NEW i \in Pids, OtherStarts(i)
       PROVE  TypeOK' /\ Steps'
  <2>1. others' \in 0..MaxOthers
    BY <1>14 DEF OtherStarts, TypeOK
  <2> QED
    BY <1>14, <2>1 DEF OtherStarts, Fork, TypeOK, Steps, Kinds, fileVars, cmdVars
<1>15. ASSUME NEW i \in Pids, ServiceStarts(i)
       PROVE  TypeOK' /\ Steps'
  BY <1>15 DEF ServiceStarts, Fork, TypeOK, Steps, Kinds, fileVars, cmdVars, countVars
<1>16. ASSUME NEW t \in Terminals, CutShort(t)
       PROVE  TypeOK' /\ Steps'
  <2>1. cuts' \in 0..MaxCuts
    BY <1>16 DEF CutShort, Cut, TypeOK
  <2>2. UNCHANGED <<procVars, loaded, op, pid, ops, deaths, others, faults, stray>>
    BY <1>16 DEF CutShort
  <2>3. /\ pc' = [pc EXCEPT ![t] = "idle"] /\ said' = [said EXCEPT ![t] = "error"]
        /\ pidfile' \in {pidfile, NoPid} /\ unit' \in {unit, TRUE}
    BY <1>16 DEF CutShort, Say, Goto
  <2>4. unrecorded' \subseteq {i \in Pids : proc[i] = "detached"}
    BY <1>16 DEF CutShort, TypeOK, Steps
  <2>5. Steps'
    BY <2>2, <2>3 DEF TypeOK, Steps
  <2>6. TypeOK'
    BY <2>1, <2>2, <2>3, <2>4 DEF TypeOK, procVars
  <2> QED
    BY <2>5, <2>6
<1>17. CASE UNCHANGED vars
  BY <1>17 DEF vars, procVars, fileVars, cmdVars, countVars, TypeOK, Steps
<1> QED
  BY <1>1, <1>2, <1>3, <1>4, <1>5, <1>6, <1>7, <1>8, <1>9, <1>10, <1>11, <1>12, <1>13, <1>14,
     <1>15, <1>16, <1>17 DEF Next, Command, Agent

LEMMA InitTypes == Init => TypeOK /\ Steps
<1> SUFFICES ASSUME Init PROVE TypeOK /\ Steps
  OBVIOUS
<1>1. /\ ops \in 0..MaxOps /\ deaths \in 0..MaxDeaths
      /\ others \in 0..MaxOthers /\ faults \in 0..MaxFaults /\ cuts \in 0..MaxCuts
  BY LifecycleAssumption DEF Init
<1>2. Steps
  BY DEF Init, Steps
<1> QED
  BY <1>1, <1>2 DEF Init, TypeOK

\* Every variable stays in its range, in any number of terminals and whatever
\* fails: each command passes only through its own steps.
THEOREM TypeCorrect == Spec => []TypeOK
<1>1. Init => TypeOK /\ Steps
  BY InitTypes
<1>2. TypeOK /\ Steps /\ [Next]_vars => TypeOK' /\ Steps'
  BY TypeStep
<1> QED
  BY <1>1, <1>2, PTL DEF Spec

-----------------------------------------------------------------------------
\* An agent that dies, somebody else's process, or an agent that gets to listen
\* disturbs neither Managed nor Tracked.
LEMMA FewerKeep ==
  ASSUME TypeOK, Managed, Tracked, UNCHANGED <<fileVars, cmdVars>>,
         NEW i \in Pids, \A j \in Pids : j # i => proc'[j] = proc[j],
         proc'[i] \notin {"detached", "service"} \/ proc'[i] = proc[i],
         unrecorded \ {i} \subseteq unrecorded', i \in unrecorded => i \in unrecorded' \/ proc'[i] # proc[i],
         stopping \ {i} \subseteq stopping', i \in stopping => i \in stopping' \/ proc'[i] # proc[i]
  PROVE  Managed' /\ Tracked'
<1>1. Service' \subseteq Service /\ Detached' \subseteq Detached
  BY DEF Service, Detached, Running
<1>2. \A j \in Service' : j \in stopping => j \in stopping'
  BY DEF Service
<1> QED
  BY <1>1, <1>2 DEF Managed, Tracked, Traced, fileVars, cmdVars

LEMMA KeepStep ==
  ASSUME Alone
  PROVE  TypeOK /\ Steps /\ Managed /\ Tracked /\ [Next]_vars => Managed' /\ Tracked'
<1> SUFFICES ASSUME TypeOK, Steps, Managed, Tracked, [Next]_vars PROVE Managed' /\ Tracked'
  OBVIOUS
<1> USE LifecycleAssumption
<1>1. ASSUME NEW t \in Terminals, NEW o \in Ops, Begin(t, o)
      PROVE  Managed' /\ Tracked'
  <2>1. /\ UNCHANGED <<proc, stopping, unrecorded, pidfile, unit, loaded, pid>>
        /\ pc[t] = "idle" /\ o \in {"upd", "forever", "down", "up"}
        /\ op'[t] = o /\ said'[t] = "nothing"
        /\ pc'[t] = CASE o \in {"upd", "down"} -> "unit" [] o = "forever" -> "pid" [] o = "up" -> "start"
    BY <1>1 DEF Begin, Goto, TypeOK, procVars, fileVars
  <2>2. Service' = Service /\ Detached' = Detached
    BY <2>1 DEF Service, Detached, Running
  <2>3. \A i \in Detached : Traced(t, i)'
    BY <2>1 DEF Tracked, Traced
  <2> QED
    BY <2>1, <2>2, <2>3 DEF Alone, Managed, Tracked
<1>2. ASSUME NEW t \in Terminals, CheckUnit(t) \/ ReadPid(t) \/ WritePid(t) \/ RemovePid(t)
                                  \/ WriteUnit(t) \/ LoadUnit(t) \/ DeleteUnit(t)
      PROVE  Managed' /\ Tracked'
  <2>1. UNCHANGED <<proc, stopping, unrecorded, op>>
    BY <1>2 DEF CheckUnit, ReadPid, WritePid, RemovePid, WriteUnit, LoadUnit, DeleteUnit, procVars
  <2>2. Service' = Service /\ Detached' = Detached /\ Detached \subseteq Pids
    BY <2>1 DEF Service, Detached, Running
  <2>3. CASE CheckUnit(t)
    <3>1. /\ UNCHANGED <<pidfile, unit, loaded, pid>> /\ pc[t] = "unit" /\ op[t] \in {"upd", "down"}
          /\ \/ ~unit /\ pc'[t] = "pid"
             \/ unit /\ op[t] = "upd" /\ pc'[t] = "idle" /\ said'[t] = "already"
             \/ unit /\ op[t] = "down" /\ pc'[t] = "unload"
      BY <2>3 DEF CheckUnit, Say, Goto, TypeOK, Steps, fileVars
    <3>2. Managed'
      BY <2>1, <2>2, <3>1 DEF Alone, Managed
    <3>3. Tracked'
      BY <2>1, <2>2, <3>1 DEF Alone, Tracked, Traced
    <3> QED
      BY <3>2, <3>3
  <2>4. CASE ReadPid(t)
    <3>1. /\ UNCHANGED <<pidfile, unit, loaded>> /\ pc[t] = "pid"
          /\ pid'[t] = IF Alive THEN pidfile ELSE NoPid
          /\ \/ op[t] = "upd" /\ Alive /\ pc'[t] = "idle" /\ said'[t] = "already"
             \/ op[t] = "upd" /\ ~Alive /\ pc'[t] = "start"
             \/ op[t] = "forever" /\ pc'[t] = IF Alive THEN "kill" ELSE "write"
             \/ op[t] = "down" /\ pc'[t] = "remove"
      <4>1. /\ UNCHANGED <<pidfile, unit, loaded>> /\ pc[t] = "pid"
            /\ pid'[t] = IF Alive THEN pidfile ELSE NoPid
        BY <2>4 DEF ReadPid, TypeOK, fileVars
      <4>2. op[t] \in {"upd", "forever", "down"}
        BY <4>1 DEF Steps
      <4>3. CASE op[t] = "upd"
        BY <2>4, <4>1, <4>3 DEF ReadPid, Say, Goto, TypeOK
      <4>4. CASE op[t] = "forever"
        BY <2>4, <4>1, <4>4 DEF ReadPid, Goto, TypeOK
      <4>5. CASE op[t] = "down"
        BY <2>4, <4>1, <4>5 DEF ReadPid, Goto, TypeOK
      <4> QED
        BY <4>1, <4>2, <4>3, <4>4, <4>5
    <3>2. \A i \in Detached : pidfile = i /\ Alive
      <4>1. \A i \in Detached : i \in Pids /\ proc[i] # "none" /\ Traced(t, i)
        BY DEF Detached, Running, Tracked
      <4> QED
        BY <3>1, <4>1 DEF Traced, Alive
    <3> QED
      BY <2>1, <2>2, <3>1, <3>2 DEF Alone, Managed, Tracked, Traced
  <2>5. CASE WritePid(t)
    <3>1. /\ UNCHANGED <<unit, loaded, pid>> /\ pc[t] = "record" /\ pidfile' = pid[t]
          /\ pc'[t] = "idle" /\ said'[t] = "up"
      BY <2>5 DEF WritePid, Say, Goto, TypeOK
    <3> QED
      BY <2>1, <2>2, <3>1 DEF Alone, Managed, Tracked, Traced
  <2>6. CASE RemovePid(t)
    <3>1. /\ UNCHANGED <<unit, loaded, pid>> /\ pc[t] = "remove" /\ op[t] \in {"forever", "down"}
          /\ \/ op[t] = "forever" /\ pc'[t] = "write"
             \/ op[t] = "down" /\ pid[t] = NoPid /\ pc'[t] = "idle" /\ said'[t] = "none"
             \/ op[t] = "down" /\ pid[t] # NoPid /\ pc'[t] = "kill"
      BY <2>6 DEF RemovePid, Say, Goto, TypeOK, Steps
    <3>2. \A i \in Detached : op[t] = "down" /\ pid[t] = i
      BY <3>1 DEF Tracked, Traced
    <3> QED
      BY <2>1, <2>2, <3>1, <3>2 DEF Alone, Managed, Tracked, Traced
  <2>7. CASE WriteUnit(t) \/ LoadUnit(t) \/ DeleteUnit(t)
    <3>1. /\ pc[t] \in {"write", "load", "delete"}
          /\ \/ pc[t] = "write" /\ unit' /\ loaded' = loaded /\ pc'[t] = "load"
             \/ pc[t] = "load" /\ unit' = unit /\ loaded' /\ pc'[t] = "idle" /\ said'[t] = "up"
             \/ pc[t] = "delete" /\ unit' = FALSE /\ loaded' = loaded /\ pc'[t] = "idle"
      BY <2>7 DEF WriteUnit, LoadUnit, DeleteUnit, Say, Goto, TypeOK, Alone
    <3>2. Detached = {}
      BY <3>1 DEF Tracked, Traced
    <3> QED
      BY <2>1, <2>2, <3>1, <3>2 DEF Alone, Managed, Tracked
  <2> QED
    BY <1>2, <2>3, <2>4, <2>5, <2>6, <2>7
<1>3. ASSUME NEW t \in Terminals, NEW i \in Pids, Start(t, i)
      PROVE  Managed' /\ Tracked'
  <2>1. /\ UNCHANGED <<stopping, unrecorded, pidfile, unit, loaded, op>> /\ pc[t] = "start" /\ proc[i] = "none"
        /\ \A j \in Pids : j # i => proc'[j] = proc[j]
        /\ \/ op[t] = "up" /\ proc'[i] = "foreground" /\ pc'[t] = "idle" /\ said'[t] = "up"
           \/ op[t] = "upd" /\ proc'[i] = "detached" /\ pid'[t] = i /\ pc'[t] = "record"
    BY <1>3 DEF Start, Fork, Say, Goto, TypeOK, Steps, fileVars
  <2>2. Service' = Service /\ (op[t] = "up" => Detached' = Detached)
    BY <2>1 DEF Service, Detached, Running
  <2>3. op[t] = "upd" => ~unit /\ Detached = {}
    BY <2>1 DEF Managed, Tracked, Traced
  <2>4. op[t] = "upd" => Detached' \subseteq {i}
    BY <2>1, <2>3 DEF Detached, Running
  <2> QED
    BY <2>1, <2>2, <2>3, <2>4 DEF Alone, Managed, Tracked, Traced
<1>4. ASSUME NEW t \in Terminals, Kill(t)
      PROVE  Managed' /\ Tracked'
  <2>1. /\ UNCHANGED <<proc, unrecorded, pidfile, unit, loaded, pid, op>> /\ pc[t] = "kill"
        /\ stopping' = IF proc[pid[t]] \in Kinds THEN stopping \cup {pid[t]} ELSE stopping
        /\ \/ op[t] = "forever" /\ pc'[t] = "remove"
           \/ op[t] = "down" /\ pc'[t] = "idle" /\ said'[t] \in {"down", "error"}
    BY <1>4 DEF Kill, Terminate, Say, Goto, TypeOK, Steps, fileVars
  <2>2. Service' = Service /\ Detached' \subseteq Detached
    BY <2>1 DEF Service, Detached, Running
  <2>3. Detached' = {}
    <3>1. \A i \in Detached : i = pid[t] /\ proc[i] = "detached"
      BY <2>1 DEF Tracked, Traced, Detached, Running
    <3> QED
      BY <2>1, <2>2, <3>1 DEF Detached, Running, Kinds
  <2> QED
    BY <2>1, <2>2, <2>3 DEF Alone, Managed, Tracked
<1>5. ASSUME NEW t \in Terminals, Unload(t)
      PROVE  Managed' /\ Tracked'
  <2>1. /\ UNCHANGED <<proc, unrecorded, pidfile, unit, pid, op>> /\ pc[t] = "unload"
        /\ loaded' = FALSE /\ stopping' = stopping \cup Service /\ pc'[t] = "delete"
    BY <1>5 DEF Unload, Goto, TypeOK, Alone
  <2>2. Service' = Service /\ Detached' \subseteq Detached /\ Detached = {}
    BY <2>1 DEF Service, Detached, Running, Tracked, Traced
  <2> QED
    BY <2>1, <2>2 DEF Alone, Managed, Tracked
<1>6. ASSUME NEW i \in Pids, Listen(i)
      PROVE  Managed' /\ Tracked'
  <2>1. UNCHANGED <<proc, stopping, unrecorded, fileVars, cmdVars>>
    BY <1>6 DEF Listen
  <2> QED
    BY <2>1, FewerKeep
<1>7. ASSUME NEW i \in Pids, Stop(i) \/ Die(i)
      PROVE  Managed' /\ Tracked'
  <2>1. /\ UNCHANGED <<fileVars, cmdVars>> /\ stopping' = stopping \ {i} /\ proc'[i] = "none"
        /\ unrecorded' = unrecorded \ {i}
        /\ \A j \in Pids : j # i => proc'[j] = proc[j]
    BY <1>7 DEF Stop, Die, End, TypeOK
  <2>2. i \in stopping \/ i \in unrecorded => proc'[i] # proc[i]
    BY <2>1 DEF TypeOK, Kinds
  <2> QED
    BY <2>1, <2>2, FewerKeep
<1>8. ASSUME NEW i \in Pids, OtherStarts(i)
      PROVE  Managed' /\ Tracked'
  <2>1. /\ UNCHANGED <<stopping, unrecorded, fileVars, cmdVars>> /\ proc'[i] = "other"
        /\ \A j \in Pids : j # i => proc'[j] = proc[j]
    BY <1>8 DEF OtherStarts, Fork, TypeOK
  <2> QED
    BY <2>1, FewerKeep
<1>9. ASSUME NEW i \in Pids, ServiceStarts(i)
      PROVE  Managed' /\ Tracked'
  <2>1. /\ UNCHANGED <<stopping, unrecorded, fileVars, cmdVars>> /\ loaded /\ Service = {} /\ proc'[i] = "service"
        /\ \A j \in Pids : j # i => proc'[j] = proc[j]
    BY <1>9 DEF ServiceStarts, Fork, TypeOK
  <2>2. Service' \subseteq {i} /\ Detached' \subseteq Detached
    BY <2>1 DEF Service, Detached, Running
  <2> QED
    BY <2>1, <2>2 DEF Managed, Tracked, Traced, fileVars, cmdVars
<1>11. ASSUME NEW t \in Terminals, CutShort(t)
       PROVE  Managed' /\ Tracked'
  <2>1. /\ UNCHANGED <<proc, stopping, loaded, pid, op>> /\ pc'[t] = "idle" /\ said'[t] = "error"
        /\ pidfile' \in {pidfile, NoPid} /\ (pc[t] # "record" => pidfile' = pidfile)
        /\ unit' \in {unit, TRUE} /\ (pc[t] # "write" => unit' = unit)
        /\ unrecorded \subseteq unrecorded'
    BY <1>11 DEF CutShort, Say, Goto, TypeOK, procVars
  <2>2. Service' = Service /\ Detached' \subseteq Detached
    BY <2>1 DEF Service, Detached, Running
  <2>3. ASSUME NEW i \in Detached, i \in Detached' PROVE pidfile' = i /\ unit' = unit
    <3>1. Traced(t, i) /\ proc[i] = "detached" /\ pc[t] \notin {"idle", "write"}
      BY <1>11, <2>3 DEF Tracked, Traced, Detached, Running, CutShort
    <3>2. pc[t] = "record" \/ (pc[t] = "kill" /\ op[t] = "down") => pidfile' = i
      BY <1>11, <2>3, <3>1 DEF CutShort, Detached, Traced
    <3> QED
      BY <2>1, <3>1, <3>2 DEF Traced, Steps
  <2>4. Managed'
    <3>1. \A u \in Terminals : pc'[u] = "idle" /\ said'[u] = "error"
      BY <2>1 DEF Alone
    <3>2. loaded' => unit'
      <4>1. loaded' = loaded /\ (unit' = unit \/ unit' = TRUE)
        BY <2>1
      <4>2. loaded => unit
        BY DEF Managed
      <4>3. CASE unit' = unit
        BY Zenon, <4>1, <4>2, <4>3
      <4>4. CASE unit' = TRUE
        BY Zenon, <4>4
      <4> QED
        BY Zenon, <4>1, <4>3, <4>4
    <3> QED
      BY <2>1, <2>2, <3>1, <3>2 DEF Managed
  <2>5. Tracked'
    BY <2>1, <2>2, <2>3 DEF Alone, Tracked, Traced
  <2> QED
    BY <2>4, <2>5
<1>10. CASE UNCHANGED vars
  BY <1>10 DEF vars, procVars, fileVars, cmdVars, Managed, Tracked, Traced, Service, Detached, Running
<1> QED
  BY <1>1, <1>2, <1>3, <1>4, <1>5, <1>6, <1>7, <1>8, <1>9, <1>10, <1>11 DEF Next, Command, Agent

LEMMA Kept ==
  ASSUME Alone
  PROVE  Spec => [](TypeOK /\ Managed /\ Tracked)
<1>1. Init => TypeOK /\ Steps /\ Managed /\ Tracked
  <2>1. Init => Service = {} /\ Detached = {}
    BY DEF Init, Service, Detached, Running
  <2> QED
    BY <2>1, InitTypes DEF Init, Managed, Tracked
<1>2. TypeOK /\ Steps /\ Managed /\ Tracked /\ [Next]_vars => (TypeOK /\ Steps /\ Managed /\ Tracked)'
  BY TypeStep, KeepStep
<1> QED
  BY <1>1, <1>2, PTL DEF Spec

\* The agents in the background are detached ones or the service's.
LEMMA Background ==
  ASSUME Managed, Tracked
  PROVE  /\ InBackground \ unrecorded \subseteq Detached \cup Service
         /\ ~unit => InBackground \ unrecorded \subseteq Detached
BY DEF InBackground, Running, Detached, Service, Managed

\* Commands in one terminal leave one background agent at most besides those left
\* unrecorded by one that was cut short, whatever dies in between and whoever gets
\* its pid (daemonize, install, Down).
THEOREM OneAgent ==
  ASSUME MaxFaults = 0, \E t : Terminals = {t}
  PROVE  Spec => []OneInBackground
<1>1. Alone
  BY DEF Alone
<1>2. Managed /\ Tracked => OneInBackground
  <2> SUFFICES ASSUME Managed, Tracked, AllIdle
               PROVE  Cardinality(InBackground \ unrecorded) <= 1
    BY DEF OneInBackground
  <2>1. PICK x : InBackground \ unrecorded \subseteq {x}
    <3>1. CASE unit
      <4>1. Detached = {} /\ \A i, j \in Service : i = j
        BY <3>1 DEF Managed, Tracked
      <4> QED
        BY <4>1, Background
    <3>2. CASE ~unit
      BY <3>2, Background DEF Tracked, Traced, AllIdle
    <3> QED
      BY <3>1, <3>2
  <2>2. IsFiniteSet({x}) /\ Cardinality({x}) = 1
    BY FS_Singleton
  <2>3. Cardinality(InBackground \ unrecorded) <= Cardinality({x})
    BY <2>1, <2>2, FS_Subset
  <2> QED
    BY <2>2, <2>3
<1>3. Spec => [](TypeOK /\ Managed /\ Tracked)
  BY <1>1, Kept
<1> QED
  BY <1>2, <1>3, PTL

\* A command in the one terminal that says the agent is down is right, until
\* the next command, but for such agents (Down).
THEOREM DownMeansDown ==
  ASSUME MaxFaults = 0, \E t : Terminals = {t}
  PROVE  Spec => []DownStops
<1>1. Alone
  BY DEF Alone
<1>2. Managed /\ Tracked => DownStops
  <2> SUFFICES ASSUME Managed, Tracked, NEW t \in Terminals,
                      pc[t] = "idle", said[t] \in {"down", "none"}
               PROVE  InBackground \subseteq unrecorded
    BY DEF DownStops
  <2>1. ~unit /\ Detached = {}
    BY DEF Managed, Tracked, Traced
  <2> QED
    BY <2>1, Background
<1>3. Spec => [](TypeOK /\ Managed /\ Tracked)
  BY <1>1, Kept
<1> QED
  BY <1>2, <1>3, PTL

=============================================================================
