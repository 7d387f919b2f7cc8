------------------------------ MODULE KeyFile -------------------------------
(***************************************************************************)
(* The cluster key of one machine, internal/keys/keys.go, used at the same  *)
(* time by several knit processes: commands that load it, `knit join` and   *)
(* `knit key --rotate` (internal/client/rotate.go) that replace it, and the *)
(* agent (internal/agent/agent.go Serve), which loads it as it starts and   *)
(* again for every connection.                                              *)
(*                                                                          *)
(* There is no lock.  LoadOrCreate reads the file and, if that fails for    *)
(* any reason, generates a key; install writes a temporary file and renames *)
(* it into place.  A process may die between any two of these steps.        *)
(*                                                                          *)
(* A key is a number: every key generated, here or on the machine a joined  *)
(* key comes from, is one that was never seen before.                       *)
(***************************************************************************)
EXTENDS Naturals

CONSTANTS Procs,      \* callers: knit commands and the agent's connections
          Absent,     \* no file
          Partial,    \* a file with an incomplete key in it
          MaxOps,     \* bound: calls made in all
          MaxFaults   \* bound: failed reads and writes, and crashes

ASSUME KeyFileAssumption ==
  /\ Absent \notin Nat /\ Partial \notin Nat /\ Absent # Partial
  /\ MaxOps \in Nat /\ MaxFaults \in Nat

\* load: LoadOrCreate by a client command; join: Save; rotate: client.Rotate;
\* up: Serve starting; conn: the agent's loadKey for a connection.
Ops == {"load", "join", "rotate", "up", "conn"}

VARIABLES
  file,      \* the keyfile
  tmp,       \* per caller, its temporary file
  pc,        \* per caller: "idle", "read", "gen", "temp", "write", "rename", "loaded"
  op,        \* per caller, what it is doing, or did last
  creating,  \* per caller, it installs a key on behalf of LoadOrCreate
  key,       \* per caller, the key in its hands
  result,    \* per caller, the key its last call returned, Absent if an error
  startup,   \* the key the running agent loaded as it started, or Absent
  made,      \* keys generated so far, the joined ones included
  ops, faults,  \* counted against their bounds

  seen,      \* per caller, what the file has been since its call began
  failed,    \* per caller, its call met an error
  crashed,   \* per caller, it died holding a temporary file
  joined     \* the key last installed by join or rotate, Absent if none

fileVars  == <<file, tmp>>
callVars  == <<pc, op, creating, key, result>>
agentVars == <<startup>>
ghostVars == <<seen, failed, crashed, joined>>
vars == <<fileVars, callVars, agentVars, made, ops, faults, ghostVars>>

Init ==
  /\ file = Absent /\ tmp = [p \in Procs |-> Absent]
  /\ pc = [p \in Procs |-> "idle"] /\ op = [p \in Procs |-> "load"]
  /\ creating = [p \in Procs |-> FALSE]
  /\ key = [p \in Procs |-> Absent] /\ result = [p \in Procs |-> Absent]
  /\ startup = Absent /\ made = 0 /\ ops = 0 /\ faults = 0
  /\ seen = [p \in Procs |-> {}] /\ failed = [p \in Procs |-> FALSE]
  /\ crashed = [p \in Procs |-> FALSE] /\ joined = Absent

Goto(p, label) == pc' = [pc EXCEPT ![p] = label]

Fault == faults < MaxFaults /\ faults' = faults + 1

\* The file becomes f; every call under way has seen it.
Put(f) ==
  /\ file' = f
  /\ seen' = [q \in Procs |-> seen[q] \cup {f}]

-----------------------------------------------------------------------------
\* A joined key was decoded before anything else happens; the agent serves
\* connections once it has started, and there is one agent.  The name of the
\* temporary file is a new one for each call: what a dead one left is not
\* looked at again.
Begin(p, o) ==
  /\ pc[p] = "idle" /\ ops < MaxOps /\ ops' = ops + 1
  /\ (o = "conn") => (startup # Absent)
  /\ (o = "up") => (startup = Absent /\ \A q \in Procs : pc[q] = "idle" \/ op[q] # "up")
  /\ op' = [op EXCEPT ![p] = o]
  /\ creating' = [creating EXCEPT ![p] = (o # "join")]
  /\ IF o = "join"
     THEN Goto(p, "temp") /\ made' = made + 1 /\ key' = [key EXCEPT ![p] = made + 1]
     ELSE Goto(p, "read") /\ UNCHANGED <<made, key>>
  /\ result' = [result EXCEPT ![p] = Absent]
  /\ tmp' = [tmp EXCEPT ![p] = Absent]
  /\ seen' = [seen EXCEPT ![p] = {file}] /\ failed' = [failed EXCEPT ![p] = FALSE]
  /\ crashed' = [crashed EXCEPT ![p] = FALSE]
  /\ UNCHANGED <<file, agentVars, faults, joined>>

\* Mutant: the agent serves a connection with the key it started with.
ReadCached(p) ==
  /\ pc[p] = "read" /\ file # Absent
  /\ key' = [key EXCEPT ![p] = IF op[p] = "conn" THEN startup ELSE file]
  /\ Goto(p, "loaded")
  /\ UNCHANGED <<fileVars, op, creating, result, agentVars, made, ops, faults, ghostVars>>

\* os.ReadFile finds a key.
Read(p) ==
  /\ pc[p] = "read" /\ file # Absent
  /\ key' = [key EXCEPT ![p] = file]
  /\ Goto(p, "loaded")
  /\ UNCHANGED <<fileVars, op, creating, result, agentVars, made, ops, faults, ghostVars>>

\* It does not: no key yet, or any other error, is a reason to generate one.
ReadAbsent(p) ==
  /\ pc[p] = "read" /\ file = Absent
  /\ Goto(p, "gen")
  /\ UNCHANGED <<fileVars, op, creating, key, result, agentVars, made, ops, faults, ghostVars>>

ReadError(p) ==
  /\ pc[p] = "read" /\ file # Absent /\ Fault
  /\ Goto(p, "gen")
  /\ failed' = [failed EXCEPT ![p] = TRUE]
  /\ UNCHANGED <<fileVars, op, creating, key, result, agentVars, made, ops, seen, crashed, joined>>

Generate(p) ==
  /\ pc[p] = "gen"
  /\ made' = made + 1 /\ key' = [key EXCEPT ![p] = made + 1]
  /\ Goto(p, "temp")
  /\ UNCHANGED <<fileVars, op, creating, result, agentVars, ops, faults, ghostVars>>

\* Mutant: the key is written to the keyfile itself.
CreateInPlace(p) ==
  /\ pc[p] = "temp"
  /\ Put(Partial)
  /\ Goto(p, "write")
  /\ UNCHANGED <<tmp, op, creating, key, result, agentVars, made, ops, faults, failed, crashed, joined>>

\* Mutant: the old keyfile makes way for the new one.
CreateRemoving(p) ==
  /\ pc[p] = "temp"
  /\ Put(Absent)
  /\ tmp' = [tmp EXCEPT ![p] = Partial]
  /\ Goto(p, "write")
  /\ UNCHANGED <<op, creating, key, result, agentVars, made, ops, faults, failed, crashed, joined>>

CreateTemp(p) ==
  /\ pc[p] = "temp"
  /\ tmp' = [tmp EXCEPT ![p] = Partial]
  /\ Goto(p, "write")
  /\ UNCHANGED <<file, op, creating, key, result, agentVars, made, ops, faults, ghostVars>>

WriteTemp(p) ==
  /\ pc[p] = "write"
  /\ tmp' = [tmp EXCEPT ![p] = key[p]]
  /\ Goto(p, "rename")
  /\ UNCHANGED <<file, op, creating, key, result, agentVars, made, ops, faults, ghostVars>>

\* The key a call that installs one goes on with: LoadOrCreate's caller has
\* its key, join and rotate are through.
Rename(p) ==
  /\ pc[p] = "rename"
  /\ Put(tmp[p])
  /\ tmp' = [tmp EXCEPT ![p] = Absent]
  /\ joined' = IF creating[p] THEN joined ELSE tmp[p]
  /\ IF creating[p] THEN Goto(p, "loaded") /\ result' = result
     ELSE Goto(p, "idle") /\ result' = [result EXCEPT ![p] = key[p]]
  /\ UNCHANGED <<op, creating, key, agentVars, made, ops, faults, failed, crashed>>

\* LoadOrCreate returns.  Rotate has probed the peers with the old key by the
\* time it generates the new one.
Return(p) ==
  /\ pc[p] = "loaded"
  /\ creating' = [creating EXCEPT ![p] = FALSE]
  /\ IF op[p] = "rotate"
     THEN Goto(p, "gen") /\ UNCHANGED <<result, startup>>
     ELSE /\ Goto(p, "idle")
          /\ result' = [result EXCEPT ![p] = key[p]]
          /\ startup' = IF op[p] = "up" THEN key[p] ELSE startup
  /\ UNCHANGED <<fileVars, op, key, made, ops, faults, ghostVars>>

\* What the caller of a failed install does: the agent's connection goes on
\* with the startup key, everybody else gives up.
GiveUp(p) ==
  /\ Fault /\ pc[p] \in {"temp", "write", "rename"}
  /\ Goto(p, "idle")
  /\ result' = [result EXCEPT ![p] = IF op[p] = "conn" THEN startup ELSE Absent]
  /\ failed' = [failed EXCEPT ![p] = TRUE]
  /\ UNCHANGED <<file, op, creating, key, agentVars, made, ops, seen, crashed, joined>>

\* install fails: the temporary file is removed.
InstallFails(p) == GiveUp(p) /\ tmp' = [tmp EXCEPT ![p] = Absent]

\* A process dies; the agent's connections die together.
Crash(p) ==
  /\ Fault /\ pc[p] # "idle"
  /\ LET dead == IF op[p] = "conn" THEN {q \in Procs : op[q] = "conn"} ELSE {p}
     IN /\ pc' = [q \in Procs |-> IF q \in dead THEN "idle" ELSE pc[q]]
        /\ failed' = [q \in Procs |-> failed[q] \/ q \in dead]
        /\ result' = [q \in Procs |-> IF q \in dead THEN Absent ELSE result[q]]
        /\ crashed' = [q \in Procs |-> crashed[q] \/ (q \in dead /\ tmp[q] # Absent)]
  /\ startup' = IF op[p] = "conn" THEN Absent ELSE startup
  /\ UNCHANGED <<fileVars, op, creating, key, made, ops, seen, joined>>

-----------------------------------------------------------------------------
LoadOrCreate(p) ==
  Read(p) \/ ReadAbsent(p) \/ ReadError(p) \/ Return(p)

install(p) ==
  Generate(p) \/ CreateTemp(p) \/ WriteTemp(p) \/ Rename(p) \/ InstallFails(p)

Next ==
  \E p \in Procs :
    \/ \E o \in Ops : Begin(p, o)
    \/ LoadOrCreate(p)
    \/ install(p)
    \/ Crash(p)

Spec == Init /\ [][Next]_vars

-----------------------------------------------------------------------------
Contents == Nat \cup {Absent, Partial}

\* Every variable stays in its range, and a temporary file is only renamed
\* with a whole key in it.
TypeOK ==
  /\ file \in Contents /\ tmp \in [Procs -> Contents]
  /\ pc \in [Procs -> {"idle", "read", "gen", "temp", "write", "rename", "loaded"}]
  /\ op \in [Procs -> Ops] /\ creating \in [Procs -> BOOLEAN]
  /\ \A p \in Procs : pc[p] = "rename" => tmp[p] = key[p]
  /\ key \in [Procs -> Contents] /\ result \in [Procs -> Contents]
  /\ startup \in Contents /\ made \in Nat
  /\ ops \in 0..MaxOps /\ faults \in 0..MaxFaults
  /\ seen \in [Procs -> SUBSET Contents] /\ failed \in [Procs -> BOOLEAN]
  /\ crashed \in [Procs -> BOOLEAN] /\ joined \in Contents

\* No reader ever finds part of a key, whoever dies or fails in the middle of
\* installing one (keys.go:38-39).
NeverPartial == file # Partial /\ \A p \in Procs : key[p] # Partial /\ result[p] # Partial

\* Once there is a key there is always one (keys.go:38-39 "partial or missing").
NeverMissing == [][file # Absent => file' # Absent]_file

\* A call that met no error returns a key the file held while it ran: the
\* agent's connections follow a rotation (agent.go:80-88).
ResultCurrent ==
  \A p \in Procs :
    pc[p] = "idle" /\ result[p] # Absent /\ ~failed[p] => result[p] \in seen[p]

\* Temporary files belong to calls that are writing them, or to the dead: a
\* call that fails leaves none behind (keys.go:68).
NoLitter == \A p \in Procs : tmp[p] # Absent => pc[p] \in {"write", "rename"} \/ crashed[p]

\* As long as nobody joined or rotated, everybody loads the same key
\* (keys_test.go:69 "Stable across reads", "key changed between loads").
LoadersAgree ==
  \A p, q \in Procs :
    /\ joined = Absent
    /\ result[p] # Absent /\ result[q] # Absent
    /\ op[p] \in {"load", "conn"} /\ op[q] \in {"load", "conn"}
    => result[p] = result[q]

\* A key that is there is replaced by join or rotate only; LoadOrCreate
\* generates one on first use (keys.go:25).
ReplacedOnlyByOwner == [][file # Absent => joined' # joined]_file

\* What join installed stays until the next join or rotate (site commands.md
\* "After this, the two machines trust each other").
JoinSticks == joined # Absent => file = joined

=============================================================================
