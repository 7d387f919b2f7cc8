--------------------------- MODULE KeyFileProofs ----------------------------
(***************************************************************************)
(* The keyfile is whole, there to stay, current, and without litter beside  *)
(* it, for any number of callers, calls, failures and crashes.              *)
(***************************************************************************)
EXTENDS KeyFile, TLAPS

\* What may be read from the keyfile: a key, or nothing.
Whole == Nat \cup {Absent}

\* Nobody holds part of a key, and whoever installs one, or is about to return
\* one, holds a whole one.
WholeKeys ==
  /\ file \in Whole /\ startup \in Whole
  /\ key \in [Procs -> Whole] /\ result \in [Procs -> Whole]
  /\ \A p \in Procs : pc[p] \in {"temp", "write", "rename", "loaded"} => key[p] \in Nat

\* A call has seen the file as it is, and the key it is to return, unless it
\* met an error.
SeenKeys ==
  \A p \in Procs :
    /\ pc[p] # "idle" => file \in seen[p]
    /\ pc[p] = "loaded" /\ ~failed[p] => key[p] \in seen[p]

IInv == TypeOK /\ WholeKeys /\ SeenKeys /\ ResultCurrent /\ NoLitter

LEMMA InitInv == Init => IInv
BY KeyFileAssumption
   DEF Init, IInv, TypeOK, WholeKeys, SeenKeys, ResultCurrent, NoLitter, Contents, Whole, Ops

\* TypeOK is inductive.
LEMMA TypeStep == TypeOK /\ [Next]_vars => TypeOK'
<1> SUFFICES ASSUME TypeOK, [Next]_vars PROVE TypeOK'
  OBVIOUS
<1> USE KeyFileAssumption DEF TypeOK, Contents, Goto
<1>1. CASE UNCHANGED vars
  BY <1>1 DEF vars, fileVars, callVars, agentVars, ghostVars
<1>2. ASSUME NEW p \in Procs, NEW o \in Ops, Begin(p, o) PROVE TypeOK'
  BY <1>2 DEF Begin, agentVars, Ops
<1>3. ASSUME NEW p \in Procs, LoadOrCreate(p) PROVE TypeOK'
  <2>1. CASE Read(p) \/ ReadAbsent(p)
    BY <2>1 DEF Read, ReadAbsent, fileVars, agentVars, ghostVars
  <2>2. CASE ReadError(p)
    BY <2>2 DEF ReadError, Fault, fileVars, agentVars
  <2>3. CASE Return(p)
    BY <2>3 DEF Return, fileVars, ghostVars
  <2> QED
    BY <1>3, <2>1, <2>2, <2>3 DEF LoadOrCreate
<1>4. ASSUME NEW p \in Procs, Generate(p) \/ CreateTemp(p) \/ WriteTemp(p) PROVE TypeOK'
  BY <1>4 DEF Generate, CreateTemp, WriteTemp, fileVars, agentVars, ghostVars
<1>5. ASSUME NEW p \in Procs, Rename(p) PROVE TypeOK'
  BY <1>5 DEF Rename, Put, agentVars
<1>6. ASSUME NEW p \in Procs, InstallFails(p) PROVE TypeOK'
  BY <1>6 DEF InstallFails, GiveUp, Fault, agentVars
<1>7. ASSUME NEW p \in Procs, Crash(p) PROVE TypeOK'
  BY <1>7 DEF Crash, Fault, fileVars, agentVars
<1> QED
  BY <1>1, <1>2, <1>3, <1>4, <1>5, <1>6, <1>7 DEF Next, install

\* So are the rest, with it.
LEMMA WholeStep == TypeOK /\ WholeKeys /\ [Next]_vars => WholeKeys'
<1> SUFFICES ASSUME TypeOK, WholeKeys, [Next]_vars PROVE WholeKeys'
  OBVIOUS
<1> USE KeyFileAssumption DEF TypeOK, WholeKeys, Whole, Goto
<1>1. CASE UNCHANGED vars
  BY <1>1 DEF vars, fileVars, callVars, agentVars, ghostVars
<1>2. ASSUME NEW p \in Procs, NEW o \in Ops, Begin(p, o) PROVE WholeKeys'
  BY <1>2 DEF Begin, agentVars, Ops
<1>3. ASSUME NEW p \in Procs, LoadOrCreate(p) PROVE WholeKeys'
  BY <1>3 DEF LoadOrCreate, Read, ReadAbsent, ReadError, Return, Fault, fileVars, agentVars, ghostVars
<1>4. ASSUME NEW p \in Procs, Generate(p) \/ CreateTemp(p) \/ WriteTemp(p) PROVE WholeKeys'
  BY <1>4 DEF Generate, CreateTemp, WriteTemp, fileVars, agentVars, ghostVars
<1>5. ASSUME NEW p \in Procs, Rename(p) PROVE WholeKeys'
  BY <1>5 DEF Rename, Put, agentVars
<1>6. ASSUME NEW p \in Procs, InstallFails(p) PROVE WholeKeys'
  BY <1>6 DEF InstallFails, GiveUp, Fault, agentVars
<1>7. ASSUME NEW p \in Procs, Crash(p) PROVE WholeKeys'
  BY <1>7 DEF Crash, Fault, fileVars, agentVars
<1> QED
  BY <1>1, <1>2, <1>3, <1>4, <1>5, <1>6, <1>7 DEF Next, install

LEMMA SeenStep ==
  TypeOK /\ SeenKeys /\ ResultCurrent /\ [Next]_vars => SeenKeys' /\ ResultCurrent'
<1> SUFFICES ASSUME TypeOK, SeenKeys, ResultCurrent, [Next]_vars
             PROVE  SeenKeys' /\ ResultCurrent'
  OBVIOUS
<1> USE KeyFileAssumption DEF TypeOK, SeenKeys, ResultCurrent, Goto
<1>1. CASE UNCHANGED vars
  BY <1>1 DEF vars, fileVars, callVars, agentVars, ghostVars
<1>2. ASSUME NEW p \in Procs, NEW o \in Ops, Begin(p, o) PROVE SeenKeys' /\ ResultCurrent'
  BY <1>2 DEF Begin, agentVars
<1>3. ASSUME NEW p \in Procs, LoadOrCreate(p) PROVE SeenKeys' /\ ResultCurrent'
  BY <1>3 DEF LoadOrCreate, Read, ReadAbsent, ReadError, Return, Fault, fileVars, agentVars, ghostVars
<1>4. ASSUME NEW p \in Procs, Generate(p) \/ CreateTemp(p) \/ WriteTemp(p)
      PROVE  SeenKeys' /\ ResultCurrent'
  BY <1>4 DEF Generate, CreateTemp, WriteTemp, fileVars, agentVars, ghostVars
<1>5. ASSUME NEW p \in Procs, Rename(p) PROVE SeenKeys' /\ ResultCurrent'
  BY <1>5 DEF Rename, Put, agentVars
<1>6. ASSUME NEW p \in Procs, InstallFails(p) PROVE SeenKeys' /\ ResultCurrent'
  BY <1>6 DEF InstallFails, GiveUp, Fault, agentVars
<1>7. ASSUME NEW p \in Procs, Crash(p) PROVE SeenKeys' /\ ResultCurrent'
  BY <1>7 DEF Crash, Fault, fileVars, agentVars
<1> QED
  BY <1>1, <1>2, <1>3, <1>4, <1>5, <1>6, <1>7 DEF Next, install

LEMMA LitterStep == TypeOK /\ NoLitter /\ [Next]_vars => NoLitter'
<1> SUFFICES ASSUME TypeOK, NoLitter, [Next]_vars PROVE NoLitter'
  OBVIOUS
<1> USE KeyFileAssumption DEF TypeOK, NoLitter, Goto
<1>1. CASE UNCHANGED vars
  BY <1>1 DEF vars, fileVars, callVars, agentVars, ghostVars
<1>2. ASSUME NEW p \in Procs, NEW o \in Ops, Begin(p, o) PROVE NoLitter'
  BY <1>2 DEF Begin, agentVars
<1>3. ASSUME NEW p \in Procs, LoadOrCreate(p) PROVE NoLitter'
  BY <1>3 DEF LoadOrCreate, Read, ReadAbsent, ReadError, Return, Fault, fileVars, agentVars, ghostVars
<1>4. ASSUME NEW p \in Procs, Generate(p) \/ CreateTemp(p) \/ WriteTemp(p) PROVE NoLitter'
  BY <1>4 DEF Generate, CreateTemp, WriteTemp, fileVars, agentVars, ghostVars
<1>5. ASSUME NEW p \in Procs, Rename(p) PROVE NoLitter'
  BY <1>5 DEF Rename, Put, agentVars
<1>6. ASSUME NEW p \in Procs, InstallFails(p) PROVE NoLitter'
  BY <1>6 DEF InstallFails, GiveUp, Fault, agentVars
<1>7. ASSUME NEW p \in Procs, Crash(p) PROVE NoLitter'
  BY <1>7 DEF Crash, Fault, fileVars, agentVars
<1> QED
  BY <1>1, <1>2, <1>3, <1>4, <1>5, <1>6, <1>7 DEF Next, install

THEOREM Invariant == Spec => []IInv
<1>1. IInv /\ [Next]_vars => IInv'
  BY TypeStep, WholeStep, SeenStep, LitterStep DEF IInv
<1> QED
  BY InitInv, <1>1, PTL DEF Spec

\* No reader ever finds part of a key (NeverPartial, keys.go install).
THEOREM KeysWhole == Spec => []NeverPartial
<1>1. IInv => NeverPartial
  BY KeyFileAssumption DEF IInv, WholeKeys, Whole, NeverPartial
<1> QED
  BY <1>1, Invariant, PTL

\* Once there is a key there is always one (NeverMissing, keys.go install).
THEOREM KeyStays == Spec => NeverMissing
<1>1. IInv /\ [Next]_vars => [file # Absent => file' # Absent]_file
  <2> SUFFICES ASSUME IInv, Next, file' # file PROVE file' # Absent
    BY DEF vars, fileVars
  <2>1. PICK p \in Procs : Rename(p)
    BY DEF Next, LoadOrCreate, install, Begin, Read, ReadAbsent, ReadError, Return, Generate,
           CreateTemp, WriteTemp, InstallFails, GiveUp, Crash, fileVars
  <2> QED
    BY <2>1, KeyFileAssumption DEF Rename, Put, IInv, TypeOK, WholeKeys
<1> QED
  BY <1>1, Invariant, PTL DEF Spec, NeverMissing

\* A call that met no error returns a key the file held while it ran
\* (ResultCurrent, agent.go loadKey).
THEOREM CallsCurrent == Spec => []ResultCurrent
BY Invariant, PTL DEF IInv

\* A call that fails leaves no temporary file behind (NoLitter, keys.go install).
THEOREM NothingLeft == Spec => []NoLitter
BY Invariant, PTL DEF IInv

\* Every variable stays in its range (TypeOK of KeyFile).
THEOREM TypeCorrect == Spec => []TypeOK
BY Invariant, PTL DEF IInv

=============================================================================
