--------------------------- MODULE SessionProofs ----------------------------
(***************************************************************************)
(* What TLC checks of Session for two peers, for any number of them, any    *)
(* keys, timeouts, faults and rotations: who is asked to run the command,   *)
(* how often it is started, that nothing stays open, and that the waits end *)
(* when they must and not before.                                           *)
(***************************************************************************)
EXTENDS Session, TLAPS

\* What each phase of Run leaves open: a probe's session is in the map, the one
\* picked has left it, and the run's own connection exists after a fall-back.
PhaseInv ==
  /\ phase \in {"probe", "local"} => target = NoPeer
  /\ phase \in {"reuse", "dial", "stream"} => target \in Peers
  /\ target \notin sessions
  /\ phase \in {"probe", "reuse", "local"} => cl[Fresh] = "idle"
  /\ phase = "dial" => cl[Fresh] \in {"dial", "hello", "reply"}
  /\ phase = "stream" => cl[Fresh] \in {"idle", "open"}
  /\ phase = "reuse" => cl[target] = "asked"
  /\ phase \in {"dial", "stream"} /\ cl[Fresh] # "idle" => cl[target] = "closed"
  /\ phase = "stream" /\ cl[Fresh] = "idle" => cl[target] = "open"
  /\ \A p \in Peers :
       /\ phase \notin {"failed", "done"} /\ p \in sessions => cl[p] = "open"
       /\ cl[p] = "open" => p \in sessions \/ (p = target /\ phase = "stream")
       /\ cl[p] = "asked" => p = target /\ phase = "reuse"
       /\ cl[p] # "idle"
       /\ phase # "probe" => cl[p] \in {"open", "asked", "closed"}
  /\ NothingLeftOpen

\* Requests carry the client's key, those to run go to the machine picked, and
\* an agent holds a probed connection on the strength of that same key.
AuthInv ==
  /\ ag[Fresh] # "idle"
  /\ \A c \in Conns :
       /\ toAg[c] # NoMsg => toAg[c].hmac = key
       /\ toAg[c] # NoMsg /\ c = Fresh => toAg[c].op = "run"
       /\ toAg[c] # NoMsg /\ (toAg[c].op = "run" \/ ag[c] = "idle") => Host(c) = target
       /\ ag[c] = "idle" => auth[c] = key

\* Where the agent can be in the exchange, seen from the client.
Talk(c) ==
  /\ cl[c] \in {"idle", "dial"} => ag[c] = "none" /\ toAg[c] = NoMsg /\ toCl[c] = NoMsg
  /\ cl[c] = "hello" =>
       /\ ag[c] \in {"backlog", "hello", "closed"} /\ toAg[c] = NoMsg
       /\ toCl[c] \in {NoMsg, Greeting} /\ (ag[c] = "backlog" => toCl[c] = NoMsg)
  /\ cl[c] = "reply" =>
       /\ ag[c] \in {"hello", "idle", "run", "closed"} /\ toCl[c] # Greeting
       /\ (ag[c] = "hello" => toCl[c] = NoMsg) /\ (toAg[c] # NoMsg => ag[c] = "hello")
       /\ (ag[c] = "run" => c = Fresh)
  /\ c \in sessions /\ cl[c] = "open" =>
       ag[c] \in {"idle", "closed"} /\ toAg[c] = NoMsg /\ toCl[c] = NoMsg
  /\ cl[c] = "asked" =>
       /\ ag[c] \in {"idle", "run", "closed"} /\ (toAg[c] # NoMsg => ag[c] = "idle")
       /\ ag[c] = "idle" => toCl[c] = NoMsg
       /\ toCl[c].kind = "error" => ag[c] = "closed"

TalkInv == \A c \in Conns : Talk(c)

\* What the connection that was reused, unless it was lost, has started, and
\* what the run's own has: a fall-back finds the first closed before it started
\* anything.
StartedOnce ==
  /\ starts[target] <= 1
  /\ phase = "reuse" =>
       \/ starts[target] = 0 /\ ag[target] # "run" /\ toCl[target].kind # "ok"
       \/ starts[target] = 1 /\ ag[target] = "run" /\ toCl[target].kind = "ok"
  /\ phase \in {"dial", "failed"} => ag[target] = "closed"
  /\ phase \in {"stream", "done"} =>
       ag[target] = "closed" \/ (ag[target] = "run" /\ ag[Fresh] = "none")
  /\ ag[target] = "closed" /\ ag[Fresh] \in {"backlog", "hello"} => starts[target] = 0
  /\ phase = "dial" /\ ag[Fresh] = "none" => starts[target] = 0

StartInv ==
  /\ \A p \in Peers : p # target => starts[p] = 0
  /\ target \in Peers \ lost => StartedOnce

\* A probe's timer and the ticks gone add up to no more than its deadlines do.
GatherInv ==
  phase = "probe" =>
    /\ gathering <= ProbeBudget + HandshakeTimeout
    /\ \A p \in Peers :
         /\ cl[p] = "dial" => gathering + clTimer[p] <= ProbeBudget
         /\ cl[p] \in {"hello", "reply"} =>
              gathering + clTimer[p] <= ProbeBudget + HandshakeTimeout

\* A connection held since before its agent's key was replaced is let go in time,
\* but for one under the key the agent falls back to.
RevokeInv ==
  \A p \in Peers : p \notin hurt =>
    /\ health[p] = "up"
    /\ ag[p] = "idle" => agTimer[p] <= ReuseIdle
    /\ ag[p] = "idle" /\ auth[p] # agKey[p] /\ ~(load[p] = "failing" /\ auth[p] = startKey[p])
         => sinceKey[p] + agTimer[p] <= ReuseIdle

\* Nothing has happened that can make the run's own connection fail.
Sound ==
  /\ target \in Peers \ hurt /\ canSpawn[target] /\ Fresh \notin lost
  /\ agKey[target] = key /\ rotations = 0 /\ load[target] = "well"

\* Then the exchange on it never waits, and no deadline of it comes due.
CauseInv ==
  Sound =>
    /\ phase # "failed"
    /\ phase = "dial" =>
         /\ clTimer[Fresh] > 0
         /\ cl[Fresh] = "hello" =>
              \/ ag[Fresh] = "backlog"
              \/ ag[Fresh] = "hello" /\ agTimer[Fresh] > 0 /\ toCl[Fresh] = Greeting
         /\ cl[Fresh] = "reply" =>
              \/ ag[Fresh] = "hello" /\ agTimer[Fresh] > 0 /\ toAg[Fresh] # NoMsg
              \/ toCl[Fresh] = Reply("ok", key)

IInv == TypeOK /\ PhaseInv /\ AuthInv /\ TalkInv /\ StartInv /\ GatherInv /\ RevokeInv /\ CauseInv

-----------------------------------------------------------------------------
LEMMA Kinds ==
  /\ NoMsg.kind = "none" /\ Greeting.kind = "greeting" /\ NoMsg # Greeting
  /\ \A o, k : Request(o, k) # NoMsg /\ Request(o, k).op = o /\ Request(o, k).hmac = k
  /\ \A r, k : Reply(r, k).kind = r /\ Reply(r, k).proof = k
  /\ \A r \in {"ok", "error", "unauthorized"} : \A k :
       Reply(r, k) # NoMsg /\ Reply(r, k) # Greeting
BY SMT DEF NoMsg, Greeting, Request, Reply

LEMMA Sent ==
  /\ NoMsg \in Messages /\ Greeting \in Messages
  /\ \A o \in {"info", "run"}, k \in Keys : Request(o, k) \in Messages
  /\ \A r \in {"ok", "unauthorized", "error"}, k \in Keys : Reply(r, k) \in Messages
BY DEF Messages

LEMMA ConnsFacts ==
  /\ Fresh \in Conns /\ Peers \subseteq Conns /\ Fresh \notin Peers /\ NoPeer \notin Peers
  /\ Conns = Peers \cup {Fresh} /\ Host(Fresh) = target
  /\ \A p \in Peers : Host(p) = p
BY SessionAssumption DEF Conns, Host

LEMMA InitInv == Init => IInv
<1> SUFFICES ASSUME Init PROVE IInv
  OBVIOUS
<1> USE SessionAssumption, ConnsFacts, Kinds, Sent DEF Init
<1>1. TypeOK
  BY DEF TypeOK
<1>2. PhaseInv
  BY DEF PhaseInv, NothingLeftOpen
<1>3. AuthInv
  BY DEF AuthInv
<1>4. TalkInv
  BY DEF TalkInv, Talk
<1>5. StartInv
  BY DEF StartInv, StartedOnce
<1>6. GatherInv
  BY DEF GatherInv
<1>7. RevokeInv
  BY DEF RevokeInv
<1>8. CauseInv
  BY DEF CauseInv, Sound
<1> QED
  BY <1>1, <1>2, <1>3, <1>4, <1>5, <1>6, <1>7, <1>8 DEF IInv

\* Serving a request at an agent keeps the types.
LEMMA TypeAgent ==
  ASSUME TypeOK, AuthInv, NEW c \in Conns, handleConn(c) PROVE TypeOK'
<1> USE SessionAssumption, ConnsFacts, Sent DEF TypeOK, keyVars
<1>1. CASE Accept(c)
  BY <1>1 DEF Accept, runVars, connVars, peerVars, timeVars
<1>2. CASE Authenticate(c) \/ Followup(c)
  <2>1. PICK k \in Keys : ServeRun(c, k) \/ ServeInfo(c, k)
    BY <1>2 DEF Authenticate, Serve, InForce, Followup, AuthInv, handleConn
  <2>2. auth' \in [Conns -> Keys \cup {NoKey}] /\ toAg' \in [Conns -> Messages]
    BY <1>2 DEF Authenticate, Serve, InForce, Followup, handleConn
  <2>3. /\ ag' \in [Conns -> {"none", "backlog", "hello", "idle", "run", "closed"}]
        /\ toCl' \in [Conns -> Messages] /\ agTimer' \in [Conns -> Nat]
        /\ starts' \in [Peers -> Nat]
    BY <2>1 DEF ServeRun, ServeInfo, handleConn
  <2> QED
    BY <1>2, <2>2, <2>3 DEF Authenticate, Serve, Followup, runVars, connVars, peerVars, keyVars,
                            timeVars
<1>3. CASE Unauthorized(c)
  <2>1. InForce(Host(c)) \in Keys
    BY DEF handleConn, InForce
  <2> QED
    BY <1>3, <2>1 DEF Unauthorized, runVars, connVars, peerVars, timeVars
<1>4. CASE AgentTimeout(c) \/ HangUp(c)
  BY <1>4 DEF AgentTimeout, HangUp, runVars, connVars, netVars, peerVars, timeVars
<1> QED
  BY <1>1, <1>2, <1>3, <1>4 DEF handleConn

LEMMA TypeStep == TypeOK /\ AuthInv /\ [Next]_vars => TypeOK'
<1> SUFFICES ASSUME TypeOK, AuthInv, [Next]_vars PROVE TypeOK'
  OBVIOUS
<1> USE SessionAssumption, ConnsFacts, Sent DEF TypeOK, keyVars
<1>1. CASE UNCHANGED vars
  BY <1>1 DEF vars, runVars, connVars, agentVars, netVars, peerVars, timeVars
<1>2. ASSUME NEW c \in Conns, Open(c) PROVE TypeOK'
  <2>1. CASE Connect(c)
    BY <2>1 DEF Connect, runVars, netVars, peerVars, timeVars
  <2>2. CASE DialFails(c) \/ Refused(c) \/ HandshakeFails(c)
    <3>1. OpenFails(c) /\ toAg' \in [Conns -> Messages] /\ toCl' \in [Conns -> Messages]
          /\ UNCHANGED <<target, sessions, key, clTimer, agentVars, lost, peerVars, timeVars>>
      BY <2>2 DEF DialFails, Refused, HandshakeFails, netVars
    <3>2. /\ phase' \in {phase, "failed"}
          /\ cl' \in [Conns -> {"idle", "dial", "hello", "reply", "open", "asked", "closed"}]
      BY <3>1 DEF OpenFails, Return
    <3> QED
      BY <3>1, <3>2 DEF agentVars, peerVars, timeVars
  <2>3. CASE SendProof(c)
    BY <2>3 DEF SendProof, runVars, agentVars, peerVars, timeVars
  <2>4. CASE OpenSucceeds(c)
    BY <2>4 DEF OpenSucceeds, agentVars, peerVars, timeVars
  <2> QED
    BY <1>2, <2>1, <2>2, <2>3, <2>4 DEF Open
<1>3. ASSUME NEW c \in Conns, handleConn(c) PROVE TypeOK'
  BY <1>3, TypeAgent
<1>4. CASE Run
  <2>1. CASE PickNone \/ PickLocal \/ RunEnds
    BY <2>1 DEF PickNone, PickLocal, RunEnds, Return, connVars, agentVars, netVars, peerVars, timeVars
  <2>2. ASSUME NEW p \in Peers, PickRemote(p) PROVE TypeOK'
    BY <2>2 DEF PickRemote, agentVars, peerVars, timeVars
  <2>3. CASE DoSucceeds \/ DoFails
    BY <2>3 DEF DoSucceeds, DoFails, FallBack, agentVars, peerVars, timeVars
  <2> QED
    BY <1>4, <2>1, <2>2, <2>3 DEF Run
<1>5. CASE Environment
  <2>1. ASSUME NEW c \in Conns, Lose(c) PROVE TypeOK'
    BY <2>1 DEF Lose, Fault, Break, runVars, connVars, agentVars, timeVars
  <2>2. ASSUME NEW p \in Peers, Stall(p) \/ Leave(p) \/ Recover(p) PROVE TypeOK'
    BY <2>2 DEF Stall, Leave, Recover, Fault, Break, runVars, connVars, agentVars, netVars, keyVars,
                timeVars
  <2>3. ASSUME NEW p \in Peers, NEW k \in Keys, RotateKey(p, k) \/ LoadFails(p, k) PROVE TypeOK'
    BY <2>3 DEF RotateKey, LoadFails, Fault, runVars, connVars, agentVars, netVars, timeVars
  <2>4. ASSUME NEW p \in Peers, LoadMends(p) PROVE TypeOK'
    BY <2>4 DEF LoadMends, runVars, connVars, agentVars, netVars
  <2> QED
    BY <1>5, <2>1, <2>2, <2>3, <2>4 DEF Environment
<1>6. CASE Tick
  BY <1>6 DEF Tick, ClTicks, AgTicks, Capped, runVars, agentVars, netVars, peerVars
<1> QED
  BY <1>1, <1>2, <1>3, <1>4, <1>5, <1>6 DEF Next

\* Agents do not touch the client; owners and the network touch neither end.
LEMMA Frames ==
  /\ \A c \in Conns : handleConn(c) => UNCHANGED <<runVars, connVars, lost, peerVars, timeVars>>
  /\ Environment => UNCHANGED <<runVars, connVars, agentVars>>
  /\ Tick => UNCHANGED <<runVars, cl, ag, auth, starts, netVars, peerVars>>
  /\ Run => UNCHANGED <<key, agentVars, lost, peerVars, timeVars>>
  /\ \A c \in Conns : Open(c) => UNCHANGED <<target, key, agTimer, auth, starts, lost, peerVars, timeVars>>
<1>1. ASSUME NEW c \in Conns, handleConn(c)
      PROVE  UNCHANGED <<runVars, connVars, lost, peerVars, timeVars>>
  BY <1>1 DEF handleConn, Accept, Authenticate, Serve, Unauthorized, Followup, AgentTimeout, HangUp,
              netVars
<1>2. ASSUME Environment PROVE UNCHANGED <<runVars, connVars, agentVars>>
  BY <1>2 DEF Environment, Lose, Stall, Leave, Recover, RotateKey, LoadFails, LoadMends
<1>3. ASSUME Tick PROVE UNCHANGED <<runVars, cl, ag, auth, starts, netVars, peerVars>>
  BY <1>3 DEF Tick
<1>4. ASSUME Run PROVE UNCHANGED <<key, agentVars, lost, peerVars, timeVars>>
  BY <1>4 DEF Run, PickNone, PickLocal, DoSucceeds, DoFails, FallBack, RunEnds, PickRemote, netVars
<1>5. ASSUME NEW c \in Conns, Open(c)
      PROVE  UNCHANGED <<target, key, agTimer, auth, starts, lost, peerVars, timeVars>>
  BY <1>5 DEF Open, Connect, DialFails, SendProof, OpenSucceeds, Refused, HandshakeFails,
              runVars, agentVars, netVars
<1> QED
  BY <1>1, <1>2, <1>3, <1>4, <1>5

\* All that happens to messages in between is that connections break under them.
LEMMA Breaking ==
  ASSUME TypeOK, Environment
  PROVE  /\ lost \subseteq lost'
         /\ \A c \in Conns :
              /\ toAg'[c] \in {toAg[c], NoMsg} /\ toCl'[c] \in {toCl[c], NoMsg}
              /\ c \notin lost' => toAg'[c] = toAg[c] /\ toCl'[c] = toCl[c]
<1> USE DEF TypeOK
<1>1. CASE UNCHANGED netVars
  BY <1>1 DEF netVars
<1>2. ASSUME NEW conns, Break(conns)
      PROVE  /\ lost \subseteq lost'
             /\ \A c \in Conns :
                  /\ toAg'[c] \in {toAg[c], NoMsg} /\ toCl'[c] \in {toCl[c], NoMsg}
                  /\ c \notin lost' => toAg'[c] = toAg[c] /\ toCl'[c] = toCl[c]
  BY <1>2 DEF Break
<1> QED
  BY <1>1, <1>2 DEF Environment, Lose, Stall, Leave, Recover, RotateKey, LoadFails, LoadMends

\* A handshake under way is a probe's while the peers are gathered, and the
\* run's own after a fall-back.
LEMMA Handshaking ==
  ASSUME TypeOK, PhaseInv, NEW c \in Conns, cl[c] \in {"dial", "hello", "reply"}
  PROVE  IF c = Fresh THEN phase = "dial" ELSE phase = "probe" /\ c \in Peers /\ c \notin sessions
BY SessionAssumption, ConnsFacts DEF TypeOK, PhaseInv, NothingLeftOpen

LEMMA PhaseOpen ==
  ASSUME TypeOK, PhaseInv, NEW c \in Conns, Open(c) PROVE PhaseInv'
<1> USE SessionAssumption, ConnsFacts DEF TypeOK, PhaseInv, NothingLeftOpen
<1>1. UNCHANGED target
  BY Frames
<1>2. cl[c] \in {"dial", "hello", "reply"}
  BY DEF Open, Connect, DialFails, SendProof, OpenSucceeds, Refused, HandshakeFails
<1>3. IF c = Fresh THEN phase = "dial" ELSE phase = "probe" /\ c \in Peers /\ c \notin sessions
  BY <1>2, Handshaking
<1>4. CASE Connect(c) \/ SendProof(c)
  <2>1. UNCHANGED <<phase, sessions>> /\ \E l \in {"hello", "reply"} : cl' = [cl EXCEPT ![c] = l]
    BY <1>4 DEF Connect, SendProof, runVars
  <2> QED
    BY <1>1, <1>3, <2>1
<1>5. CASE DialFails(c) \/ Refused(c) \/ HandshakeFails(c)
  <2>1. OpenFails(c) /\ UNCHANGED sessions
    BY <1>5 DEF DialFails, Refused, HandshakeFails
  <2>2. CASE c = Fresh
    <3>1. phase' = "failed"
          /\ cl' = [d \in Conns |-> IF d \in sessions \cup {Fresh} THEN "closed" ELSE cl[d]]
      BY <2>1, <2>2 DEF OpenFails, Return
    <3> QED
      BY <1>1, <1>3, <2>1, <2>2, <3>1
  <2>3. CASE c # Fresh
    <3>1. phase' = phase /\ cl' = [cl EXCEPT ![c] = "closed"]
      BY <2>1, <2>3 DEF OpenFails
    <3> QED
      BY <1>1, <1>3, <2>1, <2>3, <3>1
  <2> QED
    BY <2>2, <2>3
<1>6. CASE OpenSucceeds(c)
  <2>1. /\ cl' = [cl EXCEPT ![c] = "open"]
        /\ IF c = Fresh THEN phase' = "stream" /\ sessions' = sessions
                        ELSE phase' = phase /\ sessions' = sessions \cup {c}
    BY <1>6 DEF OpenSucceeds
  <2> QED
    BY <1>1, <1>3, <2>1
<1> QED
  BY <1>4, <1>5, <1>6 DEF Open

LEMMA PhaseRun ==
  ASSUME TypeOK, PhaseInv, Run PROVE PhaseInv'
<1> USE SessionAssumption, ConnsFacts DEF TypeOK, PhaseInv, NothingLeftOpen
<1>1. CASE PickNone
  <2>1. /\ phase = "probe" /\ phase' = "failed" /\ UNCHANGED <<target, sessions>>
        /\ cl' = [c \in Conns |-> IF c \in sessions THEN "closed" ELSE cl[c]]
        /\ \A p \in Peers : cl[p] \in {"open", "closed"}
    BY <1>1 DEF PickNone, Return, Gathered
  <2> QED
    BY <2>1
<1>2. CASE PickLocal
  BY <1>2 DEF PickLocal, Gathered, connVars
<1>3. ASSUME NEW p \in Peers, PickRemote(p) PROVE PhaseInv'
  <2>1. /\ phase = "probe" /\ phase' = "reuse" /\ target' = p /\ sessions' = sessions \ {p}
        /\ cl' = [cl EXCEPT ![p] = "asked"]
        /\ \A q \in Peers : cl[q] \in {"open", "closed"}
    BY <1>3 DEF PickRemote, Gathered
  <2> QED
    BY <2>1
<1>4. CASE DoSucceeds
  BY <1>4 DEF DoSucceeds
<1>5. CASE DoFails
  BY <1>5 DEF DoFails, FallBack
<1>6. CASE RunEnds
  <2> DEFINE last == IF phase = "local" THEN {} ELSE IF cl[Fresh] = "open" THEN {Fresh} ELSE {target}
  <2>1. /\ phase \in {"stream", "local"} /\ phase' = "done" /\ UNCHANGED <<target, sessions>>
        /\ cl' = [c \in Conns |-> IF c \in sessions \cup last THEN "closed" ELSE cl[c]]
    BY <1>6 DEF RunEnds, Return
  <2>2. CASE phase = "local"
    BY <2>1, <2>2
  <2>3. CASE phase = "stream" /\ cl[Fresh] = "open"
    BY <2>1, <2>3
  <2>4. CASE phase = "stream" /\ cl[Fresh] # "open"
    BY <2>1, <2>4
  <2> QED
    BY <2>1, <2>2, <2>3, <2>4
<1> QED
  BY <1>1, <1>2, <1>3, <1>4, <1>5, <1>6 DEF Run

LEMMA PhaseStep == TypeOK /\ PhaseInv /\ [Next]_vars => PhaseInv'
<1> SUFFICES ASSUME TypeOK, PhaseInv, [Next]_vars PROVE PhaseInv'
  OBVIOUS
<1>1. ASSUME UNCHANGED <<phase, target, sessions, cl>> PROVE PhaseInv'
  BY <1>1 DEF PhaseInv, NothingLeftOpen
<1>2. CASE UNCHANGED vars
  BY <1>1, <1>2 DEF vars, runVars, connVars
<1>3. ASSUME NEW c \in Conns, handleConn(c) PROVE PhaseInv'
  BY <1>1, <1>3, Frames DEF runVars, connVars
<1>4. CASE Environment \/ Tick
  BY <1>1, <1>4, Frames DEF runVars, connVars
<1> QED
  BY <1>2, <1>3, <1>4, PhaseOpen, PhaseRun DEF Next

\* Requests are sent under the client's key, to run only to the machine picked.
LEMMA AuthStep ==
  TypeOK /\ PhaseInv /\ TalkInv /\ AuthInv /\ [Next]_vars => AuthInv'
<1> SUFFICES ASSUME TypeOK, PhaseInv, TalkInv, AuthInv, [Next]_vars PROVE AuthInv'
  OBVIOUS
<1> USE SessionAssumption, ConnsFacts, Kinds DEF TypeOK, AuthInv
<1>0. ASSUME UNCHANGED <<target, key, toAg, ag, auth>> PROVE AuthInv'
  BY <1>0 DEF Host
<1>1. CASE UNCHANGED vars
  BY <1>0, <1>1 DEF vars, runVars, agentVars, netVars
<1>2. ASSUME NEW c \in Conns, Open(c) PROVE AuthInv'
  <2>0. UNCHANGED <<target, key, auth>>
    BY <1>2, Frames
  <2>1. CASE Connect(c)
    BY <2>0, <2>1 DEF Connect, netVars, Host
  <2>2. CASE SendProof(c)
    <3>1. ag[c] # "idle" /\ UNCHANGED ag
      BY <2>2 DEF SendProof, agentVars, TalkInv, Talk
    <3>2. \/ toAg' = [toAg EXCEPT ![c] = NoMsg]
          \/ toAg' = [toAg EXCEPT ![c] = Request(IF c = Fresh THEN "run" ELSE "info", key)]
      BY <2>2 DEF SendProof
    <3> QED
      BY <2>0, <3>1, <3>2 DEF Host
  <2>3. CASE DialFails(c) \/ Refused(c) \/ HandshakeFails(c) \/ OpenSucceeds(c)
    BY <1>0, <2>0, <2>3 DEF DialFails, Refused, HandshakeFails, OpenSucceeds, agentVars, netVars
  <2> QED
    BY <1>2, <2>1, <2>2, <2>3 DEF Open
<1>3. ASSUME NEW c \in Conns, handleConn(c) PROVE AuthInv'
  <2>0. UNCHANGED <<target, key>> /\ Host(c) \in Peers
    BY <1>3, Frames DEF runVars, handleConn
  <2>1. CASE Accept(c) \/ Unauthorized(c) \/ AgentTimeout(c) \/ HangUp(c)
    <3>1. /\ toAg' \in {toAg, [toAg EXCEPT ![c] = NoMsg]}
          /\ \E l \in {"hello", "closed"} : ag' = [ag EXCEPT ![c] = l]
          /\ auth' = auth
      BY <2>1 DEF Accept, Unauthorized, AgentTimeout, HangUp, netVars
    <3> QED
      BY <2>0, <3>1 DEF Host
  <2>2. CASE Authenticate(c)
    <3>1. /\ toAg[c] # NoMsg /\ auth' = [auth EXCEPT ![c] = key]
          /\ toAg' = [toAg EXCEPT ![c] = NoMsg]
      BY <2>2 DEF Authenticate, Serve
    <3>2. \E l \in {"run", "closed", "idle"} :
            ag' = [ag EXCEPT ![c] = l] /\ (l = "idle" => c # Fresh)
      BY <2>2, <3>1 DEF Authenticate, Serve, ServeRun, ServeInfo
    <3> QED
      BY <2>0, <3>1, <3>2 DEF Host
  <2>3. CASE Followup(c)
    <3>1. /\ auth' = auth /\ toAg' = [toAg EXCEPT ![c] = NoMsg]
          /\ \E l \in {"run", "closed"} : ag' = [ag EXCEPT ![c] = l]
      BY <2>3 DEF Followup, ServeRun
    <3> QED
      BY <2>0, <3>1 DEF Host
  <2> QED
    BY <1>3, <2>1, <2>2, <2>3 DEF handleConn
<1>4. CASE Run
  <2>0. UNCHANGED <<key, ag, auth>>
    BY <1>4, Frames DEF agentVars
  <2>1. CASE PickNone \/ PickLocal \/ DoSucceeds \/ DoFails \/ RunEnds
    BY <1>0, <2>0, <2>1 DEF PickNone, PickLocal, DoSucceeds, DoFails, FallBack, RunEnds, netVars
  <2>2. ASSUME NEW p \in Peers, PickRemote(p) PROVE AuthInv'
    <3>1. /\ target = NoPeer /\ target' = p
          /\ \/ toAg' = [toAg EXCEPT ![p] = NoMsg]
             \/ toAg' = [toAg EXCEPT ![p] = Request("run", key)]
      BY <2>2 DEF PickRemote, PhaseInv
    <3>2. \A c \in Peers : toAg[c] # NoMsg => toAg[c].op # "run" /\ ag[c] # "idle"
      BY <3>1
    <3> QED
      BY <2>0, <3>1, <3>2 DEF Host
  <2> QED
    BY <1>4, <2>1, <2>2 DEF Run
<1>5. CASE Environment
  <2>1. \A c \in Conns : toAg'[c] \in {toAg[c], NoMsg}
    BY <1>5, Breaking
  <2> QED
    BY <1>5, <2>1, Frames DEF runVars, agentVars, Host
<1>6. CASE Tick
  BY <1>0, <1>6, Frames DEF runVars, netVars
<1> QED
  BY <1>1, <1>2, <1>3, <1>4, <1>5, <1>6 DEF Next

\* What a step does to one connection, it does not do to another.
LEMMA TalkOpen ==
  ASSUME TypeOK, PhaseInv, TalkInv, NEW c \in Conns, Open(c) PROVE TalkInv'
<1> USE SessionAssumption, ConnsFacts, Kinds DEF TypeOK, TalkInv, Talk
<1>1. cl[c] \in {"dial", "hello", "reply"}
  BY DEF Open, Connect, DialFails, SendProof, OpenSucceeds, Refused, HandshakeFails
<1>2. c # Fresh => phase = "probe" /\ c \notin sessions /\ cl[Fresh] = "idle"
  BY <1>1, Handshaking DEF PhaseInv
<1>3. CASE Connect(c)
  BY <1>3 DEF Connect, runVars, netVars
<1>4. CASE SendProof(c)
  <2>1. /\ ag[c] \in {"hello", "closed"} /\ cl' = [cl EXCEPT ![c] = "reply"]
        /\ toCl' = [toCl EXCEPT ![c] = NoMsg] /\ UNCHANGED <<ag, sessions>>
    BY <1>4 DEF SendProof, agentVars, runVars
  <2>2. \E m : toAg' = [toAg EXCEPT ![c] = m] /\ (ag[c] # "hello" => m = NoMsg)
    BY <1>4, <2>1 DEF SendProof, Ended
  <2> QED
    BY <2>1, <2>2
<1>5. CASE DialFails(c) \/ Refused(c) \/ HandshakeFails(c)
  <2>1. OpenFails(c) /\ UNCHANGED <<toAg, ag, sessions>>
        /\ toCl' \in {toCl, [toCl EXCEPT ![c] = NoMsg]}
    BY <1>5 DEF DialFails, Refused, HandshakeFails, netVars, agentVars
  <2>2. cl' \in [Conns -> {"idle", "dial", "hello", "reply", "open", "asked", "closed"}]
        /\ cl'[c] = "closed" /\ \A d \in Conns : cl'[d] \in {cl[d], "closed"}
    BY <2>1 DEF OpenFails, Return
  <2> QED
    BY <2>1, <2>2
<1>6. CASE OpenSucceeds(c)
  <2>1. /\ cl[c] = "reply" /\ toCl[c] = Reply("ok", key) /\ ag[c] \in {"idle", "run", "closed"}
        /\ cl' = [cl EXCEPT ![c] = "open"] /\ toCl' = [toCl EXCEPT ![c] = NoMsg]
        /\ sessions' = (IF c = Fresh THEN sessions ELSE sessions \cup {c}) /\ UNCHANGED <<toAg, ag>>
    BY <1>6 DEF OpenSucceeds, agentVars
  <2>2. toAg[c] = NoMsg /\ (c # Fresh => ag[c] # "run")
    BY <2>1
  <2> QED
    BY <2>1, <2>2
<1> QED
  BY <1>3, <1>4, <1>5, <1>6, Fresh \notin sessions DEF Open

LEMMA TalkAgent ==
  ASSUME TypeOK, PhaseInv, AuthInv, TalkInv, NEW c \in Conns, handleConn(c) PROVE TalkInv'
<1> USE SessionAssumption, ConnsFacts, Kinds DEF TypeOK, TalkInv, Talk
<1>0. UNCHANGED <<cl, sessions>>
  BY Frames DEF runVars, connVars
<1>1. CASE Accept(c)
  BY <1>0, <1>1 DEF Accept
<1>2. CASE Authenticate(c)
  <2>1. /\ ag[c] = "hello" /\ toAg[c] # NoMsg /\ toAg' = [toAg EXCEPT ![c] = NoMsg]
    BY <1>2 DEF Authenticate, Serve
  <2>2. \E l \in {"run", "closed", "idle"}, r \in {"ok", "error"}, k \in Keys :
          /\ ag' = [ag EXCEPT ![c] = l] /\ toCl' = [toCl EXCEPT ![c] = Reply(r, k)]
          /\ (l = "run" => toAg[c].op = "run")
    <3>1. InForce(Host(c)) \in Keys
      BY DEF InForce, handleConn
    <3> QED
      BY ZenonT(40), <1>2, <3>1 DEF Authenticate, Serve, ServeRun, ServeInfo
  <2>3. cl[c] \in {"reply", "closed"} \/ (c \notin sessions /\ cl[c] = "open")
    BY <2>1
  <2>4. c # Fresh /\ cl[c] = "reply" => toAg[c].op # "run"
    BY <2>1, Handshaking DEF PhaseInv, AuthInv
  <2> QED
    BY <1>0, <2>1, <2>2, <2>3, <2>4
<1>3. CASE Unauthorized(c)
  <2>1. /\ ag[c] = "hello" /\ toAg[c] # NoMsg /\ toAg' = [toAg EXCEPT ![c] = NoMsg]
        /\ ag' = [ag EXCEPT ![c] = "closed"]
        /\ \E k \in Keys : toCl' = [toCl EXCEPT ![c] = Reply("unauthorized", k)]
    BY <1>3 DEF Unauthorized, InForce, handleConn
  <2> QED
    BY <1>0, <2>1
<1>4. CASE Followup(c)
  <2>1. /\ ag[c] = "idle" /\ toAg[c] # NoMsg /\ toAg' = [toAg EXCEPT ![c] = NoMsg]
    BY <1>4 DEF Followup
  <2>2. \/ /\ ag' = [ag EXCEPT ![c] = "run"] /\ toCl' = [toCl EXCEPT ![c] = Reply("ok", auth[c])]
        \/ /\ ag' = [ag EXCEPT ![c] = "closed"]
           /\ toCl' = [toCl EXCEPT ![c] = Reply("error", auth[c])]
    BY <1>4 DEF Followup, ServeRun
  <2> QED
    BY <1>0, <2>1, <2>2
<1>5. CASE AgentTimeout(c)
  BY <1>0, <1>5 DEF AgentTimeout
<1>6. CASE HangUp(c)
  BY <1>0, <1>6 DEF HangUp, netVars
<1> QED
  BY <1>1, <1>2, <1>3, <1>4, <1>5, <1>6 DEF handleConn

LEMMA TalkStep ==
  TypeOK /\ PhaseInv /\ AuthInv /\ TalkInv /\ [Next]_vars => TalkInv'
<1> SUFFICES ASSUME TypeOK, PhaseInv, AuthInv, TalkInv, [Next]_vars PROVE TalkInv'
  OBVIOUS
<1> USE SessionAssumption, ConnsFacts, Kinds DEF TypeOK, TalkInv, Talk
<1>0. ASSUME UNCHANGED <<sessions, cl, ag, toAg, toCl>> PROVE TalkInv'
  BY <1>0
<1>1. CASE UNCHANGED vars \/ Tick
  BY <1>0, <1>1, Frames DEF vars, runVars, connVars, agentVars, netVars
<1>2. CASE Environment
  <2>1. UNCHANGED <<sessions, cl, ag>>
    BY <1>2, Frames DEF runVars, connVars, agentVars
  <2>2. \A c \in Conns : toAg'[c] \in {toAg[c], NoMsg} /\ toCl'[c] \in {toCl[c], NoMsg}
    BY <1>2, Breaking
  <2> QED
    BY <2>1, <2>2
<1>3. CASE Run
  <2>0. UNCHANGED ag
    BY <1>3, Frames DEF agentVars
  <2>1. CASE PickNone \/ PickLocal \/ RunEnds
    <3>1. UNCHANGED <<sessions, toAg, toCl>> /\ \A c \in Conns : cl'[c] \in {cl[c], "closed"}
      BY <2>1 DEF PickNone, PickLocal, RunEnds, Return, connVars, netVars
    <3> QED
      BY <2>0, <3>1
  <2>2. ASSUME NEW p \in Peers, PickRemote(p) PROVE TalkInv'
    <3>1. /\ p \in sessions /\ cl[p] = "open" /\ cl' = [cl EXCEPT ![p] = "asked"]
          /\ sessions' = sessions \ {p} /\ UNCHANGED toCl
          /\ \E m : toAg' = [toAg EXCEPT ![p] = m] /\ (ag[p] = "closed" => m = NoMsg)
      BY <2>2 DEF PickRemote, PhaseInv, Ended
    <3> QED
      BY <2>0, <3>1
  <2>3. CASE DoSucceeds
    <3>1. /\ cl' = [cl EXCEPT ![target] = "open"] /\ UNCHANGED <<sessions, toAg>>
          /\ toCl' = [toCl EXCEPT ![target] = NoMsg] /\ target \notin sessions
      BY <2>3 DEF DoSucceeds, PhaseInv
    <3> QED
      BY <2>0, <3>1
  <2>4. CASE DoFails
    <3>1. /\ phase = "reuse" /\ target \in Peers /\ cl[Fresh] = "idle"
          /\ cl' = [cl EXCEPT ![target] = "closed", ![Fresh] = "dial"]
          /\ UNCHANGED <<sessions, toAg>> /\ toCl' = [toCl EXCEPT ![target] = NoMsg]
      BY <2>4 DEF DoFails, FallBack, PhaseInv
    <3> QED
      BY <2>0, <3>1
  <2> QED
    BY <1>3, <2>1, <2>2, <2>3, <2>4 DEF Run
<1> QED
  BY <1>1, <1>2, <1>3, TalkOpen, TalkAgent DEF Next

\* An agent starts the command once for a request, on the machine picked.
LEMMA StartAgent ==
  ASSUME TypeOK, PhaseInv, AuthInv, TalkInv, StartInv, NEW c \in Conns, handleConn(c)
  PROVE  StartInv'
<1> USE SessionAssumption, ConnsFacts, Kinds DEF TypeOK, StartInv
<1>0. UNCHANGED <<phase, target, cl, lost>> /\ Host(c) \in Peers
  BY Frames DEF runVars, connVars, handleConn
\* Only a request to run changes what was started.
<1>1. \/ /\ toAg[c] # NoMsg /\ Host(c) = target /\ ag[c] \in {"hello", "idle"}
         /\ IF canSpawn[target]
            THEN /\ starts' = [starts EXCEPT ![target] = @ + 1] /\ ag' = [ag EXCEPT ![c] = "run"]
                 /\ \E k : toCl' = [toCl EXCEPT ![c] = Reply("ok", k)]
            ELSE /\ starts' = [starts EXCEPT ![target] = @ + 0] /\ ag' = [ag EXCEPT ![c] = "closed"]
                 /\ \E k : toCl' = [toCl EXCEPT ![c] = Reply("error", k)]
      \/ /\ UNCHANGED starts /\ ag[c] \in {"backlog", "hello"}
         /\ \E l \in {"hello", "idle", "closed"} :
              ag' = [ag EXCEPT ![c] = l] /\ (l = "hello" => ag[c] = "backlog")
         /\ \A d \in Conns : d # c => toCl'[d] = toCl[d]
      \/ /\ UNCHANGED <<starts, toCl>> /\ ag' = [ag EXCEPT ![c] = "closed"]
         /\ ag[c] = "run" => c \in lost \/ cl[c] = "closed"
         /\ ag[c] \in {"backlog", "hello", "idle", "run"}
  <2>1. CASE Accept(c) \/ Unauthorized(c)
    BY <2>1 DEF Accept, Unauthorized
  <2>2. CASE AgentTimeout(c) \/ HangUp(c)
    BY <2>2 DEF AgentTimeout, HangUp, netVars
  <2>3. CASE Followup(c)
    BY <2>3 DEF Followup, ServeRun, AuthInv
  <2>4. CASE Authenticate(c)
    <3>1. CASE toAg[c].op = "run"
      BY <2>4, <3>1 DEF Authenticate, Serve, ServeRun, AuthInv
    <3>2. CASE toAg[c].op # "run"
      BY <2>4, <3>2 DEF Authenticate, Serve, ServeInfo
    <3> QED
      BY <3>1, <3>2
  <2> QED
    BY <2>1, <2>2, <2>3, <2>4 DEF handleConn
<1>2. \A p \in Peers : p # target' => starts'[p] = 0
  BY <1>0, <1>1
<1>3. ASSUME target \in Peers \ lost PROVE StartedOnce'
  <2> USE <1>3 DEF StartedOnce
  <2>1. CASE c # Fresh /\ c # target
    BY <1>0, <1>1, <2>1
  \* A reused connection: its agent is past the handshake.
  <2>2. CASE c = target
    <3>1. phase # "probe" /\ phase # "local" /\ ag[target] \notin {"closed", "none"}
      BY <1>1, <2>2 DEF PhaseInv
    <3>2. CASE phase = "reuse"
      <4>1. ag[c] \notin {"hello", "backlog"} /\ cl[c] = "asked"
        BY <2>2, <3>2 DEF TalkInv, Talk, PhaseInv
      <4> QED
        BY <1>0, <1>1, <2>2, <3>2, <4>1
    <3>3. CASE phase # "reuse"
      <4>1. phase \in {"stream", "done"} /\ ag[c] = "run" /\ ag[Fresh] = "none"
        BY <2>2, <3>1, <3>3
      <4> QED
        BY <1>0, <1>1, <2>2, <4>1
    <3> QED
      BY <3>2, <3>3
  \* The run's own: what was reused is closed.
  <2>3. CASE c = Fresh
    <3>1. cl[Fresh] # "idle" /\ ag[Fresh] # "none"
      BY <1>1, <2>3 DEF TalkInv, Talk
    <3>2. phase \in {"dial", "failed", "stream", "done"} /\ ag[target] = "closed"
      BY <3>1 DEF PhaseInv
    <3> QED
      BY <1>0, <1>1, <2>3, <3>1, <3>2 DEF AuthInv
  <2> QED
    BY <2>1, <2>2, <2>3
<1> QED
  BY <1>0, <1>2, <1>3

LEMMA StartStep ==
  TypeOK /\ PhaseInv /\ AuthInv /\ TalkInv /\ StartInv /\ [Next]_vars => StartInv'
<1> SUFFICES ASSUME TypeOK, PhaseInv, AuthInv, TalkInv, StartInv, [Next]_vars PROVE StartInv'
  OBVIOUS
<1> USE SessionAssumption, ConnsFacts, Kinds DEF TypeOK, StartInv, StartedOnce
<1>1. CASE UNCHANGED vars \/ Tick
  BY <1>1, Frames DEF vars, runVars, agentVars, netVars
<1>2. CASE Environment
  BY <1>2, Frames, Breaking DEF runVars, agentVars
<1>3. ASSUME NEW c \in Conns, Open(c) PROVE StartInv'
  <2>0. UNCHANGED <<target, starts, lost>>
    BY <1>3, Frames
  <2>1. cl[c] \in {"dial", "hello", "reply"}
    BY <1>3 DEF Open, Connect, DialFails, SendProof, OpenSucceeds, Refused, HandshakeFails
  <2>2. CASE c # Fresh
    BY <2>0, <2>1, <2>2, Handshaking DEF PhaseInv
  <2>3. CASE c = Fresh
    <3>1. phase = "dial" /\ target \in Peers
      BY <2>1, <2>3, Handshaking DEF PhaseInv
    <3>2. phase' \in {"dial", "failed", "stream"} /\ ag'[target] = ag[target]
          /\ (ag'[Fresh] = ag[Fresh] \/ (ag[Fresh] = "none" /\ ag'[Fresh] = "backlog"))
      BY <1>3, <2>3, <3>1 DEF Open, Connect, DialFails, SendProof, OpenSucceeds, Refused,
           HandshakeFails, OpenFails, Return, runVars, agentVars, TalkInv, Talk
    <3>3. phase' = "dial" /\ ag'[Fresh] = "none" => ag[Fresh] = "none"
      BY <3>2
    <3> QED
      BY <2>0, <3>1, <3>2, <3>3
  <2> QED
    BY <2>2, <2>3
<1>4. CASE Run
  <2>0. UNCHANGED <<starts, ag, lost>>
    BY <1>4, Frames DEF agentVars
  <2>1. CASE PickNone \/ PickLocal
    BY <2>0, <2>1 DEF PickNone, PickLocal, Return, PhaseInv
  <2>2. ASSUME NEW p \in Peers, PickRemote(p) PROVE StartInv'
    <3>1. /\ target = NoPeer /\ target' = p /\ phase' = "reuse" /\ toCl' = toCl
          /\ p \in sessions /\ cl[p] = "open"
      BY <2>2 DEF PickRemote, PhaseInv
    <3>2. ag[p] \in {"idle", "closed"} /\ toCl[p] = NoMsg
      BY <3>1 DEF TalkInv, Talk
    <3> QED
      BY <2>0, <3>1, <3>2
  <2>3. CASE DoSucceeds
    <3>1. ag[Fresh] = "none"
      BY <2>3 DEF DoSucceeds, PhaseInv, TalkInv, Talk
    <3> QED
      BY <2>0, <2>3, <3>1 DEF DoSucceeds
  <2>4. CASE DoFails
    <3>1. target \notin lost => ag[target] = "closed" /\ toCl[target].kind # "ok"
      BY <2>4 DEF DoFails, DoFailed, Ended, PhaseInv, TalkInv, Talk
    <3>2. phase = "reuse" /\ phase' = "dial" /\ target' = target
      BY <2>4 DEF DoFails, FallBack
    <3> QED
      BY <2>0, <3>1, <3>2
  <2>5. CASE RunEnds
    <3>1. target' = target /\ phase' = "done" /\ phase \in {"stream", "local"}
      BY <2>5 DEF RunEnds, Return
    <3> QED
      BY <2>0, <3>1 DEF PhaseInv
  <2> QED
    BY <1>4, <2>1, <2>2, <2>3, <2>4, <2>5 DEF Run
<1> QED
  BY <1>1, <1>2, <1>3, <1>4, StartAgent DEF Next

\* As long as peers are gathered, the timers have counted every tick.
LEMMA GatherStep == TypeOK /\ PhaseInv /\ GatherInv /\ [Next]_vars => GatherInv'
<1> SUFFICES ASSUME TypeOK, PhaseInv, GatherInv, [Next]_vars, phase' = "probe" PROVE GatherInv'
  BY DEF GatherInv
<1> USE SessionAssumption, ConnsFacts DEF TypeOK, GatherInv
<1>1. CASE UNCHANGED vars
  BY <1>1 DEF vars, runVars, connVars, timeVars
<1>2. ASSUME NEW c \in Conns, handleConn(c) PROVE GatherInv'
  BY <1>2, Frames DEF runVars, connVars, timeVars
<1>3. CASE Environment
  <2>1. UNCHANGED gathering
    BY <1>3 DEF Environment, Lose, Stall, Leave, Recover, RotateKey, LoadFails, LoadMends, timeVars
  <2> QED
    BY <1>3, <2>1, Frames DEF runVars, connVars
<1>4. ASSUME NEW c \in Conns, Open(c) PROVE GatherInv'
  <2>1. UNCHANGED gathering
    BY <1>4, Frames DEF timeVars
  <2>2. cl[c] \in {"dial", "hello", "reply"}
    BY <1>4 DEF Open, Connect, DialFails, SendProof, OpenSucceeds, Refused, HandshakeFails
  <2>3. CASE c = Fresh
    <3>1. phase = "dial" /\ phase' \in {"dial", "failed", "stream"}
      BY <1>4, <2>2, <2>3, Handshaking DEF Open, Connect, DialFails, SendProof, OpenSucceeds,
           Refused, HandshakeFails, OpenFails, Return, runVars
    <3> QED
      BY <3>1
  <2>4. CASE c # Fresh
    <3>1. phase = "probe" /\ c \in Peers
      BY <2>2, <2>4, Handshaking
    <3>2. \/ /\ cl[c] = "dial" /\ cl' = [cl EXCEPT ![c] = "hello"]
             /\ clTimer' = [clTimer EXCEPT ![c] = HandshakeTimeout]
          \/ cl[c] = "hello" /\ cl' = [cl EXCEPT ![c] = "reply"] /\ UNCHANGED clTimer
          \/ (\E l \in {"open", "closed"} : cl' = [cl EXCEPT ![c] = l]) /\ UNCHANGED clTimer
      BY <1>4, <2>4 DEF Open, Connect, DialFails, SendProof, OpenSucceeds, Refused, HandshakeFails,
           OpenFails
    <3> QED
      BY <2>1, <3>1, <3>2
  <2> QED
    BY <2>3, <2>4
<1>5. CASE Run
  <2>1. phase' # "probe"
    BY <1>5 DEF Run, PickNone, PickLocal, DoSucceeds, DoFails, FallBack, RunEnds, PickRemote, Return
  <2> QED
    BY <2>1
<1>6. CASE Tick
  <2>1. phase = "probe" /\ UNCHANGED cl /\ gathering' \in {gathering, gathering + 1}
    BY <1>6 DEF Tick, runVars, Capped
  <2>2. \A p \in Peers : cl[p] \in {"dial", "hello", "reply"} =>
          clTimer[p] > 0 /\ clTimer'[p] = clTimer[p] - 1
    BY <1>6 DEF Tick, Due, ClTicks
  <2>3. PICK p \in Peers : cl[p] \in {"dial", "hello", "reply"}
    BY <1>6, <2>1 DEF Tick, Gathered, PhaseInv
  <2>4. gathering' <= ProbeBudget + HandshakeTimeout
    BY <2>1, <2>2, <2>3
  <2> QED
    BY <2>1, <2>2, <2>4
<1> QED
  BY <1>1, <1>2, <1>3, <1>4, <1>5, <1>6 DEF Next

\* As long as an agent keeps running, no connection outlives its hold.
LEMMA RevokeStep == TypeOK /\ RevokeInv /\ [Next]_vars => RevokeInv'
<1> SUFFICES ASSUME TypeOK, RevokeInv, [Next]_vars PROVE RevokeInv'
  OBVIOUS
<1> USE SessionAssumption, ConnsFacts DEF TypeOK, RevokeInv
<1>0. ASSUME UNCHANGED <<ag, agTimer, auth, health, hurt, keyVars, sinceKey>> PROVE RevokeInv'
  BY <1>0 DEF keyVars
<1>1. CASE UNCHANGED vars
  BY <1>0, <1>1 DEF vars, agentVars, peerVars, timeVars
<1>2. ASSUME NEW c \in Conns, Open(c) PROVE RevokeInv'
  <2>1. UNCHANGED <<agTimer, auth, health, hurt, agKey, load, startKey, sinceKey>>
    BY <1>2, Frames DEF peerVars, keyVars, timeVars
  <2>2. ag' \in {ag, [ag EXCEPT ![c] = "backlog"]}
    BY <1>2 DEF Open, Connect, DialFails, SendProof, OpenSucceeds, Refused, HandshakeFails, agentVars
  <2> QED
    BY <2>1, <2>2
<1>3. ASSUME NEW c \in Conns, handleConn(c) PROVE RevokeInv'
  <2>1. UNCHANGED <<health, hurt, agKey, load, startKey, sinceKey>>
    BY <1>3, Frames DEF peerVars, keyVars, timeVars
  <2>2. \/ /\ ag' = [ag EXCEPT ![c] = "idle"] /\ agTimer' = [agTimer EXCEPT ![c] = ReuseIdle]
           /\ auth' = [auth EXCEPT ![c] = InForce(Host(c))]
        \/ /\ \E l \in {"hello", "run", "closed"} : ag' = [ag EXCEPT ![c] = l]
           /\ \A d \in Conns : d # c => agTimer'[d] = agTimer[d] /\ auth'[d] = auth[d]
    <3>1. CASE Authenticate(c)
      BY <3>1 DEF Authenticate, Serve, ServeRun, ServeInfo
    <3>2. CASE ~Authenticate(c)
      BY <1>3, <3>2 DEF handleConn, Accept, Unauthorized, Followup, AgentTimeout, HangUp, ServeRun
    <3> QED
      BY <3>1, <3>2
  <2>3. CASE ag' = [ag EXCEPT ![c] = "idle"] /\ agTimer' = [agTimer EXCEPT ![c] = ReuseIdle]
             /\ auth' = [auth EXCEPT ![c] = InForce(Host(c))]
    BY <1>3, <2>1, <2>3 DEF InForce, Host
  <2>4. CASE /\ \E l \in {"hello", "run", "closed"} : ag' = [ag EXCEPT ![c] = l]
             /\ \A d \in Conns : d # c => agTimer'[d] = agTimer[d] /\ auth'[d] = auth[d]
    BY <2>1, <2>4
  <2> QED
    BY <2>2, <2>3, <2>4
<1>4. CASE Run
  BY <1>0, <1>4, Frames DEF agentVars, peerVars, timeVars
<1>5. CASE Environment
  <2>1. UNCHANGED <<ag, agTimer, auth>>
    BY <1>5, Frames DEF agentVars
  <2>2. ASSUME NEW p \in Peers, NEW k \in Keys, RotateKey(p, k) PROVE RevokeInv'
    BY <2>1, <2>2 DEF RotateKey
  <2>6. ASSUME NEW p \in Peers, NEW k \in Keys, LoadFails(p, k) PROVE RevokeInv'
    BY <2>1, <2>6 DEF LoadFails, timeVars
  <2>7. ASSUME NEW p \in Peers, LoadMends(p) PROVE RevokeInv'
    BY <2>1, <2>7 DEF LoadMends
  <2>3. ASSUME NEW p \in Peers, Stall(p) \/ Leave(p) PROVE RevokeInv'
    <3>1. /\ hurt' = hurt \cup {p} /\ \A q \in Peers : q # p => health'[q] = health[q]
          /\ UNCHANGED <<agKey, load, startKey, sinceKey>>
      BY <2>3 DEF Stall, Leave, keyVars, timeVars
    <3> QED
      BY <2>1, <3>1
  <2>4. ASSUME NEW p \in Peers, Recover(p) PROVE RevokeInv'
    BY <2>1, <2>4 DEF Recover, timeVars
  <2>5. ASSUME NEW c \in Conns, Lose(c) PROVE RevokeInv'
    BY <1>0, <2>1, <2>5 DEF Lose, timeVars
  <2> QED
    BY <1>5, <2>2, <2>3, <2>4, <2>5, <2>6, <2>7 DEF Environment
<1>6. CASE Tick
  <2>1. UNCHANGED <<ag, auth, health, hurt, agKey, load, startKey>>
    BY <1>6 DEF Tick, peerVars, keyVars
  <2>2. \A p \in Peers \ hurt : ag[p] = "idle" => agTimer[p] > 0 /\ agTimer'[p] = agTimer[p] - 1
    BY <1>6 DEF Tick, Due, Up, AgTicks
  <2>3. \A p \in Peers : sinceKey'[p] \in {sinceKey[p], sinceKey[p] + 1}
    BY <1>6 DEF Tick, Capped
  <2> QED
    BY <2>1, <2>2, <2>3
<1> QED
  BY <1>1, <1>2, <1>3, <1>4, <1>5, <1>6 DEF Next

\* What has gone wrong stays wrong.
LEMMA Drift ==
  ASSUME TypeOK, [Next]_vars
  PROVE  /\ hurt \subseteq hurt' /\ lost \subseteq lost' /\ canSpawn' = canSpawn
         /\ rotations' = 0 => rotations = 0 /\ agKey' = agKey
         /\ \A p \in Peers : load'[p] = "well" => load[p] = "well"
<1> USE DEF TypeOK
<1>1. CASE UNCHANGED <<lost, peerVars>>
  BY <1>1 DEF peerVars, keyVars
<1>2. CASE Environment
  <2>1. lost \subseteq lost'
    BY <1>2, Breaking
  <2> DEFINE G == /\ hurt \subseteq hurt' /\ canSpawn' = canSpawn
                  /\ rotations' = 0 => rotations = 0 /\ agKey' = agKey
                  /\ \A p \in Peers : load'[p] = "well" => load[p] = "well"
  <2>2. ASSUME NEW p \in Peers, NEW k \in Keys, RotateKey(p, k) PROVE G
    BY <2>2 DEF RotateKey
  <2>3. ASSUME NEW p \in Peers, NEW k \in Keys, LoadFails(p, k) PROVE G
    BY <2>3 DEF LoadFails
  <2>4. ASSUME NEW p \in Peers, LoadMends(p) PROVE G
    BY <2>4 DEF LoadMends
  <2>5. ASSUME NEW p \in Peers, Stall(p) \/ Leave(p) PROVE G
    BY <2>5 DEF Stall, Leave, keyVars
  <2>6. ASSUME NEW p \in Peers, Recover(p) PROVE G
    BY <2>6 DEF Recover
  <2>7. ASSUME NEW c \in Conns, Lose(c) PROVE G
    BY <2>7 DEF Lose, keyVars, peerVars
  <2> QED
    BY <1>2, <2>1, <2>2, <2>3, <2>4, <2>5, <2>6, <2>7 DEF Environment
<1> QED
  BY <1>1, <1>2, Frames DEF Next, vars, netVars, peerVars, keyVars

\* A step of the run's own exchange with a sound machine is the next step of it.
LEMMA CauseOwn ==
  ASSUME TypeOK, PhaseInv, AuthInv, TalkInv, RevokeInv, CauseInv, Sound,
         UNCHANGED target, Open(Fresh) \/ handleConn(Fresh)
  PROVE  CauseInv'
<1> USE SessionAssumption, ConnsFacts, Kinds DEF TypeOK
<1>1. health[target] = "up" /\ target \in Peers /\ phase # "failed"
  BY DEF Sound, RevokeInv, CauseInv
<1>2. CASE phase = "dial" /\ Open(Fresh)
  <2>1. clTimer[Fresh] > 0
    BY <1>2 DEF CauseInv
  <2>2. ~DialFails(Fresh)
    BY <1>1, <2>1 DEF DialFails
  <2>3. ~HandshakeFails(Fresh)
    BY <1>2, <2>1 DEF HandshakeFails, CauseInv, TalkInv, Talk, Ended, Sound
  <2>4. ~Refused(Fresh)
    BY <1>2 DEF Refused, CauseInv, TalkInv, Talk
  <2>5. CASE Connect(Fresh)
    BY <1>2, <2>5 DEF Connect, CauseInv, runVars
  <2>6. CASE SendProof(Fresh)
    <3>1. ag[Fresh] = "hello" /\ agTimer[Fresh] > 0
      BY <1>2, <2>6 DEF SendProof, CauseInv, TalkInv, Talk
    <3>2. ~Ended(Fresh)
      BY <3>1 DEF Ended, Sound
    <3> QED
      BY <1>2, <2>1, <2>6, <3>1, <3>2 DEF SendProof, CauseInv, runVars, agentVars
  <2>7. CASE OpenSucceeds(Fresh)
    BY <2>7 DEF OpenSucceeds, CauseInv
  <2> QED
    BY <1>2, <2>2, <2>3, <2>4, <2>5, <2>6, <2>7 DEF Open
<1>3. CASE phase = "dial" /\ handleConn(Fresh)
  <2>1. UNCHANGED <<runVars, cl, clTimer>> /\ cl[Fresh] \in {"dial", "hello", "reply"}
    BY <1>3, Frames DEF connVars, PhaseInv
  <2>2. CASE Accept(Fresh)
    <3>1. cl[Fresh] = "hello"
      BY <2>1, <2>2 DEF Accept, TalkInv, Talk
    <3> QED
      BY <1>3, <2>1, <2>2, <3>1 DEF Accept, CauseInv, runVars
  <2>3. CASE Authenticate(Fresh)
    <3>1. cl[Fresh] = "reply" /\ toAg[Fresh].op = "run"
      BY <2>1, <2>3 DEF Authenticate, Serve, TalkInv, Talk, AuthInv
    <3>2. toCl'[Fresh] = Reply("ok", key)
      BY <2>3, <3>1 DEF Authenticate, Serve, ServeRun, InForce, Sound
    <3> QED
      BY <1>3, <2>1, <3>1, <3>2 DEF CauseInv, runVars
  <2>4. ~Unauthorized(Fresh)
    BY DEF Unauthorized, InForce, AuthInv, Sound
  <2>5. ~Followup(Fresh)
    BY DEF Followup, AuthInv
  <2>6. ~AgentTimeout(Fresh)
    BY <1>3, <2>1 DEF AgentTimeout, AuthInv, CauseInv, TalkInv, Talk
  <2>7. CASE HangUp(Fresh)
    <3>1. cl[Fresh] = "reply" /\ toCl[Fresh] = Reply("ok", key)
      BY <1>3, <2>1, <2>7 DEF HangUp, Sound, CauseInv, TalkInv, Talk
    <3> QED
      BY <1>3, <2>1, <2>7, <3>1 DEF HangUp, CauseInv, runVars, netVars
  <2> QED
    BY <1>3, <2>2, <2>3, <2>4, <2>5, <2>6, <2>7 DEF handleConn
<1>4. CASE phase # "dial"
  <2>1. ~Open(Fresh)
    BY <1>4, Handshaking DEF Open, Connect, DialFails, SendProof, OpenSucceeds, Refused, HandshakeFails
  <2> QED
    BY <1>1, <1>4, <2>1, Frames DEF CauseInv, runVars
<1> QED
  BY <1>2, <1>3, <1>4

LEMMA CauseStep ==
  TypeOK /\ PhaseInv /\ AuthInv /\ TalkInv /\ RevokeInv /\ CauseInv /\ [Next]_vars => CauseInv'
<1> SUFFICES ASSUME TypeOK, PhaseInv, AuthInv, TalkInv, RevokeInv, CauseInv, [Next]_vars,
                    Sound' PROVE CauseInv'
  BY DEF CauseInv
<1> USE SessionAssumption, ConnsFacts, Kinds DEF TypeOK
<1>1. CASE target' # target
  <2>1. phase' = "reuse"
    <3>1. ASSUME NEW p \in Peers, PickRemote(p) PROVE phase' = "reuse"
      BY <3>1 DEF PickRemote
    <3>2. Run => \E p \in Peers : PickRemote(p)
      BY <1>1 DEF Run, PickNone, PickLocal, DoSucceeds, DoFails, FallBack, RunEnds
    <3> QED
      BY <1>1, <3>1, <3>2, Frames DEF Next, vars, runVars
  <2> QED
    BY <2>1 DEF CauseInv
<1>2. CASE target' = target
  <2>0. Sound /\ key' = key
    <3>1. key' = key
      BY Frames DEF Next, vars, runVars
    <3> QED
      BY <1>2, <3>1, Drift DEF Sound
  <2>1. ASSUME UNCHANGED <<phase, cl>>, clTimer'[Fresh] = clTimer[Fresh],
               ag'[Fresh] = ag[Fresh], agTimer'[Fresh] = agTimer[Fresh],
               toAg'[Fresh] = toAg[Fresh], toCl'[Fresh] = toCl[Fresh]
        PROVE  CauseInv'
    BY <2>0, <2>1 DEF CauseInv
  <2>2. CASE UNCHANGED vars
    BY <2>1, <2>2 DEF vars, runVars, connVars, agentVars, netVars
  <2>3. ASSUME NEW c \in Conns, Open(c) \/ handleConn(c) PROVE CauseInv'
    <3>1. CASE c = Fresh
      BY <1>2, <2>0, <2>3, <3>1, CauseOwn
    <3>2. CASE c # Fresh /\ Open(c)
      <4>1. phase = "probe"
        BY <3>2, Handshaking DEF Open, Connect, DialFails, SendProof, OpenSucceeds, Refused, HandshakeFails
      <4> QED
        BY <2>0, <4>1 DEF PhaseInv, Sound
    <3>3. CASE c # Fresh /\ handleConn(c)
      <4>1. UNCHANGED <<runVars, connVars>>
        BY <3>3, Frames
      <4>2. /\ ag'[Fresh] = ag[Fresh] /\ agTimer'[Fresh] = agTimer[Fresh]
            /\ toAg'[Fresh] = toAg[Fresh] /\ toCl'[Fresh] = toCl[Fresh]
        BY <3>3 DEF handleConn, Accept, Authenticate, Serve, Unauthorized, Followup, AgentTimeout, HangUp,
             ServeRun, ServeInfo, netVars
      <4> QED
        BY <2>1, <4>1, <4>2 DEF runVars, connVars
    <3> QED
      BY <2>3, <3>1, <3>2, <3>3
  <2>4. CASE Run
    <3>1. CASE phase = "probe"
      BY <2>0, <3>1 DEF PhaseInv, Sound
    <3>2. CASE DoFails
      <4>1. phase' = "dial" /\ cl'[Fresh] = "dial" /\ clTimer'[Fresh] = DialTimeout
        BY <3>2 DEF DoFails, FallBack
      <4> QED
        BY <4>1 DEF CauseInv
    <3>3. CASE phase # "probe" /\ ~DoFails
      <4>1. phase' \in {"stream", "done"}
        BY <2>4, <3>3 DEF Run, PickNone, PickLocal, PickRemote, DoSucceeds, RunEnds, Return
      <4> QED
        BY <4>1 DEF CauseInv
    <3> QED
      BY <3>1, <3>2, <3>3
  <2>5. CASE Environment
    <3>1. Fresh \notin lost'
      BY DEF Sound
    <3> QED
      BY <2>1, <2>5, <3>1, Frames, Breaking DEF runVars, connVars, agentVars
  <2>6. CASE Tick
    <3>1. health[target] = "up" /\ target \in Peers
      BY <2>0 DEF Sound, RevokeInv
    <3>2. phase # "dial"
      <4> SUFFICES ASSUME phase = "dial" PROVE Prompt(Fresh)
        BY <2>6 DEF Tick
      <4> QED
        BY <2>0, <3>1 DEF Prompt, Up, PhaseInv, CauseInv, TalkInv, Talk
    <3> QED
      BY <2>0, <2>6, <3>2, Frames DEF CauseInv, runVars
  <2> QED
    BY <2>2, <2>3, <2>4, <2>5, <2>6 DEF Next
<1> QED
  BY <1>1, <1>2

-----------------------------------------------------------------------------
(***************************************************************************)
(* The theorems.                                                            *)
(***************************************************************************)
\* The inductive invariant of Session.
THEOREM Invariant == Spec => []IInv
<1>1. IInv /\ [Next]_vars => IInv'
  BY TypeStep, PhaseStep, AuthStep, TalkStep, StartStep, GatherStep, RevokeStep, CauseStep DEF IInv
<1> QED
  BY <1>1, InitInv, PTL DEF Spec

\* Every variable of Session stays in its range, for any machines and timeouts.
THEOREM TypeCorrect == Spec => []TypeOK
<1>1. IInv => TypeOK
  BY DEF IInv
<1> QED
  BY <1>1, Invariant, PTL

\* However a reuse fails, the fall-back repeats no command, unless the
\* connection broke under the first request (run.go Run).
THEOREM StartedAtMostOnce == Spec => []RunsOnceUnlessLost
<1>1. IInv => RunsOnceUnlessLost
  BY DEF IInv, TypeOK, StartInv, StartedOnce, RunsOnceUnlessLost
<1> QED
  BY <1>1, Invariant, PTL

\* No connection outlives its run, whichever way the run went (run.go Run).
THEOREM AllClosed == Spec => []NothingLeftOpen
<1>1. IInv => NothingLeftOpen
  BY DEF IInv, PhaseInv
<1> QED
  BY <1>1, Invariant, PTL

\* However many peers there are and whatever they do, gathering them takes no
\* longer than one dial and one handshake may (transport.go Open).
THEOREM GatheringBounded == Spec => []GatherBounded
<1>1. IInv => GatherBounded
  BY DEF IInv, GatherInv, GatherBounded
<1> QED
  BY <1>1, Invariant, PTL

\* A machine nothing is wrong with is never reported as failed (run.go Run).
THEOREM NeverFailedWithoutCause == Spec => []FailedForCause
<1>1. IInv => FailedForCause
  <2> SUFFICES ASSUME IInv, phase = "failed", target # NoPeer PROVE ~Sound
    BY DEF IInv, TypeOK, FailedForCause, Sound
  <2> QED
    BY DEF IInv, CauseInv
<1> QED
  BY <1>1, Invariant, PTL

\* Whatever starts a command has read the request of a client whose proof, now
\* or when the connection was opened, was made with the agent's key.
LEMMA Starting ==
  ASSUME IInv, [Next]_vars, NEW p \in Peers, starts'[p] # starts[p]
  PROVE  \E c \in {p, Fresh} :
           /\ c \in Conns /\ p = target /\ Host(c) = p /\ ag[c] # "run" /\ ag'[c] = "run"
           /\ auth'[c] = key
           /\ InForce(p) = key \/ (c = p /\ ag[p] = "idle" /\ auth[p] = key)
<1> USE SessionAssumption, ConnsFacts DEF IInv, TypeOK
<1>1. PICK c \in Conns : handleConn(c)
  BY Frames DEF Next, vars, agentVars
<1>2. CASE Authenticate(c)
  <2>1. toAg[c].op = "run" /\ ServeRun(c, InForce(Host(c))) /\ toAg[c] # NoMsg /\ ag[c] = "hello"
    BY <1>2 DEF Authenticate, Serve, ServeInfo
  <2>2. Host(c) = target /\ toAg[c].hmac = key /\ Host(c) = p /\ ag'[c] = "run"
    BY <1>1, <2>1 DEF AuthInv, ServeRun, handleConn
  <2>3. InForce(p) = key /\ auth'[c] = key
    BY <1>2, <2>2 DEF Authenticate, Serve
  <2> QED
    BY <2>1, <2>2, <2>3
<1>3. CASE Followup(c)
  <2>1. ServeRun(c, auth[c]) /\ ag[c] = "idle" /\ auth' = auth /\ toAg[c] # NoMsg
    BY <1>3 DEF Followup
  <2>2. c # Fresh /\ Host(c) = target /\ auth[c] = key /\ Host(c) = p /\ ag'[c] = "run"
    BY <1>1, <2>1 DEF AuthInv, ServeRun, handleConn
  <2> QED
    BY <2>1, <2>2
<1> QED
  BY <1>1, <1>2, <1>3 DEF handleConn, Accept, Unauthorized, AgentTimeout, HangUp

\* Only the machine picked starts the command, for a client it has authenticated
\* (agent.go:177-213).
THEOREM StartedWhereAuthorized == Spec => StartsWhereAuthorized
<1>1. ASSUME IInv, [Next]_vars
      PROVE  [\A p \in Peers : starts'[p] # starts[p] =>
                p = target /\ \E c \in {p, Fresh} :
                  ag[c] # "run" /\ ag'[c] = "run" /\ auth'[c] = key]_starts
  BY <1>1, Starting
<1> QED
  BY <1>1, Invariant, PTL DEF Spec, StartsWhereAuthorized

\* Once a key has been replaced for as long as a connection may be held, it
\* starts nothing on an agent that kept running, but for the key it was started
\* with while it cannot load another, and that long after (agent.go:80-88).
THEOREM RotatedKeyDies == Spec => RotationRevokes
<1>1. ASSUME IInv, [Next]_vars
      PROVE  [\A p \in Peers : starts'[p] # starts[p] =>
                \/ agKey[p] = key \/ sinceKey[p] <= ReuseIdle \/ p \in hurt
                \/ load[p] = "failing" /\ startKey[p] = key]_starts
  <2> SUFFICES ASSUME NEW p \in Peers, starts'[p] # starts[p]
               PROVE  \/ agKey[p] = key \/ sinceKey[p] <= ReuseIdle \/ p \in hurt
                      \/ load[p] = "failing" /\ startKey[p] = key
    OBVIOUS
  <2>1. InForce(p) = key \/ (ag[p] = "idle" /\ auth[p] = key)
    BY <1>1, Starting
  <2>2. \/ p \in hurt \/ ag[p] # "idle" \/ auth[p] = agKey[p]
        \/ load[p] = "failing" /\ auth[p] = startKey[p]
        \/ sinceKey[p] + agTimer[p] <= ReuseIdle
    BY <1>1 DEF IInv, RevokeInv
  <2> QED
    BY <1>1, <2>1, <2>2, SessionAssumption, ConnsFacts DEF IInv, TypeOK, InForce
<1> QED
  BY <1>1, Invariant, PTL DEF Spec, RotationRevokes
=============================================================================
