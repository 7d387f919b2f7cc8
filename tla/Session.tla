------------------------------ MODULE Session -------------------------------
(***************************************************************************)
(* One `knit run` up to the moment its command is accepted by a machine:    *)
(* internal/client/run.go (Run, probeForRun, runRemote) over                *)
(* internal/transport (Open, Do) at one end, internal/agent/agent.go        *)
(* (serve, handleConn, readFollowup) and the start of handleRun at the      *)
(* other.                                                                   *)
(*                                                                          *)
(* Every peer is probed at once, each on its own connection; the sessions   *)
(* stay open while the slowest probe is waited for; the winner's session is *)
(* asked to run the command, and if that fails for any reason at all the    *)
(* machine is dialed afresh.  Meanwhile agents stall, leave and come back,  *)
(* connections break, held sessions expire and cluster keys are replaced.   *)
(*                                                                          *)
(* A connection is named by the peer it probes, the run's own one is Fresh. *)
(* The exchange on it is strictly request and reply, so each direction      *)
(* holds at most one message.  A proof is the key it was made with.  Time   *)
(* passes in ticks: a timer is the ticks it has left.                       *)
(***************************************************************************)
EXTENDS Naturals, FiniteSets

CONSTANTS Peers,             \* the machines probed
          Fresh,             \* the connection runRemote dials
          NoPeer,            \* no machine picked yet
          NoKey,             \* no proof verified yet
          OldAgents,         \* peers whose agent (v0.4.0) closes after an info
          Keys,              \* cluster keys
          ProbeBudget,       \* probeTimeout: 250 ms
          DialTimeout,       \* dialTimeout: 3 s
          HandshakeTimeout,  \* HandshakeTimeout, authTimeout: 10 s
          ReuseIdle,         \* reuseIdle: 10 s
          MaxFaults,         \* bound: stalls, departures, broken connections and
                             \* keyfiles that cannot be loaded
          MaxRotations       \* bound: keys replaced while knit runs

ASSUME SessionAssumption ==
  /\ IsFiniteSet(Peers)
  /\ Fresh \notin Peers /\ NoPeer \notin Peers /\ NoKey \notin Keys
  /\ OldAgents \subseteq Peers
  /\ ProbeBudget \in Nat /\ DialTimeout \in Nat \ {0}
  /\ HandshakeTimeout \in Nat \ {0} /\ ReuseIdle \in Nat
  /\ MaxFaults \in Nat /\ MaxRotations \in Nat

Conns == Peers \cup {Fresh}

VARIABLES
  phase,     \* of Run: "probe", "reuse", "dial", "stream", "local", "failed", "done"
  target,    \* the machine picked
  sessions,  \* Run's map of probe sessions its deferred close will end
  key,       \* the key this knit loaded
  cl,        \* client end: "idle", "dial", "hello", "reply", "open", "asked", "closed"
  clTimer,   \* its dial timeout or handshake deadline

  ag,        \* agent end: "none", "backlog", "hello", "idle", "run", "closed"
  agTimer,   \* its authentication or reuse deadline
  auth,      \* the key the agent verified the client's proof with

  toAg,      \* request on its way to the agent, or NoMsg
  toCl,      \* greeting or reply on its way to the client, or NoMsg
  lost,      \* connections both ends know to be broken

  health,    \* per peer: "up", "stalled" (connects but answers nothing), "gone"
  hurt,      \* peers that were ever not up
  agKey,     \* per peer, the key in its keyfile
  load,      \* per peer, LoadOrCreate there: "well", "failing", "mended"
  startKey,  \* per peer, the key its agent was started with, which is open
             \* (NoKey) until something depends on it
  canSpawn,  \* per peer, the command can be started there
  starts,    \* per peer, times the command was started there
  faults, rotations,  \* counted against their bounds
  gathering, \* ticks the probes have taken
  sinceKey   \* per peer, ticks since its key was replaced, or could be loaded
             \* again, up to ReuseIdle + 1

runVars   == <<phase, target, sessions, key>>
connVars  == <<cl, clTimer>>
agentVars == <<ag, agTimer, auth, starts>>
netVars   == <<toAg, toCl, lost>>
keyVars   == <<agKey, load, startKey>>
peerVars  == <<health, hurt, keyVars, canSpawn, faults, rotations>>
timeVars  == <<gathering, sinceKey>>
vars == <<runVars, connVars, agentVars, netVars, peerVars, timeVars>>

NoMsg == [kind |-> "none"]
Greeting == [kind |-> "greeting"]
Request(o, k) == [kind |-> "request", op |-> o, hmac |-> k]
Reply(k, p) == [kind |-> k, proof |-> p]

Host(c) == IF c = Fresh THEN target ELSE c
Up(c) == health[Host(c)] = "up"

\* The connection has ended as far as the client can see.
Ended(c) == c \in lost \/ ag[c] = "closed"

Init ==
  /\ phase = "probe" /\ target = NoPeer /\ sessions = {}
  /\ key \in Keys
  /\ cl = [c \in Conns |-> IF c = Fresh THEN "idle" ELSE "dial"]
  /\ clTimer = [c \in Conns |-> ProbeBudget]
  /\ ag = [c \in Conns |-> "none"] /\ agTimer = [c \in Conns |-> 0]
  /\ auth = [c \in Conns |-> NoKey]
  /\ toAg = [c \in Conns |-> NoMsg] /\ toCl = [c \in Conns |-> NoMsg]
  /\ lost = {}
  /\ health \in [Peers -> {"up", "gone"}] /\ hurt = {p \in Peers : health[p] = "gone"}
  /\ agKey \in [Peers -> Keys] /\ canSpawn \in [Peers -> BOOLEAN]
  /\ load = [p \in Peers |-> "well"] /\ startKey = [p \in Peers |-> NoKey]
  /\ starts = [p \in Peers |-> 0]
  /\ faults = 0 /\ rotations = 0 /\ gathering = 0
  /\ sinceKey = [p \in Peers |-> ReuseIdle + 1]

-----------------------------------------------------------------------------
(***************************************************************************)
(* transport.Open: the client's side of the handshake.                      *)
(***************************************************************************)
\* Run returning: its deferred close ends the sessions still in its map.
Return(p, conns) ==
  /\ phase' = p
  /\ cl' = [c \in Conns |-> IF c \in sessions \cup conns THEN "closed" ELSE cl[c]]

\* Open fails: it has closed the connection itself.  A failed probe leaves its
\* peer out; a failed runRemote is the end of the run.
OpenFails(c) ==
  IF c = Fresh THEN Return("failed", {Fresh})
  ELSE cl' = [cl EXCEPT ![c] = "closed"] /\ phase' = phase

\* Mutant: no deadline is set around the handshake.
ConnectNoDeadline(c) ==
  /\ cl[c] = "dial" /\ health[Host(c)] # "gone"
  /\ cl' = [cl EXCEPT ![c] = "hello"]
  /\ clTimer' = [clTimer EXCEPT ![c] = 1000]
  /\ ag' = [ag EXCEPT ![c] = "backlog"]
  /\ UNCHANGED <<runVars, agTimer, auth, starts, netVars, peerVars, timeVars>>

Connect(c) ==
  /\ cl[c] = "dial" /\ health[Host(c)] # "gone"
  /\ cl' = [cl EXCEPT ![c] = "hello"]
  /\ clTimer' = [clTimer EXCEPT ![c] = HandshakeTimeout]
  /\ ag' = [ag EXCEPT ![c] = "backlog"]
  /\ UNCHANGED <<runVars, agTimer, auth, starts, netVars, peerVars, timeVars>>

DialFails(c) ==
  /\ cl[c] = "dial"
  /\ health[Host(c)] = "gone" \/ clTimer[c] = 0
  /\ OpenFails(c)
  /\ UNCHANGED <<target, sessions, key, clTimer, agentVars, netVars, peerVars, timeVars>>

SendProof(c) ==
  /\ cl[c] = "hello" /\ toCl[c] = Greeting
  /\ cl' = [cl EXCEPT ![c] = "reply"]
  /\ toCl' = [toCl EXCEPT ![c] = NoMsg]
  /\ toAg' = [toAg EXCEPT ![c] =
        IF Ended(c) THEN NoMsg ELSE Request(IF c = Fresh THEN "run" ELSE "info", key)]
  /\ UNCHANGED <<runVars, clTimer, agentVars, lost, peerVars, timeVars>>

\* Mutant: every session opened goes into the map, the run's own too.
OpenSucceedsKept(c) ==
  /\ cl[c] = "reply" /\ toCl[c] = Reply("ok", key)
  /\ cl' = [cl EXCEPT ![c] = "open"]
  /\ toCl' = [toCl EXCEPT ![c] = NoMsg]
  /\ phase' = IF c = Fresh THEN "stream" ELSE phase
  /\ sessions' = sessions \cup {c}
  /\ UNCHANGED <<target, key, clTimer, agentVars, toAg, lost, peerVars, timeVars>>

\* The reply is read and the server's proof holds: the session is open, and
\* no deadline bounds it from here on.
OpenSucceeds(c) ==
  /\ cl[c] = "reply" /\ toCl[c] = Reply("ok", key)
  /\ cl' = [cl EXCEPT ![c] = "open"]
  /\ toCl' = [toCl EXCEPT ![c] = NoMsg]
  /\ IF c = Fresh THEN phase' = "stream" /\ sessions' = sessions
                  ELSE phase' = phase /\ sessions' = sessions \cup {c}
  /\ UNCHANGED <<target, key, clTimer, agentVars, toAg, lost, peerVars, timeVars>>

Refused(c) ==
  /\ cl[c] = "reply" /\ toCl[c] # NoMsg /\ toCl[c] # Reply("ok", key)
  /\ OpenFails(c)
  /\ toCl' = [toCl EXCEPT ![c] = NoMsg]
  /\ UNCHANGED <<target, sessions, key, clTimer, agentVars, toAg, lost, peerVars, timeVars>>

HandshakeFails(c) ==
  /\ cl[c] \in {"hello", "reply"}
  /\ (toCl[c] = NoMsg /\ Ended(c)) \/ clTimer[c] = 0
  /\ OpenFails(c)
  /\ UNCHANGED <<target, sessions, key, clTimer, agentVars, netVars, peerVars, timeVars>>

-----------------------------------------------------------------------------
(***************************************************************************)
(* Run: gather, pick, reuse, fall back.                                     *)
(***************************************************************************)
Gathered == \A p \in Peers : cl[p] \in {"open", "closed"}

\* No candidate satisfies the constraints, or --on names none of them.
PickNone ==
  /\ phase = "probe" /\ Gathered
  /\ Return("failed", {})
  /\ UNCHANGED <<target, sessions, key, clTimer, agentVars, netVars, peerVars, timeVars>>

PickLocal ==
  /\ phase = "probe" /\ Gathered
  /\ phase' = "local"
  /\ UNCHANGED <<target, sessions, key, connVars, agentVars, netVars, peerVars, timeVars>>

\* The winner's session leaves the map and Do sends the run request on it.
PickRemote(p) ==
  /\ phase = "probe" /\ Gathered
  /\ p \in sessions
  /\ phase' = "reuse" /\ target' = p /\ sessions' = sessions \ {p}
  /\ cl' = [cl EXCEPT ![p] = "asked"]
  /\ toAg' = [toAg EXCEPT ![p] = IF Ended(p) THEN NoMsg ELSE Request("run", key)]
  /\ UNCHANGED <<key, clTimer, agentVars, toCl, lost, peerVars, timeVars>>

DoSucceeds ==
  /\ phase = "reuse" /\ toCl[target].kind = "ok"
  /\ phase' = "stream"
  /\ cl' = [cl EXCEPT ![target] = "open"]
  /\ toCl' = [toCl EXCEPT ![target] = NoMsg]
  /\ UNCHANGED <<target, sessions, key, clTimer, agentVars, toAg, lost, peerVars, timeVars>>

\* What failed makes no difference: the session is closed, the machine dialed.
FallBack ==
  /\ phase' = "dial"
  /\ cl' = [cl EXCEPT ![target] = "closed", ![Fresh] = "dial"]
  /\ clTimer' = [clTimer EXCEPT ![Fresh] = DialTimeout]
  /\ toCl' = [toCl EXCEPT ![target] = NoMsg]
  /\ UNCHANGED <<target, sessions, key, agentVars, toAg, lost, peerVars, timeVars>>

\* Mutant: only an answer can tell that the session is of no use.
DoFailedReply == toCl[target].kind = "error"

DoFailed == toCl[target].kind = "error" \/ (toCl[target] = NoMsg /\ Ended(target))

\* Mutant: Do gives up on a reply after a while and falls back.
DoFailsOrGivesUp ==
  /\ phase = "reuse"
  /\ DoFailed \/ toCl[target] = NoMsg
  /\ FallBack

\* Mutant: the failed session is not closed; it has left the map.
DoFailsNoClose ==
  /\ phase = "reuse" /\ DoFailed
  /\ phase' = "dial"
  /\ cl' = [cl EXCEPT ![Fresh] = "dial"]
  /\ clTimer' = [clTimer EXCEPT ![Fresh] = DialTimeout]
  /\ toCl' = [toCl EXCEPT ![target] = NoMsg]
  /\ UNCHANGED <<target, sessions, key, agentVars, toAg, lost, peerVars, timeVars>>

\* Mutant: a failed reuse fails the run.
DoFailsForGood ==
  /\ phase = "reuse" /\ DoFailed
  /\ Return("failed", {target})
  /\ UNCHANGED <<target, sessions, key, clTimer, agentVars, netVars, peerVars, timeVars>>

DoFails ==
  /\ phase = "reuse" /\ DoFailed
  /\ FallBack

\* streamOver closes the session it ran on; Run's deferred close the others,
\* which stayed open all along.
RunEnds ==
  /\ phase \in {"stream", "local"}
  /\ Return("done", IF phase = "local" THEN {}
                    ELSE IF cl[Fresh] = "open" THEN {Fresh} ELSE {target})
  /\ UNCHANGED <<target, sessions, key, clTimer, agentVars, netVars, peerVars, timeVars>>

-----------------------------------------------------------------------------
(***************************************************************************)
(* The agent: one handleConn per connection.                                *)
(***************************************************************************)
Accept(c) ==
  /\ Up(c) /\ ag[c] = "backlog" /\ c \notin lost
  /\ ag' = [ag EXCEPT ![c] = "hello"]
  /\ agTimer' = [agTimer EXCEPT ![c] = HandshakeTimeout]
  /\ toCl' = [toCl EXCEPT ![c] = Greeting]
  /\ UNCHANGED <<runVars, connVars, auth, starts, toAg, lost, peerVars, timeVars>>

\* handleRun up to its acceptance: the command is spawned, then the ok sent.
\* k is the key of the proof that goes with the reply.
ServeRun(c, k) ==
  LET p == Host(c) IN
  /\ starts' = [starts EXCEPT ![p] = @ + (IF canSpawn[p] THEN 1 ELSE 0)]
  /\ ag' = [ag EXCEPT ![c] = IF canSpawn[p] THEN "run" ELSE "closed"]
  /\ toCl' = [toCl EXCEPT ![c] = Reply(IF canSpawn[p] THEN "ok" ELSE "error", k)]
  /\ agTimer' = agTimer

ServeInfo(c, k) ==
  /\ ag' = [ag EXCEPT ![c] = IF c \in OldAgents THEN "closed" ELSE "idle"]
  /\ toCl' = [toCl EXCEPT ![c] = Reply("ok", k)]
  /\ agTimer' = [agTimer EXCEPT ![c] = ReuseIdle]
  /\ starts' = starts

\* loadKey, called for every connection: the keyfile's key, or, when it cannot be
\* loaded, the one the agent was started with.
InForce(p) == IF load[p] = "failing" THEN startKey[p] ELSE agKey[p]

\* What a request with a valid proof gets, served under key k.
Serve(c, k) ==
  /\ auth' = [auth EXCEPT ![c] = k]
  /\ toAg' = [toAg EXCEPT ![c] = NoMsg]
  /\ IF toAg[c].op = "run" THEN ServeRun(c, k) ELSE ServeInfo(c, k)
  /\ UNCHANGED <<runVars, connVars, lost, peerVars, timeVars>>

\* Mutant: the proof is not compared with the agent's own.
AuthenticateAny(c) ==
  /\ Up(c) /\ ag[c] = "hello" /\ toAg[c] # NoMsg
  /\ Serve(c, InForce(Host(c)))

\* Mutant: an agent accepts, and proves, any key it has ever had.
AuthenticateOld(c) ==
  /\ Up(c) /\ ag[c] = "hello" /\ toAg[c] # NoMsg
  /\ Serve(c, toAg[c].hmac)

\* The key is loaded for this connection, the proof checked, the request served.
Authenticate(c) ==
  /\ Up(c) /\ ag[c] = "hello" /\ toAg[c] # NoMsg
  /\ toAg[c].hmac = InForce(Host(c))
  /\ Serve(c, InForce(Host(c)))

Unauthorized(c) ==
  /\ Up(c) /\ ag[c] = "hello" /\ toAg[c] # NoMsg
  /\ toAg[c].hmac # InForce(Host(c))
  /\ ag' = [ag EXCEPT ![c] = "closed"]
  /\ toAg' = [toAg EXCEPT ![c] = NoMsg]
  /\ toCl' = [toCl EXCEPT ![c] = Reply("unauthorized", InForce(Host(c)))]
  /\ UNCHANGED <<runVars, connVars, agTimer, auth, starts, lost, peerVars, timeVars>>

\* A follow-up is served on the strength of the connection's first proof.
Followup(c) ==
  /\ Up(c) /\ ag[c] = "idle" /\ toAg[c] # NoMsg
  /\ toAg' = [toAg EXCEPT ![c] = NoMsg]
  /\ ServeRun(c, auth[c])
  /\ UNCHANGED <<runVars, connVars, auth, lost, peerVars, timeVars>>

\* authTimeout or reuseIdle is over; a request not read yet is lost with it.
AgentTimeout(c) ==
  /\ Up(c) /\ ag[c] \in {"hello", "idle"} /\ agTimer[c] = 0
  /\ ag' = [ag EXCEPT ![c] = "closed"]
  /\ toAg' = [toAg EXCEPT ![c] = NoMsg]
  /\ UNCHANGED <<runVars, connVars, agTimer, auth, starts, toCl, lost, peerVars, timeVars>>

\* A read finds the client gone.
HangUp(c) ==
  /\ Up(c) /\ ag[c] \in {"backlog", "hello", "idle", "run"}
  /\ toAg[c] = NoMsg /\ (c \in lost \/ cl[c] = "closed")
  /\ ag' = [ag EXCEPT ![c] = "closed"]
  /\ UNCHANGED <<runVars, connVars, agTimer, auth, starts, netVars, peerVars, timeVars>>

-----------------------------------------------------------------------------
(***************************************************************************)
(* Machines, the network and their owner.                                   *)
(***************************************************************************)
Fault == faults < MaxFaults /\ faults' = faults + 1

Deciding == phase \in {"probe", "reuse", "dial"}

Break(conns) ==
  /\ lost' = lost \cup conns
  /\ toAg' = [c \in Conns |-> IF c \in conns THEN NoMsg ELSE toAg[c]]
  /\ toCl' = [c \in Conns |-> IF c \in conns THEN NoMsg ELSE toCl[c]]

Live(c) == cl[c] \in {"hello", "reply", "open", "asked"} /\ c \notin lost

Lose(c) ==
  /\ Fault /\ Deciding /\ Live(c)
  /\ Break({c})
  /\ UNCHANGED <<runVars, connVars, agentVars, health, hurt, keyVars, canSpawn, rotations, timeVars>>

Stall(p) ==
  /\ Fault /\ Deciding /\ health[p] = "up"
  /\ health' = [health EXCEPT ![p] = "stalled"] /\ hurt' = hurt \cup {p}
  /\ UNCHANGED <<runVars, connVars, agentVars, netVars, keyVars, canSpawn, rotations, timeVars>>

Leave(p) ==
  /\ Fault /\ Deciding /\ health[p] = "up"
  /\ health' = [health EXCEPT ![p] = "gone"] /\ hurt' = hurt \cup {p}
  /\ Break({c \in Conns : Host(c) = p /\ Live(c)})
  /\ UNCHANGED <<runVars, connVars, agentVars, keyVars, canSpawn, rotations, timeVars>>

\* A machine that was gone may have been started again, and its agent with it,
\* which does not start when it cannot load the key.
Recover(p) ==
  /\ health[p] # "up"
  /\ health' = [health EXCEPT ![p] = "up"]
  /\ startKey' = IF health[p] = "gone" /\ load[p] # "failing"
                 THEN [startKey EXCEPT ![p] = NoKey] ELSE startKey
  /\ UNCHANGED <<runVars, connVars, agentVars, netVars, hurt, agKey, load, canSpawn,
                 faults, rotations, timeVars>>

\* The keyfile holds no key, or can neither be read nor be replaced; k is the
\* key the agent was started with, which may be one replaced long ago.
LoadFails(p, k) ==
  /\ Fault /\ Deciding /\ load[p] # "failing"
  /\ startKey[p] \in {NoKey, k}
  /\ load' = [load EXCEPT ![p] = "failing"]
  /\ startKey' = [startKey EXCEPT ![p] = k]
  /\ UNCHANGED <<runVars, connVars, agentVars, netVars, health, hurt, agKey, canSpawn,
                 rotations, timeVars>>

LoadMends(p) ==
  /\ load[p] = "failing"
  /\ load' = [load EXCEPT ![p] = "mended"]
  /\ sinceKey' = [sinceKey EXCEPT ![p] = 0]
  /\ UNCHANGED <<runVars, connVars, agentVars, netVars, health, hurt, agKey, startKey,
                 canSpawn, faults, rotations, gathering>>

\* `knit join` or `knit key --rotate` on the machine, or a loadKey that cannot
\* read the keyfile but can replace it.
RotateKey(p, k) ==
  /\ rotations < MaxRotations /\ rotations' = rotations + 1
  /\ k # agKey[p] /\ agKey' = [agKey EXCEPT ![p] = k]
  /\ sinceKey' = [sinceKey EXCEPT ![p] = 0]
  /\ UNCHANGED <<runVars, connVars, agentVars, netVars, health, hurt, load, startKey,
                 canSpawn, faults, gathering>>

\* What takes no time on the scale of the timers: connecting, reading what has
\* arrived, and answering, except by a machine that is stalled.
Prompt(c) ==
  \/ cl[c] = "dial" /\ health[Host(c)] # "gone"
  \/ cl[c] \in {"hello", "reply", "asked"} /\ (toCl[c] # NoMsg \/ Ended(c))
  \/ /\ Host(c) \in Peers /\ Up(c)
     /\ \/ ag[c] = "backlog"
        \/ ag[c] \in {"hello", "idle"} /\ toAg[c] # NoMsg
        \/ ag[c] \in {"hello", "idle", "run"} /\ (c \in lost \/ cl[c] = "closed")

\* A deadline that is due.
Due(c) ==
  \/ cl[c] \in {"dial", "hello", "reply"} /\ clTimer[c] = 0
  \/ Host(c) \in Peers /\ Up(c) /\ ag[c] \in {"hello", "idle"} /\ agTimer[c] = 0

\* A timer of an end that waits under a deadline; other timers mean nothing.
ClTicks(c) == cl[c] \in {"dial", "hello", "reply"} /\ clTimer[c] > 0
AgTicks(c) == ag[c] \in {"hello", "idle"} /\ agTimer[c] > 0
Capped(t, max) == IF t < max THEN t + 1 ELSE t

Tick ==
  /\ \A c \in Conns : ~Prompt(c) /\ ~Due(c)
  /\ phase = "probe" => ~Gathered
  /\ clTimer' = [c \in Conns |-> IF ClTicks(c) THEN clTimer[c] - 1 ELSE 0]
  /\ agTimer' = [c \in Conns |-> IF AgTicks(c) THEN agTimer[c] - 1 ELSE 0]
  /\ gathering' = IF phase = "probe"
                  THEN Capped(gathering, ProbeBudget + HandshakeTimeout + 1) ELSE gathering
  /\ sinceKey' = [p \in Peers |-> Capped(sinceKey[p], ReuseIdle + 1)]
  /\ UNCHANGED <<runVars, cl, ag, auth, starts, netVars, peerVars>>

-----------------------------------------------------------------------------
Open(c) ==
  \/ Connect(c) \/ DialFails(c) \/ SendProof(c)
  \/ OpenSucceeds(c) \/ Refused(c) \/ HandshakeFails(c)

Run ==
  \/ PickNone \/ PickLocal \/ DoSucceeds \/ DoFails \/ RunEnds
  \/ \E p \in Peers : PickRemote(p)

handleConn(c) ==
  /\ Host(c) \in Peers
  /\ \/ Accept(c) \/ Authenticate(c) \/ Unauthorized(c) \/ Followup(c)
     \/ AgentTimeout(c) \/ HangUp(c)

Environment ==
  \/ \E c \in Conns : Lose(c)
  \/ \E p \in Peers :
       \/ Stall(p) \/ Leave(p) \/ Recover(p) \/ LoadMends(p)
       \/ \E k \in Keys : RotateKey(p, k) \/ LoadFails(p, k)

Next ==
  \/ \E c \in Conns : Open(c) \/ handleConn(c)
  \/ Run
  \/ Environment
  \/ Tick

Spec == Init /\ [][Next]_vars

\* Every goroutine of the client and of an agent that is up gets to run, and
\* time passes.  Nothing is promised of machines, networks and owners.
FairSpec ==
  /\ Spec
  /\ \A c \in Conns : WF_vars(Open(c)) /\ WF_vars(handleConn(c))
  /\ WF_vars(Run) /\ WF_vars(Tick)

-----------------------------------------------------------------------------
Messages == {NoMsg, Greeting} \cup {Request(o, k) : o \in {"info", "run"}, k \in Keys}
            \cup {Reply(r, k) : r \in {"ok", "unauthorized", "error"}, k \in Keys}

\* Every variable stays in its range.
TypeOK ==
  /\ phase \in {"probe", "reuse", "dial", "stream", "local", "failed", "done"}
  /\ target \in Peers \cup {NoPeer} /\ sessions \subseteq Peers /\ key \in Keys
  /\ cl \in [Conns -> {"idle", "dial", "hello", "reply", "open", "asked", "closed"}]
  /\ clTimer \in [Conns -> Nat] /\ agTimer \in [Conns -> Nat]
  /\ ag \in [Conns -> {"none", "backlog", "hello", "idle", "run", "closed"}]
  /\ auth \in [Conns -> Keys \cup {NoKey}]
  /\ toAg \in [Conns -> Messages] /\ toCl \in [Conns -> Messages] /\ lost \subseteq Conns
  /\ health \in [Peers -> {"up", "stalled", "gone"}] /\ hurt \subseteq Peers
  /\ agKey \in [Peers -> Keys] /\ canSpawn \in [Peers -> BOOLEAN]
  /\ load \in [Peers -> {"well", "failing", "mended"}]
  /\ startKey \in [Peers -> Keys \cup {NoKey}]
  /\ \A p \in Peers : load[p] = "failing" => startKey[p] \in Keys
  /\ starts \in [Peers -> Nat]
  /\ faults \in 0..MaxFaults /\ rotations \in 0..MaxRotations
  /\ gathering \in Nat /\ sinceKey \in [Peers -> Nat]

\* The probes never hold a run up for longer than the dial budget and the
\* handshake deadline together, whatever a peer does (transport.go Open).
GatherBounded == phase = "probe" => gathering <= ProbeBudget + HandshakeTimeout

\* The whole probe is over by its budget (docs/10-performance.md: "all peers
\* dialed at once, hard deadline, slow peers dropped").
ProbeWithinBudget == phase = "probe" => gathering <= ProbeBudget

\* A command is started a second time only when the connection broke under the
\* first request: falling back after an expired hold, an old agent or a refused
\* request repeats nothing (run.go Run).
RunsOnceUnlessLost == \A p \in Peers : starts[p] <= 1 \/ p \in lost

\* An agent that stayed up, holds and can load the key, and can start the command is never
\* reported as failed because a held session expired, or was too old to reuse
\* (run.go: "a failed reuse falls back to a fresh dial rather than failing").
FailedForCause ==
  phase = "failed" /\ target # NoPeer =>
    \/ target \in hurt \/ ~canSpawn[target] \/ Fresh \in lost
    \/ agKey[target] # key \/ rotations > 0 \/ load[target] # "well"

\* When Run has returned no connection of it is left open, the sessions that
\* were not picked and the one whose reuse failed included (run.go Run).
NothingLeftOpen ==
  phase \in {"done", "failed"} => \A c \in Conns : cl[c] \in {"idle", "closed"}

\* A key that was replaced starts no command later than a held connection may
\* idle (agent.go:80-88, readFollowup), as long as the agent kept running: that
\* long after the rotation only the new key does, but for the key the agent was
\* started with, which counts again for as long as the keyfile cannot be loaded,
\* and then as long as a held connection may idle.
RotationRevokes ==
  [][\A p \in Peers : starts'[p] # starts[p] =>
        \/ agKey[p] = key \/ sinceKey[p] <= ReuseIdle \/ p \in hurt
        \/ load[p] = "failing" /\ startKey[p] = key]_starts

\* The same without exception (agent.go:80: "The key is re-read per connection so
\* `knit key --rotate` takes effect without restarting the agent").
RotationTakesEffect ==
  [][\A p \in Peers : starts'[p] # starts[p] =>
        agKey[p] = key \/ sinceKey[p] <= ReuseIdle \/ p \in hurt]_starts

\* Only the machine that was picked ever starts the command, on a connection
\* whose proof it checked against the client's key (agent.go:177-213).
StartsWhereAuthorized ==
  [][\A p \in Peers : starts'[p] # starts[p] =>
        p = target /\ \E c \in {p, Fresh} : ag[c] # "run" /\ ag'[c] = "run" /\ auth'[c] = key]_starts

\* A run whose target keeps answering gets to stream, or fails.
RunDecided ==
  (phase = "probe") ~> (phase \notin {"probe", "reuse", "dial"} \/ hurt # {})

\* The exchange before streaming is bounded on a reused session too
\* (transport.go:24 "HandshakeTimeout bounds the control exchange before
\* streaming begins").
ControlBounded == (phase = "reuse") ~> (phase # "reuse")

\* A command is only sent to an agent that has proved it holds the key
\* (docs/08-security-model.md: "which the client verifies before it sends a
\* command").
CommandAfterProof ==
  \A c \in Conns : toAg[c].kind = "request" /\ toAg[c].op = "run" => cl[c] # "reply"

=============================================================================
