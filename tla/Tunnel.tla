------------------------------- MODULE Tunnel -------------------------------
(***************************************************************************)
(* One connection through knit proxy: internal/client/proxy.go serveSocks   *)
(* and internal/agent/dial.go handleDial.                                   *)
(*                                                                          *)
(*   application --app-- proxy --link-- agent --target-- target             *)
(*                                                                          *)
(* Three TCP connections in a row.  Of each, "l" is the side towards the    *)
(* application and writes "up", "r" the other and writes "down".  At both   *)
(* ends of the link two goroutines copy, one per direction, and close both  *)
(* connections when they cannot go on.                                      *)
(*                                                                          *)
(* A connection that is closed with unread input is reset, which may        *)
(* destroy what is on its way in the other direction.  Data are numbered;   *)
(* the agent's reply is the number 0, ahead of the target's data.           *)
(***************************************************************************)
EXTENDS Naturals, Sequences

CONSTANTS MaxData,     \* bound, per direction: how much is sent
          NetCap,      \* bound: what is on its way in one direction
          MaxLosses,   \* bound: losses of the link
          TargetReads  \* the target reads what it is sent

ASSUME TunnelAssumption ==
  /\ MaxData \in [{"up", "down"} -> Nat] /\ NetCap \in Nat \ {0}
  /\ MaxLosses \in Nat /\ TargetReads \in BOOLEAN

Conns == {"app", "link", "target"}
Dirs  == {"up", "down"}
Reader(d) == IF d = "up" THEN "r" ELSE "l"
Writer(d) == IF d = "up" THEN "l" ELSE "r"
Opposite(d) == IF d = "up" THEN "down" ELSE "up"

\* The copying goroutines: the proxy's and the agent's, up and down.
Copiers == {"pu", "pd", "au", "ad"}
Dir(g) == IF g \in {"pu", "au"} THEN "up" ELSE "down"
Src(g) == CASE g = "pu" -> "app" [] g = "ad" -> "target" [] OTHER -> "link"
Dst(g) == CASE g = "pd" -> "app" [] g = "au" -> "target" [] OTHER -> "link"

VARIABLES
  wire,     \* per connection and direction, what is on its way
  end,      \* the same, what follows: "open", "fin", "rst"
  held,     \* per connection, the sides that have it open
  proxy,    \* serveSocks: "socks", "open", "splice", "done"
  agent,    \* handleDial: "none", "dial", "splice", "done"
  copier,   \* per goroutine: "none", "read", "write", "done"
  buf,      \* per goroutine, what it has read
  ready,    \* the application was told that it is connected
  sent,     \* per direction, how much was sent
  got,      \* per direction, what was received
  shut,     \* directions whose receiver half-closed its own side before their end
  losses

netVars == <<wire, end, held>>
endVars == <<ready, sent, got, shut>>
codeVars == <<proxy, agent, copier, buf>>
vars == <<netVars, codeVars, endVars, losses>>

Init ==
  /\ wire = [k \in Conns |-> [d \in Dirs |-> <<>>]]
  /\ end = [k \in Conns |-> [d \in Dirs |-> "open"]]
  /\ held = [k \in Conns |-> IF k = "app" THEN {"l", "r"} ELSE {}]
  /\ proxy = "socks" /\ agent = "none"
  /\ copier = [g \in Copiers |-> "none"] /\ buf = [g \in Copiers |-> 0]
  /\ ready = FALSE /\ sent = [d \in Dirs |-> 0] /\ got = [d \in Dirs |-> <<>>]
  /\ shut = {} /\ losses = 0

-----------------------------------------------------------------------------
(* TCP.                                                                     *)

Holds(k, side) == side \in held[k]
Readable(k, d) == Holds(k, Reader(d)) /\ wire[k][d] # <<>>
AtEnd(k, d) == Holds(k, Reader(d)) /\ wire[k][d] = <<>> /\ end[k][d] # "open"
Take(k, d) == wire' = [wire EXCEPT ![k][d] = Tail(@)]

\* Each of the sides <<connection, side>> is closed, unless it was.
Close(sides) ==
  LET closing == {p \in Conns \X Dirs :
        <<p[1], Writer(p[2])>> \in sides /\ Holds(p[1], Writer(p[2]))}
      resets == {p \in closing : wire[p[1]][Opposite(p[2])] # <<>>}
  IN /\ held' = [k \in Conns |-> {side \in held[k] : <<k, side>> \notin sides}]
     /\ end' = [k \in Conns |-> [d \in Dirs |->
          IF <<k, d>> \in resets THEN "rst"
          ELSE IF <<k, d>> \in closing /\ end[k][d] = "open" THEN "fin" ELSE end[k][d]]]
     /\ \E destroyed \in SUBSET resets :
          wire' = [k \in Conns |-> [d \in Dirs |->
            IF <<k, Opposite(d)>> \in closing \/ <<k, d>> \in destroyed
            THEN <<>> ELSE wire[k][d]]]

Writable(k, d) ==
  /\ Holds(k, Writer(d)) /\ end[k][d] = "open" /\ end[k][Opposite(d)] # "rst"
  /\ Holds(k, Reader(d)) => Len(wire[k][d]) < NetCap

\* What arrives at a closed side resets the connection.
Put(k, d, x) ==
  /\ Writable(k, d) /\ UNCHANGED held
  /\ IF Holds(k, Reader(d))
     THEN wire' = [wire EXCEPT ![k][d] = Append(@, x)] /\ UNCHANGED end
     ELSE /\ end' = [end EXCEPT ![k][Opposite(d)] = "rst"]
          /\ wire' \in {wire, [wire EXCEPT ![k][Opposite(d)] = <<>>]}

Unwritable(k, d) == ~Holds(k, Writer(d)) \/ end[k][Opposite(d)] = "rst"

ProxySides == {<<"app", "r">>, <<"link", "l">>}
AgentSides == {<<"link", "r">>, <<"target", "l">>}

-----------------------------------------------------------------------------
(* serveSocks and handleDial, until they copy.                              *)

\* A CONNECT request arrives whole; transport.Open connects to the agent and
\* sends it the request.
SocksRequest ==
  /\ proxy = "socks" /\ proxy' = "open" /\ agent' = "dial"
  /\ held' = [held EXCEPT !["link"] = {"l", "r"}]
  /\ UNCHANGED <<wire, end, copier, buf, endVars, losses>>

\* It does not, or the agent is out of reach.
SocksFails ==
  /\ proxy = "socks" /\ proxy' = "done" /\ Close(ProxySides)
  /\ UNCHANGED <<agent, copier, buf, endVars, losses>>

\* The agent's reply is on its way before anything the target sends.  If the
\* proxy is gone by now, nobody notices yet.
DialSucceeds ==
  /\ agent = "dial" /\ agent' = "splice"
  /\ copier' = [copier EXCEPT !["au"] = "read", !["ad"] = "read"]
  /\ IF Holds("link", "l") /\ end["link"]["up"] # "rst"
     THEN wire' = [wire EXCEPT !["link"]["down"] = <<0>>] ELSE UNCHANGED wire
  /\ held' = [held EXCEPT !["target"] = {"l", "r"}]
  /\ UNCHANGED <<end, proxy, buf, endVars, losses>>

DialFails ==
  /\ agent = "dial" /\ agent' = "done" /\ Close(AgentSides)
  /\ UNCHANGED <<proxy, copier, buf, endVars, losses>>

\* Mutant: what is buffered behind the reply is read with it.
OpenReadsOn ==
  /\ proxy = "open" /\ Readable("link", "down") /\ proxy' = "splice"
  /\ copier' = [copier EXCEPT !["pu"] = "read", !["pd"] = "read"]
  /\ wire' = [wire EXCEPT !["link"]["down"] = <<>>, !["app"]["down"] = <<0>>]
  /\ UNCHANGED <<end, held, agent, buf, endVars, losses>>

\* The reply is read, exactly; the application is told.
OpenSucceeds ==
  /\ proxy = "open" /\ Readable("link", "down") /\ proxy' = "splice"
  /\ copier' = [copier EXCEPT !["pu"] = "read", !["pd"] = "read"]
  /\ wire' = [wire EXCEPT !["link"]["down"] = Tail(@), !["app"]["down"] = <<0>>]
  /\ UNCHANGED <<end, held, agent, buf, endVars, losses>>

\* An error, the handshake's deadline, or an application that is gone.
OpenFails ==
  /\ proxy = "open" /\ proxy' = "done" /\ Close(ProxySides)
  /\ UNCHANGED <<agent, copier, buf, endVars, losses>>

-----------------------------------------------------------------------------
(* splice: io.Copy, then closing both connections.                          *)

CopyRead(g) ==
  /\ copier[g] = "read" /\ Readable(Src(g), Dir(g)) /\ Take(Src(g), Dir(g))
  /\ buf' = [buf EXCEPT ![g] = Head(wire[Src(g)][Dir(g)])]
  /\ copier' = [copier EXCEPT ![g] = "write"]
  /\ UNCHANGED <<end, held, proxy, agent, endVars, losses>>

CopyWrite(g) ==
  /\ copier[g] = "write" /\ Put(Dst(g), Dir(g), buf[g])
  /\ copier' = [copier EXCEPT ![g] = "read"]
  /\ UNCHANGED <<proxy, agent, buf, endVars, losses>>

\* io.Copy ends: an end of stream, an error, or the other goroutine's Close.
CopyEnds(g) ==
  \/ copier[g] = "read" /\ (~Holds(Src(g), Reader(Dir(g))) \/ AtEnd(Src(g), Dir(g)))
  \/ copier[g] = "write" /\ Unwritable(Dst(g), Dir(g))

\* Mutants: input that comes together with its end is dropped; only what was
\* written to is closed.
SpliceEndsSoon(g) ==
  /\ \/ CopyEnds(g)
     \/ copier[g] = "read" /\ end[Src(g)][Dir(g)] # "open"
  /\ Close({<<Src(g), Reader(Dir(g))>>, <<Dst(g), Writer(Dir(g))>>})
  /\ copier' = [copier EXCEPT ![g] = "done"]
  /\ UNCHANGED <<proxy, agent, buf, endVars, losses>>
SpliceEndsHalf(g) ==
  /\ CopyEnds(g)
  /\ end' = [end EXCEPT ![Dst(g)][Dir(g)] = IF @ = "open" THEN "fin" ELSE @]
  /\ copier' = [copier EXCEPT ![g] = "done"]
  /\ UNCHANGED <<wire, held, proxy, agent, buf, endVars, losses>>

SpliceEnds(g) ==
  /\ CopyEnds(g)
  /\ Close({<<Src(g), Reader(Dir(g))>>, <<Dst(g), Writer(Dir(g))>>})
  /\ copier' = [copier EXCEPT ![g] = "done"]
  /\ UNCHANGED <<proxy, agent, buf, endVars, losses>>

\* <-done; <-done; and the deferred closes.
ProxyReturns ==
  /\ proxy = "splice" /\ copier["pu"] = "done" /\ copier["pd"] = "done"
  /\ proxy' = "done" /\ Close(ProxySides)
  /\ UNCHANGED <<agent, copier, buf, endVars, losses>>

AgentReturns ==
  /\ agent = "splice" /\ copier["au"] = "done" /\ copier["ad"] = "done"
  /\ agent' = "done" /\ Close(AgentSides)
  /\ UNCHANGED <<proxy, copier, buf, endVars, losses>>

-----------------------------------------------------------------------------
(* The application writes up and the target down, each at its connection.   *)

At(d) == IF d = "up" THEN "app" ELSE "target"
Present(d) == Holds(At(d), Writer(d)) /\ (d = "up" => ready)

Send(d) ==
  /\ Present(d) /\ sent[d] < MaxData[d]
  /\ Put(At(d), d, sent[d] + 1) /\ sent' = [sent EXCEPT ![d] = @ + 1]
  /\ UNCHANGED <<codeVars, ready, got, shut, losses>>

Receive(d) ==
  LET o == Opposite(d) x == Head(wire[At(d)][o]) IN
  /\ Readable(At(d), o) /\ Take(At(d), o) /\ (TargetReads \/ d = "up")
  /\ IF x = 0 THEN ready' = TRUE /\ UNCHANGED got
     ELSE got' = [got EXCEPT ![o] = Append(@, x)] /\ UNCHANGED ready
  /\ UNCHANGED <<end, held, codeVars, sent, shut, losses>>

\* It half-closes its connection, or closes it.
Shut(d) ==
  /\ Present(d) /\ end[At(d)][d] = "open"
  /\ end' = [end EXCEPT ![At(d)][d] = "fin"]
  /\ shut' = IF AtEnd(At(d), Opposite(d)) THEN shut ELSE shut \cup {Opposite(d)}
  /\ UNCHANGED <<wire, held, codeVars, ready, sent, got, losses>>

Leave(d) ==
  /\ Holds(At(d), Writer(d)) /\ Close({<<At(d), Writer(d)>>})
  /\ UNCHANGED <<codeVars, endVars, losses>>

\* The link is lost, which keep-alives tell both its ends.
Lose ==
  /\ losses < MaxLosses /\ losses' = losses + 1 /\ held["link"] # {}
  /\ wire' = [wire EXCEPT !["link"] = [d \in Dirs |-> <<>>]]
  /\ end' = [end EXCEPT !["link"] = [d \in Dirs |-> "rst"]]
  /\ UNCHANGED <<held, codeVars, endVars>>

-----------------------------------------------------------------------------
splice(g) == CopyRead(g) \/ CopyWrite(g) \/ SpliceEnds(g)
serveSocks == SocksRequest \/ SocksFails \/ OpenSucceeds \/ OpenFails \/ ProxyReturns
handleDial == DialSucceeds \/ DialFails \/ AgentReturns

Next ==
  \/ serveSocks \/ handleDial \/ Lose
  \/ \E g \in Copiers : splice(g)
  \/ \E d \in Dirs : Send(d) \/ Receive(d) \/ Shut(d) \/ Leave(d)

Spec == Init /\ [][Next]_vars

\* Every goroutine gets to run, the dial and the handshake have deadlines, and
\* the two ends read what there is.
FairSpec ==
  /\ Spec
  /\ WF_vars(serveSocks) /\ WF_vars(handleDial)
  /\ \A g \in Copiers : WF_vars(splice(g))
  /\ \A d \in Dirs : WF_vars(Receive(d))

-----------------------------------------------------------------------------
\* Nothing is lost from the middle, repeated or out of order, and nothing of
\* the handshake gets among the data (03-protocol.md:141 "tunnels raw TCP").
InOrder == \A d \in Dirs : \A i \in DOMAIN got[d] : got[d][i] = i

\* d's receiver, still there, is at a clean end of stream.
CleanEnd(d) == ready /\ AtEnd(At(Opposite(d)), d) /\ end[At(Opposite(d))][d] = "fin"

\* A clean end of stream comes after all the data, on a link that holds, for a
\* receiver that kept its own side open and had all it sent received.
EndWhole == \A d \in Dirs :
  /\ CleanEnd(d) /\ losses = 0
  /\ d \notin shut /\ Len(got[Opposite(d)]) = sent[Opposite(d)]
  => Len(got[d]) = sent[d]

\* Also for a receiver that half-closed its own side (03-protocol.md:141
\* "`knit proxy` tunnels raw TCP through a peer").
HalfCloseWhole == \A d \in Dirs :
  CleanEnd(d) /\ losses = 0 /\ Len(got[Opposite(d)]) = sent[Opposite(d)]
    => Len(got[d]) = sent[d]

\* The proxy and the agent hold nothing of the tunnel, and no goroutine is left.
Over ==
  /\ proxy = "done" /\ agent \in {"none", "done"}
  /\ \A g \in Copiers : copier[g] \in {"none", "done"}
  /\ "r" \notin held["app"] /\ held["link"] = {} /\ "l" \notin held["target"]

\* When either end has left, or the link is lost, the other is let go and
\* nothing of the tunnel stays behind, on either machine.
TunnelEnds ==
  (~Holds("app", "l") \/ (agent = "splice" /\ ~Holds("target", "r")) \/ losses > 0) ~> Over

=============================================================================
