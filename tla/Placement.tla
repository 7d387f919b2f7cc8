----------------------------- MODULE Placement ------------------------------
(***************************************************************************)
(* How a client command finds the other machines and decides where to run:  *)
(* internal/discovery (cache.go, Browse), internal/client (gatherPeers,     *)
(* probeForRun, probePeers, Run, Each, pickProxyPeer) and                   *)
(* internal/scheduler.                                                      *)
(*                                                                          *)
(* Commands on this machine share one cache file, which each rewrites in    *)
(* place without a lock.  Machines come, go and change addresses meanwhile: *)
(* a list of peers, cached or not, is only a list of addresses, and whoever *)
(* answers the probe there, in whatever order, is a candidate, with the     *)
(* load it has by then.                                                     *)
(*                                                                          *)
(* One command, Me, is followed to its decision.  The others matter to it   *)
(* through the cache only, and until it has its list of peers.              *)
(*                                                                          *)
(* Loads and links are numbers in a common small unit.                      *)
(***************************************************************************)
EXTENDS Integers, Sequences, FiniteSets

CONSTANTS Machines,    \* machines with an agent
          Self,        \* the machine the commands run on, one of them
          Nowhere,     \* the address of a candidate that is not dialled
          NoName,      \* no machine is pinned with --on
          Addrs,       \* addresses
          Link,        \* per address, the nominal speed of the link to it
          LocalLink,   \* this machine's own, faster than any
          Cmds, Me,    \* commands, one of which is followed
          Scenes,      \* what that one may be, and where
          Tie,         \* scores this close count as equal
          NoCores,     \* the score of a machine that reports no cores
          CacheTTL, BrowseTime

Info == [load : Nat, cpus : Nat, free : Nat]

\* A command, the machine it is pinned to, the free memory it asks for and the
\* peers named with --peer or KNIT_PEERS; the machines that are up, what they
\* report, and whether multicast reaches them; which other commands run, and
\* the bound on the time.
Scene == [op : {"run", "each", "proxy"}, on : Machines \cup {NoName}, mem : Nat,
          explicit : SUBSET Addrs, up : SUBSET Machines, infos : SUBSET Info,
          multicast : BOOLEAN, others : SUBSET Cmds, until : Nat]

ASSUME PlacementAssumption ==
  /\ Self \in Machines /\ NoName \notin Machines /\ Nowhere \notin Addrs
  /\ Link \in [Addrs -> Nat] /\ LocalLink \in Nat /\ \A a \in Addrs : Link[a] < LocalLink
  /\ Me \in Cmds /\ Scenes \subseteq Scene
  /\ Tie \in Nat /\ NoCores \in Nat
  /\ CacheTTL \in Nat /\ BrowseTime \in Nat

VARIABLES
  now,         \* the time
  scene,       \* what Me is, and where
  cache,       \* the cache file
  pc,          \* per command, where it is
  list,        \* per command, the discovered peers it goes by
  due,         \* per command, when its browse is over, or was
  left,        \* the addresses whose probe is not over
  named,       \* those of them known to be explicit
  told,        \* the failed probes that are reported
  cands,       \* the candidates
  kept,        \* those that meet the constraints, or the ranks
  next,        \* the candidate the loop looks at next
  best         \* the choice

world == <<now, scene>>
found == <<list, due>>
probes == <<left, named, told>>
choice == <<kept, next, best>>
mine == <<probes, cands, choice>>
vars == <<world, cache, pc, found, mine>>

\* A cache file that does not parse: one that is empty, or has a foreign tail.
Empty == [at |-> 0, peers |-> {}, whole |-> FALSE]
Torn == [Empty EXCEPT !.at = 1]

Remote(m, a, info) ==
  [name |-> m, addr |-> a, info |-> info, mbps |-> Link[a], local |-> FALSE]
Local(info) ==
  [name |-> Self, addr |-> Nowhere, info |-> info, mbps |-> LocalLink, local |-> TRUE]

Score(c) == IF c.info.cpus = 0 THEN NoCores ELSE c.info.load \div c.info.cpus

Init ==
  /\ now = 0 /\ scene \in Scenes
  /\ cache = Empty
  /\ pc = [c \in Cmds |-> "start"]
  /\ list = [c \in Cmds |-> {}] /\ due = [c \in Cmds |-> 0]
  /\ left = {} /\ named = {} /\ told = {}
  /\ cands = <<>> /\ kept = <<>> /\ next = 1
  /\ best = Local([load |-> 0, cpus |-> 0, free |-> 0])

Goto(c, l) == pc' = [pc EXCEPT ![c] = l]

-----------------------------------------------------------------------------
(* Finding peers: discovery.CachedBrowse and Fresh.                         *)

Relevant == pc[Me] \in {"start", "browse", "truncate", "write"}

Browse(c) ==
  /\ Goto(c, "browse")
  /\ list' = [list EXCEPT ![c] = {}] /\ due' = [due EXCEPT ![c] = now + BrowseTime]

\* knit run goes by the cache, the others browse every time.
CachedBrowse(c) ==
  /\ pc[c] = "start" /\ Relevant /\ c \in scene.others \cup {Me}
  /\ IF (c = Me => scene.op = "run") /\ cache.whole /\ now - cache.at <= CacheTTL
     THEN Goto(c, "gather") /\ list' = [list EXCEPT ![c] = cache.peers] /\ UNCHANGED due
     ELSE Browse(c)
  /\ UNCHANGED <<world, cache, mine>>

\* A machine announces itself with its addresses, of which one on a fastest
\* link is kept; it is not listed twice.
Hear(c, m, addrs) ==
  /\ pc[c] = "browse" /\ Relevant /\ scene.multicast /\ \A p \in list[c] : p.name # m
  /\ \E a \in addrs :
       /\ \A b \in addrs : Link[b] <= Link[a]
       /\ list' = [list EXCEPT ![c] = @ \cup {[name |-> m, addr |-> a, seen |-> now]}]
  /\ UNCHANGED <<world, cache, pc, due, mine>>

BrowseEnds(c) ==
  /\ pc[c] = "browse" /\ Relevant /\ now = due[c]
  /\ Goto(c, "truncate")
  /\ UNCHANGED <<world, cache, found, mine>>

\* os.WriteFile truncates the file and then writes it.
Truncate(c) ==
  /\ pc[c] = "truncate" /\ Relevant
  /\ cache' = Empty /\ Goto(c, "write")
  /\ UNCHANGED <<world, found, mine>>

\* Mutant: the file carries the time it is written.
WriteLate(c) ==
  /\ pc[c] = "write" /\ Relevant
  /\ \/ cache' = [at |-> now, peers |-> list[c], whole |-> TRUE]
     \/ cache # Empty /\ cache' = Torn
  /\ Goto(c, "gather")
  /\ UNCHANGED <<world, found, mine>>

\* The file carries the time the browse ended.  Written over what another
\* command wrote since, it may keep the tail of a longer text.
Write(c) ==
  /\ pc[c] = "write" /\ Relevant
  /\ \/ cache' = [at |-> due[c], peers |-> list[c], whole |-> TRUE]
     \/ cache # Empty /\ cache' = Torn
  /\ Goto(c, "gather")
  /\ UNCHANGED <<world, found, mine>>

\* Errors are ignored, whatever they leave of the file; a command that is
\* interrupted leaves the same.
WriteFails(c) ==
  /\ pc[c] \in {"truncate", "write"} /\ Relevant
  /\ Goto(c, "gather")
  /\ UNCHANGED <<world, cache, found, mine>>

-----------------------------------------------------------------------------
(* Probing them: gatherPeers, probeForRun and probePeers.                   *)

\* An address that is both discovered and explicit counts as discovered.
Gather ==
  /\ pc[Me] = "gather" /\ Goto(Me, "probe")
  /\ LET mdns == {p.addr : p \in {q \in list[Me] : q.name # Self}}
     IN left' = mdns \cup scene.explicit /\ named' = scene.explicit \ mdns
  /\ UNCHANGED <<world, cache, found, told, cands, choice>>

\* Candidates are in the order of the replies, named as the reply says.
Reply(a, m, info) ==
  /\ pc[Me] = "probe" /\ a \in left
  /\ cands' = Append(cands, Remote(m, a, info))
  /\ left' = left \ {a}
  /\ UNCHANGED <<world, cache, pc, found, named, told, choice>>

\* Mutant: discovered peers are reported too.
MissTold(a) ==
  /\ pc[Me] = "probe" /\ a \in left
  /\ left' = left \ {a}
  /\ told' = IF scene.op = "proxy" THEN told \cup {a} ELSE told
  /\ UNCHANGED <<world, cache, pc, found, named, cands, choice>>

\* No answer in time, or a refusal.  Only knit proxy, and gauge, report it.
Miss(a) ==
  /\ pc[Me] = "probe" /\ a \in left
  /\ left' = left \ {a}
  /\ told' = IF scene.op = "proxy" THEN told \cup ({a} \cap named) ELSE told
  /\ UNCHANGED <<world, cache, pc, found, named, cands, choice>>

Probed(op) == pc[Me] = "probe" /\ left = {} /\ scene.op = op

-----------------------------------------------------------------------------
(* Deciding: Run with scheduler.Filter, ByName and Pick.                    *)

RunProbed(info) ==
  /\ Probed("run") /\ Goto(Me, "filter")
  /\ cands' = <<Local(info)>> \o cands
  /\ UNCHANGED <<world, cache, found, probes, choice>>

Filter ==
  /\ pc[Me] = "filter" /\ next <= Len(cands)
  /\ next' = next + 1
  /\ kept' = IF cands[next].info.free >= scene.mem THEN Append(kept, cands[next]) ELSE kept
  /\ UNCHANGED <<world, cache, pc, found, probes, cands, best>>

\* The first candidate of the name wins.
ByName(s) ==
  \/ \E k \in DOMAIN s :
       /\ s[k].name = scene.on /\ \A l \in 1..(k - 1) : s[l].name # scene.on
       /\ best' = s[k] /\ Goto(Me, "placed")
  \/ /\ \A k \in DOMAIN s : s[k].name # scene.on
     /\ Goto(Me, "refused") /\ UNCHANGED best

Filtered ==
  /\ pc[Me] = "filter" /\ next > Len(cands) /\ next' = 2
  /\ \/ kept = <<>> /\ Goto(Me, "refused") /\ UNCHANGED best
     \/ kept # <<>> /\ scene.on # NoName /\ ByName(kept)
     \/ kept # <<>> /\ scene.on = NoName /\ Goto(Me, "pick") /\ best' = kept[1]
  /\ UNCHANGED <<world, cache, found, probes, cands, kept>>

\* Mutants: an unclear lead is enough; the fastest link wins; the tie is doubled.
BeatsUnclear(x, b) == Score(x) < Score(b) \/ (Score(x) <= Score(b) + Tie /\ x.mbps > b.mbps)
BeatsByLink(x, b) == x.mbps > b.mbps \/ Score(x) < Score(b) - Tie
BeatsWidely(x, b) == Score(x) < Score(b) - Tie \/ (Score(x) <= Score(b) + 2 * Tie /\ x.mbps > b.mbps)

\* x beats b: it is clearly less loaded, or tied with a faster link.
Beats(x, b) ==
  \/ Score(x) < Score(b) - Tie
  \/ Score(x) <= Score(b) + Tie /\ x.mbps > b.mbps

Pick ==
  /\ pc[Me] = "pick" /\ next <= Len(kept)
  /\ next' = next + 1
  /\ best' = IF Beats(kept[next], best) THEN kept[next] ELSE best
  /\ UNCHANGED <<world, cache, pc, found, probes, cands, kept>>

Picked ==
  /\ pc[Me] = "pick" /\ next > Len(kept) /\ Goto(Me, "placed")
  /\ UNCHANGED <<world, cache, found, probes, cands, choice>>

-----------------------------------------------------------------------------
(* Deciding: Each's ranks and the proxy's peer.                             *)

\* sort.SliceStable by score.
Ranked(s) ==
  LET Before(j, k) == Score(s[j]) < Score(s[k]) \/ (Score(s[j]) = Score(s[k]) /\ j <= k)
  IN [r \in DOMAIN s |->
        s[CHOOSE k \in DOMAIN s : Cardinality({j \in DOMAIN s : Before(j, k)}) = r]]

EachProbed ==
  /\ Probed("each") /\ Goto(Me, "placed")
  /\ kept' = Ranked(cands)
  /\ UNCHANGED <<world, cache, found, probes, cands, next, best>>

pickProxyPeer ==
  /\ Probed("proxy")
  /\ \/ scene.on # NoName /\ ByName(cands)
     \/ scene.on = NoName /\ Len(cands) = 1 /\ Goto(Me, "placed") /\ best' = cands[1]
     \/ scene.on = NoName /\ Len(cands) # 1 /\ Goto(Me, "refused") /\ UNCHANGED best
  /\ UNCHANGED <<world, cache, found, probes, cands, kept, next>>

-----------------------------------------------------------------------------
\* A browse ends, and its end is noted, in time.
Tick ==
  /\ now < scene.until /\ Relevant /\ \A c \in Cmds : pc[c] = "browse" => now < due[c]
  /\ now' = now + 1
  /\ UNCHANGED <<scene, cache, pc, found, mine>>

discovery(c) ==
  \/ CachedBrowse(c) \/ BrowseEnds(c)
  \/ (\E m \in scene.up : \E addrs \in SUBSET Addrs : Hear(c, m, addrs))
  \/ Truncate(c) \/ Write(c) \/ WriteFails(c)

probe ==
  \/ Gather
  \/ \E a \in Addrs :
       Miss(a) \/ \E m \in scene.up : \E info \in scene.infos : Reply(a, m, info)

decide ==
  \/ (\E info \in scene.infos : RunProbed(info)) \/ Filter \/ Filtered \/ Pick \/ Picked
  \/ EachProbed \/ pickProxyPeer

Next ==
  \/ \E c \in Cmds : discovery(c)
  \/ probe
  \/ decide
  \/ Tick

Spec == Init /\ [][Next]_vars

-----------------------------------------------------------------------------
Candidates ==
  [name : Machines, addr : Addrs \cup {Nowhere}, info : Info, mbps : Nat, local : BOOLEAN]
Peer == [name : Machines, addr : Addrs, seen : Nat]

\* Every variable stays in its range.
TypeOK ==
  /\ now \in 0..scene.until /\ scene \in Scene
  /\ cache \in [at : Nat, peers : SUBSET Peer, whole : BOOLEAN]
  /\ pc \in [Cmds -> {"start", "browse", "truncate", "write", "gather", "probe",
                      "filter", "pick", "placed", "refused"}]
  /\ list \in [Cmds -> SUBSET Peer] /\ due \in [Cmds -> Nat]
  /\ left \subseteq Addrs /\ named \subseteq Addrs /\ told \subseteq scene.explicit
  /\ cands \in Seq(Candidates) /\ kept \in Seq(Candidates)
  /\ next \in Nat \ {0} /\ best \in Candidates

\* An address taken from the cache was announced no longer ago than the TTL and
\* one browse together, although commands overwrite each other's file, die in
\* the middle of it, and write it some time after their browse (cache.go:11
\* "bounds how long a cached peer list is reused").
CacheFresh ==
  [][\A c \in Cmds : pc[c] = "start" /\ pc'[c] = "gather" =>
        \A p \in list'[c] : now - p.seen <= CacheTTL + BrowseTime]_pc

\* The command is placed by score.
Scheduled == pc[Me] = "placed" /\ scene.op = "run" /\ scene.on = NoName

\* A machine that is clearly less loaded than every other wins, whatever the
\* links and the order of the replies (site guides/placement.md:57 "A machine
\* that is clearly less loaded always wins regardless of link").
ClearWinner ==
  Scheduled => \A k \in DOMAIN kept :
    (\A l \in DOMAIN kept \ {k} : Score(kept[l]) > Score(kept[k]) + Tie) => best = kept[k]

\* A command leaves this machine, if it meets the constraints, only when some
\* candidate is clearly less loaded (scheduler.go:31-33).
StaysHome ==
  Scheduled /\ kept[1].local /\ ~best.local =>
    \E k \in DOMAIN kept : Score(kept[k]) < Score(kept[1]) - Tie

\* Ties are not transitive, so a chain of them may lead away from the least
\* loaded candidate, but by no more than one tie per further candidate.
DriftBounded ==
  Scheduled => \A k \in DOMAIN kept :
    Score(best) <= Score(kept[k]) + Tie * (Len(kept) - 1)

\* A command leaves this machine only for one that is clearly less loaded than
\* this one (scheduler.go:33 "a true tie prefers staying local").
TieStaysHome ==
  Scheduled /\ kept[1].local /\ ~best.local => Score(best) < Score(kept[1]) - Tie

\* A peer the user named that cannot be used is reported (client.go:99-101 "a
\* peer the user typed deserves an explanation").
NamedExplained ==
  pc[Me] = "placed" =>
    \A a \in scene.explicit : a \in told \/ \E k \in DOMAIN cands : cands[k].addr = a

\* knit each gives every machine one rank (each.go:20 "runs cmd on every
\* machine at once").
OneRankEach ==
  pc[Me] = "placed" /\ scene.op = "each" =>
    \A j, k \in DOMAIN kept : kept[j].name = kept[k].name => j = k

=============================================================================
