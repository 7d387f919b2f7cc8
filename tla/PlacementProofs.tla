-------------------------- MODULE PlacementProofs ---------------------------
(***************************************************************************)
(* What the scheduler's single pass over the candidates finds, for any      *)
(* number of them, in any order, with any loads, links and tie.             *)
(***************************************************************************)
EXTENDS Placement, FiniteSetTheorems, TLAPS

\* Candidates have the link their place says: only this machine's is as fast.
Linked == {c \in Candidates : c.mbps <= LocalLink /\ (c.local => c.mbps = LocalLink)}

Early == {"start", "browse", "truncate", "write", "gather", "probe"}
Labels == Early \cup {"filter", "pick", "placed", "refused"}

\* What is known up to the pass: the loops are Run's, and start afresh.
Typed ==
  /\ scene \in Scene /\ pc \in [Cmds -> Labels] /\ cands \in Seq(Linked)
  /\ pc[Me] \in Early => kept = <<>> /\ next = 1
  /\ pc[Me] \in {"filter", "pick"} \/ Scheduled => scene.op = "run" /\ kept \in Seq(Linked)
  /\ pc[Me] = "filter" => next \in Nat \ {0}

\* Candidate k is clearly less loaded than every other.
Clear(k) == \A l \in DOMAIN kept \ {k} : Score(kept[l]) > Score(kept[k]) + Tie

\* The pass, when it has looked at the candidates before next.
Chosen ==
  /\ next \in 2..(Len(kept) + 1)
  /\ \E j \in 1..(next - 1) : best = kept[j]
  /\ \A k \in 1..(next - 1) : Clear(k) => best = kept[k]
  /\ \A k \in 1..(next - 1) : Score(best) <= Score(kept[k]) + Tie * (next - 2)
  /\ kept[1].local =>
       best = kept[1] \/ \E k \in 1..(next - 1) : Score(kept[k]) < Score(kept[1]) - Tie

Passed ==
  /\ pc[Me] = "pick" => Chosen /\ scene.on = NoName
  /\ Scheduled => Chosen /\ next = Len(kept) + 1

IInv == Typed /\ Passed

LEMMA ScoreInt == ASSUME NEW c \in Candidates PROVE Score(c) \in Int
BY PlacementAssumption DEF Candidates, Info, Score

-----------------------------------------------------------------------------
\* One look at one more candidate.
LEMMA PickStep ==
  ASSUME Chosen, kept \in Seq(Linked), Pick
  PROVE  Chosen'
<1> DEFINE drift == Tie * (next - 2)
<1>1. next \in 2..Len(kept) /\ next' = next + 1 /\ kept' = kept
  BY DEF Pick, Chosen
<1>2. \A k \in 1..Len(kept) : kept[k] \in Linked /\ Score(kept[k]) \in Int
  BY ScoreInt DEF Linked
<1>3. PICK j \in 1..(next - 1) : best = kept[j]
  BY DEF Chosen
<1>4. best' = (IF Beats(kept[next], best) THEN kept[next] ELSE best)
  BY DEF Pick
<1>5. Tie \in Nat /\ Score(best) \in Int /\ Score(kept[next]) \in Int
  BY <1>1, <1>2, <1>3, PlacementAssumption
<1>6. drift \in Nat /\ Tie * (next' - 2) = drift + Tie
  <2>1. next - 2 \in Nat /\ next' - 2 = (next - 2) + 1
    BY <1>1
  <2>2. \A m, n \in Nat : m * n \in Nat /\ m * (n + 1) = m * n + m
    OBVIOUS
  <2> QED
    BY <2>1, <2>2, <1>5
<1> HIDE DEF drift
<1>7. \E i \in 1..(next' - 1) : best' = kept'[i]
  BY <1>1, <1>3, <1>4
<1>8. ASSUME NEW k \in 1..(next' - 1), Clear(k)' PROVE best' = kept'[k]
  <2>1. Clear(k)
    BY <1>1, <1>8 DEF Clear, Score
  <2>2. CASE k = next
    <3>1. Score(best) > Score(kept[next]) + Tie
      BY <1>1, <1>3, <2>1, <2>2 DEF Clear
    <3> QED
      BY <1>1, <1>4, <1>5, <2>2, <3>1 DEF Beats
  <2>3. CASE k # next
    <3>1. best = kept[k]
      BY <1>1, <2>1, <2>3 DEF Chosen
    <3>2. Score(kept[next]) > Score(best) + Tie
      BY <1>1, <2>1, <2>3, <3>1 DEF Clear
    <3> QED
      BY <1>1, <1>4, <1>5, <3>1, <3>2 DEF Beats
  <2> QED
    BY <2>2, <2>3
<1>9. ASSUME NEW k \in 1..(next' - 1)
      PROVE  Score(best') <= Score(kept'[k]) + Tie * (next' - 2)
  <2>1. CASE k = next
    <3>1. Score(best') <= Score(kept[next]) + Tie
      BY <1>4, <1>5 DEF Beats
    <3>2. Score(best') \in Int
      BY <1>4, <1>5
    <3> QED
      BY <1>1, <1>5, <1>6, <2>1, <3>1, <3>2
  <2>2. CASE k # next
    <3>1. Score(best') <= Score(best) + Tie /\ Score(best') \in Int
      BY <1>4, <1>5 DEF Beats
    <3>2. Score(best) <= Score(kept[k]) + drift /\ Score(kept[k]) \in Int
      BY <1>1, <1>2, <2>2 DEF Chosen, drift
    <3> QED
      BY <1>1, <1>5, <1>6, <3>1, <3>2
  <2> QED
    BY <2>1, <2>2
<1>10. ASSUME kept'[1].local
       PROVE  best' = kept'[1] \/ \E k \in 1..(next' - 1) : Score(kept'[k]) < Score(kept'[1]) - Tie
  <2>1. CASE best = kept[1] /\ Beats(kept[next], best)
    <3>1. ~(kept[next].mbps > best.mbps)
      BY <1>1, <1>2, <1>10, <2>1, PlacementAssumption DEF Linked, Candidates
    <3>2. Score(kept[next]) < Score(kept[1]) - Tie
      BY <2>1, <3>1 DEF Beats
    <3> QED
      BY <1>1, <3>2
  <2>2. CASE best = kept[1] /\ ~Beats(kept[next], best)
    BY <1>1, <1>4, <2>2
  <2>3. CASE best # kept[1]
    <3>1. PICK k \in 1..(next - 1) : Score(kept[k]) < Score(kept[1]) - Tie
      BY <1>1, <1>10, <2>3 DEF Chosen
    <3> QED
      BY <1>1, <3>1
  <2> QED
    BY <2>1, <2>2, <2>3
<1> QED
  BY <1>1, <1>7, <1>8, <1>9, <1>10 DEF Chosen

\* The pass begins with the first candidate.
LEMMA PassBegins ==
  ASSUME kept \in Seq(Linked), kept # <<>>, next' = 2, kept' = kept, best' = kept[1]
  PROVE  Chosen'
<1>1. Len(kept) \in Nat /\ Len(kept) >= 1 /\ kept[1] \in Linked
  OBVIOUS
<1>2. Score(kept[1]) \in Int /\ Tie * (next' - 2) = 0
  BY <1>1, ScoreInt, PlacementAssumption DEF Linked
<1>3. 1..(next' - 1) = {1}
  OBVIOUS
<1> QED
  BY <1>1, <1>2, <1>3 DEF Chosen

-----------------------------------------------------------------------------
LEMMA Moves ==
  ASSUME pc \in [Cmds -> Labels], NEW c \in Cmds, NEW l \in Labels, Goto(c, l)
  PROVE  /\ pc' \in [Cmds -> Labels] /\ pc'[c] = l
         /\ \A d \in Cmds \ {c} : pc'[d] = pc[d]
BY DEF Goto

\* What is found does not touch what was decided.
LEMMA Untouched ==
  ASSUME IInv, UNCHANGED <<scene, choice>>, cands' \in Seq(Linked), pc' \in [Cmds -> Labels],
         pc'[Me] = pc[Me] \/ (pc[Me] \in Early /\ pc'[Me] \in Early)
  PROVE  IInv'
<1>1. scene' = scene /\ kept' = kept /\ next' = next /\ best' = best
  BY DEF choice
<1>2. Chosen' <=> Chosen
  BY <1>1 DEF Chosen, Clear, Score
<1>3. pc[Me] \in Early => pc[Me] \notin {"filter", "pick", "placed"}
  BY DEF Early
<1>4. pc'[Me] \in Early => pc'[Me] \notin {"filter", "pick", "placed"}
  BY DEF Early
<1> QED
  BY <1>1, <1>2, <1>3, <1>4 DEF IInv, Typed, Passed, Scheduled

LEMMA InitInv == Init => IInv
<1> SUFFICES ASSUME Init PROVE IInv
  OBVIOUS
<1>1. pc \in [Cmds -> Labels] /\ pc[Me] = "start" /\ scene \in Scene
  BY PlacementAssumption DEF Init, Labels, Early
<1>2. cands \in Seq(Linked) /\ kept = <<>> /\ next = 1
  BY DEF Init
<1> QED
  BY <1>1, <1>2 DEF IInv, Typed, Passed, Early, Scheduled

LEMMA DiscoveryStep == ASSUME IInv, NEW c \in Cmds, discovery(c) PROVE IInv'
<1>1. UNCHANGED <<scene, choice>> /\ cands' = cands
  BY DEF discovery, CachedBrowse, Browse, Hear, BrowseEnds, Truncate, Write, WriteFails,
         world, found, mine
<1>2. pc \in [Cmds -> Labels] /\ cands \in Seq(Linked) /\ Me \in Cmds
  BY PlacementAssumption DEF IInv, Typed
<1>3. pc' = pc \/ \E l \in Early : pc[c] \in Early /\ Goto(c, l)
  BY DEF discovery, CachedBrowse, Browse, Hear, BrowseEnds, Truncate, Write, WriteFails, Early
<1>4. pc' \in [Cmds -> Labels] /\ (pc'[Me] = pc[Me] \/ (pc[Me] \in Early /\ pc'[Me] \in Early))
  BY <1>2, <1>3, Moves DEF Labels
<1> QED
  BY <1>1, <1>2, <1>4, Untouched

LEMMA ProbeStep == ASSUME IInv, probe PROVE IInv'
<1>1. UNCHANGED <<scene, choice>> /\ pc \in [Cmds -> Labels] /\ cands \in Seq(Linked) /\ Me \in Cmds
  BY PlacementAssumption DEF probe, Gather, Reply, Miss, world, IInv, Typed
<1>2. CASE Gather
  <2>1. pc' \in [Cmds -> Labels] /\ pc[Me] = "gather" /\ pc'[Me] = "probe" /\ cands' = cands
    BY <1>1, <1>2, Moves DEF Gather, Labels, Early
  <2> QED
    BY <1>1, <2>1, Untouched DEF Early
<1>3. ASSUME NEW a \in Addrs, Miss(a) PROVE IInv'
  BY <1>1, <1>3, Untouched DEF Miss
<1>4. ASSUME NEW a \in Addrs, NEW m \in scene.up, NEW info \in scene.infos, Reply(a, m, info)
      PROVE  IInv'
  <2>1. m \in Machines /\ info \in Info
    BY DEF IInv, Typed, Scene
  <2>2. Remote(m, a, info) \in Linked
    BY <2>1, PlacementAssumption DEF Remote, Linked, Candidates
  <2>3. cands' \in Seq(Linked) /\ pc' = pc
    BY <1>1, <1>4, <2>2 DEF Reply
  <2> QED
    BY <1>1, <2>3, Untouched
<1> QED
  BY <1>2, <1>3, <1>4 DEF probe

LEMMA DecideStep == ASSUME IInv, decide PROVE IInv'
<1>1. scene' = scene /\ scene \in Scene /\ pc \in [Cmds -> Labels] /\ Me \in Cmds /\ cands \in Seq(Linked)
  BY PlacementAssumption
     DEF decide, RunProbed, Filter, Filtered, Pick, Picked, EachProbed, pickProxyPeer,
         world, IInv, Typed
<1>2. ASSUME NEW info \in scene.infos, RunProbed(info) PROVE IInv'
  <2>1. Local(info) \in Linked
    BY <1>1, PlacementAssumption DEF Scene, Local, Linked, Candidates
  <2>2. cands' \in Seq(Linked)
    BY <1>1, <1>2, <2>1 DEF RunProbed
  <2>3. pc[Me] = "probe" /\ pc' \in [Cmds -> Labels] /\ pc'[Me] = "filter" /\ scene.op = "run"
    BY <1>1, <1>2, Moves DEF RunProbed, Probed, Labels
  <2>4. kept' = <<>> /\ next' = 1
    BY <1>2, <2>3 DEF RunProbed, choice, IInv, Typed, Early
  <2> QED
    BY <1>1, <2>2, <2>3, <2>4 DEF IInv, Typed, Passed, Scheduled, Early
<1>3. CASE Filter
  <2>1. pc[Me] = "filter" /\ pc' = pc /\ cands' = cands /\ next' = next + 1
    BY <1>3 DEF Filter
  <2>2. next \in 1..Len(cands) /\ kept \in Seq(Linked)
    BY <1>1, <1>3, <2>1 DEF Filter, IInv, Typed
  <2>3. kept' \in Seq(Linked)
    <3>1. cands[next] \in Linked
      BY <1>1, <2>2
    <3> QED
      BY <1>3, <2>2, <3>1 DEF Filter
  <2> QED
    BY <1>1, <2>1, <2>2, <2>3 DEF IInv, Typed, Passed, Scheduled, Early
<1>4. CASE Filtered
  <2>1. pc[Me] = "filter" /\ scene.op = "run" /\ kept \in Seq(Linked) /\ kept' = kept
        /\ cands' = cands /\ next' = 2
    BY <1>4 DEF Filtered, IInv, Typed
  <2>2. CASE kept # <<>> /\ scene.on = NoName /\ Goto(Me, "pick") /\ best' = kept[1]
    <3>1. Chosen' /\ pc' \in [Cmds -> Labels] /\ pc'[Me] = "pick"
      BY <1>1, <2>1, <2>2, PassBegins, Moves DEF Labels
    <3> QED
      BY <1>1, <2>1, <2>2, <3>1 DEF IInv, Typed, Passed, Scheduled, Early
  <2>3. CASE Goto(Me, "refused") \/ (Goto(Me, "placed") /\ scene.on # NoName)
    <3>1. pc' \in [Cmds -> Labels] /\ pc'[Me] \in {"refused", "placed"} /\ ~Scheduled'
      BY <1>1, <2>3, Moves DEF Labels, Scheduled
    <3> QED
      BY <1>1, <2>1, <3>1 DEF IInv, Typed, Passed, Early
  <2> QED
    BY <1>4, <2>2, <2>3 DEF Filtered, ByName
<1>5. CASE Pick
  <2>1. pc[Me] = "pick" /\ pc' = pc /\ cands' = cands /\ kept' = kept /\ scene.on = NoName
        /\ scene.op = "run" /\ kept \in Seq(Linked)
    BY <1>5 DEF Pick, IInv, Typed, Passed
  <2>2. Chosen'
    BY <1>5, <2>1, PickStep DEF IInv, Passed
  <2> QED
    BY <1>1, <2>1, <2>2 DEF IInv, Typed, Passed, Scheduled, Early
<1>6. CASE Picked
  <2>1. pc[Me] = "pick" /\ pc' \in [Cmds -> Labels] /\ pc'[Me] = "placed" /\ cands' = cands
        /\ kept' = kept /\ next' = next /\ best' = best /\ next > Len(kept)
    BY <1>1, <1>6, Moves DEF Picked, Labels, choice
  <2>2. Chosen /\ scene.op = "run" /\ kept \in Seq(Linked)
    BY <2>1 DEF IInv, Typed, Passed
  <2>3. Chosen' /\ next = Len(kept) + 1
    BY <2>1, <2>2 DEF Chosen, Clear, Score
  <2> QED
    BY <1>1, <2>1, <2>2, <2>3 DEF IInv, Typed, Passed, Scheduled, Early
<1>7. CASE EachProbed
  <2>1. pc' \in [Cmds -> Labels] /\ pc'[Me] = "placed" /\ scene.op = "each" /\ cands' = cands
    BY <1>1, <1>7, Moves DEF EachProbed, Probed, Labels
  <2> QED
    BY <1>1, <2>1 DEF IInv, Typed, Passed, Scheduled, Early
<1>8. CASE pickProxyPeer
  <2>1. scene.op = "proxy" /\ cands' = cands /\ (Goto(Me, "placed") \/ Goto(Me, "refused"))
    BY <1>8 DEF pickProxyPeer, ByName, Probed
  <2>2. pc' \in [Cmds -> Labels] /\ pc'[Me] \in {"placed", "refused"}
    BY <1>1, <2>1, Moves DEF Labels
  <2> QED
    BY <1>1, <2>1, <2>2 DEF IInv, Typed, Passed, Scheduled, Early
<1> QED
  BY <1>2, <1>3, <1>4, <1>5, <1>6, <1>7, <1>8 DEF decide

\* The single pass, and what leads to it.
THEOREM Invariant == Spec => []IInv
<1>1. ASSUME IInv, [Next]_vars PROVE IInv'
  <2>1. CASE UNCHANGED vars
    BY <1>1, <2>1, Untouched DEF vars, world, mine, IInv, Typed
  <2>2. CASE Tick
    BY <1>1, <2>2, Untouched DEF Tick, mine, IInv, Typed
  <2> QED
    BY <1>1, <2>1, <2>2, DiscoveryStep, ProbeStep, DecideStep DEF Next
<1> QED
  BY InitInv, <1>1, PTL DEF Spec

\* A machine that is clearly less loaded than every other is chosen
\* (ClearWinner, scheduler.go Pick).
THEOREM ClearlyLessLoadedWins == Spec => []ClearWinner
<1>1. IInv => ClearWinner
  <2> SUFFICES ASSUME IInv, Scheduled, NEW k \in DOMAIN kept, Clear(k) PROVE best = kept[k]
    BY DEF ClearWinner, Clear
  <2>1. Chosen /\ next = Len(kept) + 1 /\ k \in 1..(next - 1)
    BY DEF IInv, Passed, Typed
  <2> QED
    BY <2>1 DEF Chosen
<1> QED
  BY <1>1, Invariant, PTL

\* A command leaves this machine only when some candidate is clearly less loaded
\* than it (StaysHome, scheduler.go Pick).
THEOREM HomeUnlessClear == Spec => []StaysHome
<1>1. IInv => StaysHome
  <2> SUFFICES ASSUME IInv, Scheduled, kept[1].local, ~best.local
               PROVE  \E k \in DOMAIN kept : Score(kept[k]) < Score(kept[1]) - Tie
    BY DEF StaysHome
  <2>1. Chosen /\ next = Len(kept) + 1 /\ kept \in Seq(Linked)
    BY DEF IInv, Passed, Typed
  <2> QED
    BY <2>1 DEF Chosen
<1> QED
  BY <1>1, Invariant, PTL

\* A chain of ties leads no further from the least loaded candidate than one tie
\* for each candidate but the first (DriftBounded, scheduler.go Pick).
THEOREM TiesDriftBounded == Spec => []DriftBounded
<1>1. IInv => DriftBounded
  <2> SUFFICES ASSUME IInv, Scheduled, NEW k \in DOMAIN kept
               PROVE  Score(best) <= Score(kept[k]) + Tie * (Len(kept) - 1)
    BY DEF DriftBounded
  <2>1. Chosen /\ next = Len(kept) + 1 /\ kept \in Seq(Linked)
    BY DEF IInv, Passed, Typed
  <2>2. next - 2 = Len(kept) - 1 /\ k \in 1..(next - 1)
    BY <2>1
  <2> QED
    BY <2>1, <2>2 DEF Chosen
<1> QED
  BY <1>1, Invariant, PTL

-----------------------------------------------------------------------------
\* The cache and the lists commands gather: nothing in them was announced
\* earlier than one browse before the time that goes with it.
FreshTyped ==
  /\ now \in Nat /\ due \in [Cmds -> Nat] /\ list \in [Cmds -> SUBSET Peer]
  /\ cache \in [at : Nat, peers : SUBSET Peer, whole : BOOLEAN]
FreshLists ==
  \A c \in Cmds :
    /\ pc[c] = "browse" => due[c] <= now + BrowseTime
    /\ pc[c] \in {"browse", "truncate", "write"} =>
         \A p \in list[c] : due[c] <= p.seen + BrowseTime
FreshCache == cache.whole => \A p \in cache.peers : cache.at <= p.seen + BrowseTime
Fresh == FreshTyped /\ FreshLists /\ FreshCache

LEMMA InitFresh == Init => Fresh
BY PlacementAssumption DEF Init, Fresh, FreshTyped, FreshLists, FreshCache, Empty

LEMMA DiscoveryFresh ==
  ASSUME Typed, Fresh, NEW c \in Cmds, discovery(c)
  PROVE  /\ Fresh'
         /\ pc[c] = "start" /\ pc'[c] = "gather" =>
              \A p \in list'[c] : now - p.seen <= CacheTTL + BrowseTime
         /\ \A d \in Cmds \ {c} : pc'[d] = pc[d]
<1> USE PlacementAssumption DEF Fresh, FreshTyped, FreshLists, FreshCache
<1>1. pc \in [Cmds -> Labels] /\ BrowseTime \in Nat /\ CacheTTL \in Nat
  BY DEF Typed
<1>2. CASE CachedBrowse(c)
  <2>1. CASE Goto(c, "gather") /\ list' = [list EXCEPT ![c] = cache.peers] /\ due' = due
             /\ cache.whole /\ now - cache.at <= CacheTTL
    <3>1. now' = now /\ cache' = cache /\ pc' = [pc EXCEPT ![c] = "gather"]
      BY <1>2, <2>1 DEF CachedBrowse, world, Goto
    <3>2. \A p \in cache.peers : p.seen \in Nat /\ cache.at <= p.seen + BrowseTime
      BY <2>1 DEF Peer
    <3> QED
      BY <1>1, <2>1, <3>1, <3>2
  <2>2. CASE Browse(c)
    <3>1. now' = now /\ cache' = cache /\ pc' = [pc EXCEPT ![c] = "browse"]
          /\ list' = [list EXCEPT ![c] = {}] /\ due' = [due EXCEPT ![c] = now + BrowseTime]
      BY <1>2, <2>2 DEF CachedBrowse, Browse, world, Goto
    <3> QED
      BY <1>1, <3>1
  <2> QED
    BY <1>2, <2>1, <2>2 DEF CachedBrowse
<1>3. ASSUME NEW m \in scene.up, NEW addrs \in SUBSET Addrs, Hear(c, m, addrs)
      PROVE  Fresh' /\ pc' = pc /\ pc[c] = "browse"
  <2>1. PICK a \in addrs : list' = [list EXCEPT ![c] = @ \cup {[name |-> m, addr |-> a, seen |-> now]}]
    BY <1>3 DEF Hear
  <2>2. [name |-> m, addr |-> a, seen |-> now] \in Peer
    BY DEF Typed, Scene, Peer
  <2>3. UNCHANGED <<now, cache, pc, due>> /\ pc[c] = "browse"
    BY <1>3 DEF Hear, world
  <2> QED
    BY <1>1, <2>1, <2>2, <2>3 DEF Peer
<1>4. CASE BrowseEnds(c) \/ WriteFails(c)
  BY <1>1, <1>4 DEF BrowseEnds, WriteFails, Goto, world, found
<1>5. CASE Truncate(c)
  BY <1>1, <1>5 DEF Truncate, Goto, world, found, Empty
<1>6. CASE Write(c)
  <2>1. now' = now /\ list' = list /\ due' = due /\ pc[c] = "write"
        /\ pc' = [pc EXCEPT ![c] = "gather"]
    BY <1>6 DEF Write, Goto, world, found
  <2>2. CASE cache' = [at |-> due[c], peers |-> list[c], whole |-> TRUE]
    BY <1>1, <2>1, <2>2
  <2>3. CASE cache' = Torn
    BY <1>1, <2>1, <2>3 DEF Torn, Empty
  <2> QED
    BY <1>6, <2>2, <2>3 DEF Write
<1> QED
  BY <1>1, <1>2, <1>3, <1>4, <1>5, <1>6 DEF discovery

LEMMA OthersFresh ==
  ASSUME Typed, Fresh, probe \/ decide \/ Tick \/ UNCHANGED vars
  PROVE  Fresh' /\ (pc' = pc \/ pc[Me] # "start")
<1>1. UNCHANGED <<list, due, cache>> /\ now' \in {now, now + 1}
  BY DEF probe, decide, Gather, Miss, Reply, RunProbed, Filter, Filtered, Pick, Picked,
         EachProbed, pickProxyPeer, Tick, vars, world, found
<1>2. pc' = pc \/ /\ pc[Me] \in {"gather", "probe", "filter", "pick"}
                  /\ \E l \in {"probe", "filter", "pick", "placed", "refused"} : Goto(Me, l)
  BY DEF probe, decide, Gather, Miss, Reply, RunProbed, Filter, Filtered, Pick, Picked,
         EachProbed, pickProxyPeer, ByName, Probed, Tick, vars
<1>3. \A c \in Cmds : pc'[c] \in {"start", "browse", "truncate", "write"} => pc'[c] = pc[c]
  BY <1>2 DEF Goto, Typed
<1>4. now \in Nat /\ due \in [Cmds -> Nat] /\ BrowseTime \in Nat
  BY PlacementAssumption DEF Fresh, FreshTyped
<1>5. FreshLists'
  BY <1>1, <1>3, <1>4 DEF Fresh, FreshLists
<1> QED
  BY <1>1, <1>2, <1>5 DEF Fresh, FreshTyped, FreshCache

\* A list of peers taken from the cache is no older than the TTL and a browse,
\* however many commands overwrite the file (CacheFresh, cache.go CachedBrowse).
THEOREM CacheNeverStale == Spec => CacheFresh
<1>1. ASSUME IInv, Fresh, [Next]_vars
      PROVE  /\ Fresh'
             /\ [\A c \in Cmds : pc[c] = "start" /\ pc'[c] = "gather" =>
                   \A p \in list'[c] : now - p.seen <= CacheTTL + BrowseTime]_pc
  <2>1. Typed
    BY <1>1 DEF IInv
  <2>2. ASSUME NEW d \in Cmds, discovery(d)
        PROVE  /\ Fresh'
               /\ \A c \in Cmds : pc[c] = "start" /\ pc'[c] = "gather" =>
                    \A p \in list'[c] : now - p.seen <= CacheTTL + BrowseTime
    BY <1>1, <2>1, <2>2, DiscoveryFresh
  <2>3. CASE probe \/ decide \/ Tick \/ UNCHANGED vars
    <3>1. Fresh' /\ (pc' = pc \/ pc[Me] # "start")
      BY <1>1, <2>1, <2>3, OthersFresh
    <3>2. pc' = pc \/ \E l \in Labels : Goto(Me, l)
      BY <2>3 DEF probe, decide, Gather, Miss, Reply, RunProbed, Filter, Filtered, Pick, Picked,
                  EachProbed, pickProxyPeer, ByName, Tick, vars, Labels, Early
    <3>3. \A c \in Cmds \ {Me} : pc'[c] = pc[c]
      BY <2>1, <3>2 DEF Goto, Typed
    <3> QED
      BY <3>1, <3>3
  <2> QED
    BY <1>1, <2>2, <2>3 DEF Next
<1> QED
  BY InitFresh, Invariant, <1>1, PTL DEF Spec, CacheFresh

-----------------------------------------------------------------------------
(***************************************************************************)
(* Ranks: what sorting the candidates by score, in a stable way, gives.     *)
(***************************************************************************)

\* The candidates of s that come no later than k, counted by k's rank.
UpTo(s, k) ==
  {j \in DOMAIN s : Score(s[j]) < Score(s[k]) \/ (Score(s[j]) = Score(s[k]) /\ j <= k)}
Rank(s, k) == Cardinality(UpTo(s, k))

LEMMA FirstCount ==
  ASSUME NEW n \in Nat
  PROVE  IsFiniteSet(1..n) /\ Cardinality(1..n) = n
<1>1. 1 \in Int /\ n \in Int
  OBVIOUS
<1>2. IsFiniteSet(1..n) /\ Cardinality(1..n) = IF 1 > n THEN 0 ELSE n - 1 + 1
  BY <1>1, FS_Interval
<1>3. (IF 1 > n THEN 0 ELSE n - 1 + 1) = n
  OBVIOUS
<1> QED
  BY <1>2, <1>3

\* Ranks run from 1 to the number of candidates.
LEMMA RankRange ==
  ASSUME NEW s \in Seq(Candidates), NEW k \in DOMAIN s
  PROVE  Rank(s, k) \in DOMAIN s
<1>1. PICK n \in Nat : n = Len(s) /\ DOMAIN s = 1..n
  OBVIOUS
<1>2. IsFiniteSet(1..n) /\ Cardinality(1..n) = n
  BY FirstCount
<1>3. UpTo(s, k) \in SUBSET (1..n) /\ k \in UpTo(s, k)
  BY <1>1 DEF UpTo
<1>4. IsFiniteSet(UpTo(s, k)) /\ Rank(s, k) <= n
  BY <1>2, <1>3, FS_Subset DEF Rank
<1>5. Rank(s, k) \in Nat /\ Rank(s, k) # 0
  BY <1>3, <1>4, FS_CardinalityType, FS_EmptySet DEF Rank
<1> QED
  BY <1>1, <1>4, <1>5

\* A candidate with a lower score, or the same and an earlier reply, has a
\* smaller rank.
LEMMA RankOrder ==
  ASSUME NEW s \in Seq(Candidates), NEW j \in DOMAIN s, NEW k \in DOMAIN s,
         Score(s[j]) < Score(s[k]) \/ (Score(s[j]) = Score(s[k]) /\ j < k)
  PROVE  Rank(s, j) < Rank(s, k)
<1>1. PICK n \in Nat : n = Len(s) /\ DOMAIN s = 1..n
  OBVIOUS
<1>2. \A i \in 1..n : s[i] \in Candidates /\ Score(s[i]) \in Int
  BY <1>1, ScoreInt
<1>3. UpTo(s, j) \in SUBSET UpTo(s, k) /\ k \in UpTo(s, k) /\ k \notin UpTo(s, j)
  BY <1>1, <1>2 DEF UpTo
<1>4. IsFiniteSet(UpTo(s, k))
  <2>1. IsFiniteSet(1..n) /\ UpTo(s, k) \in SUBSET (1..n)
    BY <1>1, FS_Interval DEF UpTo
  <2> QED
    BY <2>1, FS_Subset
<1>5. Rank(s, j) <= Rank(s, k) /\ Rank(s, j) # Rank(s, k)
  <2>1. UpTo(s, j) # UpTo(s, k)
    BY <1>3
  <2> QED
    BY <2>1, <1>3, <1>4, FS_Subset DEF Rank
<1>6. Rank(s, j) \in Nat /\ Rank(s, k) \in Nat
  BY <1>1, RankRange
<1> QED
  BY <1>5, <1>6

\* No two candidates have the same rank.
LEMMA RankOnce ==
  ASSUME NEW s \in Seq(Candidates), NEW j \in DOMAIN s, NEW k \in DOMAIN s, j # k
  PROVE  Rank(s, j) # Rank(s, k)
<1>1. Score(s[j]) \in Int /\ Score(s[k]) \in Int /\ j \in Int /\ k \in Int
  BY ScoreInt
<1>2. \/ Score(s[j]) < Score(s[k]) \/ (Score(s[j]) = Score(s[k]) /\ j < k)
      \/ Score(s[k]) < Score(s[j]) \/ (Score(s[k]) = Score(s[j]) /\ k < j)
  BY <1>1
<1>3. Rank(s, j) < Rank(s, k) \/ Rank(s, k) < Rank(s, j)
  BY <1>2, RankOrder
<1>4. Rank(s, j) \in Int /\ Rank(s, k) \in Int
  BY RankRange
<1> QED
  BY <1>3, <1>4

\* Every rank is some candidate's.
LEMMA RankTaken ==
  ASSUME NEW s \in Seq(Candidates), NEW r \in DOMAIN s
  PROVE  \E k \in DOMAIN s : Rank(s, k) = r
<1>1. PICK n \in Nat : n = Len(s) /\ DOMAIN s = 1..n
  OBVIOUS
<1> SUFFICES ASSUME \A k \in 1..n : Rank(s, k) # r
             PROVE  FALSE
  BY <1>1
<1>2. IsFiniteSet(1..n) /\ Cardinality(1..n) = n
  BY FirstCount
<1>3. IsFiniteSet((1..n) \ {r}) /\ Cardinality((1..n) \ {r}) < Cardinality(1..n)
  <2>1. Cardinality((1..n) \ {r}) = Cardinality(1..n) - 1 /\ IsFiniteSet((1..n) \ {r})
    BY <1>1, <1>2, FS_RemoveElement
  <2> QED
    BY <2>1, <1>2
<1>4. PICK f \in [1..n -> (1..n) \ {r}] : \A k \in 1..n : f[k] = Rank(s, k)
  <2>1. \A k \in 1..n : Rank(s, k) \in (1..n) \ {r}
    BY <1>1, RankRange
  <2>2. [k \in 1..n |-> Rank(s, k)] \in [1..n -> (1..n) \ {r}]
    BY <2>1
  <2> QED
    BY <2>2
<1>5. PICK j \in 1..n, k \in 1..n : j # k /\ f[j] = f[k]
  BY <1>2, <1>3, FS_PigeonHole
<1> QED
  BY <1>1, <1>4, <1>5, RankOnce

\* The candidate of each rank.
LEMMA RankedByRank ==
  ASSUME NEW s \in Seq(Candidates)
  PROVE  /\ Ranked(s) \in Seq(Candidates) /\ Len(Ranked(s)) = Len(s)
         /\ \A r \in DOMAIN s : \E k \in DOMAIN s : Rank(s, k) = r /\ Ranked(s)[r] = s[k]
         /\ \A k \in DOMAIN s : Ranked(s)[Rank(s, k)] = s[k]
<1> DEFINE At(r) == CHOOSE k \in DOMAIN s : Rank(s, k) = r
<1>1. PICK n \in Nat : n = Len(s) /\ DOMAIN s = 1..n
  OBVIOUS
<1>2. Ranked(s) = [r \in DOMAIN s |-> s[At(r)]]
  BY DEF Ranked, Rank, UpTo
<1>3. \A r \in DOMAIN s : At(r) \in DOMAIN s /\ Rank(s, At(r)) = r
  BY RankTaken
<1> HIDE DEF At
<1>4. \A r \in DOMAIN s : s[At(r)] \in Candidates
  BY <1>1, <1>3
<1>5. Ranked(s) \in [1..n -> Candidates]
  BY <1>1, <1>2, <1>4
<1>6. Ranked(s) \in Seq(Candidates) /\ Len(Ranked(s)) = n
  BY <1>5
<1>7. \A k \in DOMAIN s : Ranked(s)[Rank(s, k)] = s[k]
  <2> SUFFICES ASSUME NEW k \in DOMAIN s
               PROVE  Ranked(s)[Rank(s, k)] = s[k]
    OBVIOUS
  <2>1. Rank(s, k) \in DOMAIN s
    BY RankRange
  <2>2. At(Rank(s, k)) = k
    BY <2>1, <1>3, RankOnce
  <2> QED
    BY <2>1, <2>2, <1>2
<1> QED
  BY <1>1, <1>2, <1>3, <1>6, <1>7

\* knit each's ranks are the candidates sorted by score: every candidate has a
\* rank of its own, a lower score a lower one, and equal scores keep the order of
\* the replies (each.go sort.SliceStable).
THEOREM RanksSorted ==
  ASSUME NEW s \in Seq(Candidates)
  PROVE  \E rank \in [DOMAIN s -> DOMAIN s] :
           /\ \A r \in DOMAIN s : \E k \in DOMAIN s : rank[k] = r
           /\ \A j, k \in DOMAIN s : j # k => rank[j] # rank[k]
           /\ \A k \in DOMAIN s : Ranked(s)[rank[k]] = s[k]
           /\ \A j, k \in DOMAIN s :
                Score(s[j]) < Score(s[k]) \/ (Score(s[j]) = Score(s[k]) /\ j < k) =>
                  rank[j] < rank[k]
<1>1. PICK rank \in [DOMAIN s -> DOMAIN s] : \A k \in DOMAIN s : rank[k] = Rank(s, k)
  <2>1. [k \in DOMAIN s |-> Rank(s, k)] \in [DOMAIN s -> DOMAIN s]
    BY RankRange
  <2> QED
    BY <2>1
<1>2. \A r \in DOMAIN s : \E k \in DOMAIN s : rank[k] = r
  BY <1>1, RankTaken
<1>3. \A j, k \in DOMAIN s : j # k => rank[j] # rank[k]
  BY <1>1, RankOnce
<1>4. \A k \in DOMAIN s : Ranked(s)[rank[k]] = s[k]
  BY <1>1, RankedByRank
<1>5. \A j, k \in DOMAIN s :
        Score(s[j]) < Score(s[k]) \/ (Score(s[j]) = Score(s[k]) /\ j < k) => rank[j] < rank[k]
  BY <1>1, RankOrder
<1> QED
  BY <1>2, <1>3, <1>4, <1>5

-----------------------------------------------------------------------------
(***************************************************************************)
(* Types.                                                                   *)
(***************************************************************************)

\* Failures are told of explicit peers only.
Types == TypeOK /\ named \subseteq scene.explicit

LEMMA InitTypes == Init => Types
<1> SUFFICES ASSUME Init PROVE Types
  OBVIOUS
<1>1. best \in Candidates
  BY PlacementAssumption DEF Init, Local, Candidates, Info
<1>2. scene \in Scene /\ now \in 0..scene.until
  BY PlacementAssumption DEF Init, Scene
<1>3. cache \in [at : Nat, peers : SUBSET Peer, whole : BOOLEAN]
  BY DEF Init, Empty
<1> QED
  BY <1>1, <1>2, <1>3 DEF Init, Types, TypeOK

LEMMA DiscoveryTypes == ASSUME Types, NEW c \in Cmds, discovery(c) PROVE Types'
<1> USE DEF Types, TypeOK, Goto, world, found, mine, probes, choice
<1>1. /\ scene \in Scene /\ now \in Nat /\ CacheTTL \in Nat /\ BrowseTime \in Nat
      /\ scene.until \in Nat /\ scene.up \in SUBSET Machines
  BY PlacementAssumption DEF Scene
<1>2. CASE CachedBrowse(c)
  <2>1. CASE Browse(c)
    BY <1>1, <1>2, <2>1 DEF CachedBrowse, Browse
  <2>2. CASE Goto(c, "gather") /\ list' = [list EXCEPT ![c] = cache.peers] /\ UNCHANGED due
    BY <1>2, <2>2 DEF CachedBrowse
  <2> QED
    BY <1>2, <2>1, <2>2 DEF CachedBrowse
<1>3. ASSUME NEW m \in scene.up, NEW addrs \in SUBSET Addrs, Hear(c, m, addrs)
      PROVE  Types'
  <2>1. PICK a \in addrs : list' = [list EXCEPT ![c] = @ \cup {[name |-> m, addr |-> a, seen |-> now]}]
    BY <1>3 DEF Hear
  <2>2. [name |-> m, addr |-> a, seen |-> now] \in Peer
    BY <1>1 DEF Peer
  <2>3. list' \in [Cmds -> SUBSET Peer]
    BY <2>1, <2>2
  <2> QED
    BY <1>3, <2>3 DEF Hear
<1>4. CASE BrowseEnds(c)
  BY <1>4 DEF BrowseEnds
<1>5. CASE Truncate(c)
  BY <1>5 DEF Truncate, Empty
<1>6. CASE Write(c)
  <2>1. cache' \in [at : Nat, peers : SUBSET Peer, whole : BOOLEAN]
    <3>1. PICK file \in [at : Nat, peers : SUBSET Peer, whole : BOOLEAN] : file = Empty
      BY DEF Empty
    <3>2. [file EXCEPT !.at = 1] \in [at : Nat, peers : SUBSET Peer, whole : BOOLEAN]
      OBVIOUS
    <3>3. Torn \in [at : Nat, peers : SUBSET Peer, whole : BOOLEAN]
      BY <3>1, <3>2 DEF Torn
    <3>4. [at |-> due[c], peers |-> list[c], whole |-> TRUE]
            \in [at : Nat, peers : SUBSET Peer, whole : BOOLEAN]
      OBVIOUS
    <3> QED
      BY <1>6, <3>3, <3>4 DEF Write
  <2> QED
    BY <1>6, <2>1 DEF Write
<1>7. CASE WriteFails(c)
  BY <1>7 DEF WriteFails
<1> QED
  BY <1>2, <1>3, <1>4, <1>5, <1>6, <1>7 DEF discovery

LEMMA ProbeTypes == ASSUME Types, probe PROVE Types'
<1> USE DEF Types, TypeOK, Goto, world, found, choice
<1>1. Me \in Cmds /\ scene.explicit \in SUBSET Addrs
  BY PlacementAssumption DEF Scene
<1>2. CASE Gather
  <2>1. {p.addr : p \in {q \in list[Me] : q.name # Self}} \subseteq Addrs
    BY <1>1 DEF Peer
  <2> QED
    BY <1>1, <1>2, <2>1 DEF Gather
<1>3. ASSUME NEW a \in Addrs, Miss(a) PROVE Types'
  BY <1>1, <1>3 DEF Miss
<1>4. ASSUME NEW a \in Addrs, NEW m \in scene.up, NEW info \in scene.infos, Reply(a, m, info)
      PROVE  Types'
  <2>1. m \in Machines /\ info \in Info
    BY DEF Scene
  <2>2. Remote(m, a, info) \in Candidates
    BY <2>1, PlacementAssumption DEF Remote, Candidates
  <2>3. cands' \in Seq(Candidates)
    BY <1>4, <2>2 DEF Reply
  <2> QED
    BY <1>4, <2>3 DEF Reply
<1> QED
  BY <1>2, <1>3, <1>4 DEF probe

LEMMA DecideTypes == ASSUME Types, decide PROVE Types'
<1> USE DEF Types, TypeOK, Goto, world, found, probes, choice
<1>1. Me \in Cmds /\ scene.infos \in SUBSET Info
  BY PlacementAssumption DEF Scene
<1>2. ASSUME NEW info \in scene.infos, RunProbed(info) PROVE Types'
  <2>1. Local(info) \in Candidates
    BY <1>1, PlacementAssumption DEF Local, Candidates
  <2>2. cands' \in Seq(Candidates)
    BY <1>2, <2>1 DEF RunProbed
  <2> QED
    BY <1>1, <1>2, <2>2 DEF RunProbed
<1>3. CASE Filter
  <2>1. cands[next] \in Candidates
    BY <1>3 DEF Filter
  <2>2. kept' \in Seq(Candidates)
    BY <1>3, <2>1 DEF Filter
  <2> QED
    BY <1>3, <2>2 DEF Filter
<1>4. ASSUME NEW s \in Seq(Candidates), ByName(s)
      PROVE  best' \in Candidates /\ pc' \in [Cmds -> Labels]
  <2>1. CASE \E k \in DOMAIN s : best' = s[k] /\ Goto(Me, "placed")
    BY <1>1, <2>1 DEF Labels, Early
  <2>2. CASE Goto(Me, "refused") /\ UNCHANGED best
    BY <1>1, <2>2 DEF Labels, Early
  <2> QED
    BY <1>4, <2>1, <2>2 DEF ByName
<1>5. CASE Filtered
  <2>1. kept # <<>> => kept[1] \in Candidates
    OBVIOUS
  <2>2. CASE kept = <<>> /\ Goto(Me, "refused") /\ UNCHANGED best
    BY <1>1, <1>5, <2>2 DEF Filtered
  <2>3. CASE ByName(kept)
    <3>1. best' \in Candidates /\ pc' \in [Cmds -> Labels]
      BY <1>4, <2>3
    <3> QED
      BY <1>5, <3>1 DEF Filtered, Labels, Early
  <2>4. CASE kept # <<>> /\ Goto(Me, "pick") /\ best' = kept[1]
    BY <1>1, <1>5, <2>1, <2>4 DEF Filtered
  <2> QED
    BY <1>5, <2>2, <2>3, <2>4 DEF Filtered
<1>6. CASE Pick
  <2>1. kept[next] \in Candidates
    BY <1>6 DEF Pick
  <2> QED
    BY <1>6, <2>1 DEF Pick
<1>7. CASE Picked
  BY <1>1, <1>7 DEF Picked
<1>8. CASE EachProbed
  <2>1. kept' \in Seq(Candidates)
    BY <1>8, RankedByRank DEF EachProbed
  <2> QED
    BY <1>1, <1>8, <2>1 DEF EachProbed
<1>9. CASE pickProxyPeer
  <2>1. CASE ByName(cands)
    <3>1. best' \in Candidates /\ pc' \in [Cmds -> Labels]
      BY <1>4, <2>1
    <3> QED
      BY <1>9, <3>1 DEF pickProxyPeer, Labels, Early
  <2>2. CASE Len(cands) = 1 /\ Goto(Me, "placed") /\ best' = cands[1]
    <3>1. 1 \in 1..Len(cands) /\ cands \in Seq(Candidates)
      BY <2>2
    <3>2. cands[1] \in Candidates
      BY <3>1
    <3> QED
      BY <1>1, <1>9, <2>2, <3>2 DEF pickProxyPeer
  <2>3. CASE Goto(Me, "refused") /\ UNCHANGED best
    BY <1>1, <1>9, <2>3 DEF pickProxyPeer
  <2> QED
    BY <1>9, <2>1, <2>2, <2>3 DEF pickProxyPeer
<1> QED
  BY <1>2, <1>3, <1>5, <1>6, <1>7, <1>8, <1>9 DEF decide

\* Every variable stays in its range: what is reported is a peer the user named,
\* and the ranks of knit each are candidates.
THEOREM TypeCorrect == Spec => []TypeOK
<1>1. Types /\ [Next]_vars => Types'
  <2>1. ASSUME Types, UNCHANGED vars PROVE Types'
    BY <2>1 DEF vars, world, found, mine, probes, choice, Types, TypeOK
  <2>2. ASSUME Types, Tick PROVE Types'
    BY <2>2 DEF Tick, found, mine, probes, choice, Types, TypeOK, Scene
  <2> QED
    BY <2>1, <2>2, DiscoveryTypes, ProbeTypes, DecideTypes DEF Next
<1>2. Types => TypeOK
  BY DEF Types
<1> QED
  BY InitTypes, <1>1, <1>2, PTL DEF Spec

=============================================================================
