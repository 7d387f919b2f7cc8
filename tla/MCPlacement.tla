---------------------------- MODULE MCPlacement -----------------------------
(***************************************************************************)
(* Constants for model-checking Placement.                                  *)
(***************************************************************************)
EXTENDS Placement, TLC

CONSTANTS s, m1, a1, a2, a3, c1, c2   \* model values

TwoMachines == {s, m1}
Links       == (a1 :> 1) @@ (a2 :> 2) @@ (a3 :> 3)

\* What machines report: loads around one another's ties, two cores or none.
Is(l) == [load |-> l, cpus |-> 1, free |-> 4]
Loads == {Is(l) : l \in 0..3}
Odd   == {[Is(4) EXCEPT !.cpus = 2, !.free = 1], [Is(0) EXCEPT !.cpus = 0]}

\* A run among named machines with every load, multicast filtered.
Crowded == [op |-> "run", on |-> NoName, mem |-> 0, explicit |-> {a1, a2, a3},
            up |-> {m1}, infos |-> Loads, multicast |-> FALSE, others |-> {}, until |-> 1]

\* A run that shares the cache with another command.
Shared == [Crowded EXCEPT !.explicit = {}, !.multicast = TRUE, !.others = {c2},
                          !.infos = {Is(1)}, !.until = 4]

\* The other commands and options, among few machines.
Pinned == [Crowded EXCEPT !.on = m1, !.mem = 2, !.explicit = {a1, a2},
                          !.up = TwoMachines, !.infos = {Is(1)} \cup Odd]
Varied == {Pinned, [Pinned EXCEPT !.on = NoName, !.multicast = TRUE]}
          \cup {[Pinned EXCEPT !.op = "each"], [Pinned EXCEPT !.op = "proxy", !.multicast = TRUE],
                [Pinned EXCEPT !.op = "proxy", !.on = NoName, !.explicit = {a1}]}

AllScenes   == {Crowded, Shared} \cup Varied
CrowdScene  == {Crowded}
ProxyScene  == {[Pinned EXCEPT !.op = "proxy", !.multicast = TRUE]}
EachScene   == {[Pinned EXCEPT !.op = "each"]}

TwoCmds == {c1, c2}
=============================================================================
