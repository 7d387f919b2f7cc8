---------------------------- MODULE TunnelProofs -----------------------------
(***************************************************************************)
(* What a tunnel delivers is what was sent, in order and from the start,    *)
(* however much is sent and whichever connections are reset on the way; and *)
(* at a clean end it is all of it.                                          *)
(***************************************************************************)
EXTENDS Tunnel, Integers, SequenceTheorems, TLAPS

Ends == {"open", "fin", "rst"}

\* Types of what the proof counts and compares.
Types ==
  /\ wire \in [Conns -> [Dirs -> Seq(Nat)]]
  /\ end \in [Conns -> [Dirs -> Ends]]
  /\ held \in [Conns -> SUBSET {"l", "r"}]
  /\ proxy \in {"socks", "open", "splice", "done"}
  /\ agent \in {"none", "dial", "splice", "done"}
  /\ copier \in [Copiers -> {"none", "read", "write", "done"}]
  /\ buf \in [Copiers -> Nat]
  /\ ready \in BOOLEAN
  /\ sent \in [Dirs -> Nat]
  /\ got \in [Dirs -> Seq(Nat)]
  /\ losses \in Nat

\* Until the agent has dialled, and on the application's side until the reply
\* is there, nothing is on its way and nobody copies.
Early ==
  /\ proxy = "socks" => agent = "none"
  /\ agent = "none" =>
       proxy \in {"socks", "done"} /\ held["link"] = {} /\ end["link"]["up"] # "rst"
  /\ agent \in {"none", "dial"} =>
       /\ held["target"] = {} /\ proxy # "splice"
       /\ copier["au"] = "none" /\ copier["ad"] = "none"
       /\ wire["link"]["up"] = <<>> /\ wire["link"]["down"] = <<>>
       /\ wire["target"]["up"] = <<>> /\ wire["target"]["down"] = <<>>
       /\ sent["down"] = 0
       /\ end["link"]["up"] = "rst" => ~Holds("link", "l") \/ end["link"]["down"] = "rst"
  /\ proxy \in {"socks", "open"} \/ agent \in {"none", "dial"} =>
       /\ copier["pu"] = "none" /\ copier["pd"] = "none"
       /\ wire["app"]["up"] = <<>> /\ wire["app"]["down"] = <<>>
       /\ wire["link"]["up"] = <<>> /\ wire["target"]["up"] = <<>>
       /\ ~ready /\ sent["up"] = 0 /\ got["up"] = <<>> /\ got["down"] = <<>>
       /\ copier["au"] \in {"none", "read", "done"}

\* The copiers out of the sender's connection and into the receiver's.
OutOf(d) == IF d = "up" THEN "pu" ELSE "ad"
Into(d)  == IF d = "up" THEN "au" ELSE "pd"
From(d)  == At(d)
To(d)    == At(Opposite(d))

\* What is in q counts on from n.
Continues(n, q) == \A i \in 1..Len(q) : q[i] = n + i

Writing(g) == IF copier[g] = "write" THEN 1 ELSE 0

\* The last number that was received, that reached the receiver's connection,
\* that was taken from the link, that reached the link and that was taken from
\* the sender's connection.
Received(d) == IF d = "up" \/ ready THEN Len(got[d]) ELSE -1
Reached(d)  == Received(d) + Len(wire[To(d)][d])
Passed(d)   == Reached(d) + Writing(Into(d))
Linked(d)   == Passed(d) + Len(wire["link"][d])
Taken(d)    == Linked(d) + Writing(OutOf(d))

\* What is written to the connection can still get there.
Live(k, d) == Holds(k, Reader(d)) /\ end[k][d] # "rst"

\* From the receiver back, as far as the connections are live, what is on its
\* way counts on from what was received, up to what was sent.
Chain(d) ==
  /\ Continues(Received(d), wire[To(d)][d])
  /\ Live(To(d), d) =>
       /\ copier[Into(d)] = "write" => buf[Into(d)] = Passed(d)
       /\ Holds("link", Reader(d)) => Continues(Passed(d), wire["link"][d])
  /\ Live(To(d), d) /\ Live("link", d) =>
       /\ copier[OutOf(d)] = "write" => buf[OutOf(d)] = Taken(d)
       /\ Holds(From(d), Reader(d)) => Continues(Taken(d), wire[From(d)][d])
  /\ Live(To(d), d) /\ Live("link", d) /\ Live(From(d), d) =>
       sent[d] = Taken(d) + Len(wire[From(d)][d])

\* The reply is the first thing the application gets.
ReplyFirst == ~ready => got["down"] = <<>>

IInv == Types /\ Early /\ ReplyFirst /\ InOrder /\ \A d \in Dirs : Chain(d)

-----------------------------------------------------------------------------
LEMMA Routes ==
  ASSUME NEW d \in Dirs
  PROVE  /\ To(d) \in Conns /\ From(d) \in Conns /\ "link" \in Conns
         /\ To(d) # From(d) /\ To(d) # "link" /\ From(d) # "link"
         /\ Into(d) \in Copiers /\ OutOf(d) \in Copiers /\ Into(d) # OutOf(d)
         /\ Dir(Into(d)) = d /\ Src(Into(d)) = "link" /\ Dst(Into(d)) = To(d)
         /\ Dir(OutOf(d)) = d /\ Src(OutOf(d)) = From(d) /\ Dst(OutOf(d)) = "link"
         /\ Opposite(d) \in Dirs /\ Opposite(d) # d /\ Opposite(Opposite(d)) = d
         /\ Reader(d) \in {"l", "r"} /\ Writer(d) \in {"l", "r"} /\ Writer(d) # Reader(d)
         /\ Writer(Opposite(d)) = Reader(d) /\ Reader(Opposite(d)) = Writer(d)
BY DEF Dirs, Conns, Copiers, To, From, Into, OutOf, At, Dir, Src, Dst, Opposite, Reader, Writer

LEMMA Ways ==
  /\ To("up") = "target" /\ From("up") = "app" /\ Into("up") = "au" /\ OutOf("up") = "pu"
  /\ To("down") = "app" /\ From("down") = "target" /\ Into("down") = "pd" /\ OutOf("down") = "ad"
BY DEF To, From, Into, OutOf, At, Opposite

LEMMA Copying ==
  ASSUME NEW g \in Copiers
  PROVE  /\ Dir(g) \in Dirs /\ Src(g) \in Conns /\ Dst(g) \in Conns /\ Src(g) # Dst(g)
         /\ \/ g = Into(Dir(g)) /\ g # OutOf(Dir(g))
            \/ g = OutOf(Dir(g)) /\ g # Into(Dir(g))
         /\ g # Into(Opposite(Dir(g))) /\ g # OutOf(Opposite(Dir(g)))
BY DEF Dirs, Conns, Copiers, Into, OutOf, Dir, Src, Dst, Opposite

LEMMA Counts ==
  ASSUME Types, NEW d \in Dirs
  PROVE  /\ Received(d) \in Int /\ Reached(d) \in Int /\ Passed(d) \in Int
         /\ Linked(d) \in Int /\ Taken(d) \in Int
         /\ \A k \in Conns : wire[k][d] \in Seq(Nat) /\ Len(wire[k][d]) \in Nat
         /\ Writing(Into(d)) \in {0, 1} /\ Writing(OutOf(d)) \in {0, 1}
<1>1. \A k \in Conns : wire[k][d] \in Seq(Nat) /\ Len(wire[k][d]) \in Nat
  BY DEF Types
<1>2. Len(got[d]) \in Nat
  BY DEF Types
<1> QED
  BY <1>1, <1>2, Routes DEF Received, Reached, Passed, Linked, Taken, Writing

LEMMA TailContinues ==
  ASSUME NEW q \in Seq(Nat), NEW n \in Int, Continues(n, q), q # <<>>
  PROVE  /\ Head(q) = n + 1 /\ Tail(q) \in Seq(Nat) /\ Len(Tail(q)) = Len(q) - 1
         /\ Continues(n + 1, Tail(q))
BY DEF Continues

LEMMA AppendContinues ==
  ASSUME NEW q \in Seq(Nat), NEW n \in Int, Continues(n, q), NEW x \in Nat, x = n + Len(q) + 1
  PROVE  /\ Append(q, x) \in Seq(Nat) /\ Len(Append(q, x)) = Len(q) + 1
         /\ Continues(n, Append(q, x))
BY DEF Continues

\* Connection k loses what is on its way in direction d, or is closed, at most.
Loses(k, d) ==
  /\ Holds(k, Reader(d))' => Holds(k, Reader(d))
  /\ end[k][d] = "rst" => end'[k][d] = "rst"
  /\ wire'[k][d] = wire[k][d] \/ (wire'[k][d] = <<>> /\ ~Live(k, d)')

\* A copier g loses what it has read only by closing what it reads from.
Drops(g) ==
  /\ buf'[g] = buf[g]
  /\ \/ copier'[g] = copier[g]
     \/ copier'[g] # "write" /\ (copier[g] = "write" => ~Holds(Src(g), Reader(Dir(g)))')

\* Losses never open a gap.
LEMMA LossChain ==
  ASSUME Types, NEW d \in Dirs, Chain(d), \A k \in Conns : Loses(k, d),
         Drops(Into(d)), Drops(OutOf(d)), sent'[d] = sent[d], Received(d)' = Received(d)
  PROVE  Chain(d)'
<1> DEFINE t == To(d) f == From(d) a == Into(d) b == OutOf(d)
<1>1. /\ t \in Conns /\ f \in Conns /\ "link" \in Conns
      /\ Src(a) = "link" /\ Dir(a) = d /\ Src(b) = f /\ Dir(b) = d
  BY Routes
<1>2. \A k \in Conns : Live(k, d)' => Live(k, d) /\ wire'[k][d] = wire[k][d]
  BY DEF Loses, Live
<1>3. Continues(Received(d), wire[t][d])'
  BY <1>1 DEF Chain, Loses, Continues
<1>4. Live(t, d)' => Reached(d)' = Reached(d)
  BY <1>1, <1>2 DEF Reached
<1>5. ASSUME Live(t, d)', copier'[a] = "write"
      PROVE  Passed(d)' = Passed(d) /\ buf'[a] = Passed(d)'
  <2>1. copier[a] = "write" /\ buf'[a] = buf[a]
    BY <1>5 DEF Drops
  <2> QED
    BY <1>1, <1>2, <1>4, <1>5, <2>1 DEF Chain, Passed, Writing
<1>6. ASSUME Live(t, d)', Holds("link", Reader(d))'
      PROVE  Passed(d)' = Passed(d) /\ Continues(Passed(d), wire["link"][d])'
  <2>1. Passed(d)' = Passed(d)
    BY <1>1, <1>4, <1>6 DEF Passed, Writing, Drops
  <2>2. Continues(Passed(d), wire["link"][d])
    BY <1>1, <1>2, <1>6 DEF Chain, Loses
  <2> QED
    BY <1>1, <2>1, <2>2 DEF Loses, Continues
<1>7. ASSUME Live(t, d)', Live("link", d)'
      PROVE  Linked(d)' = Linked(d)
  BY <1>1, <1>2, <1>6, <1>7 DEF Linked, Live
<1>8. ASSUME Live(t, d)', Live("link", d)', copier'[b] = "write"
      PROVE  buf'[b] = Taken(d)'
  <2>1. copier[b] = "write" /\ buf'[b] = buf[b]
    BY <1>8 DEF Drops
  <2> QED
    BY <1>1, <1>2, <1>7, <1>8, <2>1 DEF Chain, Taken, Writing
<1>9. ASSUME Live(t, d)', Live("link", d)', Holds(f, Reader(d))'
      PROVE  Taken(d)' = Taken(d) /\ Continues(Taken(d), wire[f][d])'
  <2>1. Taken(d)' = Taken(d)
    BY <1>1, <1>7, <1>9 DEF Taken, Writing, Drops
  <2>2. Continues(Taken(d), wire[f][d])
    BY <1>1, <1>2, <1>9 DEF Chain, Loses
  <2> QED
    BY <1>1, <2>1, <2>2 DEF Loses, Continues
<1>10. ASSUME Live(t, d)', Live("link", d)', Live(f, d)'
       PROVE  sent'[d] = Taken(d)' + Len(wire'[f][d])
  BY <1>1, <1>2, <1>9, <1>10 DEF Chain, Live
<1> HIDE DEF t, f, a, b
<1> QED
  BY <1>3, <1>5, <1>6, <1>8, <1>9, <1>10 DEF Chain, t, f, a, b

\* Closing is such a loss.
LEMMA Closing ==
  ASSUME Types, NEW sides, Close(sides)
  PROVE  /\ wire' \in [Conns -> [Dirs -> Seq(Nat)]]
         /\ end' \in [Conns -> [Dirs -> Ends]]
         /\ held' \in [Conns -> SUBSET {"l", "r"}]
         /\ \A k \in Conns, d \in Dirs : Loses(k, d)
         /\ \A k \in Conns, s \in {"l", "r"} : <<k, s>> \in sides => ~Holds(k, s)'
         /\ \A k \in Conns : held'[k] \subseteq held[k]
         /\ \A k \in Conns, d \in Dirs : end'[k][d] # end[k][d] =>
              Holds(k, Writer(d)) /\ ~Holds(k, Writer(d))'
<1> DEFINE closing == {p \in Conns \X Dirs :
              <<p[1], Writer(p[2])>> \in sides /\ Holds(p[1], Writer(p[2]))}
           resets == {p \in closing : wire[p[1]][Opposite(p[2])] # <<>>}
<1>1. PICK destroyed \in SUBSET resets :
        wire' = [k \in Conns |-> [d \in Dirs |->
            IF <<k, Opposite(d)>> \in closing \/ <<k, d>> \in destroyed
            THEN <<>> ELSE wire[k][d]]]
  BY DEF Close
<1>2. held' = [k \in Conns |-> {side \in held[k] : <<k, side>> \notin sides}]
  BY DEF Close
<1>3. end' = [k \in Conns |-> [d \in Dirs |->
          IF <<k, d>> \in resets THEN "rst"
          ELSE IF <<k, d>> \in closing /\ end[k][d] = "open" THEN "fin" ELSE end[k][d]]]
  BY DEF Close
<1>4. ASSUME NEW k \in Conns, NEW d \in Dirs
      PROVE  Loses(k, d)
  <2>1. Holds(k, Reader(d))' => Holds(k, Reader(d))
    BY <1>2 DEF Holds
  <2>2. end[k][d] = "rst" => end'[k][d] = "rst"
    BY <1>3
  <2>3. CASE <<k, Opposite(d)>> \in closing
    <3>1. wire'[k][d] = <<>>
      BY <1>1, <2>3
    <3>2. <<k, Reader(d)>> \in sides
      BY <2>3, Routes
    <3>3. ~Holds(k, Reader(d))'
      BY <1>2, <3>2 DEF Holds
    <3> QED
      BY <2>1, <2>2, <3>1, <3>3 DEF Loses, Live
  <2>4. CASE <<k, d>> \in destroyed
    BY <1>1, <1>3, <2>1, <2>2, <2>4 DEF Loses, Live
  <2>5. CASE <<k, Opposite(d)>> \notin closing /\ <<k, d>> \notin destroyed
    BY <1>1, <2>1, <2>2, <2>5 DEF Loses
  <2> QED
    BY <2>3, <2>4, <2>5
<1>5. wire' \in [Conns -> [Dirs -> Seq(Nat)]]
  <2>1. \A k \in Conns, d \in Dirs : wire[k][d] \in Seq(Nat) /\ <<>> \in Seq(Nat)
    BY DEF Types
  <2> HIDE DEF closing
  <2> QED
    BY <1>1, <2>1
<1>6. end' \in [Conns -> [Dirs -> Ends]]
  <2> HIDE DEF closing, resets
  <2> QED
    BY <1>3 DEF Types, Ends
<1>7. held' \in [Conns -> SUBSET {"l", "r"}] /\ \A k \in Conns : held'[k] \subseteq held[k]
  BY <1>2 DEF Types
<1>8. \A k \in Conns, s \in {"l", "r"} : <<k, s>> \in sides => ~Holds(k, s)'
  BY <1>2 DEF Holds
<1>9. ASSUME NEW k \in Conns, NEW d \in Dirs, end'[k][d] # end[k][d]
      PROVE  Holds(k, Writer(d)) /\ ~Holds(k, Writer(d))'
  <2>1. <<k, d>> \in closing
    BY <1>3, <1>9
  <2>2. <<k, Writer(d)>> \in sides /\ Holds(k, Writer(d))
    BY <2>1
  <2> QED
    BY <1>2, <2>2 DEF Holds
<1> HIDE DEF closing, resets
<1> QED
  BY <1>4, <1>5, <1>6, <1>7, <1>8, <1>9

\* Writing adds at the end, if there is somebody to read it; the other
\* direction can only lose.
LEMMA Putting ==
  ASSUME Types, NEW k \in Conns, NEW d \in Dirs, NEW x \in Nat, Put(k, d, x)
  PROVE  /\ wire' \in [Conns -> [Dirs -> Seq(Nat)]]
         /\ end' \in [Conns -> [Dirs -> Ends]]
         /\ held' = held /\ end[k][d] = "open" /\ Holds(k, Writer(d))
         /\ \A c \in Conns : Loses(c, Opposite(d))
         /\ \A c \in Conns : end'[c][d] = end[c][d]
         /\ \A c \in Conns \ {k} : wire'[c][d] = wire[c][d]
         /\ Holds(k, Reader(d)) => wire'[k][d] = Append(wire[k][d], x)
         /\ ~Holds(k, Reader(d)) => wire'[k][d] = wire[k][d]
         /\ \A c \in Conns \ {k} : wire'[c] = wire[c] /\ end'[c] = end[c]
<1>0. /\ Opposite(d) \in Dirs /\ Opposite(d) # d
      /\ wire[k][d] \in Seq(Nat) /\ <<>> \in Seq(Nat)
  BY Routes DEF Types
<1>1. CASE Holds(k, Reader(d))
  <2>1. wire' = [wire EXCEPT ![k][d] = Append(@, x)] /\ end' = end
    BY <1>1 DEF Put
  <2>2. Append(wire[k][d], x) \in Seq(Nat)
    BY <1>0
  <2>3. \A c \in Conns : Loses(c, Opposite(d))
    BY <1>0, <2>1 DEF Loses, Put, Holds, Types
  <2> QED
    BY <1>0, <1>1, <2>1, <2>2, <2>3 DEF Put, Writable, Types
<1>2. CASE ~Holds(k, Reader(d))
  <2>1. /\ end' = [end EXCEPT ![k][Opposite(d)] = "rst"]
        /\ wire' \in {wire, [wire EXCEPT ![k][Opposite(d)] = <<>>]}
    BY <1>2 DEF Put
  <2>2. \A c \in Conns : Loses(c, Opposite(d))
    BY <1>0, <2>1 DEF Loses, Live, Put, Holds, Types
  <2>3. end' \in [Conns -> [Dirs -> Ends]]
    BY <1>0, <2>1 DEF Types, Ends
  <2>4. wire' \in [Conns -> [Dirs -> Seq(Nat)]]
    <3>1. CASE wire' = wire
      BY <3>1 DEF Types
    <3>2. CASE wire' = [wire EXCEPT ![k][Opposite(d)] = <<>>]
      BY <1>0, <3>2 DEF Types
    <3> QED
      BY <2>1, <3>1, <3>2
  <2> QED
    BY <1>0, <1>2, <2>1, <2>2, <2>3, <2>4 DEF Put, Writable, Types
<1> QED
  BY <1>1, <1>2

\* Before anything is under way the chain is empty.
LEMMA EarlyChain ==
  ASSUME Types', Early', agent' \in {"none", "dial"}, NEW d \in Dirs
  PROVE  Chain(d)'
<1>1. wire'[To(d)][d] = <<>> /\ wire'["link"][d] = <<>> /\ wire'[From(d)][d] = <<>>
  BY DEF Early, To, From, At, Opposite, Dirs
<1>2. copier'[Into(d)] = "none" /\ copier'[OutOf(d)] = "none"
  BY DEF Early, Into, OutOf, Dirs
<1>3. ~Holds("target", "l")' /\ ~Holds("target", "r")'
  BY DEF Early, Holds
<1>4. ~Live(To(d), d)' \/ ~Live(From(d), d)'
  BY <1>3 DEF Live, To, From, At, Opposite, Reader, Dirs
<1> QED
  BY <1>1, <1>2, <1>4 DEF Chain, Continues

-----------------------------------------------------------------------------
LEMMA TypeStep == Types /\ Early /\ [Next]_vars => Types'
<1> SUFFICES ASSUME Types, Early, [Next]_vars PROVE Types'
  OBVIOUS
<1>1. CASE SocksRequest
  BY <1>1 DEF SocksRequest, Types, endVars, Conns
<1>2. CASE SocksFails \/ DialFails \/ OpenFails \/ ProxyReturns \/ AgentReturns
           \/ \E d \in Dirs : Leave(d)
  <2>1. PICK sides : Close(sides)
    BY <1>2 DEF SocksFails, DialFails, OpenFails, ProxyReturns, AgentReturns, Leave
  <2>2. /\ wire' \in [Conns -> [Dirs -> Seq(Nat)]] /\ end' \in [Conns -> [Dirs -> Ends]]
        /\ held' \in [Conns -> SUBSET {"l", "r"}]
    BY <2>1, Closing
  <2>3. /\ proxy' \in {proxy, "done"} /\ agent' \in {agent, "done"}
        /\ UNCHANGED <<copier, buf, ready, sent, got, losses>>
    BY <1>2 DEF SocksFails, DialFails, OpenFails, ProxyReturns, AgentReturns, Leave, endVars, codeVars
  <2> QED
    BY <2>2, <2>3 DEF Types
<1>3. CASE DialSucceeds
  <2>1. wire' \in [Conns -> [Dirs -> Seq(Nat)]]
    <3>1. <<0>> \in Seq(Nat)
      OBVIOUS
    <3>2. CASE wire' = [wire EXCEPT !["link"]["down"] = <<0>>]
      BY <3>1, <3>2 DEF Types
    <3>3. CASE wire' = wire
      BY <3>3 DEF Types
    <3> QED
      BY <1>3, <3>2, <3>3 DEF DialSucceeds
  <2> QED
    BY <1>3, <2>1 DEF DialSucceeds, Types, endVars, Conns, Copiers
<1>4. CASE OpenSucceeds
  <2>1. wire["link"]["down"] \in Seq(Nat) /\ wire["link"]["down"] # <<>>
    BY <1>4 DEF OpenSucceeds, Readable, Types, Conns, Dirs
  <2>2. Tail(wire["link"]["down"]) \in Seq(Nat) /\ <<0>> \in Seq(Nat)
    BY <2>1
  <2>3. wire' \in [Conns -> [Dirs -> Seq(Nat)]]
    BY <1>4, <2>2 DEF OpenSucceeds, Types
  <2> QED
    BY <1>4, <2>3 DEF OpenSucceeds, Types, endVars
<1>5. ASSUME NEW g \in Copiers, CopyRead(g)
      PROVE  Types'
  <2>1. wire[Src(g)][Dir(g)] \in Seq(Nat) /\ wire[Src(g)][Dir(g)] # <<>>
    BY <1>5, Copying DEF CopyRead, Readable, Types
  <2>2. Head(wire[Src(g)][Dir(g)]) \in Nat /\ Tail(wire[Src(g)][Dir(g)]) \in Seq(Nat)
    BY <2>1
  <2> QED
    BY <1>5, <2>2, Copying DEF CopyRead, Take, Types, endVars
<1>6. ASSUME NEW g \in Copiers, CopyWrite(g)
      PROVE  Types'
  <2>1. buf[g] \in Nat
    BY DEF Types
  <2>2. /\ wire' \in [Conns -> [Dirs -> Seq(Nat)]] /\ end' \in [Conns -> [Dirs -> Ends]]
        /\ held' = held
    BY <1>6, <2>1, Copying, Putting DEF CopyWrite
  <2> QED
    BY <1>6, <2>2 DEF CopyWrite, Types, endVars
<1>7. ASSUME NEW g \in Copiers, SpliceEnds(g)
      PROVE  Types'
  <2>1. /\ wire' \in [Conns -> [Dirs -> Seq(Nat)]] /\ end' \in [Conns -> [Dirs -> Ends]]
        /\ held' \in [Conns -> SUBSET {"l", "r"}]
    BY <1>7, Closing DEF SpliceEnds
  <2> QED
    BY <1>7, <2>1 DEF SpliceEnds, Types, endVars
<1>8. ASSUME NEW d \in Dirs, Send(d)
      PROVE  Types'
  <2>1. sent[d] \in Nat /\ sent[d] + 1 \in Nat
    BY DEF Types
  <2>2. /\ wire' \in [Conns -> [Dirs -> Seq(Nat)]] /\ end' \in [Conns -> [Dirs -> Ends]]
        /\ held' = held
    BY <1>8, <2>1, Routes, Putting DEF Send, From
  <2> QED
    BY <1>8, <2>1, <2>2 DEF Send, Types, codeVars
<1>9. ASSUME NEW d \in Dirs, Receive(d)
      PROVE  Types'
  <2> DEFINE o == Opposite(d) q == wire[At(d)][o]
  <2>1. At(d) \in Conns /\ o \in Dirs
    BY Routes DEF From
  <2>2. q \in Seq(Nat) /\ q # <<>>
    BY <1>9, <2>1 DEF Receive, Readable, Types
  <2>3. Head(q) \in Nat /\ Tail(q) \in Seq(Nat) /\ Append(got[o], Head(q)) \in Seq(Nat)
    BY <2>1, <2>2 DEF Types
  <2>4. wire' \in [Conns -> [Dirs -> Seq(Nat)]]
    BY <1>9, <2>1, <2>3 DEF Receive, Take, Types
  <2>5. got' \in [Dirs -> Seq(Nat)] /\ ready' \in BOOLEAN
    BY <1>9, <2>1, <2>3 DEF Receive, Types
  <2> QED
    BY <1>9, <2>4, <2>5 DEF Receive, Types, codeVars
<1>10. ASSUME NEW d \in Dirs, Shut(d)
       PROVE  Types'
  BY <1>10 DEF Shut, Types, Ends, codeVars
<1>11. CASE Lose
  <2>1. <<>> \in Seq(Nat)
    OBVIOUS
  <2>2. wire' \in [Conns -> [Dirs -> Seq(Nat)]] /\ end' \in [Conns -> [Dirs -> Ends]]
    BY <1>11, <2>1 DEF Lose, Types, Ends
  <2>3. losses' \in Nat /\ UNCHANGED <<held, codeVars, endVars>>
    BY <1>11 DEF Lose, Types
  <2> QED
    BY <2>2, <2>3 DEF Types, codeVars, endVars
<1>12. CASE UNCHANGED vars
  BY <1>12 DEF vars, netVars, codeVars, endVars, Types
<1> QED
  BY <1>1, <1>2, <1>3, <1>4, <1>5, <1>6, <1>7, <1>8, <1>9, <1>10, <1>11, <1>12
     DEF Next, serveSocks, handleDial, splice

LEMMA EarlyStep == IInv /\ [Next]_vars => Early' /\ ReplyFirst'
<1> SUFFICES ASSUME Types, Early, ReplyFirst, \A d \in Dirs : Chain(d), [Next]_vars
             PROVE  Early' /\ ReplyFirst'
  BY DEF IInv
<1>1. CASE SocksRequest
  <2>1. /\ held' = [held EXCEPT !["link"] = {"l", "r"}] /\ "link" \in Conns /\ "target" \in Conns
        /\ proxy = "socks" /\ proxy' = "open" /\ agent' = "dial"
        /\ UNCHANGED <<wire, end, copier, ready, sent, got>>
    BY <1>1 DEF SocksRequest, endVars, Conns
  <2>2. held'["target"] = {}
    BY <2>1 DEF Early, Types
  <2> QED
    BY <2>1, <2>2 DEF Early, ReplyFirst
<1>2. CASE SocksFails \/ DialFails \/ OpenFails \/ ProxyReturns \/ AgentReturns
           \/ \E d \in Dirs : Leave(d)
  <2>1. PICK sides : Close(sides)
    BY <1>2 DEF SocksFails, DialFails, OpenFails, ProxyReturns, AgentReturns, Leave
  <2>2. /\ UNCHANGED <<copier, ready, sent, got>>
        /\ \/ proxy' = proxy /\ agent' \in {agent, "done"}
           \/ proxy' = "done" /\ agent' = agent
        /\ agent = "none" => agent' = "none"
    BY <1>2 DEF SocksFails, DialFails, OpenFails, ProxyReturns, AgentReturns, Leave, endVars, codeVars
  <2>3. /\ \A k \in Conns, d \in Dirs : wire'[k][d] = wire[k][d] \/ wire'[k][d] = <<>>
        /\ \A k \in Conns : held'[k] \subseteq held[k]
        /\ \A k \in Conns, d \in Dirs : end'[k][d] # end[k][d] =>
              Holds(k, Writer(d)) /\ ~Holds(k, Writer(d))'
        /\ \A k \in Conns, d \in Dirs : end[k][d] = "rst" => end'[k][d] = "rst"
    BY <2>1, Closing DEF Loses
  <2>4. /\ held["link"] = {} => end'["link"]["up"] = end["link"]["up"]
        /\ end'["link"]["up"] = "rst" => end["link"]["up"] = "rst" \/ ~Holds("link", "l")'
    BY <2>3 DEF Holds, Conns, Dirs, Writer
  <2> QED
    BY <2>2, <2>3, <2>4 DEF Early, ReplyFirst, Conns, Dirs, Holds
<1>3. CASE DialSucceeds
  <2>1. UNCHANGED <<ready, sent, got, proxy>> /\ agent' = "splice"
    BY <1>3 DEF DialSucceeds, endVars
  <2>2. proxy' # "socks"
    BY <1>3, <2>1 DEF DialSucceeds, Early
  <2>3. /\ copier'["pu"] = copier["pu"] /\ copier'["pd"] = copier["pd"]
        /\ copier'["au"] = "read"
    BY <1>3 DEF DialSucceeds, Types, Copiers
  <2>4. /\ wire'["app"] = wire["app"] /\ wire'["target"] = wire["target"]
        /\ wire'["link"]["up"] = wire["link"]["up"]
    BY <1>3 DEF DialSucceeds, Types, Conns, Dirs
  <2> QED
    BY <1>3, <2>1, <2>2, <2>3, <2>4 DEF DialSucceeds, Early, ReplyFirst
<1>4. CASE OpenSucceeds
  BY <1>4 DEF OpenSucceeds, Readable, Early, ReplyFirst, endVars
<1>5. ASSUME NEW g \in Copiers, CopyRead(g)
      PROVE  Early' /\ ReplyFirst'
  <2>1. /\ UNCHANGED <<end, held, proxy, agent, ready, sent, got>>
        /\ copier[g] = "read" /\ wire[Src(g)][Dir(g)] # <<>>
        /\ copier' = [copier EXCEPT ![g] = "write"]
        /\ wire' = [wire EXCEPT ![Src(g)][Dir(g)] = Tail(@)]
    BY <1>5 DEF CopyRead, Readable, Take, endVars
  <2>2. proxy \notin {"socks", "open"} \/ agent \notin {"none", "dial"}
    BY <2>1 DEF Early, Copiers
  <2>3. CASE proxy \in {"socks", "open"} /\ agent \notin {"none", "dial"}
    <3>1. g = "ad" /\ Src(g) = "target" /\ Dir(g) = "down"
      BY <2>1, <2>3 DEF Early, Copiers, Src, Dir
    <3> QED
      BY <2>1, <2>3, <3>1 DEF Early, ReplyFirst, Types, Copiers, Conns, Dirs
  <2>4. CASE proxy \notin {"socks", "open"} /\ agent \notin {"none", "dial"}
    BY <2>1, <2>4 DEF Early, ReplyFirst
  <2>5. agent \notin {"none", "dial"}
    BY <2>1 DEF Early, Copiers
  <2> QED
    BY <2>3, <2>4, <2>5
<1>6. ASSUME NEW g \in Copiers, CopyWrite(g)
      PROVE  Early' /\ ReplyFirst'
  <2>1. /\ UNCHANGED <<proxy, agent, ready, sent, got>>
        /\ copier[g] = "write" /\ Put(Dst(g), Dir(g), buf[g]) /\ buf[g] \in Nat
        /\ copier' = [copier EXCEPT ![g] = "read"]
    BY <1>6 DEF CopyWrite, endVars, Types
  <2>2. agent \notin {"none", "dial"}
    BY <2>1 DEF Early, Copiers
  <2>3. CASE proxy \in {"socks", "open"}
    <3>1. g = "ad" /\ Dst(g) = "link" /\ Dir(g) = "down" /\ Opposite(Dir(g)) = "up"
      BY <2>1, <2>2, <2>3 DEF Early, Copiers, Dst, Dir, Opposite
    <3>2. /\ \A c \in Conns : Loses(c, "up")
          /\ wire'["app"] = wire["app"] /\ wire'["target"] = wire["target"]
      BY <2>1, <3>1, Putting DEF Conns, Dirs
    <3>3. wire'["link"]["up"] = wire["link"]["up"] \/ wire'["link"]["up"] = <<>>
      BY <3>2 DEF Loses, Conns
    <3> QED
      BY <2>1, <2>2, <2>3, <3>1, <3>2, <3>3 DEF Early, ReplyFirst, Types, Copiers
  <2> QED
    BY <2>1, <2>2, <2>3 DEF Early, ReplyFirst
<1>7. ASSUME NEW g \in Copiers, SpliceEnds(g)
      PROVE  Early' /\ ReplyFirst'
  <2>1. /\ UNCHANGED <<proxy, agent, ready, sent, got>>
        /\ copier[g] \in {"read", "write"}
        /\ copier' = [copier EXCEPT ![g] = "done"]
    BY <1>7 DEF SpliceEnds, CopyEnds, endVars
  <2>2. agent \notin {"none", "dial"}
    BY <2>1 DEF Early, Copiers
  <2>3. \A k \in Conns, d \in Dirs : wire'[k][d] = wire[k][d] \/ wire'[k][d] = <<>>
    BY <1>7, Closing DEF SpliceEnds, Loses
  <2>4. CASE proxy \in {"socks", "open"}
    <3>1. g \in {"au", "ad"}
      BY <2>1, <2>4 DEF Early, Copiers
    <3> QED
      BY <2>1, <2>2, <2>3, <2>4, <3>1 DEF Early, ReplyFirst, Types, Copiers, Conns, Dirs
  <2> QED
    BY <2>1, <2>2, <2>4 DEF Early, ReplyFirst
<1>8. ASSUME NEW d \in Dirs, Send(d)
      PROVE  Early' /\ ReplyFirst'
  <2>1. /\ UNCHANGED <<proxy, agent, copier, ready, got>>
        /\ Present(d) /\ Put(At(d), d, sent[d] + 1) /\ sent[d] + 1 \in Nat
        /\ sent' = [sent EXCEPT ![d] = @ + 1]
    BY <1>8 DEF Send, codeVars, Types
  <2>2. agent \notin {"none", "dial"}
    BY <2>1 DEF Early, Present, Holds, Dirs, At
  <2>3. CASE proxy \in {"socks", "open"}
    <3>1. d = "down" /\ At(d) = "target" /\ Opposite(d) = "up"
      BY <2>1, <2>3 DEF Early, Present, Dirs, At, Opposite
    <3>2. /\ \A c \in Conns : Loses(c, "up")
          /\ wire'["app"] = wire["app"] /\ wire'["link"] = wire["link"]
      BY <2>1, <3>1, Putting DEF Conns, Dirs
    <3>3. wire'["target"]["up"] = wire["target"]["up"] \/ wire'["target"]["up"] = <<>>
      BY <3>2 DEF Loses, Conns
    <3> QED
      BY <2>1, <2>2, <2>3, <3>1, <3>2, <3>3 DEF Early, ReplyFirst, Types, Dirs
  <2> QED
    BY <2>1, <2>2, <2>3 DEF Early, ReplyFirst
<1>9. ASSUME NEW d \in Dirs, Receive(d)
      PROVE  Early' /\ ReplyFirst'
  <2> DEFINE o == Opposite(d) q == wire[At(d)][o]
  <2>1. /\ UNCHANGED <<end, held, proxy, agent, copier, sent>>
        /\ q # <<>> /\ wire' = [wire EXCEPT ![At(d)][o] = Tail(@)]
        /\ IF Head(q) = 0 THEN ready' = TRUE /\ UNCHANGED got
           ELSE got' = [got EXCEPT ![o] = Append(@, Head(q))] /\ UNCHANGED ready
    BY <1>9 DEF Receive, Readable, Take, codeVars
  <2>2. /\ agent \notin {"none", "dial"} /\ proxy \notin {"socks", "open"}
    BY <2>1 DEF Early, Dirs, At, Opposite
  <2>3. ASSUME ~ready, d = "up"
        PROVE  Head(q) = 0
    <3>1. Continues(-1, q) /\ q \in Seq(Nat)
      BY <2>3 DEF Chain, Received, To, At, Opposite, Dirs, Types, Conns
    <3> QED
      BY <2>1, <3>1 DEF Continues
  <2>4. ~ready' => got'["down"] = got["down"]
    BY <2>1, <2>3 DEF Opposite, Dirs, Types
  <2> QED
    BY <2>1, <2>2, <2>4 DEF Early, ReplyFirst
<1>10. ASSUME NEW d \in Dirs, Shut(d)
       PROVE  Early' /\ ReplyFirst'
  <2>1. /\ UNCHANGED <<wire, held, proxy, agent, copier, ready, sent, got>>
        /\ end' = [end EXCEPT ![At(d)][d] = "fin"] /\ At(d) # "link"
    BY <1>10 DEF Shut, codeVars, At
  <2>2. end'["link"] = end["link"]
    BY <2>1 DEF Types, Conns
  <2> QED
    BY <2>1, <2>2 DEF Early, ReplyFirst, Holds
<1>11. CASE Lose
  <2>1. /\ UNCHANGED <<held, proxy, agent, copier, ready, sent, got>> /\ held["link"] # {}
        /\ wire' = [wire EXCEPT !["link"] = [d \in Dirs |-> <<>>]]
        /\ end' = [end EXCEPT !["link"] = [d \in Dirs |-> "rst"]]
    BY <1>11 DEF Lose, codeVars, endVars
  <2>2. end'["link"]["down"] = "rst" /\ wire'["link"]["up"] = <<>> /\ wire'["link"]["down"] = <<>>
    BY <2>1 DEF Types, Conns, Dirs
  <2>3. wire'["app"] = wire["app"] /\ wire'["target"] = wire["target"]
    BY <2>1 DEF Types, Conns
  <2> QED
    BY <2>1, <2>2, <2>3 DEF Early, ReplyFirst, Holds
<1>12. CASE UNCHANGED vars
  BY <1>12 DEF vars, netVars, codeVars, endVars, Early, ReplyFirst, Holds
<1> QED
  BY <1>1, <1>2, <1>3, <1>4, <1>5, <1>6, <1>7, <1>8, <1>9, <1>10, <1>11, <1>12
     DEF Next, serveSocks, handleDial, splice

LEMMA ChainStep == IInv /\ [Next]_vars => \A d \in Dirs : Chain(d)'
<1> SUFFICES ASSUME IInv, [Next]_vars, NEW d \in Dirs
             PROVE  Chain(d)'
  OBVIOUS
<1>0. /\ Types /\ Early /\ ReplyFirst /\ Types' /\ Early'
      /\ \A e \in Dirs : Chain(e)
  BY TypeStep, EarlyStep DEF IInv
<1>a. ASSUME UNCHANGED <<copier, buf, sent, got, ready>>, \A k \in Conns : Loses(k, d)
      PROVE  Chain(d)'
  <2>1. Drops(Into(d)) /\ Drops(OutOf(d)) /\ sent'[d] = sent[d] /\ Received(d)' = Received(d)
    BY <1>a DEF Drops, Received
  <2> QED
    BY <1>0, <1>a, <2>1, LossChain
<1>1. CASE SocksRequest
  BY <1>0, <1>1, EarlyChain DEF SocksRequest
<1>2. CASE SocksFails \/ DialFails \/ OpenFails \/ ProxyReturns \/ AgentReturns
           \/ \E e \in Dirs : Leave(e)
  <2>1. PICK sides : Close(sides)
    BY <1>2 DEF SocksFails, DialFails, OpenFails, ProxyReturns, AgentReturns, Leave
  <2>2. UNCHANGED <<copier, buf, ready, sent, got>>
    BY <1>2 DEF SocksFails, DialFails, OpenFails, ProxyReturns, AgentReturns, Leave, endVars, codeVars
  <2> QED
    BY <1>0, <1>a, <2>1, <2>2, Closing
<1>3. CASE DialSucceeds
  <2>1. /\ UNCHANGED <<end, buf, ready, sent, got>>
        /\ copier' = [copier EXCEPT !["au"] = "read", !["ad"] = "read"]
        /\ held' = [held EXCEPT !["target"] = {"l", "r"}] /\ agent = "dial"
    BY <1>3 DEF DialSucceeds, endVars
  <2>2. /\ \A k \in {"app", "target"}, e \in Dirs : wire'[k][e] = <<>>
        /\ wire'["link"]["up"] = <<>>
        /\ wire'["link"]["down"] = IF Holds("link", "l") /\ end["link"]["up"] # "rst"
                                   THEN <<0>> ELSE <<>>
    <3>1. /\ \A k \in Conns, e \in Dirs : wire[k][e] = <<>>
          /\ "link" \in Conns /\ "down" \in Dirs /\ "up" \in Dirs
      BY <1>0, <2>1 DEF Early, Conns, Dirs
    <3>2. CASE Holds("link", "l") /\ end["link"]["up"] # "rst"
      <4>1. wire' = [wire EXCEPT !["link"]["down"] = <<0>>]
        BY <1>3, <3>2 DEF DialSucceeds
      <4> QED
        BY <1>0, <3>1, <3>2, <4>1 DEF Types, Conns, Dirs
    <3>3. CASE ~(Holds("link", "l") /\ end["link"]["up"] # "rst")
      <4>1. wire' = wire
        BY <1>3, <3>3 DEF DialSucceeds
      <4> QED
        BY <3>1, <3>3, <4>1 DEF Conns
    <3> QED
      BY <3>2, <3>3
  <2>3. /\ copier'["pu"] = "none" /\ copier'["pd"] = "none"
        /\ copier'["au"] = "read" /\ copier'["ad"] = "read"
        /\ ~ready' /\ sent'[d] = 0 /\ got'[d] = <<>>
    BY <1>0, <2>1 DEF Early, Types, Copiers, Dirs
  <2>4. Live("link", "down")' => wire'["link"]["down"] = <<0>>
    BY <1>0, <2>1, <2>2 DEF Live, Holds, Early, Types, Conns, Reader
  <2>5. CASE d = "up"
    <3>1. wire'[To(d)][d] = <<>> /\ wire'["link"][d] = <<>> /\ wire'[From(d)][d] = <<>>
      BY <2>2, <2>5, Ways DEF Dirs
    <3>2. Received(d)' = 0 /\ Reached(d)' = 0 /\ Passed(d)' = 0 /\ Linked(d)' = 0 /\ Taken(d)' = 0
      BY <2>3, <2>5, <3>1, Ways DEF Received, Reached, Passed, Linked, Taken, Writing
    <3> QED
      BY <2>3, <2>5, <3>1, <3>2, Ways DEF Chain, Continues
  <2>6. CASE d = "down"
    <3>1. wire'[To(d)][d] = <<>> /\ wire'[From(d)][d] = <<>>
      BY <2>2, <2>6, Ways DEF Dirs
    <3>2. Received(d)' = -1 /\ Reached(d)' = -1 /\ Passed(d)' = -1
      BY <2>3, <2>6, <3>1, Ways DEF Received, Reached, Passed, Writing
    <3>3. Live("link", d)' => Taken(d)' = 0
      <4>1. Live("link", d)' => wire'["link"][d] = <<0>>
        BY <2>4, <2>6
      <4>2. Live("link", d)' => Linked(d)' = 0
        BY <3>2, <4>1 DEF Linked
      <4> QED
        BY <2>3, <2>6, <4>2, Ways DEF Taken, Writing
    <3> QED
      BY <2>2, <2>3, <2>6, <3>1, <3>2, <3>3, Ways DEF Chain, Continues
  <2> QED
    BY <2>5, <2>6 DEF Dirs
<1>4. CASE OpenSucceeds
  <2> DEFINE q == wire["link"]["down"]
  <2>1. /\ UNCHANGED <<end, held, buf, ready, sent, got>> /\ proxy = "open"
        /\ copier' = [copier EXCEPT !["pu"] = "read", !["pd"] = "read"]
        /\ wire' = [wire EXCEPT !["link"]["down"] = Tail(@), !["app"]["down"] = <<0>>]
        /\ q # <<>> /\ Holds("link", "l")
    BY <1>4 DEF OpenSucceeds, endVars, Readable, Reader
  <2>2. /\ \A k \in Conns : wire'[k]["up"] = wire[k]["up"]
        /\ wire'["link"]["down"] = Tail(q) /\ wire'["app"]["down"] = <<0>>
        /\ wire'["target"]["down"] = wire["target"]["down"]
    <3> DEFINE w == [wire EXCEPT !["link"]["down"] = Tail(@)]
    <3>1. wire' = [w EXCEPT !["app"]["down"] = <<0>>]
      BY <2>1
    <3>2. /\ w["app"] = wire["app"] /\ w["target"] = wire["target"]
          /\ w["link"] = [wire["link"] EXCEPT !["down"] = Tail(@)] /\ DOMAIN w = Conns
      BY <1>0 DEF Types, Conns
    <3> HIDE DEF w
    <3>3. /\ wire'["target"] = wire["target"] /\ wire'["link"] = w["link"]
          /\ wire'["app"] = [wire["app"] EXCEPT !["down"] = <<0>>]
      BY <3>1, <3>2 DEF Conns
    <3>4. wire["app"] \in [Dirs -> Seq(Nat)] /\ wire["link"] \in [Dirs -> Seq(Nat)]
      BY <1>0 DEF Types, Conns
    <3> QED
      BY <3>2, <3>3, <3>4 DEF Conns, Dirs
  <2>3. /\ copier["pu"] = "none" /\ copier["pd"] = "none" /\ ~ready /\ got["down"] = <<>>
        /\ wire["app"]["down"] = <<>>
    BY <1>0, <2>1 DEF Early
  <2>4. /\ copier'["pu"] = "read" /\ copier'["pd"] = "read"
        /\ copier'["au"] = copier["au"] /\ copier'["ad"] = copier["ad"]
    BY <1>0, <2>1 DEF Types, Copiers
  <2>5. CASE d = "up"
    <3>0. /\ wire'[To(d)][d] = wire[To(d)][d] /\ wire'["link"][d] = wire["link"][d]
          /\ wire'[From(d)][d] = wire[From(d)][d]
          /\ copier'[Into(d)] = copier[Into(d)]
          /\ copier[OutOf(d)] = "none" /\ copier'[OutOf(d)] = "read"
      BY <2>2, <2>3, <2>4, <2>5, Routes, Ways
    <3>1. /\ Received(d)' = Received(d) /\ Reached(d)' = Reached(d) /\ Passed(d)' = Passed(d)
          /\ Linked(d)' = Linked(d) /\ Taken(d)' = Taken(d)
      BY <2>1, <3>0 DEF Received, Reached, Passed, Linked, Taken, Writing
    <3>2. \A k \in {To(d), "link", From(d)} : /\ Live(k, d)' <=> Live(k, d)
                                              /\ Holds(k, Reader(d))' <=> Holds(k, Reader(d))
      BY <2>1 DEF Live, Holds
    <3>3. /\ Continues(Received(d), wire[To(d)][d])' <=> Continues(Received(d), wire[To(d)][d])
          /\ Continues(Passed(d), wire["link"][d])' <=> Continues(Passed(d), wire["link"][d])
          /\ Continues(Taken(d), wire[From(d)][d])' <=> Continues(Taken(d), wire[From(d)][d])
      BY <3>0, <3>1 DEF Continues
    <3>4. buf' = buf /\ sent' = sent
      BY <2>1
    <3> HIDE DEF q
    <3> QED
      BY <1>0, <3>0, <3>1, <3>2, <3>3, <3>4 DEF Chain
  <2>6. CASE d = "down"
    <3>0. /\ wire[To(d)][d] = <<>> /\ wire'[To(d)][d] = <<0>> /\ wire["link"][d] = q
          /\ wire'["link"][d] = Tail(q) /\ wire'[From(d)][d] = wire[From(d)][d]
          /\ copier[Into(d)] = "none" /\ copier'[Into(d)] = "read"
          /\ copier'[OutOf(d)] = copier[OutOf(d)]
      BY <2>2, <2>3, <2>4, <2>6, Ways
    <3>1. Received(d) = -1 /\ Received(d)' = -1 /\ Reached(d) = -1 /\ Passed(d) = -1
      BY <2>1, <2>3, <2>6, <3>0 DEF Received, Reached, Passed, Writing
    <3>2. Reached(d)' = 0 /\ Passed(d)' = 0
      BY <3>0, <3>1 DEF Reached, Passed, Writing
    <3>3. q \in Seq(Nat)
      BY <1>0 DEF Types, Conns, Dirs
    <3>4. Linked(d)' = Linked(d) /\ Taken(d)' = Taken(d)
      <4>1. Len(Tail(q)) = Len(q) - 1 /\ Len(q) \in Nat
        BY <2>1, <3>3
      <4>2. Linked(d) = -1 + Len(q)
        BY <3>0, <3>1 DEF Linked
      <4>3. Linked(d)' = 0 + Len(Tail(q))
        BY <3>0, <3>2 DEF Linked
      <4>4. Linked(d)' = Linked(d)
        BY <4>1, <4>2, <4>3
      <4> QED
        BY <3>0, <4>4 DEF Taken, Writing
    <3>5. Continues(-1, <<0>>)
      BY DEF Continues
    <3>6. Live("app", d) => Continues(-1, q) /\ Continues(0, Tail(q))
      <4>1. Live("app", d) => Continues(-1, q)
        BY <1>0, <2>1, <2>6, <3>1 DEF Chain, To, At, Opposite, Reader
      <4> QED
        BY <2>1, <3>3, <4>1, TailContinues
    <3> HIDE DEF q
    <3> QED
      <4>1. Continues(Received(d), wire[To(d)][d])'
        BY <3>0, <3>1, <3>5 DEF Continues
      <4>2. /\ Live("app", d)' <=> Live("app", d)
            /\ Live("link", d)' <=> Live("link", d)
            /\ Live(From(d), d)' <=> Live(From(d), d)
            /\ Holds(From(d), Reader(d))' <=> Holds(From(d), Reader(d))
            /\ To(d) = "app"
        BY <2>1, <2>6, Ways DEF Live, Holds
      <4>3. Live("app", d)' => Continues(Passed(d), wire["link"][d])'
        BY <3>0, <3>2, <3>6, <4>2 DEF Continues
      <4>4. Live("app", d) /\ Live("link", d) =>
              /\ copier[OutOf(d)] = "write" => buf[OutOf(d)] = Taken(d)
              /\ Holds(From(d), Reader(d)) => Continues(Taken(d), wire[From(d)][d])
        BY <1>0, <4>2 DEF Chain
      <4>5. Live("app", d) /\ Live("link", d) /\ Live(From(d), d) =>
              sent[d] = Taken(d) + Len(wire[From(d)][d])
        BY <1>0, <4>2 DEF Chain
      <4> QED
        BY <2>1, <3>0, <3>4, <4>1, <4>2, <4>3, <4>4, <4>5 DEF Chain, Continues
  <2> QED
    BY <2>5, <2>6 DEF Dirs
<1>5. ASSUME NEW g \in Copiers, CopyRead(g)
      PROVE  Chain(d)'
  <2> DEFINE q == wire[Src(g)][Dir(g)]
  <2>1. /\ UNCHANGED <<end, held, ready, sent, got>>
        /\ copier[g] = "read" /\ q # <<>> /\ Holds(Src(g), Reader(Dir(g)))
        /\ copier' = [copier EXCEPT ![g] = "write"] /\ buf' = [buf EXCEPT ![g] = Head(q)]
        /\ wire' = [wire EXCEPT ![Src(g)][Dir(g)] = Tail(@)]
    BY <1>5 DEF CopyRead, Readable, Take, endVars
  <2>2. /\ q \in Seq(Nat) /\ wire'[Src(g)][Dir(g)] = Tail(q)
        /\ \A k \in Conns, e \in Dirs :
             k # Src(g) \/ e # Dir(g) => wire'[k][e] = wire[k][e]
        /\ copier'[g] = "write" /\ buf'[g] = Head(q)
        /\ \A h \in Copiers : h # g => copier'[h] = copier[h] /\ buf'[h] = buf[h]
    BY <1>0, <2>1, Copying DEF Types
  <2> HIDE DEF q
  <2>3. CASE d # Dir(g)
    <3>1. \A k \in Conns : Loses(k, d)
      BY <2>1, <2>2, <2>3 DEF Loses, Holds
    <3>2. g # Into(d) /\ g # OutOf(d) /\ Into(d) \in Copiers /\ OutOf(d) \in Copiers
      BY <2>3, Copying, Routes
    <3>3. Drops(Into(d)) /\ Drops(OutOf(d))
      BY <2>2, <3>2 DEF Drops
    <3> QED
      BY <1>0, <2>1, <3>1, <3>3, LossChain DEF Received
  <2>4. CASE d = Dir(g) /\ g = Into(d)
    <3>1. /\ Src(g) = "link" /\ OutOf(d) # g /\ OutOf(d) \in Copiers
          /\ To(d) \in Conns /\ From(d) \in Conns /\ To(d) # "link" /\ From(d) # "link"
      BY <2>4, Routes
    <3>2. Received(d)' = Received(d) /\ Reached(d)' = Reached(d)
      BY <2>1, <2>2, <3>1 DEF Received, Reached
    <3>3. Passed(d) = Reached(d) /\ Passed(d)' = Reached(d) + 1
      BY <1>0, <2>1, <2>2, <2>4, <3>2, Counts DEF Passed, Writing
    <3>4. Passed(d) \in Int /\ wire["link"][d] = q /\ wire'["link"][d] = Tail(q)
      BY <1>0, <2>2, <2>4, <3>1, Counts DEF q
    <3>5. Linked(d)' = Linked(d)
      BY <1>0, <2>1, <2>2, <3>3, <3>4, Counts DEF Linked
    <3>6. Taken(d)' = Taken(d)
      BY <2>2, <3>1, <3>5 DEF Taken, Writing
    <3>7. Live(To(d), d) => Head(q) = Passed(d)' /\ Continues(Passed(d)', Tail(q))
      <4>1. Live(To(d), d) => Continues(Passed(d), q)
        BY <1>0, <2>1, <2>4, <3>1, <3>4 DEF Chain
      <4> QED
        BY <2>1, <2>2, <3>3, <3>4, <4>1, TailContinues
    <3> QED
      BY SMTT(30), <1>0, <2>1, <2>2, <2>4, <3>1, <3>2, <3>4, <3>6, <3>7 DEF Chain, Live, Holds, Continues
  <2>5. CASE d = Dir(g) /\ g = OutOf(d)
    <3>1. /\ Src(g) = From(d) /\ Into(d) # g /\ Into(d) \in Copiers /\ "link" \in Conns
          /\ To(d) \in Conns /\ From(d) \in Conns /\ To(d) # From(d) /\ From(d) # "link"
      BY <2>5, Routes
    <3>2. /\ Received(d)' = Received(d) /\ Reached(d)' = Reached(d)
          /\ Passed(d)' = Passed(d) /\ Linked(d)' = Linked(d)
      BY <2>1, <2>2, <3>1 DEF Received, Reached, Passed, Linked, Writing
    <3>3. Taken(d) = Linked(d) /\ Taken(d)' = Linked(d) + 1
      BY <1>0, <2>1, <2>2, <2>5, <3>2, Counts DEF Taken, Writing
    <3>4. Taken(d) \in Int /\ wire[From(d)][d] = q /\ wire'[From(d)][d] = Tail(q)
      BY <1>0, <2>2, <2>5, <3>1, Counts DEF q
    <3>5. Live(To(d), d) /\ Live("link", d) =>
             Head(q) = Taken(d)' /\ Continues(Taken(d)', Tail(q))
      <4>1. Live(To(d), d) /\ Live("link", d) => Continues(Taken(d), q)
        BY <1>0, <2>1, <2>5, <3>1, <3>4 DEF Chain
      <4> QED
        BY <2>1, <2>2, <3>3, <3>4, <4>1, TailContinues
    <3>6. Len(Tail(q)) = Len(q) - 1 /\ Len(q) \in Nat
      BY <2>1, <2>2
    <3>7. /\ Live("link", d)' = Live("link", d) /\ Live(To(d), d)' = Live(To(d), d)
          /\ Live(From(d), d)' = Live(From(d), d) /\ Holds("link", Reader(d))' = Holds("link", Reader(d))
      BY <2>1 DEF Live, Holds
    <3>8. Live(To(d), d) /\ Live("link", d) /\ Live(From(d), d) =>
            sent'[d] = Taken(d)' + Len(wire'[From(d)][d])
      BY SMTT(30), <1>0, <2>1, <3>3, <3>4, <3>6, Counts DEF Chain
    <3> QED
      BY <1>0, <2>1, <2>2, <2>5, <3>1, <3>2, <3>4, <3>5, <3>7, <3>8 DEF Chain, Continues
  <2> QED
    BY <2>3, <2>4, <2>5, Copying
<1>6. ASSUME NEW g \in Copiers, CopyWrite(g)
      PROVE  Chain(d)'
  <2> DEFINE k == Dst(g) e == Dir(g) x == buf[g] q == wire[k][e]
  <2>1. /\ UNCHANGED <<ready, sent, got, buf>>
        /\ copier[g] = "write" /\ Put(k, e, x) /\ x \in Nat
        /\ copier' = [copier EXCEPT ![g] = "read"]
    BY <1>0, <1>6 DEF CopyWrite, endVars, Types
  <2>2. /\ copier'[g] = "read" /\ \A h \in Copiers : h # g => copier'[h] = copier[h]
        /\ q \in Seq(Nat) /\ k \in Conns /\ e \in Dirs
    BY <1>0, <2>1, Copying DEF Types
  <2>3. /\ held' = held /\ end[k][e] = "open"
        /\ \A c \in Conns : Loses(c, Opposite(e)) /\ end'[c][e] = end[c][e]
        /\ \A c \in Conns \ {k} : wire'[c][e] = wire[c][e]
        /\ Holds(k, Reader(e)) => wire'[k][e] = Append(q, x)
        /\ ~Holds(k, Reader(e)) => wire'[k][e] = q
    BY <1>0, <2>1, <2>2, Putting
  <2> HIDE DEF k, e, x, q
  <2>4. CASE d # e
    <3>1. d = Opposite(e)
      BY <2>2, <2>4 DEF Dirs, Opposite
    <3>2. g # Into(d) /\ g # OutOf(d) /\ Into(d) \in Copiers /\ OutOf(d) \in Copiers
      BY <3>1, Copying, Routes DEF e
    <3>3. Drops(Into(d)) /\ Drops(OutOf(d))
      BY <2>1, <2>2, <3>2 DEF Drops
    <3> QED
      BY <1>0, <2>1, <2>3, <3>1, <3>3, LossChain DEF Received
  <2>5. \A c \in Conns : /\ d = e => (Live(c, d)' <=> Live(c, d))
                         /\ Holds(c, Reader(d))' <=> Holds(c, Reader(d))
    BY <2>3 DEF Live, Holds
  <2>6. CASE d = e /\ g = Into(d)
    <3>1. /\ k = To(d) /\ OutOf(d) # g /\ OutOf(d) \in Copiers /\ "link" \in Conns
          /\ To(d) \in Conns /\ From(d) \in Conns /\ To(d) # "link" /\ To(d) # From(d)
      BY <2>6, Routes DEF k
    <3>2. Received(d)' = Received(d)
      BY <2>1 DEF Received
    <3>3. CASE ~Holds(To(d), Reader(d))
      <4>1. ~Live(To(d), d)' /\ wire'[To(d)][d] = wire[To(d)][d]
        BY <2>3, <2>6, <3>1, <3>3 DEF Live, Holds, q
      <4> QED
        BY <1>0, <3>2, <4>1 DEF Chain, Continues
    <3>4. CASE Holds(To(d), Reader(d))
      <4>1. Live(To(d), d)
        BY <2>3, <2>6, <3>1, <3>4 DEF Live
      <4>2. x = Passed(d) /\ Passed(d) = Reached(d) + 1 /\ Reached(d) = Received(d) + Len(q)
        BY <1>0, <2>1, <2>2, <2>6, <3>1, <4>1, Counts DEF Chain, Passed, Writing, Reached, x, q
      <4>3. Continues(Received(d), q) /\ q \in Seq(Nat) /\ Received(d) \in Int
        BY <1>0, <2>2, <2>6, <3>1, Counts DEF Chain, q
      <4>4. /\ Len(wire'[To(d)][d]) = Len(q) + 1
            /\ Continues(Received(d), wire'[To(d)][d])
        <5>1. wire'[To(d)][d] = Append(q, x) /\ x \in Nat /\ x = Received(d) + Len(q) + 1
          BY <2>1, <2>3, <2>6, <3>1, <3>4, <4>2, <4>3
        <5> QED
          BY <4>3, <5>1, AppendContinues
      <4>5. Reached(d)' = Reached(d) + 1
        BY <3>2, <4>2, <4>3, <4>4 DEF Reached
      <4>6. Passed(d)' = Passed(d)
        BY <1>0, <2>2, <2>6, <4>2, <4>5, Counts DEF Passed, Writing
      <4>7. Linked(d)' = Linked(d) /\ Taken(d)' = Taken(d)
        BY <2>2, <2>3, <2>6, <3>1, <4>6 DEF Linked, Taken, Writing
      <4> QED
        BY SMTT(30), <1>0, <2>1, <2>2, <2>3, <2>5, <2>6, <3>1, <3>2, <4>4, <4>6, <4>7 DEF Chain, Continues
    <3> QED
      BY <3>3, <3>4
  <2>7. CASE d = e /\ g = OutOf(d)
    <3>1. /\ k = "link" /\ "link" \in Conns /\ Into(d) # g /\ Into(d) \in Copiers
          /\ To(d) \in Conns /\ From(d) \in Conns /\ To(d) # "link" /\ From(d) # "link"
      BY <2>7, Routes DEF k
    <3>2. Received(d)' = Received(d) /\ Reached(d)' = Reached(d) /\ Passed(d)' = Passed(d)
      BY <2>1, <2>2, <2>3, <2>7, <3>1 DEF Received, Reached, Passed, Writing
    <3>a. /\ wire'[To(d)][d] = wire[To(d)][d] /\ wire'[From(d)][d] = wire[From(d)][d]
          /\ copier'[Into(d)] = copier[Into(d)]
      BY <2>2, <2>3, <2>7, <3>1
    <3>3. CASE ~Holds("link", Reader(d))
      <4>1. ~Live("link", d)' /\ ~Holds("link", Reader(d))'
        BY <2>5, <2>7, <3>1, <3>3 DEF Live
      <4>2. Continues(Received(d), wire[To(d)][d])'
        BY <1>0, <3>2, <3>a DEF Chain, Continues
      <4>3. Live(To(d), d)' /\ copier'[Into(d)] = "write" => buf'[Into(d)] = Passed(d)'
        BY <1>0, <2>1, <2>5, <2>7, <3>1, <3>2, <3>a DEF Chain
      <4> QED
        BY <4>1, <4>2, <4>3 DEF Chain
    <3>4. CASE Holds("link", Reader(d))
      <4>1. Live("link", d)
        BY <2>3, <2>7, <3>1, <3>4 DEF Live
      <4>2. /\ Live(To(d), d) => x = Taken(d) /\ Continues(Passed(d), q)
            /\ Taken(d) = Linked(d) + 1 /\ Linked(d) = Passed(d) + Len(q)
            /\ Passed(d) \in Int /\ q \in Seq(Nat)
        BY <1>0, <2>1, <2>2, <2>7, <3>1, <3>4, <4>1, Counts DEF Chain, Taken, Linked, Writing, x, q
      <4>3. wire'["link"][d] = Append(q, x) /\ x \in Nat /\ Len(wire'["link"][d]) = Len(q) + 1
        BY <2>1, <2>2, <2>3, <2>7, <3>1, <3>4
      <4>4. Live(To(d), d) => Continues(Passed(d), wire'["link"][d])
        BY <4>2, <4>3, AppendContinues
      <4>5. Linked(d)' = Linked(d) + 1
        BY <3>2, <4>2, <4>3 DEF Linked
      <4>6. Taken(d)' = Taken(d)
        BY <1>0, <2>2, <2>7, <4>2, <4>5, Counts DEF Taken, Writing
      <4>7. /\ copier'[OutOf(d)] # "write"
            /\ Live(To(d), d) /\ Live("link", d) /\ Holds(From(d), Reader(d))
                 => Continues(Taken(d), wire[From(d)][d])
            /\ Live(To(d), d) /\ Live("link", d) /\ Live(From(d), d)
                 => sent[d] = Taken(d) + Len(wire[From(d)][d])
        BY <1>0, <2>2, <2>7 DEF Chain
      <4>8. Live(To(d), d) /\ copier[Into(d)] = "write" => buf[Into(d)] = Passed(d)
        BY <1>0 DEF Chain
      <4> QED
        BY <1>0, <2>1, <2>5, <2>7, <3>1, <3>2, <3>a, <4>4, <4>6, <4>7, <4>8 DEF Chain, Continues
    <3> QED
      BY <3>3, <3>4
  <2> QED
    BY <2>4, <2>6, <2>7, Copying DEF e
<1>7. ASSUME NEW g \in Copiers, SpliceEnds(g)
      PROVE  Chain(d)'
  <2>1. /\ UNCHANGED <<ready, sent, got, buf>>
        /\ Close({<<Src(g), Reader(Dir(g))>>, <<Dst(g), Writer(Dir(g))>>})
        /\ copier' = [copier EXCEPT ![g] = "done"]
    BY <1>7 DEF SpliceEnds, endVars
  <2>2. \A h \in Copiers : copier'[h] = IF h = g THEN "done" ELSE copier[h]
    BY <1>0, <2>1 DEF Types
  <2>3. (\A k \in Conns : Loses(k, d)) /\ ~Holds(Src(g), Reader(Dir(g)))'
    <3>1. /\ Src(g) \in Conns /\ Reader(Dir(g)) \in {"l", "r"}
          /\ <<Src(g), Reader(Dir(g))>> \in {<<Src(g), Reader(Dir(g))>>, <<Dst(g), Writer(Dir(g))>>}
      BY Copying, Routes
    <3> QED
      BY <1>0, <2>1, <3>1, Closing
  <2>4. \A h \in Copiers : Drops(h)
    BY <2>1, <2>2, <2>3 DEF Drops
  <2> QED
    BY <1>0, <2>1, <2>3, <2>4, LossChain, Routes DEF Received
<1>8. ASSUME NEW e \in Dirs, Send(e)
      PROVE  Chain(d)'
  <2> DEFINE k == From(e) x == sent[e] + 1 q == wire[k][e]
  <2>1. /\ UNCHANGED <<ready, got, buf, copier>> /\ Put(k, e, x) /\ x \in Nat
        /\ sent' = [sent EXCEPT ![e] = @ + 1]
    BY <1>0, <1>8 DEF Send, codeVars, Types, From
  <2>2. k \in Conns /\ q \in Seq(Nat)
    BY <1>0, Routes DEF Types
  <2>3. /\ held' = held /\ end[k][e] = "open"
        /\ \A c \in Conns : Loses(c, Opposite(e)) /\ end'[c][e] = end[c][e]
        /\ \A c \in Conns \ {k} : wire'[c][e] = wire[c][e]
        /\ Holds(k, Reader(e)) => wire'[k][e] = Append(q, x)
        /\ ~Holds(k, Reader(e)) => wire'[k][e] = q
    BY <1>0, <2>1, <2>2, Putting
  <2> HIDE DEF k, x, q
  <2>4. CASE d # e
    <3>1. d = Opposite(e) /\ sent'[d] = sent[d]
      BY <1>0, <2>1, <2>4 DEF Dirs, Opposite, Types
    <3>2. Drops(Into(d)) /\ Drops(OutOf(d))
      BY <2>1 DEF Drops
    <3> QED
      BY <1>0, <2>1, <2>3, <3>1, <3>2, LossChain DEF Received
  <2>5. CASE d = e
    <3>1. /\ k = From(d) /\ "link" \in Conns
          /\ To(d) \in Conns /\ From(d) \in Conns /\ From(d) # "link" /\ To(d) # From(d)
      BY <2>5, Routes DEF k
    <3>2. /\ Received(d)' = Received(d) /\ Reached(d)' = Reached(d) /\ Passed(d)' = Passed(d)
          /\ Linked(d)' = Linked(d) /\ Taken(d)' = Taken(d)
      BY <2>1, <2>3, <2>5, <3>1 DEF Received, Reached, Passed, Linked, Taken, Writing
    <3>3. \A c \in Conns : /\ Live(c, d)' <=> Live(c, d)
                           /\ Holds(c, Reader(d))' <=> Holds(c, Reader(d))
      BY <2>3, <2>5 DEF Live, Holds
    <3>4. CASE ~Holds(From(d), Reader(d))
      BY <1>0, <2>1, <2>3, <2>5, <3>1, <3>2, <3>3, <3>4 DEF Chain, Live, Continues
    <3>5. CASE Holds(From(d), Reader(d))
      <4>1. Live(From(d), d)
        BY <2>3, <2>5, <3>1, <3>5 DEF Live
      <4>2. /\ Live(To(d), d) /\ Live("link", d) =>
                 x = Taken(d) + Len(q) + 1 /\ Continues(Taken(d), q)
            /\ Taken(d) \in Int
        BY <1>0, <2>5, <3>1, <3>5, <4>1, Counts DEF Chain, x, q
      <4>3. /\ wire'[From(d)][d] = Append(q, x) /\ x \in Nat
            /\ Len(wire'[From(d)][d]) = Len(q) + 1 /\ Len(q) \in Nat
        BY <2>1, <2>2, <2>3, <2>5, <3>1, <3>5
      <4>4. Live(To(d), d) /\ Live("link", d) => Continues(Taken(d), wire'[From(d)][d])
        BY <2>2, <4>2, <4>3, AppendContinues
      <4>5. Live(To(d), d) /\ Live("link", d) => sent'[d] = Taken(d) + Len(wire'[From(d)][d])
        BY <1>0, <2>1, <2>5, <4>2, <4>3 DEF Types, x
      <4> QED
        BY <1>0, <2>1, <2>3, <3>1, <3>2, <3>3, <4>4, <4>5, <2>5 DEF Chain, Continues
    <3> QED
      BY <3>4, <3>5
  <2> QED
    BY <2>4, <2>5
<1>9. ASSUME NEW e \in Dirs, Receive(e)
      PROVE  Chain(d)'
  <2>0. PICK o \in Dirs : o = Opposite(e)
    BY Routes
  <2> DEFINE q == wire[At(e)][o]
  <2>1. /\ UNCHANGED <<end, held, copier, buf, sent>>
        /\ q # <<>> /\ wire' = [wire EXCEPT ![At(e)][o] = Tail(@)]
        /\ IF Head(q) = 0 THEN ready' = TRUE /\ UNCHANGED got
           ELSE got' = [got EXCEPT ![o] = Append(@, Head(q))] /\ UNCHANGED ready
    BY <1>9, <2>0 DEF Receive, Readable, Take, codeVars
  <2>2. At(e) = To(o) /\ o \in Dirs /\ To(o) \in Conns /\ q \in Seq(Nat)
    BY <1>0, <2>0, Routes DEF To, Types
  <2>3. /\ wire'[To(o)][o] = Tail(q)
        /\ \A k \in Conns, c \in Dirs : k # To(o) \/ c # o => wire'[k][c] = wire[k][c]
    BY <1>0, <2>1, <2>2 DEF Types
  <2>4. Continues(Received(o), q) /\ Received(o) \in Int /\ wire[To(o)][o] = q
    BY <1>0, <2>2, Counts DEF Chain
  <2>5. Head(q) = Received(o) + 1 /\ Len(Tail(q)) = Len(q) - 1 /\ Len(q) \in Nat
        /\ Continues(Received(o) + 1, Tail(q))
    BY <2>1, <2>2, <2>4, TailContinues
  <2>6. Received(o)' = Received(o) + 1 /\ (d # o => Received(d)' = Received(d))
    <3>1. got[o] \in Seq(Nat) /\ Len(got[o]) \in Nat
      BY <1>0, <2>2 DEF Types
    <3>2. CASE Head(q) = 0
      <4>1. o = "down" /\ ~ready
        BY <2>2, <2>5, <3>1, <3>2 DEF Received, Dirs
      <4>2. got[o] = <<>>
        BY <1>0, <4>1 DEF ReplyFirst
      <4> QED
        BY <2>1, <2>2, <3>2, <4>1, <4>2 DEF Received, Dirs
    <3>3. CASE Head(q) # 0
      <4>1. o = "up" \/ ready
        BY <2>2, <2>5, <3>1, <3>3 DEF Received, Dirs
      <4>2. /\ Len(got'[o]) = Len(got[o]) + 1 /\ ready' = ready
            /\ d # o => got'[d] = got[d]
        BY SMTT(30), <1>0, <2>1, <2>2, <3>1, <3>3 DEF Types
      <4> QED
        BY <4>1, <4>2 DEF Received
    <3> QED
      BY <3>2, <3>3
  <2> HIDE DEF q
  <2>7. CASE d # o
    <3>1. /\ \A k \in Conns : Loses(k, d)
          /\ Drops(Into(d)) /\ Drops(OutOf(d))
      BY <2>1, <2>3, <2>7 DEF Loses, Holds, Drops
    <3> QED
      BY <1>0, <2>1, <2>6, <2>7, <3>1, LossChain
  <2>8. CASE d = o
    <3>1. To(d) # "link" /\ To(d) # From(d) /\ "link" \in Conns /\ From(d) \in Conns
      BY Routes
    <3>2. Reached(d)' = Reached(d)
      <4>1. Reached(d) = Received(d) + Len(q)
        BY <2>4, <2>8 DEF Reached
      <4>2. Reached(d)' = Received(d)' + Len(Tail(q))
        BY <2>3, <2>8 DEF Reached
      <4>3. Received(d)' = Received(d) + 1 /\ Received(d) \in Int
        BY <2>4, <2>6, <2>8
      <4> QED
        BY <2>5, <4>1, <4>2, <4>3
    <3>3. Passed(d)' = Passed(d) /\ Linked(d)' = Linked(d) /\ Taken(d)' = Taken(d)
      BY <2>1, <2>3, <2>8, <3>1, <3>2 DEF Passed, Linked, Taken, Writing
    <3>4. \A c \in Conns : /\ Live(c, d)' <=> Live(c, d)
                           /\ Holds(c, Reader(d))' <=> Holds(c, Reader(d))
      BY <2>1 DEF Live, Holds
    <3> QED
      <4>1. Continues(Received(d), wire[To(d)][d])'
        BY <2>3, <2>5, <2>6, <2>8 DEF Continues
      <4>2. /\ wire'["link"][d] = wire["link"][d] /\ wire'[From(d)][d] = wire[From(d)][d]
            /\ Live(To(d), d)' <=> Live(To(d), d)
            /\ Live("link", d)' <=> Live("link", d)
            /\ Live(From(d), d)' <=> Live(From(d), d)
            /\ Holds("link", Reader(d))' <=> Holds("link", Reader(d))
            /\ Holds(From(d), Reader(d))' <=> Holds(From(d), Reader(d))
        BY <2>2, <2>3, <2>8, <3>1, <3>4
      <4>3. Live(To(d), d) =>
              /\ copier[Into(d)] = "write" => buf[Into(d)] = Passed(d)
              /\ Holds("link", Reader(d)) => Continues(Passed(d), wire["link"][d])
        BY <1>0 DEF Chain
      <4>4. Live(To(d), d) /\ Live("link", d) =>
              /\ copier[OutOf(d)] = "write" => buf[OutOf(d)] = Taken(d)
              /\ Holds(From(d), Reader(d)) => Continues(Taken(d), wire[From(d)][d])
        BY <1>0 DEF Chain
      <4>5. Live(To(d), d) /\ Live("link", d) /\ Live(From(d), d) =>
              sent[d] = Taken(d) + Len(wire[From(d)][d])
        BY <1>0 DEF Chain
      <4> QED
        BY <2>1, <3>3, <4>1, <4>2, <4>3, <4>4, <4>5 DEF Chain, Continues
  <2> QED
    BY <2>7, <2>8
<1>10. ASSUME NEW e \in Dirs, Shut(e)
       PROVE  Chain(d)'
  <2>1. /\ UNCHANGED <<wire, held, copier, buf, ready, sent, got>> /\ At(e) \in Conns
        /\ end[At(e)][e] = "open" /\ end' = [end EXCEPT ![At(e)][e] = "fin"]
    BY <1>10, Routes DEF Shut, codeVars, From
  <2>2. \A k \in Conns : Loses(k, d)
    BY <1>0, <2>1 DEF Loses, Holds, Types
  <2> QED
    BY <1>a, <2>1, <2>2
<1>11. CASE Lose
  <2>1. /\ UNCHANGED <<held, copier, buf, ready, sent, got>>
        /\ wire' = [wire EXCEPT !["link"] = [c \in Dirs |-> <<>>]]
        /\ end' = [end EXCEPT !["link"] = [c \in Dirs |-> "rst"]]
    BY <1>11 DEF Lose, codeVars, endVars
  <2>2. \A k \in Conns : Loses(k, d)
    BY <1>0, <2>1 DEF Loses, Live, Holds, Types
  <2> QED
    BY <1>a, <2>1, <2>2
<1>12. CASE UNCHANGED vars
  <2>1. \A k \in Conns : Loses(k, d)
    BY <1>12 DEF vars, netVars, Loses, Holds
  <2> QED
    BY <1>a, <1>12, <2>1 DEF vars, codeVars, endVars
<1> QED
  BY <1>1, <1>2, <1>3, <1>4, <1>5, <1>6, <1>7, <1>8, <1>9, <1>10, <1>11, <1>12
     DEF Next, serveSocks, handleDial, splice

\* Only a receiver adds to what it got, and it adds the next number.
LEMMA OrderStep == IInv /\ [Next]_vars => InOrder'
<1> SUFFICES ASSUME IInv, [Next]_vars PROVE InOrder'
  OBVIOUS
<1>1. CASE UNCHANGED got
  BY <1>1 DEF InOrder, IInv
<1>2. ASSUME NEW e \in Dirs, Receive(e)
      PROVE  InOrder'
  <2> DEFINE o == Opposite(e) q == wire[At(e)][o]
  <2>1. /\ q # <<>> /\ At(e) = To(o) /\ o \in Dirs /\ To(o) \in Conns
        /\ IF Head(q) = 0 THEN UNCHANGED got
           ELSE got' = [got EXCEPT ![o] = Append(@, Head(q))]
    BY <1>2, Routes DEF Receive, Readable, To
  <2>2. q \in Seq(Nat) /\ got[o] \in Seq(Nat) /\ Continues(Received(o), q)
    BY <2>1 DEF IInv, Types, Chain
  <2>3. CASE Head(q) # 0
    <3>1. Received(o) \in Int /\ Head(q) = Received(o) + 1
      BY <2>1, <2>2, TailContinues, Counts DEF IInv
    <3>2. Head(q) = Len(got[o]) + 1
      BY <2>2, <2>3, <3>1 DEF Received
    <3>3. \A i \in DOMAIN got[o] : got[o][i] = i
      BY <2>1 DEF IInv, InOrder
    <3>4. \A i \in DOMAIN Append(got[o], Head(q)) : Append(got[o], Head(q))[i] = i
      BY <2>2, <3>2, <3>3
    <3> QED
      BY <2>1, <2>3, <3>4 DEF InOrder, IInv, Types
  <2> QED
    BY <1>1, <2>1, <2>3
<1> QED
  BY <1>1, <1>2
     DEF Next, serveSocks, handleDial, splice, vars, endVars, Lose, SocksRequest, SocksFails,
         OpenSucceeds, OpenFails, ProxyReturns, DialSucceeds, DialFails, AgentReturns,
         CopyRead, CopyWrite, SpliceEnds, Send, Shut, Leave

LEMMA InitInv == Init => IInv
<1> SUFFICES ASSUME Init PROVE IInv
  OBVIOUS
<1>1. Types
  <2>1. <<>> \in Seq(Nat)
    OBVIOUS
  <2> QED
    BY <2>1 DEF Init, Types, Ends
<1>2. Early /\ ReplyFirst
  BY DEF Init, Early, ReplyFirst, Holds, Conns, Dirs, Copiers
<1>3. InOrder
  BY DEF Init, InOrder
<1>4. ASSUME NEW d \in Dirs PROVE Chain(d)
  <2>1. \A k \in Conns : wire[k][d] = <<>>
    BY DEF Init
  <2>2. copier[Into(d)] = "none" /\ copier[OutOf(d)] = "none" /\ ~Live("link", d)
    BY Routes DEF Init, Live, Holds, Conns
  <2> QED
    BY <2>1, <2>2, Routes DEF Chain, Continues
<1> QED
  BY <1>1, <1>2, <1>3, <1>4 DEF IInv

LEMMA Invariant == Spec => []IInv
<1>1. Init => IInv
  BY InitInv
<1>2. IInv /\ [Next]_vars => IInv'
  BY TypeStep, EarlyStep, ChainStep, OrderStep DEF IInv
<1> QED
  BY <1>1, <1>2, PTL DEF Spec

\* What either end of a tunnel has received is what the other sent first, in
\* order and with nothing of the handshake among it, whichever of the three
\* connections are closed or reset on the way (serveSocks, handleDial, splice).
THEOREM DeliveredInOrder == Spec => []InOrder
<1>1. IInv => InOrder
  BY DEF IInv
<1> QED
  BY <1>1, Invariant, PTL

-----------------------------------------------------------------------------
(* The end: the machines close in turn, from the sender on, each with all    *)
(* that was sent behind it.                                                  *)

\* The machine next to d's receiver still has its connections, and the one next
\* to its sender.
Near(d) == Holds(To(d), Writer(d))
Far(d)  == Holds(From(d), Reader(d))

\* What was sent and neither arrived nor is on its way.
Total(d) == Taken(d) + Len(wire[From(d)][d])
Lost(d)  == sent[d] - Total(d)

Dialled == copier["au"] # "none"

\* How far the two machines are.
Handshake ==
  /\ copier["pu"] = "none" <=> copier["pd"] = "none"
  /\ copier["au"] = "none" <=> copier["ad"] = "none"
  /\ copier["pd"] = "none" => ~ready /\ wire["app"]["down"] = <<>> /\ proxy # "splice"
  /\ copier["pd"] # "none" => Dialled
  /\ ~Dialled =>
       /\ wire["link"]["down"] = <<>> /\ held["target"] = {}
       /\ \A d \in Dirs : end["target"][d] = "open"
  /\ Dialled => agent \in {"splice", "done"}
  /\ agent = "splice" => Dialled
  /\ agent = "dial" => Holds("link", "r")
  /\ proxy \in {"socks", "open"} => Holds("app", "r")
  /\ proxy = "open" => Holds("link", "l") /\ agent # "none"
  /\ proxy = "done" => ~Holds("app", "r")
  /\ agent \in {"none", "dial"} =>
       \A k \in Conns, d \in Dirs : (k = "link" => losses = 0) => end[k][d] # "rst"
  /\ agent = "none" => \A d \in Dirs : end["link"][d] = "open"

\* A machine has both its connections or neither, and does not copy without.
Both ==
  /\ agent # "none" => (Near("down") <=> Holds("link", "l"))
  /\ Dialled => (Near("up") <=> Holds("link", "r"))
  /\ \A g \in Copiers : copier[g] = "done" => ~Holds(Src(g), Reader(Dir(g)))

\* A connection ends when its writer closes it, or the sender shuts it, and is
\* reset only over something in the other direction that is lost.
Ended ==
  \A k \in Conns, d \in Dirs : (k = "link" => losses = 0) /\ end[k][d] # "open" =>
    /\ end[k][d] = "rst" => ~Holds(k, Writer(d)) /\ Lost(Opposite(d)) > 0
    /\ k # From(d) => ~Holds(k, Writer(d))

\* A receiver that is not in "shut" shuts its own side after the end.
Awaits ==
  \A d \in Dirs : Holds(To(d), Reader(d)) /\ d \notin shut /\ end[To(d)][Opposite(d)] # "open"
    => end[To(d)][d] # "open"

\* No more is sent.
Quiet(d) == end[From(d)][d] # "open" \/ (d = "up" /\ copier["pu"] = "none" /\ proxy = "done")

\* The premises of EndWhole, as long as d's end may yet be reached under them.
Good(d) ==
  /\ Dialled /\ (d = "down" => proxy = "open" \/ copier["pd"] # "none")
  /\ Holds(To(d), Reader(d)) /\ d \notin shut /\ losses = 0 /\ Lost(Opposite(d)) = 0

\* Then the machines close in turn, each with all that was sent behind it.
Settled(d) ==
  /\ Lost(d) = 0
  /\ ~Far(d) => Linked(d) = sent[d] /\ Quiet(d)
  /\ ~Near(d) => Reached(d) = sent[d] /\ Quiet(d)
Whole == \A d \in Dirs : Good(d) => Settled(d)

Counted == \A d \in Dirs : Lost(d) >= 0

EInv == Counted /\ Handshake /\ Both /\ Ended /\ Awaits /\ Whole

-----------------------------------------------------------------------------
LEMMA Totals ==
  ASSUME Types, NEW d \in Dirs
  PROVE  /\ Total(d) \in Int /\ Lost(d) \in Int /\ sent[d] \in Nat
         /\ Received(d) <= Reached(d) /\ Reached(d) <= Passed(d) /\ Passed(d) <= Linked(d)
         /\ Linked(d) <= Taken(d) /\ Taken(d) <= Total(d)
<1>1. \A k \in Conns : Len(wire[k][d]) \in Nat
  BY Counts
<1>2. sent[d] \in Nat
  BY DEF Types
<1>3. /\ Received(d) \in Int /\ Reached(d) \in Int /\ Passed(d) \in Int
      /\ Linked(d) \in Int /\ Taken(d) \in Int
      /\ Writing(Into(d)) \in {0, 1} /\ Writing(OutOf(d)) \in {0, 1}
  BY Counts
<1> DEFINE a == Len(wire[To(d)][d]) b == Len(wire["link"][d]) c == Len(wire[From(d)][d])
<1>4. a \in Nat /\ b \in Nat /\ c \in Nat
  BY <1>1, Routes
<1>5. /\ Reached(d) = Received(d) + a
      /\ Passed(d) = Reached(d) + Writing(Into(d))
      /\ Linked(d) = Passed(d) + b
      /\ Taken(d) = Linked(d) + Writing(OutOf(d))
      /\ Total(d) = Taken(d) + c
      /\ Lost(d) = sent[d] - Total(d)
  BY DEF Total, Lost, Taken, Linked, Passed, Reached
<1> HIDE DEF a, b, c
<1>6. Received(d) <= Reached(d) /\ Reached(d) <= Passed(d) /\ Passed(d) <= Linked(d)
  BY <1>3, <1>4, <1>5
<1>7. Linked(d) <= Taken(d) /\ Taken(d) <= Total(d) /\ Total(d) \in Int
  BY <1>3, <1>4, <1>5
<1> QED
  BY <1>2, <1>5, <1>6, <1>7

\* If nothing of d was lost up to a place, nothing behind it is under way.
LEMMA AllThere ==
  ASSUME Types, NEW d \in Dirs, Lost(d) >= 0
  PROVE  /\ Reached(d) = sent[d] => Linked(d) = sent[d] /\ wire["link"][d] = <<>> /\ Writing(Into(d)) = 0
         /\ Linked(d) = sent[d] => Lost(d) = 0 /\ Writing(OutOf(d)) = 0 /\ wire[From(d)][d] = <<>>
<1>1. /\ Received(d) \in Int /\ Reached(d) \in Int /\ Passed(d) \in Int
      /\ Linked(d) \in Int /\ Taken(d) \in Int
      /\ Writing(Into(d)) \in {0, 1} /\ Writing(OutOf(d)) \in {0, 1}
  BY Counts
<1>2. \A k \in Conns : wire[k][d] \in Seq(Nat)
  BY Counts
<1>3. \A q \in Seq(Nat) : Len(q) \in Nat /\ (Len(q) = 0 => q = <<>>)
  OBVIOUS
<1> DEFINE y == Len(wire["link"][d]) z == Len(wire[From(d)][d])
<1>4. /\ y \in Nat /\ z \in Nat
      /\ y = 0 => wire["link"][d] = <<>>
      /\ z = 0 => wire[From(d)][d] = <<>>
  BY <1>2, <1>3, Routes
<1>5. /\ Passed(d) = Reached(d) + Writing(Into(d)) /\ Linked(d) = Passed(d) + y
      /\ Taken(d) = Linked(d) + Writing(OutOf(d)) /\ Total(d) = Taken(d) + z
      /\ Lost(d) = sent[d] - Total(d)
  BY DEF Passed, Linked, Taken, Total, Lost
<1>6. sent[d] \in Nat /\ Total(d) \in Int
  <2>1. sent[d] \in Nat
    BY DEF Types
  <2> HIDE DEF z
  <2> QED
    BY <1>1, <1>4, <1>5, <2>1
<1> HIDE DEF y, z
<1>7. Linked(d) <= sent[d]
  BY SMTT(30), <1>1, <1>4, <1>5, <1>6
<1>8. Reached(d) = sent[d] => Linked(d) = sent[d] /\ y = 0 /\ Writing(Into(d)) = 0
  BY SMTT(30), <1>1, <1>4, <1>5, <1>6, <1>7
<1>9. Linked(d) = sent[d] => Lost(d) = 0 /\ Writing(OutOf(d)) = 0 /\ z = 0
  BY SMTT(30), <1>1, <1>4, <1>5, <1>6
<1> QED
  BY <1>4, <1>8, <1>9

\* Where nothing of d comes in, its counts only fall; where Lost does not grow
\* nothing changes.
LEMMA Falling ==
  ASSUME Types, Types', NEW d \in Dirs, sent'[d] = sent[d], Received(d)' = Received(d),
         \A k \in Conns : wire'[k][d] \in {wire[k][d], <<>>},
         \A g \in Copiers : copier'[g] = "write" => copier[g] = "write"
  PROVE  /\ Lost(d)' >= Lost(d)
         /\ Lost(d)' = Lost(d) => \A k \in Conns : wire'[k][d] = wire[k][d]
         /\ wire'[To(d)][d] = wire[To(d)][d] => Reached(d)' = Reached(d)
         /\ /\ wire'[To(d)][d] = wire[To(d)][d] /\ wire'["link"][d] = wire["link"][d]
            /\ copier'[Into(d)] = copier[Into(d)]
            => Linked(d)' = Linked(d)
<1> DEFINE t == To(d) f == From(d)
<1>0. /\ t \in Conns /\ f \in Conns /\ "link" \in Conns /\ Into(d) \in Copiers /\ OutOf(d) \in Copiers
      /\ t # f /\ t # "link" /\ f # "link"
  BY Routes
<1>1. \A k \in Conns : /\ Len(wire[k][d]) \in Nat /\ Len(wire'[k][d]) \in Nat
                       /\ wire[k][d] \in Seq(Nat) /\ wire'[k][d] \in Seq(Nat)
  BY DEF Types
<1>2. \A k \in Conns : /\ Len(wire'[k][d]) <= Len(wire[k][d])
                       /\ Len(wire'[k][d]) = Len(wire[k][d]) => wire'[k][d] = wire[k][d]
  <2> SUFFICES ASSUME NEW k \in Conns
               PROVE  /\ Len(wire'[k][d]) <= Len(wire[k][d])
                      /\ Len(wire'[k][d]) = Len(wire[k][d]) => wire'[k][d] = wire[k][d]
    OBVIOUS
  <2>1. CASE wire'[k][d] = wire[k][d]
    BY <1>1, <2>1
  <2>2. CASE wire'[k][d] = <<>>
    BY <1>1, <2>2
  <2> QED
    BY <2>1, <2>2
<1>3. /\ Writing(Into(d))' \in {0, 1} /\ Writing(Into(d)) \in {0, 1}
      /\ Writing(OutOf(d))' \in {0, 1} /\ Writing(OutOf(d)) \in {0, 1}
      /\ Writing(Into(d))' <= Writing(Into(d)) /\ Writing(OutOf(d))' <= Writing(OutOf(d))
  BY <1>0 DEF Writing
<1>4. Received(d) \in Int /\ sent[d] \in Nat
  BY Counts DEF Types
<1>5. /\ Reached(d) = Received(d) + Len(wire[t][d])
      /\ Passed(d) = Reached(d) + Writing(Into(d))
      /\ Linked(d) = Passed(d) + Len(wire["link"][d])
      /\ Taken(d) = Linked(d) + Writing(OutOf(d))
      /\ Total(d) = Taken(d) + Len(wire[f][d])
      /\ Reached(d)' = Received(d)' + Len(wire'[t][d])
      /\ Passed(d)' = Reached(d)' + Writing(Into(d))'
      /\ Linked(d)' = Passed(d)' + Len(wire'["link"][d])
      /\ Taken(d)' = Linked(d)' + Writing(OutOf(d))'
      /\ Total(d)' = Taken(d)' + Len(wire'[f][d])
  BY DEF Total, Taken, Linked, Passed, Reached
<1>6. /\ Len(wire[t][d]) \in Nat /\ Len(wire'[t][d]) \in Nat /\ Len(wire'[t][d]) <= Len(wire[t][d])
      /\ Len(wire[f][d]) \in Nat /\ Len(wire'[f][d]) \in Nat /\ Len(wire'[f][d]) <= Len(wire[f][d])
      /\ Len(wire["link"][d]) \in Nat /\ Len(wire'["link"][d]) \in Nat
      /\ Len(wire'["link"][d]) <= Len(wire["link"][d])
  BY <1>0, <1>1, <1>2
<1>7. Lost(d) = sent[d] - Total(d) /\ Lost(d)' = sent[d] - Total(d)'
  BY DEF Lost
<1> DEFINE x == Len(wire[t][d]) y == Len(wire["link"][d]) z == Len(wire[f][d])
<1>17. /\ Reached(d) = Received(d) + x /\ Reached(d)' = Received(d) + x'
       /\ x \in Nat /\ x' \in Nat /\ x' <= x
  BY <1>5, <1>6
<1>18. /\ Linked(d) = Passed(d) + y /\ Linked(d)' = Passed(d)' + y'
       /\ y \in Nat /\ y' \in Nat /\ y' <= y
  BY <1>5, <1>6
<1>19. /\ Total(d) = Taken(d) + z /\ Total(d)' = Taken(d)' + z'
       /\ z \in Nat /\ z' \in Nat /\ z' <= z
  BY <1>5, <1>6
<1> HIDE DEF t, f, x, y, z
<1>11. /\ Reached(d) \in Int /\ Reached(d)' \in Int /\ Reached(d)' <= Reached(d)
       /\ Reached(d)' = Reached(d) => x' = x
  BY <1>4, <1>17
<1>12. /\ Passed(d) \in Int /\ Passed(d)' \in Int /\ Passed(d)' <= Passed(d)
       /\ Passed(d)' = Passed(d) => Reached(d)' = Reached(d)
  BY SMTT(30), <1>3, <1>5, <1>11
<1>13. /\ Linked(d) \in Int /\ Linked(d)' \in Int /\ Linked(d)' <= Linked(d)
       /\ Linked(d)' = Linked(d) =>
            Passed(d)' = Passed(d) /\ y' = y
  BY <1>12, <1>18
<1>14. /\ Taken(d) \in Int /\ Taken(d)' \in Int /\ Taken(d)' <= Taken(d)
       /\ Taken(d)' = Taken(d) => Linked(d)' = Linked(d)
  BY <1>3, <1>5, <1>13
<1>15. /\ Total(d) \in Int /\ Total(d)' \in Int /\ Total(d)' <= Total(d)
       /\ Total(d)' = Total(d) => Taken(d)' = Taken(d) /\ z' = z
  BY <1>14, <1>19
<1>8. Lost(d)' >= Lost(d) /\ (Lost(d)' = Lost(d) => Total(d)' = Total(d))
  BY <1>4, <1>7, <1>15
<1>9. ASSUME Lost(d)' = Lost(d) PROVE \A k \in Conns : wire'[k][d] = wire[k][d]
  <2>1. /\ Len(wire'[t][d]) = Len(wire[t][d]) /\ Len(wire'[f][d]) = Len(wire[f][d])
        /\ Len(wire'["link"][d]) = Len(wire["link"][d])
    BY <1>8, <1>9, <1>11, <1>12, <1>13, <1>14, <1>15 DEF x, y, z
  <2>2. \A k \in Conns : k \in {t, f, "link"}
    BY <1>0 DEF Conns
  <2> QED
    BY <1>0, <1>2, <2>1, <2>2
<1>10. wire'[t][d] = wire[t][d] => Reached(d)' = Reached(d)
  BY <1>5
<1>16. /\ wire'[t][d] = wire[t][d] /\ wire'["link"][d] = wire["link"][d]
       /\ copier'[Into(d)] = copier[Into(d)]
       => Linked(d)' = Linked(d)
  BY <1>5 DEF Writing
<1> QED
  BY <1>8, <1>9, <1>10, <1>16 DEF t

\* What a close destroys and what it ends.
LEMMA ClosingMore ==
  ASSUME Types, NEW sides, Close(sides), NEW k \in Conns, NEW d \in Dirs
  PROVE  /\ \A s \in {"l", "r"} : Holds(k, s)' <=> Holds(k, s) /\ <<k, s>> \notin sides
         /\ wire'[k][d] \in {wire[k][d], <<>>}
         /\ wire'[k][d] # wire[k][d] =>
              \/ <<k, Reader(d)>> \in sides /\ Holds(k, Reader(d))
              \/ wire[k][Opposite(d)] # <<>> /\ wire'[k][Opposite(d)] = <<>>
         /\ end'[k][d] # end[k][d] => <<k, Writer(d)>> \in sides /\ Holds(k, Writer(d))
         /\ end[k][d] # "open" => end'[k][d] # "open"
         /\ end'[k][d] = "rst" => \/ end[k][d] = "rst"
                                  \/ wire[k][Opposite(d)] # <<>> /\ wire'[k][Opposite(d)] = <<>>
<1> DEFINE closing == {p \in Conns \X Dirs :
              <<p[1], Writer(p[2])>> \in sides /\ Holds(p[1], Writer(p[2]))}
           resets == {p \in closing : wire[p[1]][Opposite(p[2])] # <<>>}
           o == Opposite(d)
<1>0. /\ o \in Dirs /\ Opposite(o) = d /\ Writer(o) = Reader(d)
  BY Routes
<1>1. PICK destroyed \in SUBSET resets :
        wire' = [c \in Conns |-> [e \in Dirs |->
            IF <<c, Opposite(e)>> \in closing \/ <<c, e>> \in destroyed
            THEN <<>> ELSE wire[c][e]]]
  BY DEF Close
<1>2. held' = [c \in Conns |-> {side \in held[c] : <<c, side>> \notin sides}]
  BY DEF Close
<1>3. end' = [c \in Conns |-> [e \in Dirs |->
          IF <<c, e>> \in resets THEN "rst"
          ELSE IF <<c, e>> \in closing /\ end[c][e] = "open" THEN "fin" ELSE end[c][e]]]
  BY DEF Close
<1>4. <<k, d>> \in closing <=> <<k, Writer(d)>> \in sides /\ Holds(k, Writer(d))
  OBVIOUS
<1>5. <<k, o>> \in closing <=> <<k, Reader(d)>> \in sides /\ Holds(k, Reader(d))
  BY <1>0
<1>6. <<k, d>> \in resets <=> <<k, d>> \in closing /\ wire[k][o] # <<>>
  OBVIOUS
<1>7. <<k, d>> \in destroyed => <<k, d>> \in resets
  BY <1>1
<1> HIDE DEF closing, resets
<1>8. /\ wire'[k][d] = IF <<k, o>> \in closing \/ <<k, d>> \in destroyed THEN <<>> ELSE wire[k][d]
      /\ wire'[k][o] = IF <<k, d>> \in closing \/ <<k, o>> \in destroyed THEN <<>> ELSE wire[k][o]
  BY <1>0, <1>1
<1>9. end'[k][d] = IF <<k, d>> \in resets THEN "rst"
                   ELSE IF <<k, d>> \in closing /\ end[k][d] = "open" THEN "fin" ELSE end[k][d]
  BY <1>3
<1>10. \A s \in {"l", "r"} : Holds(k, s)' <=> Holds(k, s) /\ <<k, s>> \notin sides
  BY <1>2 DEF Holds
<1> QED
  BY <1>4, <1>5, <1>6, <1>7, <1>8, <1>9, <1>10

\* What a write to a connection that nobody reads does to it.
LEMMA PuttingMore ==
  ASSUME Types, NEW k \in Conns, NEW d \in Dirs, NEW x \in Nat, Put(k, d, x)
  PROVE  /\ Holds(k, Reader(d)) => end' = end /\ \A c \in Conns :
              wire'[c][Opposite(d)] = wire[c][Opposite(d)]
         /\ \A c \in Conns : wire'[c][Opposite(d)] \in {wire[c][Opposite(d)], <<>>}
         /\ \A c \in Conns, e \in Dirs : end'[c][e] # end[c][e] =>
              c = k /\ e = Opposite(d) /\ ~Holds(k, Reader(d))
         /\ \A c \in Conns, e \in Dirs : end[c][e] # "open" => end'[c][e] # "open"
         /\ end[k][Opposite(d)] # "rst"
<1>0. Opposite(d) \in Dirs /\ Opposite(d) # d
  BY Routes
<1>1. end[k][Opposite(d)] # "rst"
  BY DEF Put, Writable
<1>2. CASE Holds(k, Reader(d))
  <2>1. end' = end /\ wire' = [wire EXCEPT ![k][d] = Append(@, x)]
    BY <1>2 DEF Put
  <2>2. \A c \in Conns : wire'[c][Opposite(d)] = wire[c][Opposite(d)]
    BY <1>0, <2>1 DEF Types
  <2> QED
    BY <1>1, <1>2, <2>1, <2>2
<1>3. CASE ~Holds(k, Reader(d))
  <2>1. /\ end' = [end EXCEPT ![k][Opposite(d)] = "rst"]
        /\ wire' \in {wire, [wire EXCEPT ![k][Opposite(d)] = <<>>]}
    BY <1>3 DEF Put
  <2>2. \A c \in Conns : wire'[c][Opposite(d)] \in {wire[c][Opposite(d)], <<>>}
    <3>1. CASE wire' = [wire EXCEPT ![k][Opposite(d)] = <<>>]
      BY <1>0, <3>1 DEF Types
    <3> QED
      BY <2>1, <3>1
  <2>3. \A c \in Conns, e \in Dirs :
          end'[c][e] = IF c = k /\ e = Opposite(d) THEN "rst" ELSE end[c][e]
    BY <1>0, <2>1 DEF Types
  <2> QED
    BY <1>1, <1>3, <2>2, <2>3
<1> QED
  BY <1>1, <1>2, <1>3

LEMMA TwoMachines == ProxySides # AgentSides
<1>1. <<"app", "r">> \in ProxySides
  BY DEF ProxySides
<1>2. <<"app", "r">> \notin AgentSides
  BY DEF AgentSides
<1> QED
  BY <1>1, <1>2

\* The machines close both their connections, the two ends their own.
LEMMA SplicedSides ==
  ASSUME NEW g \in Copiers
  PROVE  {<<Src(g), Reader(Dir(g))>>, <<Dst(g), Writer(Dir(g))>>} =
           IF g \in {"pu", "pd"} THEN ProxySides ELSE AgentSides
BY DEF Copiers, Src, Dst, Dir, Reader, Writer, ProxySides, AgentSides

LEMMA SidesClosed ==
  ASSUME Types, NEW sides, Close(sides)
  PROVE  /\ sides = ProxySides =>
              /\ ~Holds("app", "r")' /\ ~Holds("link", "l")'
              /\ Holds("app", "l")' = Holds("app", "l") /\ Holds("link", "r")' = Holds("link", "r")
              /\ Holds("target", "l")' = Holds("target", "l")
              /\ Holds("target", "r")' = Holds("target", "r")
         /\ sides = AgentSides =>
              /\ ~Holds("target", "l")' /\ ~Holds("link", "r")'
              /\ Holds("target", "r")' = Holds("target", "r") /\ Holds("link", "l")' = Holds("link", "l")
              /\ Holds("app", "l")' = Holds("app", "l") /\ Holds("app", "r")' = Holds("app", "r")
         /\ \A d \in Dirs : sides = {<<At(d), Writer(d)>>} =>
              /\ Holds("app", "r")' = Holds("app", "r")
              /\ Holds("link", "l")' = Holds("link", "l") /\ Holds("link", "r")' = Holds("link", "r")
              /\ Holds("target", "l")' = Holds("target", "l")
              /\ ~Holds(From(d), Writer(d))' /\ Holds(To(d), Reader(d))' = Holds(To(d), Reader(d))
<1>1. \A k \in Conns, s \in {"l", "r"} : Holds(k, s)' <=> Holds(k, s) /\ <<k, s>> \notin sides
  <2>1. "up" \in Dirs
    BY DEF Dirs
  <2> QED
    BY <2>1, ClosingMore
<1>2. \A k \in Conns, s \in {"l", "r"} : Holds(k, s) \in BOOLEAN /\ Holds(k, s)' \in BOOLEAN
  BY DEF Holds
<1>3. sides = ProxySides => \A k, s :
        <<k, s>> \in sides <=> (k = "app" /\ s = "r") \/ (k = "link" /\ s = "l")
  BY DEF ProxySides
<1>4. sides = AgentSides => \A k, s :
        <<k, s>> \in sides <=> (k = "link" /\ s = "r") \/ (k = "target" /\ s = "l")
  BY DEF AgentSides
<1>5. \A d \in Dirs : sides = {<<At(d), Writer(d)>>} =>
        \A k, s : <<k, s>> \in sides <=> k = At(d) /\ s = Writer(d)
  OBVIOUS
<1>6. {"app", "link", "target"} = Conns
  BY DEF Conns
<1>7. ASSUME sides = ProxySides
      PROVE  /\ ~Holds("app", "r")' /\ ~Holds("link", "l")'
             /\ Holds("app", "l")' = Holds("app", "l") /\ Holds("link", "r")' = Holds("link", "r")
             /\ Holds("target", "l")' = Holds("target", "l")
             /\ Holds("target", "r")' = Holds("target", "r")
  <2>1. \A k, s : <<k, s>> \in sides <=> (k = "app" /\ s = "r") \/ (k = "link" /\ s = "l")
    BY <1>3, <1>7
  <2>2. \A k \in Conns, s \in {"l", "r"} :
          Holds(k, s)' <=> Holds(k, s) /\ ~((k = "app" /\ s = "r") \/ (k = "link" /\ s = "l"))
    BY <1>1, <2>1
  <2> QED
    BY <1>2, <1>6, <2>2
<1>8. ASSUME sides = AgentSides
      PROVE  /\ ~Holds("target", "l")' /\ ~Holds("link", "r")'
             /\ Holds("target", "r")' = Holds("target", "r") /\ Holds("link", "l")' = Holds("link", "l")
             /\ Holds("app", "l")' = Holds("app", "l") /\ Holds("app", "r")' = Holds("app", "r")
  <2>1. \A k, s : <<k, s>> \in sides <=> (k = "link" /\ s = "r") \/ (k = "target" /\ s = "l")
    BY <1>4, <1>8
  <2>2. \A k \in Conns, s \in {"l", "r"} :
          Holds(k, s)' <=> Holds(k, s) /\ ~((k = "link" /\ s = "r") \/ (k = "target" /\ s = "l"))
    BY <1>1, <2>1
  <2> QED
    BY <1>2, <1>6, <2>2
<1>9. ASSUME NEW d \in Dirs, sides = {<<At(d), Writer(d)>>}
      PROVE  /\ Holds("app", "r")' = Holds("app", "r")
             /\ Holds("link", "l")' = Holds("link", "l") /\ Holds("link", "r")' = Holds("link", "r")
             /\ Holds("target", "l")' = Holds("target", "l")
             /\ ~Holds(From(d), Writer(d))' /\ Holds(To(d), Reader(d))' = Holds(To(d), Reader(d))
  <2>1. \A k, s : <<k, s>> \in sides <=> k = At(d) /\ s = Writer(d)
    BY <1>5, <1>9
  <2>2. \/ d = "up" /\ At(d) = "app" /\ Writer(d) = "l" /\ From(d) = "app" /\ To(d) = "target" /\ Reader(d) = "r"
        \/ d = "down" /\ At(d) = "target" /\ Writer(d) = "r" /\ From(d) = "target" /\ To(d) = "app" /\ Reader(d) = "l"
    BY DEF Dirs, At, From, To, Opposite, Reader, Writer
  <2> QED
    BY <1>1, <1>2, <1>6, <2>1, <2>2
<1> QED
  BY <1>7, <1>8, <1>9

\* The next of d is received: the reply, or a datum.
LEMMA Receiving ==
  ASSUME IInv, NEW d \in Dirs, Receive(Opposite(d))
  PROVE  /\ Received(d)' = Received(d) + 1
         /\ Received(Opposite(d))' = Received(Opposite(d))
         /\ d = "up" => ready' = ready
         /\ ready => ready'
         /\ Len(wire[To(d)][d]) \in Nat \ {0} /\ Len(wire'[To(d)][d]) = Len(wire[To(d)][d]) - 1
         /\ \A k \in Conns, e \in Dirs : k # To(d) \/ e # d => wire'[k][e] = wire[k][e]
         /\ UNCHANGED <<end, held, codeVars, sent, shut, losses>>
<1> DEFINE q == wire[To(d)][d]
<1>1. /\ q # <<>> /\ UNCHANGED <<end, held, codeVars, sent, shut, losses>>
      /\ wire' = [wire EXCEPT ![To(d)][d] = Tail(@)]
      /\ IF Head(q) = 0 THEN ready' = TRUE /\ UNCHANGED got
         ELSE got' = [got EXCEPT ![d] = Append(@, Head(q))] /\ UNCHANGED ready
  BY Routes DEF Receive, Readable, Take, To
<1>2. To(d) \in Conns /\ Opposite(d) \in Dirs /\ Opposite(d) # d
  BY Routes
<1>3. q \in Seq(Nat) /\ Continues(Received(d), q) /\ Received(d) \in Int
  BY <1>2, Counts DEF IInv, Types, Chain
<1>4. Head(q) = Received(d) + 1 /\ Len(Tail(q)) = Len(q) - 1 /\ Len(q) \in Nat \ {0}
  <2>1. Len(q) # 0
    BY <1>1, <1>3
  <2> QED
    BY <1>1, <1>3, <2>1, TailContinues
<1>5. got[d] \in Seq(Nat) /\ got[Opposite(d)] \in Seq(Nat) /\ ready \in BOOLEAN
  BY <1>2 DEF IInv, Types
<1>6. /\ wire'[To(d)][d] = Tail(q)
      /\ \A k \in Conns, e \in Dirs : k # To(d) \/ e # d => wire'[k][e] = wire[k][e]
  BY <1>1, <1>2 DEF IInv, Types
<1>7. CASE Head(q) = 0
  <2>1. Received(d) = -1
    BY <1>3, <1>4, <1>7
  <2>2. Len(got[d]) \in Nat
    BY <1>5
  <2>3. d # "up" /\ ~ready
    BY <2>1, <2>2 DEF Received
  <2>4. d = "down" /\ got[d] = <<>>
    BY <2>3 DEF IInv, ReplyFirst, Dirs
  <2>5. Received(d)' = 0
    BY <1>1, <1>7, <2>4 DEF Received
  <2>6. Received(Opposite(d))' = Received(Opposite(d))
    BY <1>1, <1>7, <2>4 DEF Received, Opposite
  <2> QED
    BY <1>1, <1>4, <1>6, <1>7, <2>1, <2>3, <2>5, <2>6
<1>8. CASE Head(q) # 0
  <2>1. /\ got' = [got EXCEPT ![d] = Append(@, Head(q))] /\ ready' = ready
        /\ Head(q) \in Nat
    BY <1>1, <1>3, <1>8
  <2>2. Received(d) # -1
    BY <1>3, <1>4, <1>8
  <2>3. Received(d) = Len(got[d]) /\ (d = "up" \/ ready)
    BY <2>2 DEF Received
  <2>4. got'[d] = Append(got[d], Head(q)) /\ got'[Opposite(d)] = got[Opposite(d)]
    BY <1>2, <2>1 DEF IInv, Types
  <2>5. Len(got'[d]) = Len(got[d]) + 1
    BY <1>5, <2>1, <2>4
  <2>6. Received(d)' = Len(got'[d])
    BY <2>1, <2>3 DEF Received
  <2>7. Received(Opposite(d))' = Received(Opposite(d))
    BY <2>1, <2>4, <1>2 DEF Received
  <2> QED
    BY <1>1, <1>4, <1>6, <2>1, <2>3, <2>5, <2>6, <2>7
<1> QED
  BY <1>7, <1>8

LEMMA HandshakeStep == IInv /\ Handshake /\ Both /\ [Next]_vars => Handshake'
<1> SUFFICES ASSUME IInv, Types, Early, Handshake, Both, [Next]_vars PROVE Handshake'
  BY DEF IInv, Dirs
<1>1. CASE SocksRequest
  <2>1. /\ Holds("app", "r")' = Holds("app", "r") /\ Holds("link", "r")' /\ Holds("link", "l")'
        /\ held'["target"] = held["target"]
    BY <1>1 DEF SocksRequest, Holds, Types, Conns
  <2>2. agent = "none" /\ agent' = "dial" /\ proxy = "socks" /\ proxy' = "open"
    BY <1>1 DEF SocksRequest, Early
  <2> QED
    BY <1>1, <2>1, <2>2 DEF SocksRequest, Handshake, endVars, Dialled
<1> DEFINE Blank == ~Dialled =>
       /\ wire'["link"]["down"] = <<>> /\ held'["target"] = {}
       /\ \A d \in Dirs : end'["target"][d] = "open"
<1>18. ASSUME NEW sides, Close(sides) PROVE Blank
  <2>1. SUFFICES ASSUME ~Dialled
                 PROVE  /\ wire'["link"]["down"] = <<>> /\ held'["target"] = {}
                        /\ \A d \in Dirs : end'["target"][d] = "open"
    OBVIOUS
  <2>2. /\ wire["link"]["down"] = <<>> /\ held["target"] = {} /\ "down" \in Dirs
        /\ \A d \in Dirs : end["target"][d] = "open"
        /\ "target" \in Conns /\ "link" \in Conns
    BY <2>1 DEF Handshake, Conns, Dirs
  <2>3. wire'["link"]["down"] = <<>>
    <3>1. wire'["link"]["down"] \in {wire["link"]["down"], <<>>}
      BY <1>18, <2>2, ClosingMore
    <3> QED
      BY <2>2, <3>1
  <2>4. held'["target"] = {}
    BY <1>18, <2>2, Closing
  <2>5. \A d \in Dirs : end'["target"][d] = "open"
    BY <1>18, <2>2, Closing DEF Holds
  <2> QED
    BY <2>3, <2>4, <2>5
\* Nothing is on its way, so nothing is reset.
<1>2. ASSUME agent' \in {"none", "dial"}, losses' = losses, NEW sides, Close(sides),
             agent' = agent
      PROVE  /\ \A k \in Conns, d \in Dirs : (k = "link" => losses' = 0) => end'[k][d] # "rst"
             /\ agent = "none" => \A d \in Dirs : end'["link"][d] = "open"
  <2>3. agent = "none" => \A d \in Dirs : end'["link"][d] = "open"
    BY <1>2, Closing DEF Handshake, Early, Holds, Conns
  <2> SUFFICES ASSUME NEW k \in Conns, NEW d \in Dirs, k = "link" => losses' = 0
               PROVE  end'[k][d] # "rst"
    BY <2>3
  <2>1. end[k][d] # "rst"
    BY <1>2 DEF Handshake
  <2>2. wire[k][Opposite(d)] = <<>>
    BY <1>2 DEF Early, Conns, Dirs, Opposite
  <2> QED
    BY <1>2, <2>1, <2>2, ClosingMore
<1>3. CASE SocksFails
  <2>1. Close(ProxySides) /\ ~Holds("app", "r")' /\ agent = "none" /\ agent' = "none"
    BY <1>3, SidesClosed DEF SocksFails, Early
  <2>3. Blank
    BY <1>18, <2>1
  <2>2. wire'["app"]["down"] = <<>>
    BY <2>1, Closing, ClosingMore DEF Early, Conns, Dirs
  <2> QED
    BY <1>2, <1>3, <2>1, <2>2, <2>3 DEF SocksFails, Handshake, endVars, Dialled
<1>4. CASE OpenFails
  <2>1. Close(ProxySides) /\ ~Holds("app", "r")' /\ Holds("link", "r")' = Holds("link", "r")
    BY <1>4, SidesClosed DEF OpenFails
  <2>3. Blank
    BY <1>18, <2>1
  <2>2. wire'["app"]["down"] = <<>>
    BY <1>4, <2>1, ClosingMore DEF OpenFails, Early, Conns, Dirs
  <2> QED
    BY <1>2, <1>4, <2>1, <2>2, <2>3 DEF OpenFails, Handshake, endVars, Dialled
<1>5. CASE DialFails
  <2>1. /\ Close(AgentSides) /\ Holds("app", "r")' = Holds("app", "r")
        /\ Holds("link", "l")' = Holds("link", "l")
    BY <1>5, SidesClosed DEF DialFails
  <2>3. Blank
    BY <1>18, <2>1
  <2>2. wire'["app"]["down"] = <<>>
    BY <1>5, <2>1, ClosingMore DEF DialFails, Early, Conns, Dirs
  <2> QED
    BY <1>5, <2>1, <2>2, <2>3 DEF DialFails, Handshake, endVars, Dialled, Early
<1>6. CASE ProxyReturns
  <2>1. Close(ProxySides) /\ ~Holds("app", "r")' /\ Holds("link", "r")' = Holds("link", "r")
    BY <1>6, SidesClosed DEF ProxyReturns
  <2> QED
    BY <1>2, <1>6, <1>18, <2>1 DEF ProxyReturns, Handshake, endVars, Dialled
<1>7. CASE AgentReturns
  <2>1. /\ Close(AgentSides) /\ Holds("app", "r")' = Holds("app", "r")
        /\ Holds("link", "l")' = Holds("link", "l")
    BY <1>7, SidesClosed DEF AgentReturns
  <2>2. copier["pd"] = "none" => wire'["app"]["down"] = <<>>
    BY <2>1, ClosingMore DEF Handshake, Conns, Dirs
  <2> QED
    BY <1>7, <1>18, <2>1, <2>2 DEF AgentReturns, Handshake, endVars, Dialled
<1>8. ASSUME NEW g \in Copiers, SpliceEnds(g) PROVE Handshake'
  <2>0. /\ UNCHANGED <<proxy, agent, ready, sent, got, losses>>
        /\ copier[g] # "none" /\ copier' = [copier EXCEPT ![g] = "done"]
    BY <1>8 DEF SpliceEnds, CopyEnds, endVars
  <2>1. /\ \A h \in Copiers : copier'[h] = "none" <=> copier[h] = "none"
        /\ {"pu", "pd", "au", "ad"} = Copiers
    BY <2>0 DEF Types, Copiers
  <2>2. agent \in {"splice", "done"}
    BY <2>0 DEF Handshake, Dialled, Copiers
  <2>3. PICK sides \in {ProxySides, AgentSides} :
          Close(sides) /\ (sides = ProxySides => g \in {"pu", "pd"})
    <3>1. Close({<<Src(g), Reader(Dir(g))>>, <<Dst(g), Writer(Dir(g))>>})
      BY <1>8 DEF SpliceEnds
    <3> QED
      BY <3>1, TwoMachines, SplicedSides
  <2>4. proxy \in {"socks", "open"} => sides = AgentSides
    BY <2>0, <2>3 DEF Early
  <2>5. copier["pd"] = "none" => wire'["app"]["down"] = <<>>
    BY <2>3, ClosingMore DEF Handshake, Conns, Dirs
  <2>6. /\ sides = AgentSides => /\ Holds("app", "r")' = Holds("app", "r")
                                 /\ Holds("link", "l")' = Holds("link", "l")
        /\ sides = ProxySides => ~Holds("app", "r")'
    BY <2>3, SidesClosed
  <2> QED
    BY <2>0, <2>1, <2>2, <2>3, <2>4, <2>5, <2>6 DEF Handshake, Dialled
<1>9. ASSUME NEW d \in Dirs, Leave(d) PROVE Handshake'
  <2>1. /\ UNCHANGED <<copier, proxy, agent, ready, sent, got, losses>>
        /\ Close({<<At(d), Writer(d)>>})
    BY <1>9 DEF Leave, codeVars, endVars
  <2>2. /\ Holds("app", "r")' = Holds("app", "r")
        /\ Holds("link", "l")' = Holds("link", "l") /\ Holds("link", "r")' = Holds("link", "r")
    BY <2>1, SidesClosed
  <2>3. copier["pd"] = "none" => wire'["app"]["down"] = <<>>
    BY <2>1, ClosingMore DEF Handshake, Conns, Dirs
  <2> QED
    BY <1>2, <1>18, <2>1, <2>2, <2>3 DEF Handshake, Dialled
<1>10. CASE DialSucceeds
  <2>1. /\ Holds("app", "r")' = Holds("app", "r") /\ Holds("link", "l")' = Holds("link", "l")
        /\ wire'["app"]["down"] = wire["app"]["down"]
        /\ agent' = "splice" /\ UNCHANGED <<proxy, ready>>
        /\ copier'["au"] = "read" /\ copier'["ad"] = "read"
        /\ copier'["pu"] = copier["pu"] /\ copier'["pd"] = copier["pd"]
    BY <1>10 DEF DialSucceeds, Holds, Types, Conns, Copiers, endVars
  <2> QED
    BY <1>10, <2>1 DEF Handshake, Dialled
<1>11. CASE OpenSucceeds
  <2>1. /\ UNCHANGED <<held, agent, ready>> /\ proxy = "open" /\ proxy' = "splice"
        /\ copier'["au"] = copier["au"] /\ copier'["ad"] = copier["ad"]
        /\ copier'["pu"] = "read" /\ copier'["pd"] = "read"
    BY <1>11 DEF OpenSucceeds, Types, Copiers, endVars
  <2>2. wire["link"]["down"] # <<>>
    BY <1>11 DEF OpenSucceeds, Readable
  <2>3. agent \notin {"none", "dial"}
    BY <2>2 DEF Early
  <2>4. Dialled
    BY <2>2 DEF Handshake
  <2> QED
    BY <2>1, <2>3, <2>4 DEF Handshake, Dialled, Holds
<1>12. ASSUME NEW g \in Copiers, CopyRead(g) \/ CopyWrite(g) PROVE Handshake'
  <2>1. /\ UNCHANGED <<held, proxy, agent, ready, losses>>
        /\ \A h \in Copiers : copier'[h] = "none" <=> copier[h] = "none"
        /\ copier[g] # "none"
    BY <1>12 DEF CopyRead, CopyWrite, endVars, Types, Put
  <2>2. agent \in {"splice", "done"} /\ {"pu", "pd", "au", "ad"} = Copiers
    BY <2>1 DEF Handshake, Dialled, Copiers
  <2>3. copier["pd"] = "none" => wire'["app"]["down"] = wire["app"]["down"]
    <3>1. CASE CopyRead(g)
      BY <2>2, <3>1 DEF CopyRead, Take, Src, Dir, Types, Conns, Dirs
    <3>2. CASE CopyWrite(g) /\ g # "pd"
      <4>1. Dst(g) # "app" /\ Dst(g) \in Conns /\ Dir(g) \in Dirs /\ buf[g] \in Nat
        BY <2>2, <3>2 DEF Dst, Dir, Conns, Dirs, Types
      <4>2. \A c \in Conns \ {Dst(g)} : wire'[c] = wire[c]
        BY <3>2, <4>1, Putting DEF CopyWrite
      <4> QED
        BY <4>1, <4>2 DEF Conns
    <3> QED
      BY <1>12, <2>1, <3>1, <3>2
  <2>4. \A h \in {"pu", "pd", "au", "ad"} : copier'[h] = "none" <=> copier[h] = "none"
    BY <2>1, <2>2
  <2>5. \A k \in Conns, s \in {"l", "r"} : Holds(k, s)' = Holds(k, s)
    BY <2>1 DEF Holds
  <2>6. Dialled /\ Dialled'
    BY <2>1, <2>2, <2>4 DEF Dialled, Handshake
  <2> QED
    BY <2>1, <2>2, <2>3, <2>4, <2>5, <2>6 DEF Handshake, Conns
<1>13. ASSUME NEW d \in Dirs, Send(d) PROVE Handshake'
  <2>1. /\ UNCHANGED <<held, proxy, agent, copier, ready, losses>> /\ Present(d)
        /\ Put(At(d), d, sent[d] + 1)
    BY <1>13 DEF Send, Put, codeVars
  <2>5. At(d) \in Conns /\ sent[d] + 1 \in Nat
    BY Routes DEF From, Types
  <2>2. Dialled
    <3>1. CASE d = "up"
      BY <2>1, <3>1 DEF Present, Handshake
    <3>2. CASE d = "down"
      BY <2>1, <3>2 DEF Present, Holds, At, Handshake
    <3> QED
      BY <3>1, <3>2 DEF Dirs
  <2>3. \A c \in Conns \ {At(d)} : wire'[c] = wire[c]
    BY <2>1, <2>5, Putting
  <2>4. copier["pd"] = "none" => wire'["app"]["down"] = wire["app"]["down"]
    BY <2>1, <2>3 DEF Present, At, Dirs, Conns, Handshake
  <2> QED
    BY <2>1, <2>2, <2>4 DEF Handshake, Dialled, Holds
<1>14. ASSUME NEW d \in Dirs, Receive(d) PROVE Handshake'
  <2>1. /\ UNCHANGED <<end, held, proxy, agent, copier, losses>>
        /\ wire[At(d)][Opposite(d)] # <<>> /\ wire[At(d)][Opposite(d)] \in Seq(Nat)
        /\ Take(At(d), Opposite(d)) /\ At(d) \in Conns /\ Opposite(d) \in Dirs
    BY <1>14, Routes DEF Receive, Readable, codeVars, From, Types
  <2>2. /\ wire'["link"]["down"] = wire["link"]["down"]
        /\ wire["app"]["down"] = <<>> => wire'["app"]["down"] = wire["app"]["down"]
    BY <2>1 DEF Take, Types, Conns, Dirs, At, Opposite
  <2>3. copier["pd"] = "none" => ready' = ready
    <3>1. CASE d = "up"
      BY <2>1, <3>1 DEF At, Opposite, Handshake
    <3>2. CASE d = "down"
      BY <1>14, <3>2, Receiving DEF Dirs, Opposite
    <3> QED
      BY <3>1, <3>2 DEF Dirs
  <2> QED
    BY <2>1, <2>2, <2>3 DEF Handshake, Dialled, Holds
<1>15. ASSUME NEW d \in Dirs, Shut(d) PROVE Handshake'
  <2>1. /\ UNCHANGED <<wire, held, proxy, agent, copier, ready, losses>>
        /\ end' = [end EXCEPT ![At(d)][d] = "fin"] /\ At(d) \in Conns
    BY <1>15, Routes DEF Shut, codeVars, From
  <2>2. \A k \in Conns, e \in Dirs : end'[k][e] = "rst" => end[k][e] = "rst"
    BY <2>1 DEF Types
  <2>3. ~Dialled => At(d) = "app"
    BY <1>15 DEF Shut, Present, Holds, At, Handshake
  <2>4. ~Dialled => \A e \in Dirs : end'["target"][e] = "open"
    BY <2>1, <2>3 DEF Handshake, Types, Conns
  <2>5. end'["link"] = end["link"]
    BY <2>1 DEF At, Types, Conns, Dirs
  <2> QED
    BY <2>1, <2>2, <2>4, <2>5 DEF Handshake, Dialled, Holds
<1>16. CASE Lose
  <2>1. /\ UNCHANGED <<held, proxy, agent, copier, ready>> /\ losses' # 0
        /\ wire'["app"] = wire["app"] /\ wire'["link"]["down"] = <<>>
        /\ end'["target"] = end["target"] /\ end'["app"] = end["app"]
        /\ agent # "none"
    <3>1. /\ UNCHANGED <<held, proxy, agent, copier, ready>> /\ losses' = losses + 1
          /\ wire' = [wire EXCEPT !["link"] = [d \in Dirs |-> <<>>]] /\ losses \in Nat
          /\ end' = [end EXCEPT !["link"] = [d \in Dirs |-> "rst"]] /\ held["link"] # {}
      BY <1>16 DEF Lose, codeVars, endVars, Types
    <3> QED
      BY <3>1 DEF Types, Conns, Dirs, Early
  <2>2. \A k \in Conns, d \in Dirs : (k = "link" => losses' = 0) => end'[k] = end[k] /\ k # "link"
    BY <2>1 DEF Conns
  <2>3. agent \in {"none", "dial"} =>
          \A k \in Conns, d \in Dirs : (k = "link" => losses' = 0) => end'[k][d] # "rst"
    BY <2>2 DEF Handshake
  <2> QED
    BY <2>1, <2>3 DEF Handshake, Dialled, Holds
<1>17. CASE UNCHANGED vars
  BY <1>17 DEF vars, netVars, codeVars, endVars, Handshake, Dialled, Holds
<1> QED
  BY <1>1, <1>3, <1>4, <1>5, <1>6, <1>7, <1>8, <1>9, <1>10, <1>11, <1>12, <1>13, <1>14, <1>15,
     <1>16, <1>17 DEF Next, serveSocks, handleDial, splice

LEMMA BothStep == IInv /\ Handshake /\ Both /\ [Next]_vars => Both'
<1> SUFFICES ASSUME IInv, Types, Early, Handshake, Both, [Next]_vars PROVE Both'
  BY DEF IInv
<1> DEFINE Done == \A g \in Copiers : copier[g] = "done" => ~Holds(Src(g), Reader(Dir(g)))
<1>0. /\ To("up") = "target" /\ Writer("up") = "l" /\ To("down") = "app" /\ Writer("down") = "r"
      /\ Copiers = {"pu", "pd", "au", "ad"}
  BY DEF To, At, Opposite, Writer, Copiers
<1>1. ASSUME agent \in {"none", "dial"}, copier' = copier \/ DialSucceeds
      PROVE  Done'
  <2>1. /\ copier["pu"] = "none" /\ copier["pd"] = "none"
        /\ copier["au"] = "none" /\ copier["ad"] = "none"
    BY <1>1 DEF Early
  <2>2. \A g \in Copiers : copier'[g] # "done"
    BY <1>0, <1>1, <2>1 DEF DialSucceeds, Types
  <2> QED
    BY <2>2
\* A close only takes away.
<1>2. ASSUME NEW sides, Close(sides), \A g \in Copiers : copier'[g] = "done" => copier[g] = "done"
      PROVE  Done'
  <2>1. \A k \in Conns : held'[k] \subseteq held[k]
    BY <1>2, Closing
  <2> QED
    BY <1>2, <2>1, Copying DEF Both, Holds
<1>3. CASE SocksRequest
  <2>1. Holds("app", "r")' = Holds("app", "r") /\ Holds("link", "l")' /\ agent = "none"
    BY <1>3 DEF SocksRequest, Early, Holds, Types, Conns
  <2> QED
    BY <1>0, <1>1, <1>3, <2>1 DEF SocksRequest, Handshake, Both, Near, Dialled
<1>4. CASE SocksFails
  <2>1. agent = "none" /\ agent' = "none"
    BY <1>4 DEF SocksFails, Early
  <2> QED
    BY <1>1, <1>4, <2>1 DEF SocksFails, Handshake, Both, Dialled
<1>5. CASE OpenFails \/ ProxyReturns
  <2>1. Close(ProxySides) /\ copier' = copier
    BY <1>5 DEF OpenFails, ProxyReturns
  <2>2. Done'
    BY <1>2, <2>1
  <2>3. /\ ~Holds("app", "r")' /\ ~Holds("link", "l")'
        /\ Holds("link", "r")' = Holds("link", "r") /\ Holds("target", "l")' = Holds("target", "l")
    BY <2>1, SidesClosed
  <2> QED
    BY <1>0, <2>1, <2>2, <2>3 DEF Both, Near, Dialled
<1>6. CASE DialFails \/ AgentReturns
  <2>1. Close(AgentSides) /\ copier' = copier /\ agent # "none"
    BY <1>6 DEF DialFails, AgentReturns
  <2>2. Done'
    BY <1>2, <2>1
  <2>3. /\ ~Holds("target", "l")' /\ ~Holds("link", "r")'
        /\ Holds("link", "l")' = Holds("link", "l") /\ Holds("app", "r")' = Holds("app", "r")
    BY <2>1, SidesClosed
  <2> QED
    BY <1>0, <2>1, <2>2, <2>3 DEF Both, Near, Dialled
<1>7. ASSUME NEW g \in Copiers, SpliceEnds(g) PROVE Both'
  <2> DEFINE sides == {<<Src(g), Reader(Dir(g))>>, <<Dst(g), Writer(Dir(g))>>}
  <2>1. /\ agent' = agent /\ copier' = [copier EXCEPT ![g] = "done"] /\ copier[g] # "none"
        /\ Close(sides)
    BY <1>7 DEF SpliceEnds, CopyEnds
  <2>2. agent # "none" /\ Dialled
    BY <1>0, <2>1 DEF Handshake, Dialled
  <2>3. \A k \in Conns : held'[k] \subseteq held[k]
    BY <2>1, Closing
  <2>4. ~Holds(Src(g), Reader(Dir(g)))'
    <3>1. Reader(Dir(g)) \in {"l", "r"} /\ Src(g) \in Conns
      BY Copying, Routes
    <3>2. <<Src(g), Reader(Dir(g))>> \in sides
      OBVIOUS
    <3> HIDE DEF sides
    <3> QED
      BY <2>1, <3>1, <3>2, Closing
  <2>5. Done'
    <3>1. \A h \in Copiers : h # g => copier'[h] = copier[h]
      BY <2>1 DEF Types
    <3> QED
      BY <2>3, <2>4, <3>1, Copying DEF Both, Holds
  <2>6. sides = IF g \in {"pu", "pd"} THEN ProxySides ELSE AgentSides
    BY SplicedSides
  <2> HIDE DEF sides
  <2>7. CASE sides = ProxySides
    <3>1. /\ ~Holds("app", "r")' /\ ~Holds("link", "l")'
          /\ Holds("link", "r")' = Holds("link", "r") /\ Holds("target", "l")' = Holds("target", "l")
      BY <2>1, <2>7, SidesClosed
    <3> QED
      BY <1>0, <2>1, <2>2, <2>5, <3>1 DEF Both, Near
  <2>8. CASE sides = AgentSides
    <3>1. /\ ~Holds("target", "l")' /\ ~Holds("link", "r")'
          /\ Holds("link", "l")' = Holds("link", "l") /\ Holds("app", "r")' = Holds("app", "r")
      BY <2>1, <2>8, SidesClosed
    <3> QED
      BY <1>0, <2>1, <2>2, <2>5, <3>1 DEF Both, Near
  <2> QED
    BY <2>6, <2>7, <2>8
<1>8. ASSUME NEW d \in Dirs, Leave(d) PROVE Both'
  <2>1. UNCHANGED <<copier, agent>> /\ Close({<<At(d), Writer(d)>>})
    BY <1>8 DEF Leave, codeVars
  <2>2. Done'
    BY <1>2, <2>1
  <2>3. /\ Holds("app", "r")' = Holds("app", "r") /\ Holds("target", "l")' = Holds("target", "l")
        /\ Holds("link", "l")' = Holds("link", "l") /\ Holds("link", "r")' = Holds("link", "r")
    BY <2>1, SidesClosed
  <2> QED
    BY <1>0, <2>1, <2>2, <2>3 DEF Both, Near, Dialled
<1>9. CASE DialSucceeds
  <2>1. /\ Holds("app", "r")' = Holds("app", "r") /\ Holds("target", "l")'
        /\ Holds("link", "l")' = Holds("link", "l") /\ Holds("link", "r")' = Holds("link", "r")
        /\ agent = "dial"
    BY <1>9 DEF DialSucceeds, Holds, Types, Conns
  <2> QED
    BY <1>0, <1>1, <1>9, <2>1 DEF Both, Near, Dialled, Handshake
<1>10. ASSUME held' = held, agent' = agent, Dialled' => Dialled,
              \A g \in Copiers : copier'[g] = "done" => copier[g] = "done"
       PROVE  Both'
  <2>1. \A k, s : Holds(k, s)' = Holds(k, s)
    BY <1>10 DEF Holds
  <2> QED
    BY <1>0, <1>10, <2>1 DEF Both, Near
<1>11. CASE OpenSucceeds
  <2>1. held' = held /\ agent' = agent /\ \A g \in Copiers : copier'[g] \in {copier[g], "read"}
    BY <1>11 DEF OpenSucceeds, Types
  <2>2. copier'["au"] = copier["au"]
    BY <1>0, <1>11 DEF OpenSucceeds, Types
  <2> QED
    BY <1>10, <2>1, <2>2 DEF Dialled
<1>12. ASSUME NEW g \in Copiers, CopyRead(g) \/ CopyWrite(g) PROVE Both'
  <2>1. held' = held /\ agent' = agent
    BY <1>12 DEF CopyRead, CopyWrite, Put
  <2>2. \A h \in Copiers :
          /\ copier'[h] = "done" => copier[h] = "done"
          /\ copier'[h] # "none" => copier[h] # "none"
    BY <1>12 DEF CopyRead, CopyWrite, Types
  <2> QED
    BY <1>0, <1>10, <2>1, <2>2 DEF Dialled
<1>13. ASSUME NEW d \in Dirs, Send(d) \/ Receive(d) \/ Shut(d) PROVE Both'
  BY <1>10, <1>13 DEF Send, Receive, Shut, Put, codeVars, Dialled
<1>14. CASE Lose \/ UNCHANGED vars
  BY <1>10, <1>14 DEF Lose, vars, netVars, codeVars, Dialled
<1> QED
  BY <1>3, <1>4, <1>5, <1>6, <1>7, <1>8, <1>9, <1>11, <1>12, <1>13, <1>14
     DEF Next, serveSocks, handleDial, splice

LEMMA AwaitsStep == IInv /\ Handshake /\ Awaits /\ [Next]_vars => Awaits'
<1> SUFFICES ASSUME IInv, Types, Early, Handshake, Awaits, [Next]_vars, NEW d \in Dirs,
                    Holds(To(d), Reader(d))', d \notin shut', end'[To(d)][Opposite(d)] # "open"
             PROVE  end'[To(d)][d] # "open"
  BY DEF IInv, Awaits
<1> DEFINE t == To(d) o == Opposite(d)
<1>0. t \in Conns /\ o \in Dirs /\ o # d /\ Reader(d) \in {"l", "r"} /\ Writer(o) = Reader(d)
  BY Routes
\* Nothing that is closed opens again, so only a new end counts.
<1>1. ASSUME Holds(t, Reader(d)), d \notin shut, end'[t][o] = end[t][o],
             end[t][d] # "open" => end'[t][d] # "open"
      PROVE  end'[t][d] # "open"
  BY <1>1 DEF Awaits
<1>2. ASSUME NEW sides, Close(sides), shut' = shut
      PROVE  end'[t][d] # "open"
  <2>1. end'[t][o] # end[t][o] => ~Holds(t, Reader(d))'
    BY <1>0, <1>2, Closing
  <2>2. Holds(t, Reader(d))
    BY <1>0, <1>2, ClosingMore
  <2>3. end[t][d] # "open" => end'[t][d] # "open"
    BY <1>0, <1>2, ClosingMore
  <2> QED
    BY <1>1, <1>2, <2>1, <2>2, <2>3
<1>3. ASSUME NEW k \in Conns, NEW e \in Dirs, NEW x \in Nat, Put(k, e, x), shut' = shut
      PROVE  end'[t][d] # "open"
  <2>1. held' = held
    BY <1>3 DEF Put
  <2>2. Holds(t, Reader(d))
    BY <2>1 DEF Holds
  <2>3. end[t][d] # "open" => end'[t][d] # "open"
    BY <1>0, <1>3, PuttingMore
  <2>4. end'[t][o] = end[t][o]
    <3>1. SUFFICES ASSUME end'[t][o] # end[t][o] PROVE FALSE
      OBVIOUS
    <3>2. t = k /\ o = Opposite(e) /\ ~Holds(k, Reader(e))
      BY <1>0, <1>3, <3>1, PuttingMore
    <3>3. e = d
      BY <3>2, Routes
    <3> QED
      BY <2>2, <3>2, <3>3
  <2> QED
    BY <1>1, <1>3, <2>2, <2>3, <2>4
<1>4. CASE SocksFails \/ DialFails \/ OpenFails \/ ProxyReturns \/ AgentReturns
           \/ (\E e \in Dirs : Leave(e)) \/ \E g \in Copiers : SpliceEnds(g)
  BY <1>2, <1>4 DEF SocksFails, DialFails, OpenFails, ProxyReturns, AgentReturns, Leave, SpliceEnds,
                    endVars
<1>5. ASSUME NEW g \in Copiers, CopyWrite(g) PROVE end'[t][d] # "open"
  <2>1. Dst(g) \in Conns /\ Dir(g) \in Dirs /\ buf[g] \in Nat
    BY Copying DEF Types
  <2> QED
    BY <1>3, <1>5, <2>1 DEF CopyWrite, endVars
<1>6. ASSUME NEW e \in Dirs, Send(e) PROVE end'[t][d] # "open"
  <2>1. From(e) \in Conns /\ sent[e] \in Nat
    BY Routes DEF Types
  <2>2. At(e) \in Conns /\ sent[e] + 1 \in Nat
    BY <2>1 DEF From
  <2> QED
    BY <2>2, <1>3, <1>6, <2>1 DEF Send
<1>7. ASSUME NEW e \in Dirs, Shut(e) PROVE end'[t][d] # "open"
  <2>1. /\ held' = held /\ end' = [end EXCEPT ![At(e)][e] = "fin"]
        /\ shut' = IF AtEnd(At(e), Opposite(e)) THEN shut ELSE shut \cup {Opposite(e)}
        /\ At(e) \in Conns
    BY <1>7, Routes DEF Shut, From
  <2>2. Holds(t, Reader(d)) /\ d \notin shut
    BY <2>1 DEF Holds
  <2>3. end[t][d] # "open" => end'[t][d] # "open"
    BY <1>0, <2>1 DEF Types
  <2>4. CASE e = o
    <3>1. Opposite(e) = d /\ At(e) = t
      BY <2>4, Routes DEF To
    <3>2. AtEnd(t, d)
      BY <2>1, <3>1
    <3> QED
      BY <2>3, <3>2 DEF AtEnd
  <2>5. CASE e # o
    BY <1>0, <1>1, <2>1, <2>2, <2>3, <2>5 DEF Types
  <2> QED
    BY <2>4, <2>5
<1>8. CASE SocksRequest
  <2>1. /\ end' = end /\ shut' = shut
        /\ t # "link" => held'[t] = held[t]
    BY <1>0, <1>8 DEF SocksRequest, endVars, Types
  <2> QED
    BY <1>1, <2>1, Routes DEF Holds
<1>9. CASE DialSucceeds
  <2>1. end' = end /\ shut' = shut /\ held' = [held EXCEPT !["target"] = {"l", "r"}]
    BY <1>9 DEF DialSucceeds, endVars
  <2>2. d = "down" \/ d = "up"
    BY DEF Dirs
  <2>3. CASE d = "down"
    BY <1>0, <1>1, <2>1, <2>3, Ways DEF Holds, Types
  <2>4. CASE d = "up"
    <3>1. ~Dialled /\ t = "target"
      BY <1>9, <2>4, Ways DEF DialSucceeds, Early, Dialled
    <3>2. end[t][o] = "open"
      BY <1>0, <3>1 DEF Handshake
    <3> QED
      BY <2>1, <3>2
  <2> QED
    BY <2>2, <2>3, <2>4
<1>10. CASE OpenSucceeds \/ Lose \/ (\E g \in Copiers : CopyRead(g)) \/ (\E e \in Dirs : Receive(e))
            \/ UNCHANGED vars
  <2>1. held' = held /\ shut' = shut /\ end'[t] = end[t]
    BY <1>0, <1>10, Routes DEF OpenSucceeds, Lose, CopyRead, Receive, vars, netVars, endVars, Types
  <2> QED
    BY <1>1, <2>1 DEF Holds
<1> QED
  BY <1>4, <1>5, <1>6, <1>7, <1>8, <1>9, <1>10 DEF Next, serveSocks, handleDial, splice

\* By how much what is on its way on a connection and in a copier's hands grows.
Grown(k, d) == Len(wire'[k][d]) - Len(wire[k][d])
Turned(g) == Writing(g)' - Writing(g)

LEMMA Shifts ==
  ASSUME Types, Types', NEW d \in Dirs
  PROVE  /\ Reached(d)' = Reached(d) + (Received(d)' - Received(d)) + Grown(To(d), d)
         /\ Linked(d)' = Linked(d) + (Reached(d)' - Reached(d)) + Turned(Into(d)) + Grown("link", d)
         /\ Lost(d)' = Lost(d) + (sent'[d] - sent[d]) - (Linked(d)' - Linked(d))
                         - Turned(OutOf(d)) - Grown(From(d), d)
         /\ Lost(d) \in Int /\ Linked(d) \in Int /\ Reached(d) \in Int
         /\ Lost(d)' \in Int /\ Linked(d)' \in Int /\ Reached(d)' \in Int
         /\ Received(d) \in Int /\ Received(d)' \in Int /\ sent[d] \in Int /\ sent'[d] \in Int
<1> DEFINE x == Len(wire[To(d)][d]) y == Len(wire["link"][d]) z == Len(wire[From(d)][d])
           a == Writing(Into(d)) b == Writing(OutOf(d))
<1>1. /\ Reached(d) = Received(d) + x /\ Passed(d) = Reached(d) + a /\ Linked(d) = Passed(d) + y
      /\ Taken(d) = Linked(d) + b /\ Total(d) = Taken(d) + z /\ Lost(d) = sent[d] - Total(d)
  BY DEF Total, Lost, Taken, Linked, Passed, Reached
<1>2. /\ Reached(d)' = Received(d)' + x' /\ Passed(d)' = Reached(d)' + a'
      /\ Linked(d)' = Passed(d)' + y' /\ Taken(d)' = Linked(d)' + b'
      /\ Total(d)' = Taken(d)' + z' /\ Lost(d)' = sent'[d] - Total(d)'
  BY DEF Total, Lost, Taken, Linked, Passed, Reached
<1>3. x \in Int /\ y \in Int /\ z \in Int /\ x' \in Int /\ y' \in Int /\ z' \in Int
  <2>1. \A k \in Conns : Len(wire[k][d]) \in Int /\ Len(wire'[k][d]) \in Int
    BY DEF Types
  <2> QED
    BY <2>1, Routes
<1>4. a \in Int /\ b \in Int /\ a' \in Int /\ b' \in Int
  BY DEF Writing
<1>5. Received(d) \in Int /\ Received(d)' \in Int /\ sent[d] \in Int /\ sent'[d] \in Int
  <2>1. Len(got[d]) \in Int /\ Len(got'[d]) \in Int /\ sent[d] \in Int /\ sent'[d] \in Int
    BY DEF Types
  <2> QED
    BY <2>1 DEF Received
<1>6. /\ Grown(To(d), d) = x' - x /\ Grown("link", d) = y' - y /\ Grown(From(d), d) = z' - z
      /\ Turned(Into(d)) = a' - a /\ Turned(OutOf(d)) = b' - b
  BY DEF Grown, Turned
<1> HIDE DEF x, y, z, a, b
<1>7. /\ Reached(d) \in Int /\ Reached(d)' \in Int
      /\ Reached(d)' = Reached(d) + (Received(d)' - Received(d)) + (x' - x)
  BY <1>1, <1>2, <1>3, <1>5
<1>8. /\ Linked(d) \in Int /\ Linked(d)' \in Int
      /\ Linked(d)' = Linked(d) + (Reached(d)' - Reached(d)) + (a' - a) + (y' - y)
  BY <1>1, <1>2, <1>3, <1>4, <1>7
<1>9. Taken(d) \in Int /\ Taken(d)' \in Int
  BY <1>1, <1>2, <1>4, <1>8
<1>10. /\ Lost(d) \in Int /\ Lost(d)' \in Int
       /\ Lost(d)' = Lost(d) + (sent'[d] - sent[d]) - (Linked(d)' - Linked(d)) - (b' - b) - (z' - z)
  BY <1>1, <1>2, <1>3, <1>4, <1>5, <1>8, <1>9
<1> QED
  BY <1>5, <1>6, <1>7, <1>8, <1>10

\* What is read is as far as before.
LEMMA Reads ==
  ASSUME Types, Types', NEW g \in Copiers, CopyRead(g), NEW d \in Dirs
  PROVE  Lost(d)' = Lost(d) /\ Linked(d)' = Linked(d) /\ Reached(d)' = Reached(d)
<1>1. /\ copier[g] = "read" /\ copier' = [copier EXCEPT ![g] = "write"]
      /\ wire' = [wire EXCEPT ![Src(g)][Dir(g)] = Tail(@)] /\ wire[Src(g)][Dir(g)] # <<>>
      /\ UNCHANGED <<sent, got, ready>>
  BY DEF CopyRead, Take, Readable, endVars
<1>2. Received(d)' = Received(d)
  BY <1>1 DEF Received
<1>3. Dir(g) \in Dirs /\ Src(g) \in Conns
  BY Copying
<1>4. \A k \in Conns : k # Src(g) \/ d # Dir(g) => wire'[k][d] = wire[k][d]
  BY <1>1, <1>3 DEF Types
<1>5. Grown(Src(g), Dir(g)) = -1
  <2>1. wire[Src(g)][Dir(g)] \in Seq(Nat)
    BY <1>3 DEF Types
  <2>2. wire'[Src(g)][Dir(g)] = Tail(wire[Src(g)][Dir(g)])
    BY <1>1, <1>3 DEF Types
  <2>3. \A q \in Seq(Nat) : q # <<>> => Len(q) \in Nat /\ Len(Tail(q)) = Len(q) - 1
    OBVIOUS
  <2>4. /\ Len(wire[Src(g)][Dir(g)]) \in Nat
        /\ Len(wire'[Src(g)][Dir(g)]) = Len(wire[Src(g)][Dir(g)]) - 1
    BY <1>1, <2>1, <2>2, <2>3
  <2> QED
    BY <2>4 DEF Grown
<1>6. \A h \in Copiers \ {g} : Turned(h) = 0
  BY <1>1 DEF Turned, Writing, Types
<1>7. Turned(g) = 1
  BY <1>1 DEF Turned, Writing, Types
<1>13. \A k \in Conns : k # Src(g) \/ d # Dir(g) => Grown(k, d) = 0
  <2>1. \A k \in Conns : Len(wire[k][d]) \in Int
    BY DEF Types
  <2> QED
    BY <1>4, <2>1 DEF Grown
<1>9. sent'[d] = sent[d]
  BY <1>1
<1>10. CASE d # Dir(g)
  <2>1. g # Into(d) /\ g # OutOf(d)
    BY <1>3, <1>10, Routes
  <2>2. /\ Grown(To(d), d) = 0 /\ Grown("link", d) = 0 /\ Grown(From(d), d) = 0
        /\ Turned(Into(d)) = 0 /\ Turned(OutOf(d)) = 0
    BY <1>6, <1>10, <1>13, <2>1, Routes
  <2> QED
    BY <1>2, <1>9, <2>2, Shifts
<1>11. CASE d = Dir(g) /\ g = Into(d)
  <2>1. /\ Grown(To(d), d) = 0 /\ Grown("link", d) = -1 /\ Grown(From(d), d) = 0
        /\ Turned(Into(d)) = 1 /\ Turned(OutOf(d)) = 0
    BY <1>5, <1>6, <1>7, <1>11, <1>13, Routes
  <2> QED
    BY SMTT(30), <1>2, <1>9, <2>1, Shifts
<1>12. CASE d = Dir(g) /\ g = OutOf(d)
  <2>1. /\ Grown(To(d), d) = 0 /\ Grown("link", d) = 0 /\ Grown(From(d), d) = -1
        /\ Turned(Into(d)) = 0 /\ Turned(OutOf(d)) = 1
    BY <1>5, <1>6, <1>7, <1>12, <1>13, Routes
  <2> QED
    BY <1>2, <1>9, <2>1, Shifts
<1> QED
  BY <1>10, <1>11, <1>12, Copying

\* What is written gets one connection further, or is lost where nobody reads
\* it; the other direction only loses.
LEMMA Writes ==
  ASSUME Types, Types', NEW g \in Copiers, CopyWrite(g), NEW d, d = Dir(g)
  PROVE  /\ Holds(Dst(g), Reader(d)) =>
              /\ Lost(d)' = Lost(d) /\ (g = Into(d) => Linked(d)' = Linked(d))
              /\ g = OutOf(d) => Reached(d)' = Reached(d)
         /\ ~Holds(Dst(g), Reader(d)) => Lost(d)' > Lost(d)
         /\ Lost(Opposite(d))' >= Lost(Opposite(d))
         /\ Holds(Dst(g), Reader(d)) =>
              /\ Lost(Opposite(d))' = Lost(Opposite(d))
              /\ Linked(Opposite(d))' = Linked(Opposite(d))
              /\ Reached(Opposite(d))' = Reached(Opposite(d))
<1> DEFINE k == Dst(g) o == Opposite(d)
<1>1. /\ copier[g] = "write" /\ copier' = [copier EXCEPT ![g] = "read"]
      /\ Put(k, d, buf[g]) /\ UNCHANGED <<sent, got, ready>>
  BY DEF CopyWrite, endVars
<1>2. /\ d \in Dirs /\ k \in Conns /\ buf[g] \in Nat
      /\ (g = Into(d) /\ g # OutOf(d)) \/ (g = OutOf(d) /\ g # Into(d))
      /\ g # Into(o) /\ g # OutOf(o)
  BY Copying DEF Types
<1>12. o \in Dirs /\ o # d /\ Opposite(o) = d
  BY <1>2, Routes
<1>3. Received(d)' = Received(d) /\ Received(o)' = Received(o)
  BY <1>1 DEF Received
<1>4. \A c \in Conns \ {k} : Grown(c, d) = 0
  <2>1. \A c \in Conns : Len(wire[c][d]) \in Int
    BY <1>2 DEF Types
  <2> QED
    BY <1>1, <1>2, <2>1, Putting DEF Grown
<1>5. Grown(k, d) = IF Holds(k, Reader(d)) THEN 1 ELSE 0
  <2>1. wire[k][d] \in Seq(Nat)
    BY <1>2 DEF Types
  <2>2. CASE Holds(k, Reader(d))
    <3>1. wire'[k][d] = Append(wire[k][d], buf[g])
      BY <1>1, <1>2, <2>2, Putting
    <3>2. \A q \in Seq(Nat) : Len(q) \in Nat /\ Len(Append(q, buf[g])) = Len(q) + 1
      BY <1>2
    <3> QED
      BY <2>1, <2>2, <3>1, <3>2 DEF Grown
  <2>3. CASE ~Holds(k, Reader(d))
    <3>1. wire'[k][d] = wire[k][d]
      BY <1>1, <1>2, <2>3, Putting
    <3> QED
      BY <2>1, <2>3, <3>1 DEF Grown
  <2> QED
    BY <2>2, <2>3
<1>6. \A h \in Copiers \ {g} : Turned(h) = 0
  BY <1>1 DEF Turned, Writing, Types
<1>7. Turned(g) = -1
  BY <1>1 DEF Turned, Writing, Types
<1>9. sent'[d] = sent[d] /\ sent'[o] = sent[o]
  BY <1>1
<1>10. /\ Holds(k, Reader(d)) =>
              /\ Lost(d)' = Lost(d) /\ (g = Into(d) => Linked(d)' = Linked(d))
              /\ g = OutOf(d) => Reached(d)' = Reached(d)
       /\ ~Holds(k, Reader(d)) => Lost(d)' > Lost(d)
  <2>1. CASE g = Into(d)
    <3>1. /\ k = To(d) /\ Grown("link", d) = 0 /\ Grown(From(d), d) = 0
          /\ Turned(Into(d)) = -1 /\ Turned(OutOf(d)) = 0
      BY <1>2, <1>4, <1>6, <1>7, <2>1, Routes
    <3>2. Grown(To(d), d) = IF Holds(k, Reader(d)) THEN 1 ELSE 0
      BY <1>5, <3>1
    <3> HIDE DEF k
    <3> QED
      BY <1>2, <1>3, <1>9, <2>1, <3>1, <3>2, Shifts
  <2>2. CASE g = OutOf(d)
    <3>1. /\ k = "link" /\ Grown(To(d), d) = 0 /\ Grown(From(d), d) = 0
          /\ Turned(OutOf(d)) = -1 /\ Turned(Into(d)) = 0
      BY <1>2, <1>4, <1>6, <1>7, <2>2, Routes
    <3>2. Grown("link", d) = IF Holds(k, Reader(d)) THEN 1 ELSE 0
      BY <1>5, <3>1
    <3> HIDE DEF k
    <3> QED
      BY <1>2, <1>3, <1>9, <2>2, <3>1, <3>2, Shifts
  <2> QED
    BY <1>2, <2>1, <2>2
<1>11. /\ Lost(o)' >= Lost(o)
       /\ Holds(k, Reader(d)) => /\ Lost(o)' = Lost(o) /\ Linked(o)' = Linked(o)
                                 /\ Reached(o)' = Reached(o)
  <2>1. /\ \A c \in Conns : wire'[c][o] \in {wire[c][o], <<>>}
        /\ Holds(k, Reader(d)) => \A c \in Conns : wire'[c][o] = wire[c][o]
    BY <1>1, <1>2, PuttingMore
  <2>2. \A h \in Copiers : copier'[h] = "write" => copier[h] = "write"
    BY <1>1 DEF Types
  <2>3. copier'[Into(o)] = copier[Into(o)] /\ copier'[OutOf(o)] = copier[OutOf(o)]
    BY <1>1, <1>2, <1>12, Routes DEF Types
  <2>4. Lost(o)' >= Lost(o)
    BY <1>12, <1>3, <1>9, <2>1, <2>2, Falling
  <2>5. ASSUME Holds(k, Reader(d))
        PROVE  Lost(o)' = Lost(o) /\ Linked(o)' = Linked(o) /\ Reached(o)' = Reached(o)
    <3>1. /\ wire'[To(o)][o] = wire[To(o)][o] /\ wire'["link"][o] = wire["link"][o]
          /\ wire'[From(o)][o] = wire[From(o)][o]
      BY <1>12, <2>1, <2>5, Routes
    <3>2. Linked(o)' = Linked(o) /\ Reached(o)' = Reached(o)
      BY <1>12, <1>3, <1>9, <2>1, <2>2, <2>3, <3>1, Falling
    <3>3. Lost(o)' = Lost(o)
      BY <1>9, <2>3, <3>1, <3>2 DEF Lost, Total, Taken, Writing
    <3> QED
      BY <3>2, <3>3
  <2> QED
    BY <2>4, <2>5
<1> QED
  BY <1>10, <1>11

\* What is sent is on its way, or is lost where nobody reads it.
LEMMA Sends ==
  ASSUME Types, Types', NEW d \in Dirs, Send(d)
  PROVE  /\ Holds(From(d), Reader(d)) =>
              /\ Lost(d)' = Lost(d) /\ Lost(Opposite(d))' = Lost(Opposite(d))
              /\ Linked(Opposite(d))' = Linked(Opposite(d))
              /\ Reached(Opposite(d))' = Reached(Opposite(d))
         /\ ~Holds(From(d), Reader(d)) => Lost(d)' > Lost(d)
         /\ Lost(Opposite(d))' >= Lost(Opposite(d))
<1> DEFINE k == From(d) o == Opposite(d) x == sent[d] + 1
<1>1. /\ Put(k, d, x) /\ sent' = [sent EXCEPT ![d] = @ + 1] /\ UNCHANGED <<copier, got, ready>>
  BY DEF Send, codeVars, From
<1>2. k \in Conns /\ o \in Dirs /\ o # d /\ Opposite(o) = d /\ sent[d] \in Nat
  BY Routes DEF Types
<1>3. x \in Nat /\ sent'[d] = x /\ sent'[o] = sent[o]
  BY <1>1, <1>2 DEF Types
<1> HIDE DEF x
<1>4. Received(d)' = Received(d) /\ Received(o)' = Received(o)
  BY <1>1 DEF Received
<1>5. \A c \in Conns \ {k} : Grown(c, d) = 0
  <2>1. \A c \in Conns : Len(wire[c][d]) \in Int
    BY DEF Types
  <2> QED
    BY <1>1, <1>2, <1>3, <2>1, Putting DEF Grown
<1>6. Grown(k, d) = IF Holds(k, Reader(d)) THEN 1 ELSE 0
  <2>1. wire[k][d] \in Seq(Nat)
    BY <1>2 DEF Types
  <2>2. CASE Holds(k, Reader(d))
    <3>1. wire'[k][d] = Append(wire[k][d], x)
      BY <1>1, <1>2, <1>3, <2>2, Putting
    <3>2. \A q \in Seq(Nat) : Len(q) \in Nat /\ Len(Append(q, x)) = Len(q) + 1
      BY <1>3
    <3> QED
      BY <2>1, <2>2, <3>1, <3>2 DEF Grown
  <2>3. CASE ~Holds(k, Reader(d))
    <3>1. wire'[k][d] = wire[k][d]
      BY <1>1, <1>2, <1>3, <2>3, Putting
    <3> QED
      BY <2>1, <2>3, <3>1 DEF Grown
  <2> QED
    BY <2>2, <2>3
<1>7. \A h \in Copiers : Turned(h) = 0
  BY <1>1 DEF Turned, Writing
<1>8. /\ Grown(To(d), d) = 0 /\ Grown("link", d) = 0 /\ Turned(Into(d)) = 0 /\ Turned(OutOf(d)) = 0
  BY <1>5, <1>7, Routes
<1>9. sent'[d] = sent[d] + 1
  BY <1>3 DEF x
<1> HIDE DEF k
<1>10. /\ Holds(k, Reader(d)) => Lost(d)' = Lost(d)
       /\ ~Holds(k, Reader(d)) => Lost(d)' > Lost(d)
  BY <1>4, <1>6, <1>8, <1>9, Shifts DEF k
<1>11. /\ \A c \in Conns : wire'[c][o] \in {wire[c][o], <<>>}
       /\ Holds(k, Reader(d)) => \A c \in Conns : wire'[c][o] = wire[c][o]
  BY <1>1, <1>2, <1>3, PuttingMore
<1>12. Lost(o)' >= Lost(o)
  BY <1>1, <1>2, <1>3, <1>4, <1>11, Falling
<1>13. ASSUME Holds(k, Reader(d))
       PROVE  Lost(o)' = Lost(o) /\ Linked(o)' = Linked(o) /\ Reached(o)' = Reached(o)
  <2>1. \A c \in Conns : Len(wire[c][o]) \in Int
    BY <1>2 DEF Types
  <2>2. \A c \in Conns : Grown(c, o) = 0
    BY <1>11, <1>13, <2>1 DEF Grown
  <2>3. /\ Grown(To(o), o) = 0 /\ Grown("link", o) = 0 /\ Grown(From(o), o) = 0
        /\ Turned(Into(o)) = 0 /\ Turned(OutOf(o)) = 0
    BY <1>2, <1>7, <2>2, Routes
  <2> QED
    BY <1>2, <1>3, <1>4, <2>3, Shifts
<1> QED
  BY <1>10, <1>12, <1>13 DEF k

\* Where nothing moves nothing changes.
LEMMA Idle ==
  ASSUME Types, Types', UNCHANGED <<wire, got, ready, sent>>, NEW d \in Dirs,
         \A g \in Copiers : copier'[g] = "write" <=> copier[g] = "write"
  PROVE  Lost(d)' = Lost(d) /\ Linked(d)' = Linked(d) /\ Reached(d)' = Reached(d)
<1>1. Into(d) \in Copiers /\ OutOf(d) \in Copiers
  BY Routes
<1>2. Writing(Into(d))' = Writing(Into(d)) /\ Writing(OutOf(d))' = Writing(OutOf(d))
  BY <1>1 DEF Writing
<1> QED
  BY <1>2 DEF Lost, Total, Taken, Linked, Passed, Reached, Received

\* What is received is as far as before.
LEMMA Receives ==
  ASSUME IInv, Types', NEW e \in Dirs, Receive(e), NEW d \in Dirs
  PROVE  Lost(d)' = Lost(d) /\ Linked(d)' = Linked(d) /\ Reached(d)' = Reached(d)
<1> DEFINE o == Opposite(e)
<1>1. o \in Dirs /\ Opposite(o) = e /\ o # e
  BY Routes
<1>2. /\ Received(o)' = Received(o) + 1 /\ Received(e)' = Received(e)
      /\ Len(wire[To(o)][o]) \in Nat /\ Len(wire'[To(o)][o]) = Len(wire[To(o)][o]) - 1
      /\ \A k \in Conns, f \in Dirs : k # To(o) \/ f # o => wire'[k][f] = wire[k][f]
      /\ UNCHANGED <<copier, sent>>
  BY <1>1, Receiving DEF codeVars
<1>3. \A k \in Conns, f \in Dirs : k # To(o) \/ f # o => Grown(k, f) = 0
  <2>1. \A k \in Conns, f \in Dirs : Len(wire[k][f]) \in Int
    BY DEF IInv, Types
  <2> QED
    BY <1>2, <2>1 DEF Grown
<1>4. Grown(To(o), o) = -1
  BY <1>2 DEF Grown
<1>5. \A g \in Copiers : Turned(g) = 0
  BY <1>2 DEF Turned, Writing
<1>6. sent'[d] = sent[d] /\ Types
  BY <1>2 DEF IInv
<1>7. CASE d = o
  <2>1. /\ Grown("link", d) = 0 /\ Grown(From(d), d) = 0
        /\ Turned(Into(d)) = 0 /\ Turned(OutOf(d)) = 0
    BY <1>3, <1>5, <1>7, Routes
  <2>2. Received(d)' = Received(d) + 1 /\ Grown(To(d), d) = -1
    BY <1>2, <1>4, <1>7
  <2>3. Received(d)' - Received(d) = 1
    BY <1>6, <2>2, Counts
  <2> HIDE DEF o
  <2>4. Reached(d)' = Reached(d)
    BY <1>6, <2>2, <2>3, Shifts
  <2>5. Linked(d)' = Linked(d)
    BY <1>6, <2>1, <2>4, Shifts
  <2> QED
    BY <1>6, <2>1, <2>4, <2>5, Shifts
<1>8. CASE d = e
  <2>1. /\ Grown(To(d), d) = 0 /\ Grown("link", d) = 0 /\ Grown(From(d), d) = 0
        /\ Turned(Into(d)) = 0 /\ Turned(OutOf(d)) = 0
    BY <1>1, <1>3, <1>5, <1>8, Routes
  <2>2. Received(d)' = Received(d)
    BY <1>2, <1>8
  <2> HIDE DEF o
  <2> QED
    BY <1>6, <2>1, <2>2, Shifts
<1> QED
  BY <1>1, <1>7, <1>8 DEF Dirs

\* The reply is read and passed on.
LEMMA Opens ==
  ASSUME Types, Types', Early, Handshake, OpenSucceeds, NEW d \in Dirs
  PROVE  Lost(d)' = Lost(d) /\ Linked(d)' = Linked(d) /\ (d = "up" => Reached(d)' = Reached(d))
<1>1. /\ proxy = "open" /\ wire["link"]["down"] # <<>> /\ UNCHANGED <<sent, got, ready>>
      /\ copier' = [copier EXCEPT !["pu"] = "read", !["pd"] = "read"]
      /\ wire' = [wire EXCEPT !["link"]["down"] = Tail(@), !["app"]["down"] = <<0>>]
  BY DEF OpenSucceeds, Readable, endVars
<1>2. /\ wire["app"]["down"] = <<>> /\ copier["pu"] = "none" /\ copier["pd"] = "none"
  BY <1>1 DEF Early
<1>3. \A g \in Copiers : Turned(g) = 0
  BY <1>1, <1>2 DEF Turned, Writing, Types
<1>4. Received(d)' = Received(d) /\ sent'[d] = sent[d]
  BY <1>1 DEF Received
<1>5. /\ \A k \in Conns, e \in Dirs : e = "up" \/ k = "target" => wire'[k][e] = wire[k][e]
      /\ wire'["link"]["down"] = Tail(wire["link"]["down"]) /\ wire'["app"]["down"] = <<0>>
  <2> DEFINE v == [wire EXCEPT !["link"]["down"] = Tail(@)]
  <2>1. wire' = [v EXCEPT !["app"]["down"] = <<0>>]
    BY <1>1
  <2>2. /\ DOMAIN v = Conns /\ \A k \in Conns : DOMAIN v[k] = Dirs
        /\ \A k \in Conns, e \in Dirs :
             v[k][e] = IF k = "link" /\ e = "down" THEN Tail(wire[k][e]) ELSE wire[k][e]
    BY DEF Types, Conns, Dirs
  <2> HIDE DEF v
  <2>3. \A k \in Conns, e \in Dirs :
          wire'[k][e] = IF k = "app" /\ e = "down" THEN <<0>> ELSE v[k][e]
    BY <2>1, <2>2 DEF Types, Conns, Dirs
  <2> QED
    BY <2>2, <2>3 DEF Conns, Dirs
<1>6. \A k \in Conns, e \in Dirs : e = "up" \/ k = "target" => Grown(k, e) = 0
  <2>1. \A k \in Conns, e \in Dirs : Len(wire[k][e]) \in Int
    BY DEF Types
  <2> QED
    BY <1>5, <2>1 DEF Grown
<1>7. Grown("link", "down") = -1
  <2>1. "link" \in Conns /\ "down" \in Dirs /\ "app" # "link"
    BY DEF Conns, Dirs
  <2>2. wire["link"]["down"] \in Seq(Nat) /\ wire'["link"]["down"] = Tail(wire["link"]["down"])
    BY <1>5, <2>1 DEF Types
  <2>3. \A q \in Seq(Nat) : q # <<>> => Len(q) \in Nat /\ Len(Tail(q)) = Len(q) - 1
    OBVIOUS
  <2>4. /\ Len(wire["link"]["down"]) \in Nat
        /\ Len(wire'["link"]["down"]) = Len(wire["link"]["down"]) - 1
    BY <1>1, <2>2, <2>3
  <2> QED
    BY <2>4 DEF Grown
<1>8. Grown("app", "down") = 1
  <2>1. wire'["app"]["down"] = <<0>>
    BY <1>5
  <2> QED
    BY <1>2, <2>1 DEF Grown
<1>9. CASE d = "up"
  <2>1. /\ Grown(To(d), d) = 0 /\ Grown("link", d) = 0 /\ Grown(From(d), d) = 0
        /\ Turned(Into(d)) = 0 /\ Turned(OutOf(d)) = 0
    BY <1>3, <1>6, <1>9, Routes
  <2> QED
    BY <1>4, <2>1, Shifts
<1>10. CASE d = "down"
  <2>1. /\ Grown(To(d), d) = 1 /\ Grown("link", d) = -1 /\ Grown(From(d), d) = 0
        /\ Turned(Into(d)) = 0 /\ Turned(OutOf(d)) = 0
    BY <1>3, <1>6, <1>7, <1>8, <1>10, Routes, Ways DEF Conns
  <2> QED
    BY <1>4, <1>10, <2>1, Shifts
<1> QED
  BY <1>9, <1>10 DEF Dirs

\* Until the agent has dialled nothing was sent, and nothing is on its way.
LEMMA Dials ==
  ASSUME Types, Types', Early, Handshake, DialSucceeds
  PROVE  /\ sent["up"] = 0 /\ sent["down"] = 0 /\ sent' = sent
         /\ Lost("up")' = 0 /\ Linked("up")' = 0 /\ Reached("up")' = 0
         /\ Lost("down")' >= 0
         /\ Holds("link", "l") /\ end["link"]["up"] # "rst" => Lost("down")' = 0
<1>1. /\ agent = "dial" /\ UNCHANGED <<sent, got, ready>>
      /\ copier' = [copier EXCEPT !["au"] = "read", !["ad"] = "read"]
      /\ IF Holds("link", "l") /\ end["link"]["up"] # "rst"
         THEN wire' = [wire EXCEPT !["link"]["down"] = <<0>>] ELSE UNCHANGED wire
  BY DEF DialSucceeds, endVars
<1>2. /\ \A k \in Conns, d \in Dirs : wire[k][d] = <<>>
      /\ \A g \in Copiers : copier[g] = "none"
      /\ ~ready /\ sent["up"] = 0 /\ sent["down"] = 0 /\ got["up"] = <<>> /\ got["down"] = <<>>
  BY <1>1 DEF Early, Conns, Dirs, Copiers
<1>3. Received("up")' = 0 /\ Received("down")' = -1
  BY <1>1, <1>2 DEF Received
<1>4. \A g \in Copiers : Writing(g)' = 0
  BY <1>1, <1>2 DEF Writing, Types
<1>5. \A k \in Conns : wire'[k]["up"] = <<>>
  <2>1. wire \in [Conns -> [Dirs -> Seq(Nat)]] /\ "link" \in Conns /\ {"up", "down"} = Dirs
    BY DEF Types, Conns, Dirs
  <2>2. \A k \in Conns, d \in Dirs :
          wire'[k][d] = wire[k][d] \/ wire'[k][d] = IF d = "down" THEN <<0>> ELSE wire[k][d]
    <3>1. CASE UNCHANGED wire
      BY <3>1
    <3>2. CASE wire' = [wire EXCEPT !["link"]["down"] = <<0>>]
      BY <2>1, <3>2
    <3> QED
      BY <1>1, <3>1, <3>2
  <2>3. \A k \in Conns : wire'[k]["up"] = wire[k]["up"]
    BY <2>1, <2>2
  <2> QED
    BY <1>2, <2>3 DEF Dirs
<1>6. /\ wire'["app"]["down"] = <<>> /\ wire'["target"]["down"] = <<>>
      /\ wire'["link"]["down"] = IF Holds("link", "l") /\ end["link"]["up"] # "rst"
                                 THEN <<0>> ELSE <<>>
  BY <1>1, <1>2 DEF Types, Conns, Dirs
<1>7. /\ Writing(Into("up"))' = 0 /\ Writing(OutOf("up"))' = 0
      /\ Writing(Into("down"))' = 0 /\ Writing(OutOf("down"))' = 0
  BY <1>4, Ways DEF Copiers
<1>8. /\ Len(wire'["app"]["up"]) = 0 /\ Len(wire'["link"]["up"]) = 0 /\ Len(wire'["target"]["up"]) = 0
  BY <1>5 DEF Conns
<1>9. Lost("up")' = 0 /\ Linked("up")' = 0 /\ Reached("up")' = 0
  BY <1>1, <1>2, <1>3, <1>7, <1>8, Ways DEF Lost, Total, Taken, Linked, Passed, Reached
<1>10. /\ Len(wire'["app"]["down"]) = 0 /\ Len(wire'["target"]["down"]) = 0
       /\ Len(wire'["link"]["down"]) = IF Holds("link", "l") /\ end["link"]["up"] # "rst"
                                        THEN 1 ELSE 0
  BY <1>6
<1>11. /\ Lost("down")' >= 0
       /\ Holds("link", "l") /\ end["link"]["up"] # "rst" => Lost("down")' = 0
  <2>1. /\ Reached("down")' = -1 + 0 /\ Passed("down")' = Reached("down")' + 0
        /\ Linked("down")' = Passed("down")' + Len(wire'["link"]["down"])
        /\ Taken("down")' = Linked("down")' + 0 /\ Total("down")' = Taken("down")' + 0
        /\ Lost("down")' = 0 - Total("down")'
    BY <1>1, <1>2, <1>3, <1>7, <1>10, Ways DEF Lost, Total, Taken, Linked, Passed, Reached
  <2> QED
    BY <1>10, <2>1
<1> QED
  BY <1>1, <1>2, <1>9, <1>11

\* A close only loses.
LEMMA Closes ==
  ASSUME Types, Types', NEW sides, Close(sides), UNCHANGED <<sent, got, ready>>,
         \A g \in Copiers : copier'[g] = "write" => copier[g] = "write", NEW d \in Dirs
  PROVE  /\ Lost(d)' >= Lost(d)
         /\ Lost(d)' = Lost(d) => \A k \in Conns : wire'[k][d] = wire[k][d]
         /\ wire'[To(d)][d] = wire[To(d)][d] => Reached(d)' = Reached(d)
         /\ /\ wire'[To(d)][d] = wire[To(d)][d] /\ wire'["link"][d] = wire["link"][d]
            /\ copier'[Into(d)] = copier[Into(d)]
            => Linked(d)' = Linked(d)
<1>1. \A k \in Conns : wire'[k][d] \in {wire[k][d], <<>>}
  BY ClosingMore
<1>2. sent'[d] = sent[d] /\ Received(d)' = Received(d)
  BY DEF Received
<1> QED
  BY <1>1, <1>2, Falling

\* The actions that close.
Closings ==
  \/ SocksFails \/ DialFails \/ OpenFails \/ ProxyReturns \/ AgentReturns
  \/ (\E e \in Dirs : Leave(e)) \/ \E g \in Copiers : SpliceEnds(g)

LEMMA ClosingsClose ==
  ASSUME Types, Closings
  PROVE  /\ \E sides : Close(sides)
         /\ UNCHANGED <<sent, got, ready, shut, losses>>
         /\ \A g \in Copiers : copier'[g] \in {copier[g], "done"}
<1>1. \E sides : Close(sides)
  BY DEF Closings, SocksFails, DialFails, OpenFails, ProxyReturns, AgentReturns, Leave, SpliceEnds
<1>2. UNCHANGED <<sent, got, ready, shut, losses>>
  BY DEF Closings, SocksFails, DialFails, OpenFails, ProxyReturns, AgentReturns, Leave, SpliceEnds,
         endVars
<1>3. \A g \in Copiers : copier'[g] \in {copier[g], "done"}
  <2>1. CASE \E g \in Copiers : SpliceEnds(g)
    BY <2>1 DEF SpliceEnds, Types
  <2>2. CASE UNCHANGED copier
    BY <2>2
  <2> QED
    BY <2>1, <2>2 DEF Closings, SocksFails, DialFails, OpenFails, ProxyReturns, AgentReturns, Leave,
                      codeVars
<1> QED
  BY <1>1, <1>2, <1>3

\* What is lost stays lost, from the dial on.
LEMMA LostStep ==
  ASSUME IInv, Types', Handshake, [Next]_vars, ~DialSucceeds, NEW d \in Dirs
  PROVE  Lost(d)' >= Lost(d)
<1> USE DEF IInv
<1>0. /\ Lost(d) \in Int
      /\ Lost(d)' = Lost(d) => Lost(d)' >= Lost(d)
      /\ Lost(d)' > Lost(d) /\ Lost(d)' \in Int => Lost(d)' >= Lost(d)
      /\ Lost(d)' \in Int
  BY Shifts
<1>1. CASE Closings
  <2>1. /\ \E sides : Close(sides)
        /\ UNCHANGED <<sent, got, ready>>
        /\ \A g \in Copiers : copier'[g] = "write" => copier[g] = "write"
    BY <1>1, ClosingsClose
  <2> QED
    BY <2>1, Closes
<1>2. ASSUME NEW g \in Copiers, CopyRead(g) PROVE Lost(d)' >= Lost(d)
  BY <1>0, <1>2, Reads
<1>3. ASSUME NEW g \in Copiers, CopyWrite(g) PROVE Lost(d)' >= Lost(d)
  <2>1. Dir(g) \in Dirs
    BY Copying
  <2>2. d = Dir(g) \/ d = Opposite(Dir(g))
    BY <2>1 DEF Dirs, Opposite
  <2>3. CASE d = Dir(g)
    BY <1>0, <1>3, <2>3, Writes
  <2>4. CASE d = Opposite(Dir(g))
    BY <1>3, <2>1, <2>4, Writes
  <2> QED
    BY <2>2, <2>3, <2>4
<1>4. ASSUME NEW e \in Dirs, Send(e) PROVE Lost(d)' >= Lost(d)
  <2>1. d = e \/ d = Opposite(e)
    BY DEF Dirs, Opposite
  <2> QED
    BY <1>0, <1>4, <2>1, Sends
<1>5. ASSUME NEW e \in Dirs, Receive(e) PROVE Lost(d)' >= Lost(d)
  BY <1>0, <1>5, Receives
<1>6. CASE OpenSucceeds
  BY <1>0, <1>6, Opens
<1>7. CASE SocksRequest \/ (\E e \in Dirs : Shut(e)) \/ UNCHANGED vars
  <2>1. UNCHANGED <<wire, got, ready, sent, copier>>
    BY <1>7 DEF SocksRequest, Shut, vars, netVars, endVars, codeVars
  <2> QED
    BY <1>0, <2>1, Idle
<1>8. CASE Lose
  <2>1. \A k \in Conns : wire'[k][d] \in {wire[k][d], <<>>}
    BY <1>8 DEF Lose, Types
  <2>2. UNCHANGED <<sent, copier>> /\ Received(d)' = Received(d)
    BY <1>8 DEF Lose, codeVars, endVars, Received
  <2> QED
    BY <2>1, <2>2, Falling
<1> QED
  BY <1>1, <1>2, <1>3, <1>4, <1>5, <1>6, <1>7, <1>8
     DEF Next, serveSocks, handleDial, splice, Closings

LEMMA CountedStep == IInv /\ Types' /\ Handshake /\ Counted /\ [Next]_vars => Counted'
<1> SUFFICES ASSUME IInv, Types', Handshake, Counted, [Next]_vars, NEW d \in Dirs
             PROVE  Lost(d)' >= 0
  BY DEF Counted
<1>1. Lost(d) \in Int /\ Lost(d)' \in Int /\ Lost(d) >= 0
  BY Shifts DEF Counted, IInv
<1>2. CASE DialSucceeds
  BY <1>2, Dials DEF IInv, Dirs
<1>3. CASE ~DialSucceeds
  <2>1. Lost(d)' >= Lost(d)
    BY <1>3, LostStep
  <2> QED
    BY <1>1, <2>1
<1> QED
  BY <1>2, <1>3

LEMMA EndedStep == IInv /\ Types' /\ Handshake /\ Counted /\ Ended /\ [Next]_vars => Ended'
<1> DEFINE Right(k, d) ==
      /\ end[k][d] = "rst" => ~Holds(k, Writer(d)) /\ Lost(Opposite(d)) > 0
      /\ k # From(d) => ~Holds(k, Writer(d))
<1> SUFFICES ASSUME IInv, Types', Handshake, Counted, Ended, [Next]_vars,
                    NEW k \in Conns, NEW d \in Dirs, k = "link" => losses' = 0, end'[k][d] # "open"
             PROVE  Right(k, d)'
  BY DEF Ended
<1> USE DEF IInv
<1> DEFINE o == Opposite(d)
<1>0. o \in Dirs /\ o # d /\ Opposite(o) = d /\ Writer(d) \in {"l", "r"} /\ Writer(o) = Reader(d)
  BY Routes
<1>1. Lost(o) \in Int /\ Lost(o)' \in Int /\ Lost(o) >= 0
  BY <1>0, Shifts DEF Counted
\* A connection that had ended.
<1>2. ASSUME end'[k][d] = end[k][d], losses' = losses \/ k # "link",
             Holds(k, Writer(d))' => Holds(k, Writer(d)), ~DialSucceeds
      PROVE  Right(k, d)'
  <2>1. Right(k, d)
    BY <1>2 DEF Ended
  <2>2. Lost(o)' >= Lost(o)
    BY <1>0, <1>2, LostStep
  <2> QED
    BY <1>1, <1>2, <2>1, <2>2
<1>3. CASE Closings
  <2>1. /\ UNCHANGED <<sent, got, ready, losses>>
        /\ \A g \in Copiers : copier'[g] = "write" => copier[g] = "write"
    BY <1>3, ClosingsClose
  <2>2. PICK sides : Close(sides)
    BY <1>3, ClosingsClose
  <2>3. /\ Holds(k, Writer(d))' <=> Holds(k, Writer(d)) /\ <<k, Writer(d)>> \notin sides
        /\ end'[k][d] # end[k][d] => <<k, Writer(d)>> \in sides
        /\ end'[k][d] = "rst" => end[k][d] = "rst" \/ wire'[k][o] # wire[k][o]
    <3>1. Holds(k, Writer(d))' <=> Holds(k, Writer(d)) /\ <<k, Writer(d)>> \notin sides
      <4>1. \A s \in {"l", "r"} : Holds(k, s)' <=> Holds(k, s) /\ <<k, s>> \notin sides
        BY <2>2, ClosingMore
      <4> QED
        BY <1>0, <4>1
    <3>2. end'[k][d] # end[k][d] => <<k, Writer(d)>> \in sides
      BY <2>2, ClosingMore
    <3>3. end'[k][d] = "rst" => end[k][d] = "rst" \/ wire'[k][o] # wire[k][o]
      BY <2>2, ClosingMore
    <3> QED
      BY <3>1, <3>2, <3>3
  <2>4. /\ Lost(o)' >= Lost(o)
        /\ Lost(o)' = Lost(o) => wire'[k][o] = wire[k][o]
    BY <1>0, <2>1, <2>2, Closes
  <2>5. CASE end'[k][d] = end[k][d]
    <3>1. Right(k, d)
      BY <2>1, <2>5 DEF Ended
    <3> QED
      BY <1>1, <2>3, <2>4, <2>5, <3>1
  <2>6. CASE end'[k][d] # end[k][d]
    <3>1. ~Holds(k, Writer(d))'
      BY <2>3, <2>6
    <3>2. end'[k][d] = "rst" => Lost(o)' > 0
      BY <1>1, <2>3, <2>4, <2>6
    <3> QED
      BY <3>1, <3>2
  <2> QED
    BY <2>5, <2>6
\* What arrives where nobody reads is lost.
<1>4. ASSUME NEW c \in Conns, NEW e \in Dirs, NEW x \in Nat, Put(c, e, x), losses' = losses,
             ~Holds(c, Reader(e)) => Lost(e)' > Lost(e), ~DialSucceeds
      PROVE  Right(k, d)'
  <2>1. \A s : Holds(k, s)' <=> Holds(k, s)
    BY <1>4 DEF Put, Holds
  <2>2. CASE end'[k][d] = end[k][d]
    BY <1>2, <1>4, <2>1, <2>2
  <2>3. CASE end'[k][d] # end[k][d]
    <3>1. c = k /\ d = Opposite(e) /\ ~Holds(c, Reader(e))
      BY <1>4, <2>3, PuttingMore
    <3>2. e = o /\ Reader(e) = Writer(d)
      BY <3>1, Routes
    <3>3. Lost(o)' > 0
      BY <1>1, <1>4, <3>1, <3>2
    <3> QED
      BY <2>1, <3>1, <3>2, <3>3
  <2> QED
    BY <2>2, <2>3
<1>5. ASSUME NEW g \in Copiers, CopyWrite(g) PROVE Right(k, d)'
  <2>1. Dst(g) \in Conns /\ Dir(g) \in Dirs /\ buf[g] \in Nat
    BY Copying DEF Types
  <2>2. /\ Put(Dst(g), Dir(g), buf[g]) /\ losses' = losses /\ ~DialSucceeds
        /\ ~Holds(Dst(g), Reader(Dir(g))) => Lost(Dir(g))' > Lost(Dir(g))
    BY <1>5, <2>1, Writes DEF CopyWrite, DialSucceeds
  <2> QED
    BY <1>4, <2>1, <2>2
<1>6. ASSUME NEW e \in Dirs, Send(e) PROVE Right(k, d)'
  <2>1. From(e) \in Conns /\ sent[e] \in Nat
    BY Routes DEF Types
  <2>2. Put(From(e), e, sent[e] + 1) /\ losses' = losses /\ agent' = agent
    BY <1>6 DEF Send, From, codeVars
  <2>3. ~DialSucceeds
    BY <2>2 DEF DialSucceeds
  <2>4. ~Holds(From(e), Reader(e)) => Lost(e)' > Lost(e)
    BY <1>6, Sends
  <2>5. sent[e] + 1 \in Nat
    BY <2>1
  <2> QED
    BY <1>4, <2>1, <2>2, <2>3, <2>4, <2>5
<1>7. ASSUME NEW e \in Dirs, Shut(e) PROVE Right(k, d)'
  <2>1. /\ UNCHANGED <<held, agent, losses>> /\ end' = [end EXCEPT ![At(e)][e] = "fin"]
    BY <1>7 DEF Shut, codeVars
  <2>2. ~DialSucceeds
    BY <2>1 DEF DialSucceeds
  <2>3. Holds(k, Writer(d))' => Holds(k, Writer(d))
    BY <2>1 DEF Holds
  <2>4. CASE k = At(e) /\ d = e
    <3>1. end'[k][d] = "fin" /\ k = From(d)
      BY <2>1, <2>4 DEF Types, From
    <3> QED
      BY <3>1
  <2>5. CASE ~(k = At(e) /\ d = e)
    <3>1. end'[k][d] = end[k][d]
      BY <2>1, <2>5 DEF Types
    <3> QED
      BY <1>2, <2>1, <2>2, <2>3, <3>1
  <2> QED
    BY <2>4, <2>5
<1>8. CASE Lose
  <2>1. /\ held' = held /\ agent' = agent /\ losses' # 0
        /\ k # "link" => end'[k] = end[k]
    BY <1>8 DEF Lose, codeVars, Types
  <2>2. k # "link" /\ ~DialSucceeds
    BY <1>8, <2>1 DEF Lose, Types, DialSucceeds
  <2>3. Holds(k, Writer(d))' => Holds(k, Writer(d))
    BY <2>1 DEF Holds
  <2>4. end'[k][d] = end[k][d]
    BY <2>1, <2>2
  <2> QED
    BY <1>2, <2>2, <2>3, <2>4
<1>9. CASE DialSucceeds
  <2>1. /\ end' = end /\ losses' = losses /\ held' = [held EXCEPT !["target"] = {"l", "r"}]
        /\ agent = "dial" /\ ~Dialled
    BY <1>9 DEF DialSucceeds, Early, Dialled
  <2>2. end[k][d] # "rst"
    BY <2>1 DEF Handshake
  <2>3. k # "target"
    BY <2>1 DEF Handshake
  <2>4. Holds(k, Writer(d))' => Holds(k, Writer(d))
    BY <2>1, <2>3 DEF Holds, Types
  <2>5. k # From(d) => ~Holds(k, Writer(d))
    BY <2>1 DEF Ended
  <2> QED
    BY <2>1, <2>2, <2>4, <2>5
<1>10. CASE SocksRequest
  <2>1. /\ end' = end /\ losses' = losses /\ held' = [held EXCEPT !["link"] = {"l", "r"}]
        /\ agent = "none" /\ ~DialSucceeds
    BY <1>10 DEF SocksRequest, Early, DialSucceeds
  <2>2. k # "link"
    BY <2>1 DEF Handshake
  <2>3. Holds(k, Writer(d))' => Holds(k, Writer(d))
    BY <2>1, <2>2 DEF Holds, Types
  <2> QED
    BY <1>2, <2>1, <2>3
<1>11. CASE OpenSucceeds \/ (\E g \in Copiers : CopyRead(g)) \/ (\E e \in Dirs : Receive(e))
            \/ UNCHANGED vars
  <2>1. UNCHANGED <<end, held, agent, losses>>
    BY <1>11 DEF OpenSucceeds, CopyRead, Receive, vars, netVars, codeVars
  <2> QED
    BY <1>2, <2>1 DEF Holds, DialSucceeds
<1> QED
  BY <1>3, <1>5, <1>6, <1>7, <1>8, <1>9, <1>10, <1>11
     DEF Next, serveSocks, handleDial, splice, Closings

\* A machine has its side of the link exactly if it has the other connection.
LEMMA Machines ==
  ASSUME Handshake, Both, Dialled, NEW d \in Dirs
  PROVE  (Near(d) <=> Holds("link", Reader(d))) /\ (Far(d) <=> Holds("link", Writer(d)))
<1>1. agent # "none"
  BY DEF Handshake
<1>2. \A e \in Dirs : Near(e) <=> Holds("link", Reader(e))
  BY <1>1 DEF Both, Dirs, Reader
<1>3. Far(d) <=> Near(Opposite(d))
  BY Routes DEF Far, Near, To, From
<1> QED
  BY <1>2, <1>3, Routes

\* When a copier of the machine next to the receiver ends, all has arrived.
LEMMA NearEnds ==
  ASSUME IInv, EInv, NEW d \in Dirs, Good(d), NEW g \in Copiers, CopyEnds(g),
         g = Into(d) \/ g = OutOf(Opposite(d))
  PROVE  Reached(d) = sent[d] /\ Quiet(d)
<1> USE DEF IInv, EInv
<1> DEFINE o == Opposite(d)
<1>0. Settled(d)
  BY DEF Whole
<1>1. /\ Holds(To(d), Reader(d)) /\ d \notin shut /\ losses = 0 /\ Lost(o) = 0 /\ Dialled
      /\ Near(d) <=> Holds("link", Reader(d))
      /\ Far(d) <=> Holds("link", Writer(d))
  BY Machines DEF Good
<1>2. /\ o \in Dirs /\ Opposite(o) = d /\ To(d) \in Conns /\ "link" \in Conns
      /\ To(d) # "link" /\ From(d) # "link" /\ To(d) # From(d)
      /\ Reader(o) = Writer(d) /\ Writer(o) = Reader(d)
      /\ From(o) = To(d)
  BY Routes DEF From, To
<1>3. CASE ~Near(d)
  BY <1>0, <1>3 DEF Settled
<1>4. CASE Near(d) /\ g = Into(d)
  <2>1. \/ copier[g] = "read" /\ (~Holds("link", Reader(d)) \/ AtEnd("link", d))
        \/ copier[g] = "write" /\ (~Holds(To(d), Writer(d)) \/ end[To(d)][o] = "rst")
    BY <1>4, Routes DEF CopyEnds, Unwritable
  <2>2. ~(copier[g] = "write")
    <3>1. end[To(d)][o] = "rst" => ~Holds(To(d), Writer(o))
      BY <1>2 DEF Ended
    <3> QED
      BY <1>1, <1>2, <1>4, <2>1, <3>1 DEF Near
  <2>3. copier[g] = "read" /\ wire["link"][d] = <<>> /\ end["link"][d] # "open"
    BY <1>1, <1>4, <2>1, <2>2 DEF AtEnd
  <2>4. ~Holds("link", Writer(d))
    BY <1>1, <1>2, <2>3 DEF Ended
  <2>5. Linked(d) = sent[d] /\ Quiet(d)
    BY <1>0, <1>1, <2>4 DEF Settled
  <2>6. Reached(d) \in Int /\ Linked(d) = Reached(d) + 0 + 0
    BY <1>4, <2>3, Counts DEF Linked, Passed, Writing
  <2> QED
    BY <2>5, <2>6
<1>5. CASE Near(d) /\ g = OutOf(o)
  <2>1. \/ copier[g] = "read" /\ (~Holds(To(d), Writer(d)) \/ AtEnd(To(d), o))
        \/ copier[g] = "write" /\ (~Holds("link", Reader(d)) \/ end["link"][d] = "rst")
    BY <1>2, <1>5, Routes DEF CopyEnds, Unwritable
  <2>2. end["link"][d] # "rst"
    BY <1>1, <1>2 DEF Ended
  <2>3. end[To(d)][o] # "open"
    BY <1>1, <1>5, <2>1, <2>2 DEF AtEnd, Near
  <2>4. end[To(d)][d] # "open"
    BY <1>1, <2>3 DEF Awaits
  <2>5. ~Holds(To(d), Writer(d))
    BY <1>2, <2>4 DEF Ended
  <2> QED
    BY <1>5, <2>5 DEF Near
<1> QED
  BY <1>3, <1>4, <1>5

\* When one of the other machine ends, all has left it.
LEMMA FarEnds ==
  ASSUME IInv, EInv, NEW d \in Dirs, Good(d), NEW g \in Copiers, CopyEnds(g),
         g = Into(Opposite(d)) \/ g = OutOf(d)
  PROVE  Linked(d) = sent[d] /\ Quiet(d)
<1> USE DEF IInv, EInv
<1> DEFINE o == Opposite(d)
<1>0. Settled(d)
  BY DEF Whole
<1>1. /\ losses = 0 /\ Lost(o) = 0
      /\ Near(d) <=> Holds("link", Reader(d))
      /\ Far(d) <=> Holds("link", Writer(d))
  BY Machines DEF Good
<1>2. /\ o \in Dirs /\ Opposite(o) = d /\ From(d) \in Conns /\ "link" \in Conns
      /\ From(d) # "link" /\ From(o) # "link"
      /\ Reader(o) = Writer(d) /\ Writer(o) = Reader(d)
      /\ To(o) = From(d)
  BY Routes DEF From, To
<1>3. CASE ~Far(d)
  BY <1>0, <1>3 DEF Settled
<1>4. CASE ~Near(d)
  <2>1. Lost(d) >= 0 /\ Reached(d) = sent[d] /\ Quiet(d)
    BY <1>0, <1>4 DEF Settled, Counted
  <2> QED
    BY <2>1, AllThere
<1>5. CASE Near(d) /\ Far(d) /\ g = Into(o)
  <2>1. \/ ~Holds("link", Writer(d)) \/ AtEnd("link", o)
        \/ ~Holds(From(d), Reader(d)) \/ end[From(d)][d] = "rst"
    BY <1>2, <1>5, Routes DEF CopyEnds, Unwritable
  <2>2. end[From(d)][d] # "rst"
    BY <1>1, <1>2 DEF Ended
  <2>3. end["link"][o] # "open"
    BY <1>1, <1>5, <2>1, <2>2 DEF AtEnd, Far
  <2>4. ~Holds("link", Writer(o))
    BY <1>1, <1>2, <2>3 DEF Ended
  <2> QED
    BY <1>1, <1>2, <1>5, <2>4
<1>6. CASE Near(d) /\ Far(d) /\ g = OutOf(d)
  <2>1. \/ copier[g] = "read" /\ (~Holds(From(d), Reader(d)) \/ AtEnd(From(d), d))
        \/ copier[g] = "write" /\ (~Holds("link", Writer(d)) \/ end["link"][o] = "rst")
    BY <1>6, Routes DEF CopyEnds, Unwritable
  <2>2. end["link"][o] = "rst" => ~Holds("link", Writer(o))
    BY <1>1, <1>2 DEF Ended
  <2>3. copier[g] = "read" /\ wire[From(d)][d] = <<>> /\ end[From(d)][d] # "open"
    BY <1>1, <1>2, <1>6, <2>1, <2>2 DEF AtEnd, Far
  <2>4. Total(d) = Linked(d) + 0 + 0 /\ Linked(d) \in Int
    BY <1>6, <2>3, Counts DEF Total, Taken, Writing
  <2>5. sent[d] \in Int /\ sent[d] - Total(d) = 0
    BY <1>0, Totals DEF Settled, Lost
  <2> QED
    BY <2>3, <2>4, <2>5 DEF Quiet
<1> QED
  BY <1>3, <1>4, <1>5, <1>6

\* The premises were good before, but for the dial.
LEMMA GoodStep ==
  ASSUME IInv, Types', EInv, [Next]_vars, ~DialSucceeds, NEW d \in Dirs, Good(d)'
  PROVE  Good(d) /\ Lost(Opposite(d))' = Lost(Opposite(d))
<1> USE DEF IInv, EInv
<1> DEFINE o == Opposite(d)
<1>1. /\ Dialled' /\ (d = "down" => proxy' = "open" \/ copier'["pd"] # "none")
      /\ Holds(To(d), Reader(d))' /\ d \notin shut' /\ losses' = 0 /\ Lost(o)' = 0
  BY DEF Good
<1>2. Lost(o) >= 0 /\ Lost(o)' >= Lost(o) /\ Lost(o) \in Int
  BY LostStep, Shifts, Routes DEF Counted
<1>3. Lost(o) = 0
  BY <1>1, <1>2
<1>4. losses = 0 /\ d \notin shut
  <2>1. losses' = losses \/ losses' = losses + 1
    BY ClosingsClose
       DEF Next, serveSocks, handleDial, splice, Closings, SocksRequest, OpenSucceeds, CopyRead,
           CopyWrite, Send, Receive, Shut, Lose, DialSucceeds, vars
  <2>2. shut \subseteq shut'
    BY ClosingsClose
       DEF Next, serveSocks, handleDial, splice, Closings, SocksRequest, OpenSucceeds, CopyRead,
           CopyWrite, Send, Receive, Shut, Lose, DialSucceeds, vars, endVars
  <2>3. losses \in Nat
    BY DEF Types
  <2> QED
    BY <1>1, <2>1, <2>2, <2>3
<1>5. \A g \in Copiers : copier'[g] # "none" => copier[g] # "none" \/ (OpenSucceeds /\ g \in {"pu", "pd"})
  <2>1. CASE \E h \in Copiers : CopyRead(h) \/ CopyWrite(h) \/ SpliceEnds(h)
    BY <2>1 DEF CopyRead, CopyWrite, SpliceEnds, CopyEnds, Types
  <2>2. CASE OpenSucceeds
    BY <2>2 DEF OpenSucceeds, Types
  <2>3. CASE UNCHANGED copier
    BY <2>3
  <2> QED
    BY <2>1, <2>2, <2>3
       DEF Next, serveSocks, handleDial, splice, SocksRequest, SocksFails, OpenFails, ProxyReturns,
           DialSucceeds, DialFails, AgentReturns, Send, Receive, Shut, Leave, Lose, vars, codeVars
<1>6. Dialled
  BY <1>1, <1>5 DEF Dialled, Copiers
<1>7. d = "down" => proxy = "open" \/ copier["pd"] # "none"
  <2>1. proxy' = "open" => proxy = "open" \/ SocksRequest
    BY DEF Next, serveSocks, handleDial, splice, SocksRequest, SocksFails, OpenSucceeds, OpenFails,
           ProxyReturns, DialSucceeds, DialFails, AgentReturns, CopyRead, CopyWrite, SpliceEnds,
           Send, Receive, Shut, Leave, Lose, vars, codeVars
  <2>2. ~SocksRequest
    BY <1>6 DEF SocksRequest, Early, Dialled
  <2>3. OpenSucceeds => proxy = "open"
    BY DEF OpenSucceeds
  <2> QED
    BY <1>1, <1>5, <2>1, <2>2, <2>3 DEF Copiers
<1>8. Holds(To(d), Reader(d))
  <2>1. CASE Closings
    <3>1. PICK sides : Close(sides)
      BY <2>1, ClosingsClose
    <3>2. To(d) \in Conns /\ Reader(d) \in {"l", "r"}
      BY Routes
    <3> QED
      BY <1>1, <3>1, <3>2, ClosingMore
  <2>2. CASE SocksRequest
    BY <1>6, <2>2 DEF SocksRequest, Early, Dialled
  <2>3. CASE UNCHANGED held
    BY <1>1, <2>3 DEF Holds
  <2> QED
    BY <2>1, <2>2, <2>3
       DEF Next, serveSocks, handleDial, splice, Closings, OpenSucceeds, CopyRead, CopyWrite,
           Send, Receive, Shut, Lose, Put, vars, netVars
<1> QED
  BY <1>1, <1>3, <1>4, <1>6, <1>7, <1>8 DEF Good

\* What is held does not get lost where all stays as far as it is.
LEMMA Stays ==
  ASSUME NEW d \in Dirs, Settled(d), Lost(d)' = Lost(d), sent'[d] = sent[d],
         Linked(d)' = Linked(d) \/ Far(d), Reached(d)' = Reached(d) \/ Near(d),
         Far(d) => Far(d)', Near(d) => Near(d)', Quiet(d) => Quiet(d)'
  PROVE  Settled(d)'
BY DEF Settled

\* An end stays one.
LEMMA Quieter ==
  ASSUME Types, NEW d \in Dirs, end[From(d)][d] # "open" => end'[From(d)][d] # "open",
         copier["pu"] = "none" /\ proxy = "done" => copier'["pu"] = "none" /\ proxy' = "done"
  PROVE  Quiet(d) => Quiet(d)'
BY DEF Quiet

\* Where nothing of d moves it is as far as before.
LEMMA Kept ==
  ASSUME UNCHANGED <<got, ready, sent>>, NEW d \in Dirs, \A k \in Conns : wire'[k][d] = wire[k][d],
         \A g \in {Into(d), OutOf(d)} : copier'[g] = "write" <=> copier[g] = "write"
  PROVE  Lost(d)' = Lost(d) /\ Linked(d)' = Linked(d) /\ Reached(d)' = Reached(d)
<1>1. Writing(Into(d))' = Writing(Into(d)) /\ Writing(OutOf(d))' = Writing(OutOf(d))
  BY DEF Writing
<1>2. /\ wire'[To(d)][d] = wire[To(d)][d] /\ wire'["link"][d] = wire["link"][d]
      /\ wire'[From(d)][d] = wire[From(d)][d]
  BY Routes
<1> QED
  BY <1>1, <1>2 DEF Lost, Total, Taken, Linked, Passed, Reached, Received

\* A close that loses nothing of the other direction leaves of d what its
\* readers keep.
LEMMA ClosedKeeps ==
  ASSUME Types, Types', NEW sides, Close(sides), NEW d \in Dirs, UNCHANGED <<sent, got, ready>>,
         Lost(Opposite(d))' = Lost(Opposite(d)),
         \A g \in Copiers : copier'[g] = "write" => copier[g] = "write"
  PROVE  \A k \in Conns : /\ ~(<<k, Reader(d)>> \in sides /\ Holds(k, Reader(d))) => wire'[k][d] = wire[k][d]
                          /\ wire[k][d] = <<>> => wire'[k][d] = wire[k][d]
<1>1. Opposite(d) \in Dirs
  BY Routes
<1>2. \A k \in Conns : wire'[k][Opposite(d)] = wire[k][Opposite(d)]
  BY <1>1, Closes
<1> TAKE k \in Conns
<1>3. /\ wire'[k][d] \in {wire[k][d], <<>>}
      /\ wire'[k][d] # wire[k][d] =>
           \/ <<k, Reader(d)>> \in sides /\ Holds(k, Reader(d))
           \/ wire[k][Opposite(d)] # <<>> /\ wire'[k][Opposite(d)] = <<>>
  BY ClosingMore
<1>4. wire'[k][Opposite(d)] = wire[k][Opposite(d)]
  BY <1>2
<1> QED
  BY <1>3, <1>4

\* A copier that ends closes its machine with all of d behind it.
LEMMA SpliceWhole ==
  ASSUME IInv, Types', EInv, NEW d \in Dirs, Good(d), Lost(Opposite(d))' = Lost(Opposite(d)),
         NEW g \in Copiers, SpliceEnds(g)
  PROVE  Settled(d)'
<1> USE DEF IInv, EInv
<1> DEFINE o == Opposite(d)
           sides == {<<Src(g), Reader(Dir(g))>>, <<Dst(g), Writer(Dir(g))>>}
<1>1. /\ CopyEnds(g) /\ Close(sides) /\ copier' = [copier EXCEPT ![g] = "done"]
      /\ UNCHANGED <<proxy, sent, got, ready>>
  BY DEF SpliceEnds, endVars
<1>2. /\ copier[g] \in {"read", "write"} /\ copier'[g] = "done"
      /\ \A h \in Copiers \ {g} : copier'[h] = copier[h]
      /\ \A h \in Copiers : copier'[h] = "write" => copier[h] = "write"
  BY <1>1 DEF CopyEnds, Types
<1>3. /\ o \in Dirs /\ Opposite(o) = d /\ From(d) = To(o) /\ To(d) = From(o)
      /\ Reader(o) = Writer(d) /\ Writer(o) = Reader(d) /\ Reader(d) # Writer(d)
      /\ To(d) \in Conns /\ From(d) \in Conns /\ "link" \in Conns
      /\ To(d) # "link" /\ From(d) # "link" /\ To(d) # From(d)
      /\ Into(d) \in Copiers /\ OutOf(d) \in Copiers /\ Into(d) # OutOf(d)
      /\ {Into(d), OutOf(d)} \cap {Into(o), OutOf(o)} = {}
      /\ Reader(d) \in {"l", "r"} /\ Writer(d) \in {"l", "r"}
  BY Routes, Ways DEF From, To, Dirs
<1>4. Settled(d) /\ Lost(d) >= 0
  BY DEF Whole, Counted
<1>5. /\ \A k \in Conns, s \in {"l", "r"} : Holds(k, s)' <=> Holds(k, s) /\ <<k, s>> \notin sides
      /\ end[From(d)][d] # "open" => end'[From(d)][d] # "open"
  <2> HIDE DEF sides
  <2>1. \A k \in Conns, s \in {"l", "r"} : Holds(k, s)' <=> Holds(k, s) /\ <<k, s>> \notin sides
    BY <1>1, ClosingMore
  <2>2. \A k \in Conns : end[k][d] # "open" => end'[k][d] # "open"
    BY <1>1, ClosingMore
  <2> QED
    BY <1>3, <2>1, <2>2
<1>6. \A k \in Conns : /\ <<k, Reader(d)>> \notin sides => wire'[k][d] = wire[k][d]
                       /\ wire[k][d] = <<>> => wire'[k][d] = wire[k][d]
  BY <1>1, <1>2, ClosedKeeps
<1>7. Quiet(d) => Quiet(d)'
  <2>1. copier["pu"] = "none" => copier'["pu"] = "none"
    BY <1>2 DEF Copiers
  <2> QED
    BY <1>1, <1>5, <2>1, Quieter
<1>8. CASE g = Into(d) \/ g = OutOf(o)
  <2>1. sides = {<<To(d), Writer(d)>>, <<"link", Reader(d)>>}
    BY <1>3, <1>8, Routes
  <2>2. Reached(d) = sent[d] /\ Quiet(d)
    BY <1>1, <1>8, NearEnds
  <2>3. /\ Linked(d) = sent[d] /\ wire["link"][d] = <<>> /\ Writing(Into(d)) = 0
        /\ Lost(d) = 0 /\ Writing(OutOf(d)) = 0 /\ wire[From(d)][d] = <<>>
    BY <1>4, <2>2, AllThere
  <2>4. <<To(d), Reader(d)>> \notin sides
    BY <1>3, <2>1
  <2>5. \A k \in Conns : wire'[k][d] = wire[k][d]
    <3>1. \A k \in Conns : k \in {To(d), From(d), "link"}
      BY Ways DEF Conns, Dirs
    <3> QED
      BY <1>6, <2>3, <2>4, <3>1
  <2>6. copier[Into(d)] # "write" /\ copier[OutOf(d)] # "write"
    BY <2>3 DEF Writing
  <2>7. Lost(d)' = Lost(d) /\ Linked(d)' = Linked(d) /\ Reached(d)' = Reached(d)
    BY <1>1, <1>2, <1>3, <2>5, <2>6, Kept
  <2> QED
    BY <1>1, <1>7, <2>2, <2>3, <2>7 DEF Settled
<1>9. CASE g = Into(o) \/ g = OutOf(d)
  <2>1. sides = {<<From(d), Reader(d)>>, <<"link", Writer(d)>>}
    BY <1>3, <1>9, Routes
  <2>2. Linked(d) = sent[d] /\ Quiet(d)
    BY <1>1, <1>9, FarEnds
  <2>3. Lost(d) = 0 /\ Writing(OutOf(d)) = 0 /\ wire[From(d)][d] = <<>>
    BY <1>4, <2>2, AllThere
  <2>4. /\ <<To(d), Reader(d)>> \notin sides /\ <<"link", Reader(d)>> \notin sides
        /\ <<To(d), Writer(d)>> \notin sides
    BY <1>3, <2>1
  <2>5. \A k \in Conns : wire'[k][d] = wire[k][d]
    <3>1. \A k \in Conns : k \in {To(d), From(d), "link"}
      BY Ways DEF Conns, Dirs
    <3> QED
      BY <1>6, <2>3, <2>4, <3>1
  <2>6. copier[OutOf(d)] # "write" /\ Into(d) # g
    <3>1. Into(d) # g
      BY <1>3, <1>9
    <3>2. copier[OutOf(d)] # "write"
      BY <2>3 DEF Writing
    <3> QED
      BY <3>1, <3>2
  <2>7. Lost(d)' = Lost(d) /\ Linked(d)' = Linked(d) /\ Reached(d)' = Reached(d)
    BY <1>1, <1>2, <1>3, <2>5, <2>6, Kept
  <2>8. Near(d) => Near(d)'
    BY <1>3, <1>5, <2>4 DEF Near
  <2>9. sent'[d] = sent[d]
    BY <1>1
  <2> QED
    BY <1>4, <1>7, <2>2, <2>3, <2>7, <2>8, <2>9 DEF Settled
<1>10. g \in {Into(d), OutOf(d), Into(o), OutOf(o)}
  BY Ways DEF Copiers, Dirs, Opposite
<1> QED
  BY <1>8, <1>9, <1>10

\* Whoever else closes has nothing to close, or is the sender, or a proxy that
\* has not begun to copy.
LEMMA ReturnWhole ==
  ASSUME IInv, Types', EInv, NEW d \in Dirs, Good(d), Lost(Opposite(d))' = Lost(Opposite(d)),
         ProxyReturns \/ AgentReturns \/ Leave(d)
  PROVE  Settled(d)'
<1> USE DEF IInv, EInv
<1>1. Settled(d) /\ Dialled
  BY DEF Whole, Good
<1>2. /\ To(d) \in Conns /\ From(d) \in Conns /\ "link" \in Conns /\ Reader(d) # Writer(d)
      /\ From(d) # To(d)
      /\ Reader(d) \in {"l", "r"} /\ Writer(d) \in {"l", "r"}
  BY Routes
<1>3. /\ UNCHANGED <<sent, got, ready, copier>>
      /\ \A g \in Copiers : copier'[g] = "write" => copier[g] = "write"
      /\ proxy = "done" => proxy' = "done"
  BY DEF ProxyReturns, AgentReturns, Leave, endVars, codeVars
<1>4. PICK sides : /\ Close(sides)
                   /\ \/ ProxyReturns /\ sides = ProxySides
                      \/ AgentReturns /\ sides = AgentSides
                      \/ sides = {<<From(d), Writer(d)>>}
  BY DEF ProxyReturns, AgentReturns, Leave, From
<1>5. ASSUME NEW k \in Conns, NEW s \in {"l", "r"}, <<k, s>> \in sides
      PROVE  ~Holds(k, s) \/ (k = From(d) /\ s = Writer(d))
  <2>1. ASSUME ProxyReturns, sides = ProxySides PROVE ~Holds(k, s)
    <3>1. copier["pu"] = "done" /\ copier["pd"] = "done" /\ {"pu", "pd"} \subseteq Copiers
      BY <2>1 DEF ProxyReturns, Copiers
    <3>2. ~Holds("app", "r") /\ ~Holds("link", "l")
      BY <3>1 DEF Both, Src, Dir, Reader
    <3> QED
      BY <1>5, <2>1, <3>2 DEF ProxySides
  <2>2. ASSUME AgentReturns, sides = AgentSides PROVE ~Holds(k, s)
    <3>1. copier["au"] = "done" /\ copier["ad"] = "done" /\ {"au", "ad"} \subseteq Copiers
      BY <2>2 DEF AgentReturns, Copiers
    <3>2. ~Holds("link", "r") /\ ~Holds("target", "l")
      BY <3>1 DEF Both, Src, Dir, Reader
    <3> QED
      BY <1>5, <2>2, <3>2 DEF AgentSides
  <2>3. ASSUME sides = {<<From(d), Writer(d)>>} PROVE k = From(d) /\ s = Writer(d)
    BY <1>5, <2>3
  <2> QED
    BY <1>4, <2>1, <2>2, <2>3
<1>6. /\ \A k \in Conns, s \in {"l", "r"} : Holds(k, s)' <=> Holds(k, s) /\ <<k, s>> \notin sides
      /\ end[From(d)][d] # "open" => end'[From(d)][d] # "open"
  <2>1. Close(sides)
    BY <1>4
  <2>2. \A k \in Conns, s \in {"l", "r"} : Holds(k, s)' <=> Holds(k, s) /\ <<k, s>> \notin sides
    BY <2>1, ClosingMore
  <2>3. ASSUME NEW k \in Conns, end[k][d] # "open" PROVE end'[k][d] # "open"
    BY <2>1, <2>3, ClosingMore
  <2> QED
    BY <1>2, <2>2, <2>3
<1>7. \A k \in Conns : wire'[k][d] = wire[k][d]
  <2>1. \A k \in Conns :
          ~(<<k, Reader(d)>> \in sides /\ Holds(k, Reader(d))) => wire'[k][d] = wire[k][d]
    BY <1>3, <1>4, ClosedKeeps
  <2> QED
    BY <1>2, <1>5, <2>1
<1>8. (Far(d) => Far(d)') /\ (Near(d) => Near(d)')
  BY <1>2, <1>5, <1>6 DEF Far, Near
<1>9. Lost(d)' = Lost(d) /\ Linked(d)' = Linked(d) /\ Reached(d)' = Reached(d)
  BY <1>3, <1>7, Kept
<1>10. Quiet(d) => Quiet(d)'
  BY <1>3, <1>6, Quieter
<1>11. sent'[d] = sent[d]
  BY <1>3
<1> QED
  BY <1>1, <1>8, <1>9, <1>10, <1>11, Stays

\* The handshake fails before anything is sent up.
LEMMA OpenFailsWhole ==
  ASSUME Types, Types', Early, OpenFails
  PROVE  Settled("up")'
<1>1. /\ proxy = "open" /\ proxy' = "done" /\ Close(ProxySides)
      /\ UNCHANGED <<sent, got, ready, copier>>
  BY DEF OpenFails, endVars
<1>2. /\ copier["pu"] = "none" /\ copier["au"] # "write" /\ sent["up"] = 0 /\ got["up"] = <<>>
      /\ \A k \in Conns : wire[k]["up"] = <<>>
  BY <1>1 DEF Early, Conns
<1>3. \A k \in Conns : wire'[k]["up"] = <<>>
  BY <1>1, <1>2, ClosingMore DEF Dirs
<1>4. /\ Received("up")' = 0 /\ Writing("au")' = 0 /\ Writing("pu")' = 0
      /\ Len(wire'["app"]["up"]) = 0 /\ Len(wire'["link"]["up"]) = 0 /\ Len(wire'["target"]["up"]) = 0
  BY <1>1, <1>2, <1>3 DEF Received, Writing, Conns
<1>5. Lost("up")' = 0 /\ Linked("up")' = 0 /\ Reached("up")' = 0
  BY <1>1, <1>2, <1>4, Ways DEF Lost, Total, Taken, Linked, Passed, Reached
<1> QED
  BY <1>1, <1>2, <1>5 DEF Settled, Quiet

\* Once the dial has succeeded all that was sent is under way, the reply.
LEMMA DialWhole ==
  ASSUME IInv, Types', EInv, DialSucceeds, NEW d \in Dirs, Good(d)'
  PROVE  Settled(d)'
<1> USE DEF IInv, EInv
<1>1. /\ agent = "dial" /\ UNCHANGED <<end, proxy, losses, sent>>
      /\ held' = [held EXCEPT !["target"] = {"l", "r"}]
      /\ copier' = [copier EXCEPT !["au"] = "read", !["ad"] = "read"]
  BY DEF DialSucceeds, endVars
<1>2. /\ Holds("target", "l")' /\ Holds("app", "r")' = Holds("app", "r")
      /\ copier'["pd"] = copier["pd"] /\ copier'["pu"] = copier["pu"]
  BY <1>1 DEF Holds, Types, Conns, Copiers
<1>3. copier["pd"] = "none" /\ copier["pu"] = "none" /\ proxy # "splice"
  BY <1>1 DEF Early
<1>4. CASE d = "up"
  <2>1. Near(d)'
    BY <1>2, <1>4, Ways DEF Near, Writer
  <2>2. ASSUME ~Far(d)' PROVE Quiet(d)'
    <3>1. ~Holds("app", "r")
      BY <1>2, <1>4, <2>2, Ways DEF Far, Reader
    <3>2. proxy = "done"
      BY <1>3, <3>1 DEF Handshake, Types
    <3> QED
      BY <1>1, <1>2, <1>3, <1>4, <3>2 DEF Quiet
  <2>3. sent'[d] = 0 /\ Lost(d)' = 0 /\ Linked(d)' = 0
    BY <1>4, Dials
  <2> QED
    BY <2>1, <2>2, <2>3 DEF Settled
<1>5. CASE d = "down"
  <2>1. proxy = "open" /\ losses = 0
    BY <1>1, <1>2, <1>3, <1>5 DEF Good
  <2>2. Holds("link", "l") /\ Holds("app", "r")
    BY <2>1 DEF Handshake
  <2>3. end["link"]["up"] # "rst"
    BY <1>1, <2>1 DEF Handshake, Conns, Dirs
  <2>4. Lost(d)' = 0
    BY <1>5, <2>2, <2>3, Dials
  <2>5. Near(d)' /\ Far(d)'
    BY <1>2, <1>5, <2>2, Ways DEF Near, Far, Reader, Writer
  <2> QED
    BY <2>4, <2>5 DEF Settled
<1> QED
  BY <1>4, <1>5 DEF Dirs

\* What is written is one connection further, or nothing of d.
LEMMA WriteWhole ==
  ASSUME IInv, Types', EInv, NEW d \in Dirs, Good(d), Lost(Opposite(d))' = Lost(Opposite(d)),
         NEW g \in Copiers, CopyWrite(g)
  PROVE  Settled(d)'
<1> USE DEF IInv, EInv
<1>1. /\ Put(Dst(g), Dir(g), buf[g]) /\ copier[g] = "write" /\ copier' = [copier EXCEPT ![g] = "read"]
      /\ UNCHANGED <<proxy, sent, held>>
  BY DEF CopyWrite, endVars, Put
<1>2. /\ Dir(g) \in Dirs /\ Dst(g) \in Conns /\ buf[g] \in Nat
      /\ g = Into(Dir(g)) \/ g = OutOf(Dir(g))
  BY Copying DEF Types
<1>3. /\ Settled(d) /\ Lost(d) >= 0 /\ Lost(Opposite(d)) \in Int
      /\ Holds(To(d), Reader(d))
      /\ Near(d) <=> Holds("link", Reader(d))
      /\ Far(d) <=> Holds("link", Writer(d))
  <2>1. Lost(Opposite(d)) \in Int
    BY Routes, Shifts
  <2> QED
    BY <2>1, Machines DEF Whole, Counted, Good
<1>4. (Far(d) => Far(d)') /\ (Near(d) => Near(d)')
  BY <1>1 DEF Far, Near, Holds
<1>5. Quiet(d) => Quiet(d)'
  <2>1. \A c \in Conns, e \in Dirs : end[c][e] # "open" => end'[c][e] # "open"
    BY <1>1, <1>2, PuttingMore
  <2>2. end[From(d)][d] # "open" => end'[From(d)][d] # "open"
    BY <2>1, Routes
  <2>3. copier["pu"] = "none" => copier'["pu"] = "none"
    BY <1>1 DEF Types
  <2> QED
    BY <1>1, <2>2, <2>3, Quieter
<1>6. sent'[d] = sent[d]
  BY <1>1
<1>7. Holds(Dst(g), Writer(Dir(g)))
  BY <1>1 DEF Put, Writable
<1>8. CASE d = Dir(g) /\ g = Into(d)
  <2>1. Dst(g) = To(d) /\ Near(d)
    BY <1>7, <1>8, Routes DEF Near
  <2>2. Lost(d)' = Lost(d) /\ Linked(d)' = Linked(d)
    BY <1>3, <1>8, <2>1, Writes
  <2> QED
    BY <1>3, <1>4, <1>5, <1>6, <2>1, <2>2, Stays
<1>9. CASE d = Dir(g) /\ g = OutOf(d)
  <2>1. Dst(g) = "link" /\ Far(d)
    BY <1>3, <1>7, <1>9, Routes
  <2>2. Holds("link", Reader(d))
    <3> SUFFICES ASSUME ~Near(d) PROVE FALSE
      BY <1>3
    <3>1. Reached(d) = sent[d]
      BY <1>3 DEF Settled
    <3>2. Writing(g) = 0
      BY <1>3, <1>9, <3>1, AllThere
    <3> QED
      BY <1>1, <3>2 DEF Writing
  <2>3. Lost(d)' = Lost(d) /\ Reached(d)' = Reached(d)
    BY <1>9, <2>1, <2>2, Writes
  <2> QED
    BY <1>3, <1>4, <1>5, <1>6, <2>1, <2>3, Stays
<1>10. CASE d = Opposite(Dir(g))
  <2>1. Opposite(d) = Dir(g)
    BY <1>2, <1>10, Routes
  <2>2. Holds(Dst(g), Reader(Dir(g)))
    <3>1. ~Holds(Dst(g), Reader(Dir(g))) => Lost(Dir(g))' > Lost(Dir(g))
      BY Writes
    <3> QED
      BY <1>3, <2>1, <3>1
  <2>3. Lost(d)' = Lost(d) /\ Linked(d)' = Linked(d) /\ Reached(d)' = Reached(d)
    BY <1>10, <2>2, Writes
  <2> QED
    BY <1>3, <1>4, <1>5, <1>6, <2>3, Stays
<1> QED
  BY <1>2, <1>8, <1>9, <1>10 DEF Dirs, Opposite

\* What is sent is taken in by the machine next to the sender.
LEMMA SendWhole ==
  ASSUME IInv, Types', EInv, NEW d \in Dirs, Good(d), Lost(Opposite(d))' = Lost(Opposite(d)),
         NEW e \in Dirs, Send(e)
  PROVE  Settled(d)'
<1> USE DEF IInv, EInv
<1>1. /\ Put(From(e), e, sent[e] + 1) /\ sent' = [sent EXCEPT ![e] = @ + 1]
      /\ UNCHANGED <<copier, proxy, held>> /\ (e = "up" => ready)
  BY DEF Send, codeVars, Put, From, Present
<1>2. From(e) \in Conns /\ sent[e] + 1 \in Nat
  <2>1. sent[e] \in Nat
    BY DEF Types
  <2> QED
    BY <2>1, Routes
<1>3. Settled(d) /\ Lost(Opposite(d)) \in Int
  BY Routes, Shifts DEF Whole
<1>4. (Far(d) => Far(d)') /\ (Near(d) => Near(d)')
  BY <1>1 DEF Far, Near, Holds
<1>5. CASE d = e
  <2>1. end[From(d)][d] = "open"
    BY <1>1, <1>5 DEF Put, Writable
  <2>2. ~Quiet(d)
    BY <1>1, <1>5, <2>1 DEF Quiet, Handshake
  <2>3. Near(d) /\ Far(d) /\ Lost(d) = 0
    BY <1>3, <2>2 DEF Settled
  <2>4. Lost(d)' = Lost(d)
    BY <1>5, <2>3, Sends DEF Far
  <2> QED
    BY <1>4, <2>3, <2>4 DEF Settled
<1>6. CASE d # e
  <2>1. e = Opposite(d) /\ d = Opposite(e)
    BY <1>6 DEF Dirs, Opposite
  <2>2. Holds(From(e), Reader(e))
    <3>1. ~Holds(From(e), Reader(e)) => Lost(e)' > Lost(e)
      BY Sends
    <3> QED
      BY <1>3, <2>1, <3>1
  <2>3. Lost(d)' = Lost(d) /\ Linked(d)' = Linked(d) /\ Reached(d)' = Reached(d)
    BY <2>1, <2>2, Sends
  <2>4. \A c \in Conns, f \in Dirs : end[c][f] # "open" => end'[c][f] # "open"
    BY <1>1, <1>2, PuttingMore
  <2>5. end[From(d)][d] # "open" => end'[From(d)][d] # "open"
    BY <2>4, Routes
  <2>6. Quiet(d) => Quiet(d)'
    BY <1>1, <2>5, Quieter
  <2>7. sent'[d] = sent[d]
    BY <1>1, <1>6 DEF Types
  <2> QED
    BY <1>3, <1>4, <2>3, <2>6, <2>7, Stays
<1> QED
  BY <1>5, <1>6

LEMMA WholeStep == IInv /\ Types' /\ EInv /\ [Next]_vars => Whole'
<1> SUFFICES ASSUME IInv, Types', EInv, [Next]_vars, NEW d \in Dirs, Good(d)'
             PROVE  Settled(d)'
  BY DEF Whole
<1> USE DEF IInv, EInv
<1>1. CASE DialSucceeds
  BY <1>1, DialWhole
<1>2. CASE ~DialSucceeds
  <2>1. Good(d) /\ Lost(Opposite(d))' = Lost(Opposite(d))
    BY <1>2, GoodStep
  <2>2. /\ Settled(d) /\ agent \notin {"none", "dial"}
        /\ Dialled /\ losses' = 0 /\ Holds(To(d), Reader(d))'
        /\ d = "down" => proxy' = "open" \/ copier'["pd"] # "none"
    BY <2>1 DEF Whole, Good, Early, Dialled
  <2>3. CASE SocksRequest \/ SocksFails \/ DialFails
    BY <2>2, <2>3 DEF SocksRequest, SocksFails, DialFails, Early
  <2>4. CASE OpenSucceeds
    <3>1. /\ proxy = "open" /\ UNCHANGED <<end, held, sent>>
      BY <2>4 DEF OpenSucceeds, endVars
    <3>2. Lost(d)' = Lost(d) /\ Linked(d)' = Linked(d) /\ (d = "up" => Reached(d)' = Reached(d))
      BY <2>4, Opens
    <3>3. d = "down" => Near(d)
      BY <3>1, Ways DEF Handshake, Near, Writer
    <3>4. (Far(d) => Far(d)') /\ (Near(d) => Near(d)') /\ (Quiet(d) => Quiet(d)') /\ sent'[d] = sent[d]
      BY <3>1 DEF Far, Near, Holds, Quiet
    <3> QED
      BY <2>2, <3>2, <3>3, <3>4, Stays DEF Dirs
  <2>5. CASE OpenFails
    <3>1. d = "up"
      BY <2>2, <2>5 DEF OpenFails, Early, Dirs
    <3> QED
      BY <2>5, <3>1, OpenFailsWhole
  <2>6. CASE ProxyReturns \/ AgentReturns
    BY <2>1, <2>6, ReturnWhole
  <2>7. CASE Lose
    <3>1. losses' # 0
      BY <2>7 DEF Lose, Types
    <3> QED
      BY <2>2, <3>1
  <2>8. ASSUME NEW g \in Copiers, CopyRead(g) PROVE Settled(d)'
    <3>1. /\ UNCHANGED <<end, held, proxy, sent>> /\ copier[g] = "read"
          /\ copier' = [copier EXCEPT ![g] = "write"]
      BY <2>8 DEF CopyRead, endVars
    <3>2. Lost(d)' = Lost(d) /\ Linked(d)' = Linked(d) /\ Reached(d)' = Reached(d)
      BY <2>8, Reads
    <3>3. (Far(d) => Far(d)') /\ (Near(d) => Near(d)') /\ sent'[d] = sent[d]
      BY <3>1 DEF Far, Near, Holds
    <3>4. copier["pu"] = "none" => copier'["pu"] = "none"
      BY <3>1 DEF Types
    <3>5. Quiet(d) => Quiet(d)'
      BY <3>1, <3>4, Quieter
    <3> QED
      BY <2>2, <3>2, <3>3, <3>5, Stays
  <2>9. ASSUME NEW g \in Copiers, CopyWrite(g) PROVE Settled(d)'
    BY <2>1, <2>9, WriteWhole
  <2>10. ASSUME NEW g \in Copiers, SpliceEnds(g) PROVE Settled(d)'
    BY <2>1, <2>10, SpliceWhole
  <2>11. ASSUME NEW e \in Dirs, Send(e) PROVE Settled(d)'
    BY <2>1, <2>11, SendWhole
  <2>12. ASSUME NEW e \in Dirs, Leave(e) PROVE Settled(d)'
    <3>1. CASE e = d
      BY <2>1, <2>12, <3>1, ReturnWhole
    <3>2. CASE e # d
      <4>1. d = Opposite(e) /\ Close({<<At(e), Writer(e)>>})
        BY <2>12, <3>2 DEF Leave, Dirs, Opposite
      <4>2. ~Holds(From(e), Writer(e))'
        BY <4>1, SidesClosed
      <4>3. To(d) = From(e) /\ Reader(d) = Writer(e)
        BY <4>1, Routes DEF To, From
      <4> QED
        BY <2>2, <4>2, <4>3
    <3> QED
      BY <3>1, <3>2
  <2>13. ASSUME NEW e \in Dirs, Receive(e) PROVE Settled(d)'
    <3>1. UNCHANGED <<end, held, copier, proxy, sent>>
      BY <2>13 DEF Receive, codeVars
    <3>2. Lost(d)' = Lost(d) /\ Linked(d)' = Linked(d) /\ Reached(d)' = Reached(d)
      BY <2>13, Receives
    <3>3. (Far(d) => Far(d)') /\ (Near(d) => Near(d)') /\ (Quiet(d) => Quiet(d)') /\ sent'[d] = sent[d]
      BY <3>1 DEF Far, Near, Holds, Quiet
    <3> QED
      BY <2>2, <3>2, <3>3, Stays
  <2>14. CASE (\E e \in Dirs : Shut(e)) \/ UNCHANGED vars
    <3>1. /\ UNCHANGED <<wire, held, copier, proxy, sent, got, ready>>
          /\ end[From(d)][d] # "open" => end'[From(d)][d] # "open"
      <4>1. CASE UNCHANGED vars
        BY <4>1 DEF vars, netVars, codeVars, endVars
      <4>2. ASSUME NEW e \in Dirs, Shut(e)
            PROVE  /\ UNCHANGED <<wire, held, copier, proxy, sent, got, ready>>
                   /\ end[From(d)][d] # "open" => end'[From(d)][d] # "open"
        <5>1. /\ UNCHANGED <<wire, held, copier, proxy, sent, got, ready>>
              /\ end' = [end EXCEPT ![At(e)][e] = "fin"]
          BY <4>2 DEF Shut, codeVars
        <5> QED
          BY <5>1, Routes DEF Types
      <4> QED
        BY <2>14, <4>1, <4>2
    <3>2. Lost(d)' = Lost(d) /\ Linked(d)' = Linked(d) /\ Reached(d)' = Reached(d)
      BY <3>1, Idle
    <3>3. (Far(d) => Far(d)') /\ (Near(d) => Near(d)') /\ (Quiet(d) => Quiet(d)') /\ sent'[d] = sent[d]
      BY <3>1 DEF Far, Near, Holds, Quiet
    <3> QED
      BY <2>2, <3>2, <3>3, Stays
  <2> QED
    BY <1>2, <2>3, <2>4, <2>5, <2>6, <2>7, <2>8, <2>9, <2>10, <2>11, <2>12, <2>13, <2>14
       DEF Next, serveSocks, handleDial, splice
<1> QED
  BY <1>1, <1>2

LEMMA InitEInv == Init => EInv
<1> SUFFICES ASSUME Init PROVE EInv
  OBVIOUS
<1>1. Types
  BY InitInv DEF IInv
<1>2. /\ \A k \in Conns, d \in Dirs : wire[k][d] = <<>> /\ end[k][d] = "open"
      /\ \A g \in Copiers : copier[g] = "none"
      /\ \A d \in Dirs : sent[d] = 0 /\ got[d] = <<>>
      /\ held["app"] = {"l", "r"} /\ held["link"] = {} /\ held["target"] = {}
      /\ proxy = "socks" /\ agent = "none" /\ ~ready
  BY DEF Init, Conns
<1>3. ~Dialled
  BY <1>2 DEF Dialled, Copiers
<1>4. ASSUME NEW d \in Dirs PROVE Lost(d) >= 0
  <2>1. Received(d) \in {0, -1} /\ Writing(Into(d)) = 0 /\ Writing(OutOf(d)) = 0 /\ sent[d] = 0
    BY <1>2, Routes DEF Received, Writing
  <2>2. Len(wire[To(d)][d]) = 0 /\ Len(wire["link"][d]) = 0 /\ Len(wire[From(d)][d]) = 0
    BY <1>2, Routes
  <2> QED
    BY <2>1, <2>2 DEF Lost, Total, Taken, Linked, Passed, Reached
<1>5. Handshake
  BY <1>2, <1>3 DEF Handshake, Holds, Conns, Dirs, Copiers
<1>6. Both
  BY <1>2, <1>3 DEF Both
<1>7. Ended
  BY <1>2 DEF Ended
<1>8. Awaits
  BY <1>2, Routes DEF Awaits
<1>9. Whole
  BY <1>3 DEF Whole, Good
<1> QED
  BY <1>4, <1>5, <1>6, <1>7, <1>8, <1>9 DEF EInv, Counted

LEMMA EndInvariant == Spec => []EInv
<1>1. IInv /\ IInv' /\ EInv /\ [Next]_vars => EInv'
  <2> SUFFICES ASSUME IInv, IInv', EInv, [Next]_vars PROVE EInv'
    OBVIOUS
  <2>1. Types'
    BY DEF IInv
  <2> QED
    BY <2>1, CountedStep, HandshakeStep, BothStep, EndedStep, AwaitsStep, WholeStep DEF EInv
<1> QED
  BY Invariant, InitEInv, <1>1, PTL DEF Spec

\* When the receiver sees a clean end the machine next to it has closed.
LEMMA EndIsWhole == IInv /\ EInv => EndWhole
<1> SUFFICES ASSUME IInv, EInv, NEW d \in Dirs, CleanEnd(d), losses = 0, d \notin shut,
                    Len(got[Opposite(d)]) = sent[Opposite(d)]
             PROVE  Len(got[d]) = sent[d]
  BY DEF EndWhole
<1> USE DEF IInv, EInv
<1> DEFINE o == Opposite(d)
<1>1. /\ ready /\ Holds(To(d), Reader(d)) /\ wire[To(d)][d] = <<>> /\ end[To(d)][d] = "fin"
  BY DEF CleanEnd, AtEnd, To
<1>2. o \in Dirs /\ To(d) \in Conns /\ To(d) # From(d) /\ To(d) # "link"
  BY Routes
<1>3. Received(d) = Len(got[d]) /\ Received(o) = Len(got[o])
  BY <1>1 DEF Received
<1>4. Lost(o) = 0
  <2>1. /\ Received(o) \in Int /\ Reached(o) \in Int /\ Passed(o) \in Int
        /\ Linked(o) \in Int /\ Taken(o) \in Int
    BY <1>2, Counts
  <2>2. Lost(o) >= 0 /\ Total(o) \in Int
    BY <1>2, Totals DEF Counted
  <2>3. Received(o) <= Total(o)
    BY <1>2, <2>1, <2>2, Totals
  <2> QED
    BY <1>3, <2>1, <2>2, <2>3 DEF Lost
<1>5. Dialled /\ copier["pd"] # "none"
  BY <1>1 DEF Handshake
<1>6. Settled(d)
  BY <1>1, <1>4, <1>5 DEF Whole, Good
<1>7. ~Near(d)
  BY <1>1, <1>2 DEF Ended, Near
<1>8. Reached(d) = sent[d] /\ Received(d) \in Int
  BY <1>6, <1>7, Counts DEF Settled
<1> QED
  BY <1>1, <1>3, <1>8 DEF Reached

\* What a receiver has at a clean end is all that was sent, on a link that
\* holds, if it kept its own side open and all it sent was received (splice).
THEOREM EndsWhole == Spec => []EndWhole
BY Invariant, EndInvariant, EndIsWhole, PTL
=============================================================================
