------------------------------ MODULE EachProofs -----------------------------
(***************************************************************************)
(* What knit each prints of every rank is whole lines of what the rank's    *)
(* command wrote, and what it returns is the worst of the ranks' codes, for *)
(* any number of ranks, any output and however it is cut into chunks.       *)
(***************************************************************************)
EXTENDS Each, SequenceTheorems, WellFoundedInduction, TLAPS

Text == {Letter, NL}

Types ==
  /\ launched \in Nat
  /\ pc \in [Ranks -> {"new", "open", "run", "errs", "out", "done"}]
  /\ command \in [Ranks -> {"none", "runs", "ended", "lost"}]
  /\ status \in [Ranks -> ExitCodes]
  /\ chunks \in [Streams -> Seq(Seq(Text))]
  /\ partial \in [Streams -> Seq(Text)]
  /\ printed \in [Streams -> Seq(Text)]
  /\ written \in [Streams -> Seq(Text)]
  /\ codes \in [Ranks -> Nat]
  /\ ret \in Nat \cup {None}

\* How far a rank is agrees with its command, and its code with what became of it.
ProgressOf(r) ==
  /\ r >= launched => pc[r] = "new"
  /\ pc[r] \in {"new", "open"} => command[r] = "none"
  /\ pc[r] = "run" => command[r] # "none"
  /\ command[r] = "runs" => pc[r] = "run"
  /\ pc[r] \in {"errs", "out", "done"} => codes[r] \in CountsFor(r)
  /\ ret # None => pc[r] = "done" /\ codes[r] <= ret

Progress ==
  /\ \A r \in Ranks : ProgressOf(r)
  /\ ret # None => \E r \in Ranks : ret = codes[r]

\* What was seen of a stream is the beginning of what was written to it, and the
\* chunks of the queue, cut where "cut" says, are the rest.
Rest(queue, seen, text) ==
  \E cut \in [0..Len(queue) -> 0..Len(text)] :
    /\ cut[0] = Len(seen) /\ cut[Len(queue)] = Len(text)
    /\ \A j \in 1..Len(seen) : text[j] = seen[j]
    /\ \A i \in 1..Len(queue) :
         /\ cut[i] = cut[i - 1] + Len(queue[i])
         /\ \A j \in 1..Len(queue[i]) : text[cut[i - 1] + j] = queue[i][j]

Exact(s) == Rest(chunks[s], printed[s] \o partial[s], written[s])

Blank(s) == chunks[s] = <<>> /\ partial[s] = <<>> /\ printed[s] = <<>> /\ written[s] = <<>>

\* The stream is not flushed yet.
Unflushed(s) == pc[s[1]] = "errs" \/ (pc[s[1]] = "out" /\ s[2] = "out")

WholeLines(s) ==
  /\ printed[s] # <<>> => Last(printed[s]) = NL
  /\ ~Contains(partial[s], NL)

AllPrinted(s) ==
  \/ printed[s] = written[s]
  \/ printed[s] = Append(written[s], NL) /\ Last(written[s]) # NL

\* What holds of one stream.
PrintingOf(s) ==
  /\ WholeLines(s)
  /\ pc[s[1]] \in {"new", "open"} => Blank(s)
  /\ pc[s[1]] = "run" => Exact(s)
  /\ command[s[1]] = "ended" /\ Unflushed(s) => chunks[s] = <<>> /\ Exact(s)
  /\ command[s[1]] = "ended" /\ pc[s[1]] \in {"out", "done"} /\ ~Unflushed(s) => AllPrinted(s)

Printing == \A s \in Streams : PrintingOf(s)

IInv == Types /\ Progress /\ Printing

-----------------------------------------------------------------------------
(***************************************************************************)
(* Chunks of a text.                                                        *)
(***************************************************************************)

\* At first there is nothing.
LEMMA RestNone == Rest(<<>>, <<>> \o <<>>, <<>>)
<1>1. <<>> \in Seq(Text) /\ Len(<<>>) = 0
  OBVIOUS
<1>2. <<>> \o <<>> = <<>>
  OBVIOUS
<1>3. PICK e : e = <<>> /\ Len(e) = 0
  BY <1>1
<1>4. PICK c : c = [i \in 0..0 |-> 0]
  OBVIOUS
<1>5. c \in [0..0 -> 0..0] /\ c[0] = 0
  BY <1>4
<1>6. 1..0 = {}
  OBVIOUS
<1>7. Rest(e, e, e)
  BY <1>3, <1>5, <1>6 DEF Rest
<1> QED
  BY <1>2, <1>3, <1>7

\* A chunk that is written is queued last.
LEMMA RestEmit ==
  ASSUME NEW S, NEW C, \A x \in C : x \in Seq(S),
         NEW queue \in Seq(C), NEW seen \in Seq(S), NEW text \in Seq(S),
         NEW chunk \in C, Rest(queue, seen, text)
  PROVE  Rest(Append(queue, chunk), seen, text \o chunk)
<1>1. PICK cut \in [0..Len(queue) -> 0..Len(text)] :
        /\ cut[0] = Len(seen) /\ cut[Len(queue)] = Len(text)
        /\ \A j \in 1..Len(seen) : text[j] = seen[j]
        /\ \A i \in 1..Len(queue) :
             /\ cut[i] = cut[i - 1] + Len(queue[i])
             /\ \A j \in 1..Len(queue[i]) : text[cut[i - 1] + j] = queue[i][j]
  BY DEF Rest
<1>2. PICK n \in Nat : n = Len(queue)
  OBVIOUS
<1>3. PICK q \in Seq(C) : q = Append(queue, chunk)
  BY AppendProperties
<1>4. PICK t \in Seq(S) : t = text \o chunk
  BY ConcatProperties
<1>5. /\ Len(q) = n + 1 /\ q[n + 1] = chunk /\ \A i \in 1..n : q[i] = queue[i]
  BY <1>2, <1>3
<1>6. Len(t) = Len(text) + Len(chunk) /\ Len(text) \in Nat /\ Len(chunk) \in Nat
  BY <1>4
<1>7. /\ \A j \in 1..Len(text) : t[j] = text[j]
      /\ \A j \in 1..Len(chunk) : t[Len(text) + j] = chunk[j]
  BY <1>4
<1>8. PICK c \in [0..(n + 1) -> 0..Len(t)] :
        c = [i \in 0..(n + 1) |-> IF i = n + 1 THEN Len(t) ELSE cut[i]]
  <2>1. \A i \in 0..n : cut[i] \in 0..Len(t)
    BY <1>1, <1>2, <1>6
  <2>2. Len(t) \in 0..Len(t)
    BY <1>6
  <2>3. \A i \in 0..(n + 1) : i # n + 1 => i \in 0..n
    BY <1>2
  <2> QED
    BY <2>1, <2>2, <2>3
<1>9. c[0] = Len(seen) /\ c[n + 1] = Len(t) /\ \A i \in 0..n : c[i] = cut[i]
  BY <1>1, <1>2, <1>8
<1>10. \A j \in 1..Len(seen) : t[j] = seen[j]
  <2>1. Len(seen) <= Len(text)
    BY <1>1, <1>2
  <2> QED
    BY <1>1, <1>7, <2>1
<1>11. ASSUME NEW i \in 1..(n + 1)
       PROVE  /\ c[i] = c[i - 1] + Len(q[i])
              /\ \A j \in 1..Len(q[i]) : t[c[i - 1] + j] = q[i][j]
  <2>1. CASE i = n + 1
    <3>1. i - 1 = n /\ n \in 0..n
      BY <2>1, <1>2
    <3>2. c[i - 1] = Len(text)
      BY <3>1, <1>1, <1>2, <1>9
    <3> QED
      BY <2>1, <3>2, <1>5, <1>6, <1>7, <1>9
  <2>2. CASE i # n + 1
    <3>1. i \in 1..n /\ i - 1 \in 0..n /\ i \in 0..n
      BY <2>2, <1>2 DEF Rest
    <3>2. c[i] = cut[i] /\ c[i - 1] = cut[i - 1] /\ q[i] = queue[i]
      BY <3>1, <1>5, <1>9
    <3>3. cut[i] = cut[i - 1] + Len(queue[i])
      BY <3>1, <1>1, <1>2
    <3>4. cut[i] \in 0..Len(text) /\ cut[i - 1] \in 0..Len(text) /\ Len(queue[i]) \in Nat
      <4>1. queue[i] \in Seq(S)
        BY <3>1, <1>2
      <4>2. i \in 0..Len(queue) /\ i - 1 \in 0..Len(queue)
        BY <3>1, <1>2
      <4>3. cut[i] \in 0..Len(text) /\ cut[i - 1] \in 0..Len(text)
        BY <4>2
      <4> QED
        BY SMTT(30), <4>1, <4>3
    <3>5. ASSUME NEW j \in 1..Len(queue[i])
          PROVE  t[cut[i - 1] + j] = queue[i][j]
      <4>1. cut[i - 1] + j \in 1..Len(text)
        <5>1. PICK a, b, k : a = cut[i - 1] /\ b = cut[i] /\ k = Len(queue[i])
          OBVIOUS
        <5>2. a \in Int /\ b \in Int /\ k \in Nat
          <6>1. cut[i - 1] \in Int
            BY SMTT(30), <3>4, <1>6
          <6>2. cut[i] \in Int
            BY <6>1, <3>3, <3>4
          <6> QED
            BY <5>1, <6>1, <6>2, <3>4
        <5>3. a >= 0 /\ b <= Len(text) /\ b = a + k /\ j \in 1..k
          BY SMTT(30), <5>1, <3>3, <3>4, <1>6
        <5>4. a + j \in 1..Len(text)
          BY <5>2, <5>3, <1>6
        <5> QED
          BY <5>1, <5>4
      <4> QED
        BY <4>1, <3>1, <1>1, <1>2, <1>7
    <3> QED
      BY <3>2, <3>3, <3>5
  <2> QED
    BY <2>1, <2>2
<1>12. c \in [0..Len(q) -> 0..Len(t)] /\ c[Len(q)] = Len(t)
  BY <1>5, <1>8, <1>9
<1>13. \A i \in 1..Len(q) :
         /\ c[i] = c[i - 1] + Len(q[i])
         /\ \A j \in 1..Len(q[i]) : t[c[i - 1] + j] = q[i][j]
  BY <1>5, <1>11
<1>14. Rest(q, seen, t)
  BY <1>9, <1>10, <1>12, <1>13 DEF Rest
<1> QED
  BY <1>3, <1>4, <1>14

\* The first chunk joins what was seen.
LEMMA RestRead ==
  ASSUME NEW S, NEW C, \A x \in C : x \in Seq(S),
         NEW queue \in Seq(C), NEW seen \in Seq(S), NEW text \in Seq(S),
         queue # <<>>, Rest(queue, seen, text)
  PROVE  Rest(Tail(queue), seen \o Head(queue), text)
<1>1. PICK cut \in [0..Len(queue) -> 0..Len(text)] :
        /\ cut[0] = Len(seen) /\ cut[Len(queue)] = Len(text)
        /\ \A j \in 1..Len(seen) : text[j] = seen[j]
        /\ \A i \in 1..Len(queue) :
             /\ cut[i] = cut[i - 1] + Len(queue[i])
             /\ \A j \in 1..Len(queue[i]) : text[cut[i - 1] + j] = queue[i][j]
  BY DEF Rest
<1>2. PICK n \in Nat : Len(queue) = n + 1
  <2>1. Len(queue) \in Nat /\ Len(queue) # 0
    OBVIOUS
  <2>2. Len(queue) - 1 \in Nat /\ Len(queue) = (Len(queue) - 1) + 1
    BY <2>1
  <2> QED
    BY <2>2
<1>3. PICK q \in Seq(C) : q = Tail(queue)
  BY HeadTailProperties
<1>4. Head(queue) = queue[1] /\ queue[1] \in Seq(S)
  BY <1>2
<1>5. PICK h \in Seq(S) : h = queue[1]
  BY <1>4
<1>6. PICK s \in Seq(S) : s = seen \o h
  BY ConcatProperties
<1>7. Len(q) = n /\ \A i \in 1..n : q[i] = queue[i + 1]
  BY <1>2, <1>3
<1>8. /\ Len(s) = Len(seen) + Len(h) /\ Len(seen) \in Nat /\ Len(h) \in Nat
      /\ \A j \in 1..Len(seen) : s[j] = seen[j]
      /\ \A j \in 1..Len(h) : s[Len(seen) + j] = h[j]
  BY <1>6
<1>9. PICK c \in [0..n -> 0..Len(text)] : c = [i \in 0..n |-> cut[i + 1]]
  <2>1. \A i \in 0..n : cut[i + 1] \in 0..Len(text)
    BY <1>2
  <2> QED
    BY <2>1
<1>10. PICK k \in 1..Len(queue) : k = 1 /\ k - 1 = 0
  <2>1. 1 \in 1..Len(queue) /\ 1 - 1 = 0
    BY <1>2
  <2> QED
    BY <2>1
<1>11. /\ cut[1] = Len(seen) + Len(h)
       /\ \A j \in 1..Len(h) : text[Len(seen) + j] = h[j]
  <2>1. /\ cut[k] = cut[k - 1] + Len(queue[k])
        /\ \A j \in 1..Len(queue[k]) : text[cut[k - 1] + j] = queue[k][j]
    BY <1>1
  <2>2. queue[k] = h /\ cut[k] = cut[1]
    BY <1>5, <1>10
  <2>3. cut[k - 1] = Len(seen)
    BY <1>1, <1>10
  <2> QED
    BY <2>1, <2>2, <2>3
<1>12. c[0] = Len(s) /\ c[n] = Len(text)
  BY <1>1, <1>2, <1>8, <1>9, <1>11
<1>13. ASSUME NEW j \in 1..Len(s)
       PROVE  text[j] = s[j]
  <2>1. CASE j <= Len(seen)
    BY SMTT(30), <2>1, <1>1, <1>8
  <2>2. CASE ~(j <= Len(seen))
    <3>1. j - Len(seen) \in 1..Len(h) /\ Len(seen) + (j - Len(seen)) = j
      BY <2>2, <1>8
    <3> QED
      BY <3>1, <1>8, <1>11
  <2> QED
    BY <2>1, <2>2
<1>14. ASSUME NEW i \in 1..n
       PROVE  /\ c[i] = c[i - 1] + Len(q[i])
              /\ \A j \in 1..Len(q[i]) : text[c[i - 1] + j] = q[i][j]
  <2>1. PICK m \in 1..Len(queue) : m = i + 1 /\ m - 1 = i
    <3>1. i + 1 \in 1..Len(queue) /\ (i + 1) - 1 = i
      BY <1>2
    <3> QED
      BY <3>1
  <2>2. c[i] = cut[m] /\ c[i - 1] = cut[m - 1] /\ q[i] = queue[m]
    <3>1. i \in 0..n /\ i - 1 \in 0..n /\ (i - 1) + 1 = i
      BY <1>2
    <3> QED
      BY <3>1, <2>1, <1>7, <1>9
  <2>3. /\ cut[m] = cut[m - 1] + Len(queue[m])
        /\ \A j \in 1..Len(queue[m]) : text[cut[m - 1] + j] = queue[m][j]
    BY <1>1
  <2> QED
    BY <2>2, <2>3
<1>15. c \in [0..Len(q) -> 0..Len(text)] /\ c[Len(q)] = Len(text)
  BY <1>7, <1>9, <1>12
<1>16. \A i \in 1..Len(q) :
         /\ c[i] = c[i - 1] + Len(q[i])
         /\ \A j \in 1..Len(q[i]) : text[c[i - 1] + j] = q[i][j]
  BY <1>7, <1>14
<1>17. Rest(q, s, text)
  BY <1>12, <1>13, <1>15, <1>16 DEF Rest
<1> QED
  BY <1>3, <1>4, <1>5, <1>6, <1>17

\* What was seen is a prefix of the text ...
LEMMA RestPrefix ==
  ASSUME NEW S, NEW C, \A x \in C : x \in Seq(S),
         NEW queue \in Seq(C), NEW seen \in Seq(S), NEW text \in Seq(S),
         Rest(queue, seen, text)
  PROVE  IsPrefix(seen, text)
<1>1. Len(seen) <= Len(text) /\ \A j \in 1..Len(seen) : text[j] = seen[j]
  BY DEF Rest
<1>2. SubSeq(seen, 1, Len(seen)) = SubSeq(text, 1, Len(seen))
  <2>1. PICK n \in Nat : n = Len(seen)
    OBVIOUS
  <2>2. SubSeq(seen, 1, n) = [i \in 1..n |-> seen[i]]
    BY <2>1
  <2>3. SubSeq(text, 1, n) = [i \in 1..n |-> text[i]]
    BY <2>1, <1>1
  <2> QED
    BY <2>1, <2>2, <2>3, <1>1
<1> QED
  BY <1>1, <1>2 DEF IsPrefix

\* ... and all of it when nothing is queued.
LEMMA RestAll ==
  ASSUME NEW S, NEW seen \in Seq(S), NEW text \in Seq(S), Rest(<<>>, seen, text)
  PROVE  seen = text
<1>1. Len(seen) = Len(text) /\ \A j \in 1..Len(seen) : text[j] = seen[j]
  BY DEF Rest
<1> QED
  BY <1>1, SeqEqual

-----------------------------------------------------------------------------
(***************************************************************************)
(* Lines.                                                                   *)
(***************************************************************************)

\* A set of indices has a last one.
LEMMA LastIndex ==
  ASSUME NEW n \in Nat, NEW I \in SUBSET (1..n), I # {}
  PROVE  Max(I) \in I /\ \A i \in I : Max(I) >= i
<1> DEFINE D == {n - i : i \in I}
<1>1. \A i \in I : i \in Nat /\ n - i \in Nat
  OBVIOUS
<1>2. D \subseteq Nat /\ D # {}
  BY <1>1
<1>3. PICK d \in D : \A e \in D : ~(<<e, d>> \in OpToRel(<, Nat))
  <2> HIDE DEF D
  <2> QED
    BY <1>2, NatLessThanWellFounded, WFMin
<1>4. PICK m \in I : d = n - m
  BY <1>3
<1>5. ASSUME NEW i \in I
      PROVE  m >= i
  <2>1. n - i \in D /\ n - i \in Nat /\ n - m \in Nat /\ m \in Nat /\ i \in Nat
    BY <1>1
  <2>2. ~(n - i < n - m)
    <3>1. ~(<<n - i, n - m>> \in OpToRel(<, Nat))
      BY <1>3, <1>4, <2>1
    <3> QED
      BY <3>1, <2>1 DEF OpToRel
  <2> QED
    BY <2>1, <2>2
<1>6. \E x \in I : \A y \in I : x >= y
  BY <1>5
<1> QED
  BY <1>6 DEF Max

\* Where prefixer.Write cuts: behind the last newline.
LEMMA LastNewline ==
  ASSUME NEW S, NEW b \in Seq(S)
  PROVE  /\ SelectLastInSeq(b, IsNL) \in 0..Len(b)
         /\ SelectLastInSeq(b, IsNL) # 0 => b[SelectLastInSeq(b, IsNL)] = NL
         /\ \A i \in 1..Len(b) : i > SelectLastInSeq(b, IsNL) => b[i] # NL
<1> DEFINE I == {i \in 1..Len(b) : IsNL(b[i])}
           cut == SelectLastInSeq(b, IsNL)
<1>1. cut = IF I # {} THEN Max(I) ELSE 0
  BY DEF SelectLastInSeq
<1>2. Len(b) \in Nat
  OBVIOUS
<1>3. CASE I = {}
  <2>1. cut = 0
    BY <1>1, <1>3
  <2>2. \A i \in 1..Len(b) : b[i] # NL
    BY <1>3 DEF IsNL
  <2> QED
    BY <2>1, <2>2, <1>2
<1>4. CASE I # {}
  <2>1. cut \in I /\ \A i \in I : cut >= i
    <3>1. I \in SUBSET (1..Len(b))
      OBVIOUS
    <3>2. Max(I) \in I /\ \A i \in I : Max(I) >= i
      <4> HIDE DEF I
      <4> QED
        BY <3>1, <1>2, <1>4, LastIndex
    <3> QED
      BY <3>2, <1>1, <1>4
  <2>2. cut \in 1..Len(b) /\ b[cut] = NL
    BY <2>1 DEF IsNL
  <2>3. ASSUME NEW i \in 1..Len(b), i > cut
        PROVE  b[i] # NL
    <3>1. i \in I => cut >= i
      BY <2>1
    <3>2. cut \in Int /\ i \in Int
      BY <2>2, <1>2
    <3>3. i \notin I
      <4> HIDE DEF I, cut
      <4> QED
        BY <3>1, <3>2, <2>3
    <3> QED
      BY <3>3 DEF IsNL
  <2> QED
    BY <2>2, <2>3, <1>2
<1> QED
  BY <1>3, <1>4

\* What is cut and joined again is what it was.
LEMMA CutJoins ==
  ASSUME NEW S, NEW shown \in Seq(S), NEW b \in Seq(S), NEW cut \in 0..Len(b)
  PROVE  (shown \o SubSeq(b, 1, cut)) \o SubSeq(b, cut + 1, Len(b)) = shown \o b
<1>2. PICK n \in Nat : n = Len(b)
  OBVIOUS
<1>3. PICK first : first = SubSeq(b, 1, cut)
  OBVIOUS
<1>4. PICK held : held = SubSeq(b, cut + 1, Len(b))
  OBVIOUS
<1>5. cut \in Nat /\ cut <= n
  BY <1>2
<1>6. first \in Seq(S) /\ Len(first) = cut /\ \A i \in 1..cut : first[i] = b[i]
  BY <1>2, <1>3, <1>5
<1>7. held \in Seq(S) /\ Len(held) = n - cut /\ \A i \in 1..(n - cut) : held[i] = b[cut + i]
  BY <1>2, <1>4, <1>5
<1>8. first \o held = b
  <2>1. PICK t \in Seq(S) : t = first \o held
    BY <1>6, <1>7, ConcatProperties
  <2>4. /\ Len(t) = Len(first) + Len(held)
        /\ \A i \in 1..(Len(first) + Len(held)) :
             t[i] = IF i <= Len(first) THEN first[i] ELSE held[i - Len(first)]
    BY <2>1, <1>6, <1>7, ConcatProperties
  <2>2. Len(t) = n
    BY <2>4, <1>5, <1>6, <1>7
  <2>3. ASSUME NEW i \in 1..n
        PROVE  t[i] = b[i]
    <3>1. CASE i <= cut
      BY <3>1, <2>1, <1>5, <1>6, <1>7
    <3>2. CASE ~(i <= cut)
      <4>1. i - cut \in 1..(n - cut) /\ cut + (i - cut) = i
        BY <3>2, <1>5
      <4>2. t[i] = held[i - cut]
        BY <3>2, <2>4, <1>5, <1>6, <1>7
      <4> QED
        BY <4>1, <4>2, <1>7
    <3> QED
      BY <3>1, <3>2
  <2> QED
    BY <2>1, <2>2, <2>3, <1>2, SeqEqual
<1>9. first \in Seq(S) /\ held \in Seq(S)
  BY <1>6, <1>7
<1>10. (shown \o first) \o held = shown \o (first \o held)
  BY SMTT(30), <1>9, ConcatAssociative
<1> QED
  BY <1>3, <1>4, <1>8, <1>10

\* Printing whole lines loses nothing, and what is held has no newline.
LEMMA CutLines ==
  ASSUME NEW S, NEW shown \in Seq(S), NEW b \in Seq(S), NEW cut \in 0..Len(b),
         cut # 0 => b[cut] = NL, \A i \in 1..Len(b) : i > cut => b[i] # NL,
         shown # <<>> => Last(shown) = NL
  PROVE  LET now == shown \o SubSeq(b, 1, cut)
             held == SubSeq(b, cut + 1, Len(b))
         IN /\ now \in Seq(S) /\ held \in Seq(S) /\ now \o held = shown \o b
            /\ now # <<>> => Last(now) = NL
            /\ ~Contains(held, NL)
<1>2. PICK n \in Nat : n = Len(b)
  OBVIOUS
<1>3. PICK first : first = SubSeq(b, 1, cut)
  OBVIOUS
<1>4. PICK held : held = SubSeq(b, cut + 1, Len(b))
  OBVIOUS
<1>5. cut \in Nat /\ cut <= n
  BY <1>2
<1>6. first \in Seq(S) /\ Len(first) = cut /\ \A i \in 1..cut : first[i] = b[i]
  BY <1>2, <1>3, <1>5
<1>7. held \in Seq(S) /\ Len(held) = n - cut /\ \A i \in 1..(n - cut) : held[i] = b[cut + i]
  BY <1>2, <1>4, <1>5
<1>9. PICK now \in Seq(S) : now = shown \o first
  BY <1>6, ConcatProperties
<1>10. now \o held = shown \o b
  BY <1>3, <1>4, <1>9, CutJoins
<1>11. ASSUME now # <<>>
       PROVE  Last(now) = NL
  <2>1. CASE cut = 0
    <3>1. first = <<>>
      BY <2>1, <1>6
    <3>2. now = shown
      BY <3>1, <1>9
    <3> QED
      BY <3>2, <1>11
  <2>2. CASE cut # 0
    <3>1. /\ Len(now) = Len(shown) + cut /\ Len(shown) \in Nat
          /\ \A i \in 1..cut : now[Len(shown) + i] = first[i]
      <4>1. /\ Len(now) = Len(shown) + Len(first)
            /\ \A i \in 1..(Len(shown) + Len(first)) :
                 now[i] = IF i <= Len(shown) THEN shown[i] ELSE first[i - Len(shown)]
        BY <1>6, <1>9, ConcatProperties
      <4>2. Len(shown) \in Nat
        OBVIOUS
      <4>3. ASSUME NEW i \in 1..cut
            PROVE  now[Len(shown) + i] = first[i]
        <5>1. PICK m \in Int : m = Len(shown) + i
          BY <4>2, <1>5
        <5>2. m \in 1..(Len(shown) + Len(first)) /\ ~(m <= Len(shown)) /\ m - Len(shown) = i
          BY <5>1, <4>2, <1>5, <1>6
        <5>3. now[m] = first[m - Len(shown)]
          BY <5>2, <4>1
        <5> QED
          BY <5>1, <5>2, <5>3
      <4> QED
        BY <4>1, <4>2, <4>3, <1>6
    <3>2. cut \in 1..cut
      BY <2>2, <1>5
    <3> QED
      BY <2>2, <3>1, <3>2, <1>6 DEF Last
  <2> QED
    BY <2>1, <2>2
<1>12. ~Contains(held, NL)
  <2>1. ASSUME NEW i \in 1..(n - cut)
        PROVE  held[i] # NL
    <3>1. cut + i \in 1..n /\ cut + i > cut
      BY <1>5
    <3> QED
      BY <3>1, <1>2, <1>7
  <2> QED
    BY <2>1, <1>7 DEF Contains
<1> QED
  BY <1>3, <1>4, <1>7, <1>9, <1>10, <1>11, <1>12

-----------------------------------------------------------------------------
(***************************************************************************)
(* The steps.                                                               *)
(***************************************************************************)

\* What a command writes at once is text.
LEMMA ChunkText ==
  ASSUME NEW chunk \in Chunks
  PROVE  chunk \in Seq(Text)
<1>1. \A x, y \in Text : <<x>> \in Seq(Text) /\ <<x, y>> \in Seq(Text)
  OBVIOUS
<1>2. \E x, y \in Text : chunk = <<x>> \/ chunk = <<x, y>>
  BY DEF Chunks, Text
<1> QED
  BY <1>1, <1>2

\* The ranks are numbered, so that launching them in turn reaches each.
LEMMA RanksInt == Ranks \subseteq Int
<1>1. PICK m : Ranks = 0..m
  BY EachAssumption
<1>2. \A r \in 0..m : r \in Int
  OBVIOUS
<1> QED
  BY <1>1, <1>2

\* Types and Progress, in the first state and in every step.
LEMMA InitTypes == Init => Types
BY EachAssumption DEF Init, Types, Streams, Text, None

LEMMA NextTypes == Types /\ Next => Types'
<1> SUFFICES ASSUME Types, Next
             PROVE  Types'
  OBVIOUS
<1> USE EachAssumption DEF Goto, Peers, procVars, lineVars
<1>1. CASE Launch
  BY <1>1 DEF Launch, Types
<1>2. CASE Return
  <2>1. ret' \in Nat
    <3>1. \A r \in Ranks : codes[r] \in Nat
      BY DEF Types
    <3>2. PICK r \in Ranks : ret' = codes[r]
      BY <1>2 DEF Return
    <3> QED
      BY <3>1, <3>2
  <2> QED
    BY <2>1, <1>2 DEF Return, Types
<1>3. CASE StartHere
  BY <1>3 DEF StartHere, Types
<1>4. CASE NoStartHere
  <2>1. <<0, "err">> \in Streams
    BY DEF Streams
  <2>2. ASSUME NEW p \in Seq(Text)
        PROVE  p \o <<Letter, NL>> \in Seq(Text)
    BY DEF Text
  <2>3. printed' \in [Streams -> Seq(Text)] /\ written' \in [Streams -> Seq(Text)]
    BY <2>1, <2>2, <1>4 DEF NoStartHere, Types
  <2>4. codes' \in [Ranks -> Nat]
    BY <1>4 DEF NoStartHere, Types, NotFound
  <2> QED
    BY <2>3, <2>4, <1>4 DEF NoStartHere, Types
<1>5. ASSUME NEW r \in Ranks, eachOne(r)
      PROVE  Types'
  <2>1. CASE Start(r)
    BY <2>1 DEF Start, Types
  <2>2. CASE NoStart(r)
    <3>1. codes' \in [Ranks -> Nat]
      BY <2>2 DEF NoStart, Types, ExitUnauthorized, ExitUnreachable, NotFound
    <3> QED
      BY <3>1, <2>2 DEF NoStart, Types
  <2>3. CASE ReadExit(r)
    <3>1. status[r] \in Nat
      BY ZenonT(40) DEF Types
    <3> QED
      BY <3>1, <2>3 DEF ReadExit, Types
  <2>4. CASE ReadFails(r)
    BY <2>4 DEF ReadFails, Types, ExitDisconnected
  <2>5. CASE Flush(r)
    <3>1. PICK s \in Streams : s = <<r, IF pc[r] = "errs" THEN "err" ELSE "out">>
      <4>1. <<r, "err">> \in Streams /\ <<r, "out">> \in Streams
        BY DEF Streams
      <4> QED
        BY <4>1
    <3>2. NL \in Text /\ <<NL>> \in Seq(Text) /\ <<>> \in Seq(Text)
      BY DEF Text
    <3>3. (printed[s] \o partial[s]) \o <<NL>> \in Seq(Text)
      BY <3>2 DEF Types
    <3>4. printed' \in [Streams -> Seq(Text)] /\ partial' \in [Streams -> Seq(Text)]
      BY <3>1, <3>2, <3>3, <2>5 DEF Flush, Types
    <3> QED
      BY <3>4, <2>5 DEF Flush, Types
  <2>6. ASSUME NEW s \in Streams, s[1] = r, Read(s)
        PROVE  Types'
    <3>1. Head(chunks[s]) \in Seq(Text) /\ Tail(chunks[s]) \in Seq(Seq(Text))
      BY <2>6, HeadTailProperties DEF Read, Types
    <3>2. PICK b \in Seq(Text) : b = partial[s] \o Head(chunks[s])
      BY <3>1, ConcatProperties DEF Types
    <3>3. PICK cut \in 0..Len(b) : cut = SelectLastInSeq(b, IsNL)
      BY LastNewline
    <3>4. SubSeq(b, 1, cut) \in Seq(Text) /\ SubSeq(b, cut + 1, Len(b)) \in Seq(Text)
      BY SubSeqProperties
    <3>5. /\ printed' = [printed EXCEPT ![s] = @ \o SubSeq(b, 1, cut)]
          /\ partial' = [partial EXCEPT ![s] = SubSeq(b, cut + 1, Len(b))]
      BY <2>6, <3>2, <3>3 DEF Read, WriteLines
    <3>6. printed' \in [Streams -> Seq(Text)] /\ partial' \in [Streams -> Seq(Text)]
      BY <3>4, <3>5, ConcatProperties DEF Types
    <3>7. chunks' \in [Streams -> Seq(Seq(Text))]
      BY <3>1, <2>6 DEF Read, Types
    <3> QED
      BY <3>6, <3>7, <2>6 DEF Read, Types
  <2> QED
    BY <1>5, <2>1, <2>2, <2>3, <2>4, <2>5, <2>6 DEF eachOne
<1>6. ASSUME NEW r \in Ranks, CommandEnds(r) \/ Lose(r) \/ AgentReturns(r)
      PROVE  Types'
  <2>1. CASE CommandEnds(r)
    BY <2>1 DEF CommandEnds, Types
  <2>2. CASE Lose(r)
    BY <2>2 DEF Lose, Types
  <2>3. CASE AgentReturns(r)
    BY <2>3 DEF AgentReturns, Types
  <2> QED
    BY <1>6, <2>1, <2>2, <2>3
<1>7. ASSUME NEW s \in Emits, NEW chunk \in Chunks, Emit(s, chunk)
      PROVE  Types'
  <2>1. s \in Streams /\ chunk \in Seq(Text)
    <3>1. s \in Streams
      BY DEF Streams
    <3>2. chunk \in Seq(Text)
      BY ChunkText
    <3> QED
      BY <3>1, <3>2
  <2>2. Append(chunks[s], chunk) \in Seq(Seq(Text)) /\ written[s] \o chunk \in Seq(Text)
    BY <2>1, AppendProperties, ConcatProperties DEF Types
  <2> QED
    BY <2>1, <2>2, <1>7 DEF Emit, Types
<1> QED
  BY <1>1, <1>2, <1>3, <1>4, <1>5, <1>6, <1>7 DEF Next, eachLocal

LEMMA InitProgress == Init => Progress
BY EachAssumption DEF Init, Progress, ProgressOf, None

\* A rank's code is its command's or one of knit's own.
LEMMA NextProgress == Types /\ Progress /\ Next => Progress'
<1> SUFFICES ASSUME Types, Progress, Next
             PROVE  Progress'
  OBVIOUS
<1> USE EachAssumption DEF Goto, Peers, procVars, lineVars
<1>1. Ranks \subseteq Int /\ launched \in Nat
  BY RanksInt DEF Types
<1>a. ASSUME NEW q \in Ranks, launched' >= launched,
             pc'[q] = pc[q], command'[q] = command[q], codes'[q] = codes[q], status' = status, ret' = ret
      PROVE  ProgressOf(q)'
  <2>1. ProgressOf(q) /\ CountsFor(q)' = CountsFor(q)
    BY <1>a DEF Progress, CountsFor
  <2>2. q >= launched' => q >= launched
    <3>1. launched' \in Nat
      BY NextTypes DEF Types
    <3> QED
      BY <1>1, <1>a, <3>1
  <2> QED
    BY <1>a, <2>1, <2>2 DEF ProgressOf
<1>b. ASSUME NEW r \in Ranks, pc[r] # "done", ret' = ret, ProgressOf(r)',
             \A q \in Ranks \ {r} : ProgressOf(q)'
      PROVE  Progress'
  <2>1. ret = None
    BY <1>b DEF Progress, ProgressOf
  <2> QED
    BY <1>b, <2>1 DEF Progress
<1>2. CASE Launch
  <2> PICK n \in Ranks : n = launched
    BY <1>2 DEF Launch
  <2>1. /\ launched' = n + 1 /\ pc' = [pc EXCEPT ![n] = "open"]
        /\ UNCHANGED <<command, codes, status, ret>>
    BY <1>2 DEF Launch
  <2>2. pc[n] = "new" /\ command[n] = "none"
    BY <1>1 DEF Progress, ProgressOf
  <2>3. ProgressOf(n)'
    BY <1>1, <2>1, <2>2 DEF ProgressOf, Types, Progress
  <2>4. \A q \in Ranks \ {n} : ProgressOf(q)'
    BY <1>1, <1>a, <2>1 DEF Types
  <2> QED
    BY <1>b, <2>1, <2>2, <2>3, <2>4
<1>3. CASE Return
  <2>1. /\ \A r \in Ranks : pc[r] = "done" /\ codes[r] <= ret'
        /\ \E r \in Ranks : ret' = codes[r]
        /\ UNCHANGED <<launched, pc, command, status, codes>>
    BY <1>3 DEF Return
  <2>2. \A r \in Ranks : CountsFor(r)' = CountsFor(r)
    BY <2>1 DEF CountsFor
  <2> QED
    BY <2>1, <2>2 DEF Progress, ProgressOf
<1>4. CASE StartHere
  <2>1. /\ pc[0] = "open" /\ pc' = [pc EXCEPT ![0] = "run"] /\ command' = [command EXCEPT ![0] = "runs"]
        /\ UNCHANGED <<launched, codes, status, ret>>
    BY <1>4 DEF StartHere
  <2>2. ProgressOf(0)' /\ \A q \in Ranks \ {0} : ProgressOf(q)'
    BY <1>1, <1>a, <2>1 DEF ProgressOf, Types, Progress
  <2> QED
    BY <1>b, <2>1, <2>2
<1>5. CASE NoStartHere
  <2>1. /\ pc[0] = "open" /\ pc' = [pc EXCEPT ![0] = "errs"] /\ codes' = [codes EXCEPT ![0] = NotFound]
        /\ UNCHANGED <<launched, command, status, ret>>
    BY <1>5 DEF NoStartHere
  <2>2. ProgressOf(0)' /\ \A q \in Ranks \ {0} : ProgressOf(q)'
    BY <1>1, <1>a, <2>1 DEF ProgressOf, CountsFor, Types, Progress
  <2> QED
    BY <1>b, <2>1, <2>2
<1>6. ASSUME NEW r \in Ranks, Start(r) \/ NoStart(r)
      PROVE  Progress'
  <2>1. /\ pc[r] = "open" /\ UNCHANGED <<launched, status, ret>>
        /\ \A q \in Ranks \ {r} : pc'[q] = pc[q] /\ command'[q] = command[q] /\ codes'[q] = codes[q]
    BY <1>6 DEF Start, NoStart, Types
  <2>2. ProgressOf(r)'
    <3>1. CASE Start(r)
      BY <1>1, <3>1 DEF Start, ProgressOf, Types, Progress
    <3>2. CASE NoStart(r)
      <4>1. codes'[r] \in {ExitUnreachable, ExitUnauthorized, NotFound}
        BY <3>2 DEF NoStart, Types
      <4> QED
        BY <1>1, <3>2, <4>1 DEF NoStart, ProgressOf, CountsFor, Types, Progress
    <3> QED
      BY <1>6, <3>1, <3>2
  <2> QED
    BY <1>1, <1>a, <1>b, <2>1, <2>2
<1>7. ASSUME NEW r \in Ranks, ReadExit(r) \/ ReadFails(r) \/ Flush(r)
      PROVE  Progress'
  <2>1. /\ pc[r] \in {"run", "errs", "out"} /\ UNCHANGED <<launched, command, status, ret>>
        /\ \A q \in Ranks \ {r} : pc'[q] = pc[q] /\ codes'[q] = codes[q]
    BY <1>7 DEF ReadExit, ReadFails, Flush, Types
  <2>2. ProgressOf(r)'
    <3>1. CASE ReadExit(r)
      BY <1>1, <3>1 DEF ReadExit, ProgressOf, CountsFor, Types, Progress
    <3>2. CASE ReadFails(r)
      BY <1>1, <3>2 DEF ReadFails, ProgressOf, CountsFor, Types, Progress
    <3>3. CASE Flush(r)
      <4>1. CountsFor(r)' = CountsFor(r)
        BY <2>1 DEF CountsFor
      <4>2. /\ pc[r] \in {"errs", "out"} /\ pc'[r] \in {"out", "done"} /\ codes' = codes
        BY <3>3 DEF Flush, Types
      <4> QED
        BY <1>1, <2>1, <4>1, <4>2 DEF ProgressOf, Types, Progress
    <3> QED
      BY <1>7, <3>1, <3>2, <3>3
  <2> QED
    BY <1>1, <1>a, <1>b, <2>1, <2>2
<1>8. ASSUME NEW r \in Ranks, CommandEnds(r) \/ Lose(r)
      PROVE  Progress'
  <2>1. /\ pc[r] = "run" /\ UNCHANGED <<launched, pc, codes, status, ret>> /\ command'[r] \in {"ended", "lost"}
        /\ \A q \in Ranks \ {r} : command'[q] = command[q]
    BY <1>8 DEF CommandEnds, Lose, Types, Progress, ProgressOf
  <2>2. ProgressOf(r)'
    BY <1>1, <2>1 DEF ProgressOf, Types, Progress
  <2> QED
    BY <1>1, <1>a, <1>b, <2>1, <2>2
<1>9. ASSUME UNCHANGED <<launched, pc, command, codes, status, ret>> PROVE Progress'
  <2>1. \A r \in Ranks : CountsFor(r)' = CountsFor(r)
    BY <1>9 DEF CountsFor
  <2> QED
    BY <1>9, <2>1 DEF Progress, ProgressOf
<1>10. ASSUME NEW r \in Ranks, AgentReturns(r) \/ \E s \in Streams : s[1] = r /\ Read(s)
       PROVE  Progress'
  BY <1>9, <1>10 DEF AgentReturns, Read
<1>11. ASSUME NEW s \in Emits, NEW chunk \in Chunks, Emit(s, chunk)
       PROVE  Progress'
  BY <1>9, <1>11 DEF Emit
<1> QED
  BY <1>2, <1>3, <1>4, <1>5, <1>6, <1>7, <1>8, <1>10, <1>11 DEF Next, eachLocal, eachOne

\* A stream of which nothing changes but its rank's "pc" and "command".
LEMMA Untouched ==
  ASSUME NEW s \in Streams, PrintingOf(s),
         chunks'[s] = chunks[s], partial'[s] = partial[s],
         printed'[s] = printed[s], written'[s] = written[s],
         \/ /\ pc'[s[1]] = pc[s[1]]
            /\ command'[s[1]] = command[s[1]] \/ pc[s[1]] = "run" \/ command'[s[1]] # "ended"
         \/ pc[s[1]] \in {"new", "open"} /\ pc'[s[1]] \in {"open", "run"}
         \/ pc'[s[1]] \in {"errs", "done"} /\ command'[s[1]] # "ended"
         \/ pc[s[1]] = "run" /\ pc'[s[1]] = "errs" /\ chunks[s] = <<>>
  PROVE  PrintingOf(s)'
<1>1. WholeLines(s)'
  BY DEF PrintingOf, WholeLines
<1>2. Blank(s) => Exact(s) /\ Blank(s)'
  BY RestNone DEF Blank, Exact
<1>3. Exact(s) => Exact(s)'
  BY DEF Exact
<1>4. AllPrinted(s) => AllPrinted(s)'
  BY DEF AllPrinted
<1>5. s[2] \in {"out", "err"}
  BY DEF Streams
<1> QED
  BY <1>1, <1>2, <1>3, <1>4, <1>5 DEF PrintingOf, Unflushed

LEMMA InitPrinting == Init => Printing
<1> SUFFICES ASSUME Init, NEW s \in Streams
             PROVE  PrintingOf(s)
  BY DEF Printing
<1>1. s[1] \in Ranks
  BY DEF Streams
<1>2. Blank(s) /\ pc[s[1]] = "new"
  BY <1>1 DEF Init, Blank
<1>3. WholeLines(s)
  BY <1>2 DEF Blank, WholeLines, Contains
<1>4. command[s[1]] = "none"
  BY <1>1 DEF Init
<1> QED
  BY <1>2, <1>3, <1>4 DEF PrintingOf, Unflushed

\* The last line of a text, held because it has no end.
LEMMA Unended ==
  ASSUME NEW S, NEW shown \in Seq(S), NEW held \in Seq(S), held # <<>>, ~Contains(held, NL)
  PROVE  Last(shown \o held) # NL
<1>1. PICK m \in Nat : m = Len(shown)
  OBVIOUS
<1>2. PICK n \in Nat : n = Len(held)
  OBVIOUS
<1>3. n # 0
  BY <1>2
<1>4. held[n] # NL
  BY <1>2, <1>3 DEF Contains
<1>5. /\ Len(shown \o held) = m + n
      /\ \A i \in 1..(m + n) : (shown \o held)[i] = IF i <= m THEN shown[i] ELSE held[i - m]
  BY <1>1, <1>2, ConcatProperties
<1>6. PICK k \in 1..(m + n) : k = m + n
  BY <1>3
<1>7. ~(k <= m) /\ k - m = n
  BY <1>3, <1>6
<1>8. (shown \o held)[k] = held[n]
  BY <1>5, <1>7
<1> QED
  BY <1>4, <1>5, <1>6, <1>8 DEF Last

\* In the order of joining there is no difference.
LEMMA JoinLater ==
  ASSUME NEW S, NEW a \in Seq(S), NEW b \in Seq(S), NEW c \in Seq(S)
  PROVE  a \o (b \o c) = (a \o b) \o c
BY SMTT(30), ConcatAssociative

\* A line more of a stream.
LEMMA ReadPrinting ==
  ASSUME Types, Progress, NEW s \in Streams, PrintingOf(s), Read(s)
  PROVE  PrintingOf(s)'
<1>1. s[1] \in Ranks /\ pc[s[1]] = "run" /\ pc' = pc
  BY DEF Read, Streams
<1>2. PICK h \in Seq(Text) : h = Head(chunks[s])
  BY HeadTailProperties DEF Read, Types
<1>3. /\ partial[s] \in Seq(Text) /\ printed[s] \in Seq(Text) /\ written[s] \in Seq(Text)
      /\ chunks[s] \in Seq(Seq(Text)) /\ chunks[s] # <<>>
  BY DEF Read, Types
<1>4. PICK b \in Seq(Text) : b = partial[s] \o h /\ b = partial[s] \o Head(chunks[s])
  BY <1>2, <1>3, ConcatProperties
<1>5. PICK cut \in 0..Len(b) : cut = SelectLastInSeq(b, IsNL)
  BY LastNewline
<1>15. cut # 0 => b[cut] = NL
  BY <1>5, LastNewline
<1>16. \A i \in 1..Len(b) : i > cut => b[i] # NL
  BY <1>5, LastNewline
<1>6. /\ printed' = [printed EXCEPT ![s] = @ \o SubSeq(b, 1, cut)]
      /\ partial' = [partial EXCEPT ![s] = SubSeq(b, cut + 1, Len(b))]
  BY <1>4, <1>5 DEF Read, WriteLines
<1>7. printed'[s] = printed[s] \o SubSeq(b, 1, cut) /\ partial'[s] = SubSeq(b, cut + 1, Len(b))
  BY <1>6 DEF Types
<1>8. printed[s] # <<>> => Last(printed[s]) = NL
  BY DEF PrintingOf, WholeLines
<1>9. PICK shown \in Seq(Text) : shown = printed[s]
  BY <1>3
<1>10. /\ shown # <<>> => Last(shown) = NL
       /\ printed'[s] = shown \o SubSeq(b, 1, cut)
  BY <1>7, <1>8, <1>9
<1>11. /\ printed'[s] \o partial'[s] = shown \o b
       /\ printed'[s] # <<>> => Last(printed'[s]) = NL
       /\ ~Contains(partial'[s], NL)
  <2>1. /\ (shown \o SubSeq(b, 1, cut)) \o SubSeq(b, cut + 1, Len(b)) = shown \o b
        /\ shown \o SubSeq(b, 1, cut) # <<>> => Last(shown \o SubSeq(b, 1, cut)) = NL
        /\ ~Contains(SubSeq(b, cut + 1, Len(b)), NL)
    BY ZenonT(40), <1>15, <1>16, <1>10, CutLines
  <2> QED
    BY <2>1, <1>7, <1>10
<1>12. WholeLines(s)'
  BY <1>11 DEF WholeLines
<1>13. shown \o b = (printed[s] \o partial[s]) \o h
  <2>1. shown \o (partial[s] \o h) = (shown \o partial[s]) \o h
    <3>1. PICK held \in Seq(Text) : held = partial[s]
      BY <1>3
    <3>2. shown \o (held \o h) = (shown \o held) \o h
      BY JoinLater
    <3> QED
      BY <3>1, <3>2
  <2> QED
    BY <2>1, <1>4, <1>9
<1>14. Exact(s)'
  <2>1. PICK seen \in Seq(Text) : seen = printed[s] \o partial[s]
    BY <1>3, ConcatProperties
  <2>2. Rest(chunks[s], seen, written[s])
    BY <1>1, <2>1 DEF PrintingOf, Exact
  <2>3. Rest(Tail(chunks[s]), seen \o h, written[s])
    BY <2>2, <1>2, <1>3, RestRead
  <2>4. chunks'[s] = Tail(chunks[s]) /\ written' = written
    BY DEF Read, Types
  <2> QED
    BY <2>1, <2>3, <2>4, <1>11, <1>13 DEF Exact
<1> QED
  BY <1>1, <1>12, <1>14 DEF PrintingOf, Unflushed

\* The held line of a stream, at the end.
LEMMA FlushPrinting ==
  ASSUME Types, Progress, NEW r \in Ranks, NEW s \in Streams, PrintingOf(s), Flush(r),
         s = <<r, IF pc[r] = "errs" THEN "err" ELSE "out">>
  PROVE  PrintingOf(s)'
<1>1. s[1] = r /\ Unflushed(s) /\ pc[r] \in {"errs", "out"}
  BY DEF Flush, Unflushed
<1>2. pc' = [pc EXCEPT ![r] = IF pc[r] = "errs" THEN "out" ELSE "done"]
  BY DEF Flush, Goto
<1>3. pc'[r] \in {"out", "done"} /\ ~Unflushed(s)'
  BY <1>1, <1>2 DEF Types, Unflushed
<1>4. /\ printed[s] \in Seq(Text) /\ partial[s] \in Seq(Text) /\ written[s] \in Seq(Text)
      /\ printed'[s] = IF partial[s] = <<>> THEN printed[s] ELSE (printed[s] \o partial[s]) \o <<NL>>
      /\ partial'[s] = <<>> /\ written' = written /\ command' = command
  BY DEF Flush, Types, procVars
<1>5. PICK seen \in Seq(Text) : seen = printed[s] \o partial[s]
  BY <1>4, ConcatProperties
<1>7. NL \in Text
  BY DEF Text
<1>8. seen \o <<NL>> = Append(seen, NL)
  BY <1>7
<1>9. Last(Append(seen, NL)) = NL
  BY <1>7, AppendProperties DEF Last
<1>10. WholeLines(s)'
  <2>1. printed'[s] # <<>> => Last(printed'[s]) = NL
    <3>1. CASE partial[s] = <<>>
      BY <3>1, <1>4 DEF PrintingOf, WholeLines
    <3>2. CASE partial[s] # <<>>
      BY <3>2, <1>4, <1>5, <1>8, <1>9
    <3> QED
      BY <3>1, <3>2
  <2>2. ~Contains(<<>>, NL)
    BY DEF Contains
  <2> QED
    BY <2>1, <2>2, <1>4 DEF WholeLines
<1>11. ASSUME command'[r] = "ended"
       PROVE  AllPrinted(s)'
  <2>1. command[r] = "ended"
    BY <1>4, <1>11
  <2>2. Rest(<<>>, seen, written[s])
    BY <2>1, <1>1, <1>5 DEF PrintingOf, Exact
  <2>3. seen = written[s]
    BY <2>2, <1>4, RestAll
  <2>4. CASE partial[s] = <<>>
    <3>1. seen = printed[s]
      BY <2>4, <1>4, <1>5
    <3> QED
      BY <2>3, <2>4, <3>1, <1>4 DEF AllPrinted
  <2>5. CASE partial[s] # <<>>
    <3>1. printed'[s] = Append(written[s], NL)
      BY <2>3, <2>5, <1>4, <1>5, <1>8
    <3>2. ~Contains(partial[s], NL)
      BY DEF PrintingOf, WholeLines
    <3>3. Last(seen) # NL
      BY <2>5, <3>2, <1>4, <1>5, Unended
    <3> QED
      BY <2>3, <3>1, <3>3, <1>4 DEF AllPrinted
  <2> QED
    BY <2>4, <2>5
<1> QED
  BY <1>1, <1>3, <1>10, <1>11 DEF PrintingOf

\* A chunk more of a stream.
LEMMA EmitPrinting ==
  ASSUME Types, Progress, NEW s \in Emits, NEW chunk \in Chunks, PrintingOf(s), Emit(s, chunk)
  PROVE  PrintingOf(s)'
<1>1. s \in Streams /\ s[1] \in Ranks
  BY EachAssumption DEF Streams
<1>2. chunk \in Seq(Text)
  BY ChunkText
<1>3. pc[s[1]] = "run" /\ pc' = pc
  BY <1>1 DEF Emit, Progress, ProgressOf
<1>4. /\ chunks'[s] = Append(chunks[s], chunk) /\ written'[s] = written[s] \o chunk
      /\ printed' = printed /\ partial' = partial
  BY <1>1 DEF Emit, Types
<1>5. PICK seen \in Seq(Text) : seen = printed[s] \o partial[s]
  <2>1. printed[s] \in Seq(Text) /\ partial[s] \in Seq(Text)
    BY <1>1 DEF Types
  <2> QED
    BY <2>1, ConcatProperties
<1>6. Rest(chunks[s], seen, written[s])
  BY <1>3, <1>5 DEF PrintingOf, Exact
<1>7. Rest(Append(chunks[s], chunk), seen, written[s] \o chunk)
  <2>1. PICK queue \in Seq(Seq(Text)) : queue = chunks[s]
    BY <1>1 DEF Types
  <2>2. PICK text \in Seq(Text) : text = written[s]
    BY <1>1 DEF Types
  <2>3. Rest(Append(queue, chunk), seen, text \o chunk)
    BY <2>1, <2>2, <1>2, <1>6, RestEmit
  <2> QED
    BY <2>1, <2>2, <2>3
<1>8. Exact(s)'
  BY <1>4, <1>5, <1>7 DEF Exact
<1>9. WholeLines(s)'
  BY <1>4 DEF PrintingOf, WholeLines
<1> QED
  BY <1>3, <1>8, <1>9 DEF PrintingOf, Unflushed

\* What knit prints of every stream, in every step.
LEMMA NextPrinting == Types /\ Progress /\ Printing /\ Next => Printing'
<1> SUFFICES ASSUME Types, Progress, Next, NEW s \in Streams, PrintingOf(s)
             PROVE  PrintingOf(s)'
  BY DEF Printing, Streams
<1> USE DEF Goto, Peers, procVars, lineVars
<1>8. s[1] \in Ranks /\ s[2] \in {"out", "err"} /\ s = <<s[1], s[2]>>
  BY DEF Streams
<1>9. 0 \in Ranks
  BY EachAssumption
<1>1. CASE Launch
  <2>1. launched \in Ranks /\ pc[launched] = "new"
    <3>1. launched \in Ranks /\ launched \in Nat
      BY <1>1 DEF Launch, Types
    <3> QED
      BY <3>1 DEF Progress, ProgressOf
  <2>2. \/ pc'[s[1]] = pc[s[1]] /\ command'[s[1]] = command[s[1]]
        \/ pc[s[1]] = "new" /\ pc'[s[1]] = "open"
    BY <2>1, <1>1, <1>8 DEF Launch, Types
  <2>3. UNCHANGED lineVars /\ written' = written
    BY <1>1 DEF Launch
  <2> QED
    BY <2>2, <2>3, Untouched
<1>2. CASE Return
  <2>1. UNCHANGED <<pc, command, lineVars, written>>
    BY <1>2 DEF Return
  <2> QED
    BY <2>1, Untouched
<1>3. CASE StartHere
  <2>1. \/ pc'[s[1]] = pc[s[1]] /\ command'[s[1]] = command[s[1]]
        \/ pc[s[1]] = "open" /\ pc'[s[1]] = "run"
    BY <1>3, <1>8, <1>9 DEF StartHere, Types
  <2>2. UNCHANGED lineVars /\ written' = written
    BY <1>3 DEF StartHere
  <2> QED
    BY <2>1, <2>2, Untouched
<1>4. CASE NoStartHere
  <2>1. command' = command /\ pc'[0] = "errs" /\ command[0] # "ended"
    BY <1>4, <1>9 DEF NoStartHere, Types, Progress, ProgressOf
  <2>2. CASE s = <<0, "err">>
    <3>1. printed[s] = <<>> /\ partial[s] = <<>>
      BY <2>2, <1>4 DEF NoStartHere, PrintingOf, Blank
    <3>2. Letter \in Text /\ NL \in Text
      BY DEF Text
    <3>3. printed'[s] = <<>> \o <<Letter, NL>> /\ partial' = partial
      BY <3>1, <2>2, <1>4 DEF NoStartHere, Types
    <3>4. Last(<<>> \o <<Letter, NL>>) = NL
      BY <3>2 DEF Last
    <3>5. WholeLines(s)'
      BY <3>1, <3>3, <3>4 DEF WholeLines, Contains
    <3> QED
      BY <3>5, <2>1, <2>2 DEF PrintingOf
  <2>3. CASE s # <<0, "err">>
    <3>1. /\ chunks' = chunks /\ partial' = partial
          /\ printed'[s] = printed[s] /\ written'[s] = written[s]
      BY <2>3, <1>4 DEF NoStartHere, Types
    <3>2. \/ pc'[s[1]] = pc[s[1]] /\ command'[s[1]] = command[s[1]]
          \/ pc'[s[1]] = "errs" /\ command'[s[1]] # "ended"
      BY <2>1, <1>4, <1>8, <1>9 DEF NoStartHere, Types
    <3> QED
      BY <3>1, <3>2, Untouched
  <2> QED
    BY <2>2, <2>3
<1>5. ASSUME NEW r \in Ranks, eachOne(r)
      PROVE  PrintingOf(s)'
  <2>1. CASE Start(r)
    <3>1. \/ pc'[s[1]] = pc[s[1]] /\ command'[s[1]] = command[s[1]]
          \/ pc[s[1]] = "open" /\ pc'[s[1]] = "run"
      BY <2>1, <1>8 DEF Start, Types
    <3>2. UNCHANGED lineVars /\ written' = written
      BY <2>1 DEF Start
    <3> QED
      BY <3>1, <3>2, Untouched
  <2>2. CASE NoStart(r)
    <3>1. \/ pc'[s[1]] = pc[s[1]] /\ command'[s[1]] = command[s[1]]
          \/ pc'[s[1]] = "done" /\ command'[s[1]] # "ended"
      BY <2>2, <1>8 DEF NoStart, Types, Progress, ProgressOf
    <3>2. UNCHANGED lineVars /\ written' = written
      BY <2>2 DEF NoStart
    <3> QED
      BY <3>1, <3>2, Untouched
  <2>3. CASE ReadExit(r)
    <3>1. \/ pc'[s[1]] = pc[s[1]] /\ command'[s[1]] = command[s[1]]
          \/ pc[s[1]] = "run" /\ pc'[s[1]] = "errs" /\ chunks[s] = <<>>
      BY <2>3, <1>8 DEF ReadExit, Drained, Types
    <3>2. UNCHANGED lineVars /\ written' = written
      BY <2>3 DEF ReadExit
    <3> QED
      BY <3>1, <3>2, Untouched
  <2>4. CASE ReadFails(r)
    <3>1. \/ pc'[s[1]] = pc[s[1]] /\ command'[s[1]] = command[s[1]]
          \/ pc'[s[1]] = "errs" /\ command'[s[1]] # "ended"
      BY <2>4, <1>8 DEF ReadFails, Types
    <3>2. UNCHANGED lineVars /\ written' = written
      BY <2>4 DEF ReadFails
    <3> QED
      BY <3>1, <3>2, Untouched
  <2>5. CASE Flush(r)
    <3>1. PICK f \in Streams : f = <<r, IF pc[r] = "errs" THEN "err" ELSE "out">>
      <4>1. <<r, "err">> \in Streams /\ <<r, "out">> \in Streams
        BY DEF Streams
      <4> QED
        BY <4>1
    <3>2. CASE s = f
      BY <3>1, <3>2, <2>5, FlushPrinting
    <3>3. CASE s # f
      <4>1. /\ chunks' = chunks /\ command' = command /\ written' = written
            /\ printed'[s] = printed[s] /\ partial'[s] = partial[s]
        BY <3>1, <3>3, <2>5 DEF Flush, Types
      <4>2. CASE s[1] # r
        <5>1. pc'[s[1]] = pc[s[1]]
          BY <4>2, <2>5, <1>8 DEF Flush, Types
        <5> QED
          BY <5>1, <4>1, Untouched
      <4>3. CASE s[1] = r
        <5>1. \/ pc[r] = "errs" /\ pc'[r] = "out" /\ s[2] = "out"
              \/ pc[r] = "out" /\ pc'[r] = "done" /\ s[2] = "err"
          <6>1. \/ pc[r] = "errs" /\ pc'[r] = "out"
                \/ pc[r] = "out" /\ pc'[r] = "done"
            BY <2>5 DEF Flush, Types
          <6>2. pc[r] = "errs" => s[2] # "err"
            BY <3>1, <3>3, <4>3, <1>8
          <6>3. pc[r] = "out" => s[2] # "out"
            BY <3>1, <3>3, <4>3, <1>8
          <6> QED
            BY <6>1, <6>2, <6>3, <1>8
        <5>2. WholeLines(s)' /\ (Exact(s) => Exact(s)') /\ (AllPrinted(s) => AllPrinted(s)')
          BY <4>1 DEF PrintingOf, WholeLines, Exact, AllPrinted
        <5> QED
          BY <4>1, <4>3, <5>1, <5>2 DEF PrintingOf, Unflushed
      <4> QED
        BY <4>2, <4>3
    <3> QED
      BY <3>2, <3>3
  <2>6. ASSUME NEW t \in Streams, Read(t)
        PROVE  PrintingOf(s)'
    <3>1. CASE s = t
      BY <3>1, <2>6, ReadPrinting
    <3>2. CASE s # t
      <4>1. /\ chunks'[s] = chunks[s] /\ printed'[s] = printed[s] /\ partial'[s] = partial[s]
        BY <3>2, <2>6 DEF Read, WriteLines, Types
      <4>2. UNCHANGED <<pc, command, written>>
        BY <2>6 DEF Read
      <4> QED
        BY <4>1, <4>2, Untouched
    <3> QED
      BY <3>1, <3>2
  <2> QED
    BY <1>5, <2>1, <2>2, <2>3, <2>4, <2>5, <2>6 DEF eachOne
<1>6. ASSUME NEW r \in Ranks, CommandEnds(r) \/ Lose(r) \/ AgentReturns(r)
      PROVE  PrintingOf(s)'
  <2>1. UNCHANGED <<pc, lineVars, written>>
    BY <1>6 DEF CommandEnds, Lose, AgentReturns
  <2>2. command'[s[1]] = command[s[1]] \/ pc[s[1]] = "run" \/ command'[s[1]] # "ended"
    BY <1>6, <1>8 DEF CommandEnds, Lose, AgentReturns, Types, Progress, ProgressOf
  <2> QED
    BY <2>1, <2>2, Untouched
<1>7. ASSUME NEW t \in Emits, NEW chunk \in Chunks, Emit(t, chunk)
      PROVE  PrintingOf(s)'
  <2>1. CASE s = t
    BY <2>1, <1>7, EmitPrinting
  <2>2. CASE s # t
    <3>1. chunks'[s] = chunks[s] /\ written'[s] = written[s]
      BY <2>2, <1>7 DEF Emit, Types
    <3>2. UNCHANGED <<pc, command, printed, partial>>
      BY <1>7 DEF Emit
    <3> QED
      BY <3>1, <3>2, Untouched
  <2> QED
    BY <2>1, <2>2
<1> QED
  BY <1>1, <1>2, <1>3, <1>4, <1>5, <1>6, <1>7 DEF Next, eachLocal

\* The invariant holds in every behaviour.
THEOREM Invariant == Spec => []IInv
<1>1. Init => IInv
  BY InitTypes, InitProgress, InitPrinting DEF IInv
<1>2. IInv /\ [Next]_vars => IInv'
  <2>1. IInv /\ Next => IInv'
    BY NextTypes, NextProgress, NextPrinting DEF IInv
  <2>2. IInv /\ UNCHANGED vars => IInv'
    BY DEF vars, procVars, lineVars, IInv, Types, Progress, ProgressOf, CountsFor, Printing, PrintingOf, WholeLines,
           Blank, Exact, Unflushed, AllPrinted
  <2> QED
    BY <2>1, <2>2
<1> QED
  BY <1>1, <1>2, PTL DEF Spec

\* Whatever the ranks write and however it is cut into chunks, what is printed of
\* each stream is whole lines of it, in order and each once, and in the end all
\* of it (each.go prefixer).
THEOREM LinesWhole == Spec => []OutputWhole
<1>1. IInv => OutputWhole
  <2> SUFFICES ASSUME IInv, NEW s \in Streams
               PROVE  /\ printed[s] # <<>> => Last(printed[s]) = NL
                      /\ ~Contains(partial[s], NL)
                      /\ pc[s[1]] = "run" => IsPrefix(printed[s] \o partial[s], written[s])
                      /\ pc[s[1]] = "done" /\ command[s[1]] = "ended" =>
                           \/ printed[s] = written[s]
                           \/ printed[s] = Append(written[s], NL) /\ Last(written[s]) # NL
    BY DEF OutputWhole
  <2>1. Types /\ PrintingOf(s)
    BY DEF IInv, Printing
  <2>2. ASSUME pc[s[1]] = "run"
        PROVE  IsPrefix(printed[s] \o partial[s], written[s])
    <3>1. PICK queue \in Seq(Seq(Text)) : queue = chunks[s]
      BY <2>1 DEF Types
    <3>2. printed[s] \in Seq(Text) /\ partial[s] \in Seq(Text)
      BY <2>1 DEF Types
    <3>3. PICK seen \in Seq(Text) : seen = printed[s] \o partial[s]
      BY <3>2, ConcatProperties
    <3>4. PICK text \in Seq(Text) : text = written[s]
      BY <2>1 DEF Types
    <3>5. Rest(queue, seen, text)
      BY <3>1, <3>3, <3>4, <2>1, <2>2 DEF PrintingOf, Exact
    <3>6. IsPrefix(seen, text)
      BY <3>5, RestPrefix
    <3> QED
      BY <3>3, <3>4, <3>6
  <2>3. ASSUME pc[s[1]] = "done", command[s[1]] = "ended"
        PROVE  AllPrinted(s)
    BY <2>1, <2>3 DEF PrintingOf, Unflushed
  <2> QED
    BY <2>1, <2>2, <2>3 DEF PrintingOf, WholeLines, AllPrinted
<1> QED
  BY <1>1, Invariant, PTL

\* For any number of ranks, any exit codes and whatever fails, Each returns the worst
\* of what became of the ranks, and 0 only if the command ran to its end with 0
\* everywhere (each.go's loop over codes).
THEOREM WorstReturned ==
  Spec => [](WorstCode /\ (ret = 0 => \A r \in Ranks : command[r] = "ended" /\ status[r] = 0))
<1>1. IInv => WorstCode /\ (ret = 0 => \A r \in Ranks : command[r] = "ended" /\ status[r] = 0)
  <2> SUFFICES ASSUME IInv, ret # None
               PROVE  /\ \E r \in Ranks : ret \in CountsFor(r)
                      /\ \A r \in Ranks : \E c \in CountsFor(r) : c <= ret
                      /\ ret = 0 => \A r \in Ranks : command[r] = "ended" /\ status[r] = 0
    BY DEF WorstCode, None
  <2>1. Types /\ Progress
    BY DEF IInv
  <2>2. \A r \in Ranks : codes[r] \in CountsFor(r) /\ codes[r] <= ret /\ codes[r] \in Nat
    BY <2>1 DEF Types, Progress, ProgressOf
  <2>3. \E r \in Ranks : ret \in CountsFor(r)
    BY <2>1, <2>2 DEF Progress
  <2>4. ASSUME ret = 0, NEW r \in Ranks
        PROVE  command[r] = "ended" /\ status[r] = 0
    <3>1. codes[r] = 0 /\ 0 \in CountsFor(r)
      <4>1. codes[r] \in CountsFor(r) /\ codes[r] <= 0 /\ codes[r] \in Nat
        BY <2>2, <2>4
      <4> QED
        BY <4>1
    <3>2. ~(0 \in {ExitDisconnected}) /\ ~(0 \in {ExitUnreachable, ExitUnauthorized, NotFound})
      BY DEF ExitDisconnected, ExitUnreachable, ExitUnauthorized, NotFound
    <3> QED
      BY <3>1, <3>2 DEF CountsFor
  <2> QED
    BY <2>2, <2>3, <2>4
<1> QED
  BY <1>1, Invariant, PTL

=============================================================================
