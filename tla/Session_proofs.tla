--------------------------- MODULE Session_proofs ---------------------------
(***************************************************************************)
(* Theorems about a board and an agent on one line.  First what holds      *)
(* under every fault: what comes out of the line is some of what went in,  *)
(* in order.  Then the session without faults: registration is a           *)
(* conversation that passes through phases, and after it what              *)
(* nros_publish accepts comes out at ROS, all of it and in order.  Then    *)
(* sends that fail and boards that reboot: they stall a session but never  *)
(* crash the agent.  Last, whatever is lost: registration may stop, but    *)
(* none of it is skipped.                                                  *)
(***************************************************************************)
EXTENDS Session, NanoRos_proofs, SequenceTheorems, FiniteSetTheorems, TLAPS

-----------------------------------------------------------------------------
(* What faults do to a line                                                *)

IsData(f) == f.type = "DATA"

\* The DATA frames of v are some of those of w, in the order they have there.
\* Losing, tearing and resynchronising leave such a v of w, and so does
\* putting frames without data in between.
Thins(v, w) ==
    /\ v \in Seq(Frames)
    /\ \E f \in [DOMAIN v -> Int] :
         /\ \A i \in DOMAIN v :
              IsData(v[i]) => f[i] \in DOMAIN w /\ v[i] = w[f[i]]
         /\ \A i, j \in DOMAIN v :
              i < j /\ IsData(v[i]) /\ IsData(v[j]) => f[i] < f[j]

\* A line thins itself.
LEMMA ThinsItself == ASSUME NEW w \in Seq(Frames) PROVE Thins(w, w)
  <1> DEFINE f == [i \in DOMAIN w |-> i]
  <1>1. f \in [DOMAIN w -> Int]
    OBVIOUS
  <1>2. \A i \in DOMAIN w : f[i] = i
    OBVIOUS
  <1> HIDE DEF f
  <1> QED  BY <1>1, <1>2 DEF Thins

\* A run of consecutive frames thins the line it is part of.
LEMMA RunThins ==
    ASSUME NEW w \in Seq(Frames), NEW m \in 1 .. Len(w) + 1,
           NEW n \in 0 .. Len(w)
    PROVE  Thins(SubSeq(w, m, n), w)
  <1> DEFINE v == SubSeq(w, m, n)
             f == [i \in DOMAIN v |-> m + i - 1]
  <1>1. /\ v \in Seq(Frames)
        /\ Len(v) = IF m <= n THEN n - m + 1 ELSE 0
        /\ \A i \in 1 .. (n - m + 1) : v[i] = w[m + i - 1]
    BY SubSeqProperties
  <1>2. \A i \in DOMAIN v : /\ i \in 1 .. (n - m + 1)
                            /\ m + i - 1 \in DOMAIN w
    BY <1>1
  <1>3. f \in [DOMAIN v -> Int]
    BY <1>2
  <1>4. \A i \in DOMAIN v : f[i] = m + i - 1
    OBVIOUS
  <1> HIDE DEF f, v
  <1>5. \A i \in DOMAIN v : f[i] \in DOMAIN w /\ v[i] = w[f[i]]
    BY <1>1, <1>2, <1>4
  <1>6. \A i, j \in DOMAIN v : i < j => f[i] < f[j]
    BY <1>1, <1>4
  <1>7. Thins(v, w)
    BY <1>1, <1>3, <1>5, <1>6 DEF Thins
  <1> QED  BY <1>7 DEF v

\* Nothing thins everything.
LEMMA NothingThins == ASSUME NEW w PROVE Thins(<<>>, w)
  <1> DEFINE f == [i \in DOMAIN <<>> |-> 0]
  <1>1. <<>> \in Seq(Frames) /\ f \in [DOMAIN <<>> -> Int]
    OBVIOUS
  <1>2. \A i \in DOMAIN <<>> : FALSE
    OBVIOUS
  <1> HIDE DEF f
  <1> QED  BY <1>1, <1>2 DEF Thins

\* So does a frame without data.
LEMMA NoDataThins ==
    ASSUME NEW w, NEW g \in Frames, ~IsData(g)
    PROVE  Thins(<<g>>, w)
  <1> DEFINE f == [i \in DOMAIN <<g>> |-> 0]
  <1>1. f \in [DOMAIN <<g>> -> Int] /\ <<g>> \in Seq(Frames)
    OBVIOUS
  <1>2. \A i \in DOMAIN <<g>> : <<g>>[i] = g
    OBVIOUS
  <1> HIDE DEF f
  <1> QED  BY <1>1, <1>2 DEF Thins

\* Two lines may be thinned one by one.
LEMMA ThinsJoin ==
    ASSUME NEW v1, NEW w1 \in Seq(Frames), Thins(v1, w1),
           NEW v2, NEW w2 \in Seq(Frames), Thins(v2, w2)
    PROVE  Thins(v1 \o v2, w1 \o w2)
  <1> v1 \in Seq(Frames) /\ v2 \in Seq(Frames)
    BY DEF Thins
  <1>1. PICK f1 \in [DOMAIN v1 -> Int] :
          /\ \A i \in DOMAIN v1 :
               IsData(v1[i]) => f1[i] \in DOMAIN w1 /\ v1[i] = w1[f1[i]]
          /\ \A i, j \in DOMAIN v1 :
               i < j /\ IsData(v1[i]) /\ IsData(v1[j]) => f1[i] < f1[j]
    BY DEF Thins
  <1>2. PICK f2 \in [DOMAIN v2 -> Int] :
          /\ \A i \in DOMAIN v2 :
               IsData(v2[i]) => f2[i] \in DOMAIN w2 /\ v2[i] = w2[f2[i]]
          /\ \A i, j \in DOMAIN v2 :
               i < j /\ IsData(v2[i]) /\ IsData(v2[j]) => f2[i] < f2[j]
    BY DEF Thins
  <1> DEFINE v == v1 \o v2
             w == w1 \o w2
             m == Len(v1)
             f == [i \in DOMAIN v |-> IF i <= m THEN f1[i]
                                      ELSE Len(w1) + f2[i - m]]
  <1>3. /\ v \in Seq(Frames) /\ DOMAIN v = 1 .. (m + Len(v2))
        /\ \A i \in DOMAIN v : v[i] = IF i <= m THEN v1[i] ELSE v2[i - m]
    BY ConcatProperties
  <1>4. /\ DOMAIN w = 1 .. (Len(w1) + Len(w2))
        /\ \A i \in DOMAIN w :
             w[i] = IF i <= Len(w1) THEN w1[i] ELSE w2[i - Len(w1)]
    BY ConcatProperties
  <1>5. m \in Nat /\ Len(w1) \in Nat /\ Len(v2) \in Nat /\ Len(w2) \in Nat
    OBVIOUS
  <1>6. /\ DOMAIN v1 = 1 .. m /\ DOMAIN v2 = 1 .. Len(v2)
        /\ DOMAIN w1 = 1 .. Len(w1) /\ DOMAIN w2 = 1 .. Len(w2)
    OBVIOUS
  <1> HIDE DEF v, w, m
  <1>7. f \in [DOMAIN v -> Int]
    BY <1>3, <1>5, <1>6
  <1>8. \A i \in DOMAIN v :
          f[i] = IF i <= m THEN f1[i] ELSE Len(w1) + f2[i - m]
    OBVIOUS
  <1> HIDE DEF f
  <1>9. ASSUME NEW i \in DOMAIN v, IsData(v[i])
        PROVE  /\ f[i] \in DOMAIN w /\ v[i] = w[f[i]]
               /\ i <= m => f[i] \in DOMAIN w1
               /\ i > m => f[i] > Len(w1)
    <2>1. CASE i <= m
      <3>1. i \in DOMAIN v1 /\ v[i] = v1[i] /\ f[i] = f1[i]
        BY <1>3, <1>5, <1>6, <1>8, <2>1
      <3>2. f[i] \in DOMAIN w1 /\ v[i] = w1[f[i]]
        BY <1>1, <1>9, <3>1
      <3> QED  BY <1>4, <1>5, <1>6, <2>1, <3>1, <3>2
    <2>2. CASE i > m
      <3>1. /\ i - m \in DOMAIN v2 /\ v[i] = v2[i - m]
            /\ f[i] = Len(w1) + f2[i - m]
        BY <1>3, <1>5, <1>6, <1>8, <2>2
      <3>2. f2[i - m] \in DOMAIN w2 /\ v[i] = w2[f2[i - m]]
        BY <1>2, <1>9, <3>1
      <3>3. f[i] \in DOMAIN w /\ f[i] > Len(w1) /\ f[i] - Len(w1) = f2[i - m]
        BY <1>4, <1>5, <1>6, <3>1, <3>2
      <3> QED  BY <1>3, <1>4, <1>5, <2>2, <3>2, <3>3
    <2> QED  BY <1>3, <1>5, <2>1, <2>2
  <1>10. ASSUME NEW i \in DOMAIN v, NEW j \in DOMAIN v, i < j,
                IsData(v[i]), IsData(v[j])
         PROVE  f[i] < f[j]
    <2>1. CASE j <= m
      <3>1. /\ i \in DOMAIN v1 /\ v[i] = v1[i] /\ f[i] = f1[i]
            /\ j \in DOMAIN v1 /\ v[j] = v1[j] /\ f[j] = f1[j]
        BY <1>3, <1>5, <1>6, <1>8, <1>10, <2>1
      <3> QED  BY <1>1, <1>10, <3>1
    <2>2. CASE i <= m /\ j > m
      <3>1. f[i] \in DOMAIN w1
        BY <1>9, <1>10, <2>2
      <3>2. f[j] > Len(w1) /\ f[j] \in DOMAIN w
        BY <1>9, <1>10, <2>2
      <3> QED  BY <1>4, <1>5, <1>6, <3>1, <3>2
    <2>3. CASE i > m
      <3>1. /\ i - m \in DOMAIN v2 /\ v[i] = v2[i - m]
            /\ f[i] = Len(w1) + f2[i - m]
            /\ j - m \in DOMAIN v2 /\ v[j] = v2[j - m]
            /\ f[j] = Len(w1) + f2[j - m]
            /\ i - m < j - m
        BY <1>3, <1>5, <1>6, <1>8, <1>10, <2>3
      <3>2. f2[i - m] < f2[j - m]
        BY <1>2, <1>10, <3>1
      <3> QED  BY <1>2, <1>5, <3>1, <3>2
    <2> QED  BY <1>3, <1>5, <2>1, <2>2, <2>3
  <1>11. Thins(v, w)
    <2>1. /\ \A i \in DOMAIN v :
               IsData(v[i]) => f[i] \in DOMAIN w /\ v[i] = w[f[i]]
          /\ \A i, j \in DOMAIN v :
               i < j /\ IsData(v[i]) /\ IsData(v[j]) => f[i] < f[j]
      BY <1>9, <1>10
    <2> QED  BY <1>3, <1>7, <2>1 DEF Thins
  <1> QED  BY <1>11 DEF v, w

\* Taking the first frame off a line.
LEMMA TailThins ==
    ASSUME NEW w \in Seq(Frames), w # <<>>
    PROVE  Thins(Tail(w), w)
  <1>1. Len(w) \in Nat \ {0} /\ Tail(w) = SubSeq(w, 2, Len(w))
    BY EmptySeq, TailIsSubSeq
  <1>2. 2 \in 1 .. Len(w) + 1 /\ Len(w) \in 0 .. Len(w)
    BY <1>1
  <1> QED  BY <1>1, <1>2, RunThins

\* What the parser makes of a line that starts with a Torn.
LEMMA ResyncsThin ==
    ASSUME NEW w \in Seq(Frames), NEW v \in Resyncs(w)
    PROVE  Thins(v, w)
  <1>1. w # <<>>
    BY DEF Resyncs, Arrives
  <1>2. CASE v = Tail(w)
    BY <1>1, <1>2, TailThins
  <1>3. CASE Len(w) > 1 /\ v = RemoveAt(w, 2)
    <2> DEFINE x == SubSeq(w, 1, 1)
               y == SubSeq(w, 2, 2)
               z == SubSeq(w, 3, Len(w))
    <2>1. Len(w) \in Nat
      OBVIOUS
    <2>2. x \in Seq(Frames) /\ y \in Seq(Frames) /\ z \in Seq(Frames)
      BY <1>3, SubSeqProperties
    <2>3. y \o z = SubSeq(w, 2, Len(w))
      <3>1. /\ 2 \in 1 .. Len(w) + 1 /\ 2 \in 2 - 1 .. Len(w)
            /\ Len(w) \in 2 .. Len(w)
        BY <1>3, <2>1
      <3>2. SubSeq(w, 2, 2) \o SubSeq(w, 2 + 1, Len(w)) = SubSeq(w, 2, Len(w))
        BY <3>1, ConcatAdjacentSubSeq
      <3> QED  BY <3>2
    <2>4. x \o SubSeq(w, 2, Len(w)) = SubSeq(w, 1, Len(w))
      BY <1>3, <2>1, ConcatAdjacentSubSeq
    <2>5. SubSeq(w, 1, Len(w)) = w
      BY SubSeqFull
    <2>6. v = x \o z
      BY <1>3 DEF RemoveAt
    <2> HIDE DEF x, y, z
    <2>7. Thins(<<>> \o z, y \o z) /\ <<>> \o z = z /\ y \o z \in Seq(Frames)
      BY <2>2, NothingThins, ThinsItself, ThinsJoin, ConcatEmptySeq,
         ConcatProperties, EmptySeq
    <2>8. Thins(x \o z, x \o (y \o z))
      BY <2>2, <2>7, ThinsItself, ThinsJoin
    <2> QED  BY <2>3, <2>4, <2>5, <2>6, <2>8
  <1> QED  BY <1>2, <1>3 DEF Resyncs

\* What is lost while one end is down.
LEMMA SuffixesThin ==
    ASSUME NEW w \in Seq(Frames), NEW v \in Suffixes(w)
    PROVE  Thins(v, w)
  <1>1. CASE v = <<>>
    BY <1>1, NothingThins
  <1>2. CASE v # <<>>
    <2>1. PICK l \in 1 .. Len(w) : v = SubSeq(w, l, Len(w))
      BY <1>2 DEF Suffixes
    <2> QED  BY <2>1, RunThins
  <1> QED  BY <1>1, <1>2

\* What is left when the end of a line is lost.
LEMMA PrefixesThin ==
    ASSUME NEW w \in Seq(Frames), NEW v \in Prefixes(w)
    PROVE  Thins(v, w)
  <1>1. PICK l \in 0 .. Len(w) : v = SubSeq(w, 1, l)
    BY DEF Prefixes
  <1>2. 1 \in 1 .. Len(w) + 1
    OBVIOUS
  <1> QED  BY <1>1, <1>2, RunThins

\* A frame that no longer checks.
LEMMA CorruptedThins ==
    ASSUME NEW w \in Seq(Frames), NEW i \in DOMAIN w
    PROVE  Thins(Corrupted(w, i), w)
  <1> DEFINE v == Corrupted(w, i)
             f == [j \in DOMAIN w |-> j]
  <1>1. /\ v \in Seq(Frames) /\ DOMAIN v = DOMAIN w
        /\ \A j \in DOMAIN w : v[j] = IF j = i THEN Torn ELSE w[j]
    BY FramesAreFrames, ExceptSeq DEF Corrupted
  <1>2. ~IsData(Torn)
    BY DEF IsData, Torn
  <1>3. f \in [DOMAIN w -> Int] /\ \A j \in DOMAIN w : f[j] = j
    OBVIOUS
  <1> HIDE DEF f, v
  <1>4. \A j \in DOMAIN v :
          IsData(v[j]) => f[j] \in DOMAIN w /\ v[j] = w[f[j]]
    BY <1>1, <1>2, <1>3
  <1>5. \A j, k \in DOMAIN v : j < k => f[j] < f[k]
    BY <1>1, <1>3
  <1>6. Thins(v, w)
    BY <1>1, <1>3, <1>4, <1>5 DEF Thins
  <1> QED  BY <1>6 DEF v

-----------------------------------------------------------------------------
(* A way messages take, from what one end has accepted, its source, over   *)
(* the frames w that are under way, to what the other end has got, its     *)
(* sink.                                                                   *)

Flow(sink, w, source) ==
    /\ \A i \in DOMAIN w :
         IsData(w[i]) => /\ w[i].body \in DOMAIN source
                         /\ Msg(w[i]) = source[w[i].body]
    /\ \A i, j \in DOMAIN w :
         i < j /\ IsData(w[i]) /\ IsData(w[j]) => w[i].body < w[j].body
    /\ Increasing(sink)
    /\ \A k \in DOMAIN sink :
         /\ sink[k].n \in DOMAIN source
         /\ sink[k] = source[sink[k].n]
    /\ \A k \in DOMAIN sink, i \in DOMAIN w :
         IsData(w[i]) => sink[k].n < w[i].body

\* Losing frames does not disturb it.
LEMMA FlowThins ==
    ASSUME NEW sink, NEW w, NEW source, Flow(sink, w, source),
           NEW v, Thins(v, w)
    PROVE  Flow(sink, v, source)
  <1>1. PICK f \in [DOMAIN v -> Int] :
          /\ \A i \in DOMAIN v :
               IsData(v[i]) => f[i] \in DOMAIN w /\ v[i] = w[f[i]]
          /\ \A i, j \in DOMAIN v :
               i < j /\ IsData(v[i]) /\ IsData(v[j]) => f[i] < f[j]
    BY DEF Thins
  <1>2. \A i \in DOMAIN v :
          IsData(v[i]) => /\ v[i].body \in DOMAIN source
                          /\ Msg(v[i]) = source[v[i].body]
    BY <1>1 DEF Flow
  <1>3. \A i, j \in DOMAIN v :
          i < j /\ IsData(v[i]) /\ IsData(v[j]) => v[i].body < v[j].body
    BY <1>1 DEF Flow
  <1>4. \A k \in DOMAIN sink, i \in DOMAIN v :
          IsData(v[i]) => sink[k].n < v[i].body
    BY <1>1 DEF Flow
  <1> QED  BY <1>2, <1>3, <1>4 DEF Flow

\* The next message enters it.
LEMMA FlowPuts ==
    ASSUME NEW sink \in Seq(Messages), NEW w \in Seq(Frames),
           NEW source \in Seq(Messages), Flow(sink, w, source),
           NEW f \in Frames, IsData(f), f.body = Len(source) + 1
    PROVE  Flow(sink, Append(w, f), Append(source, Msg(f)))
  <1> DEFINE v == Append(w, f)
             s == Append(source, Msg(f))
             n == Len(source) + 1
  <1>1. /\ DOMAIN v = 1 .. Len(w) + 1 /\ v[Len(w) + 1] = f
        /\ \A i \in DOMAIN w : v[i] = w[i]
    BY AppendProperties
  <1>2. Msg(f) \in Messages
    BY DEF Frames, Msg, Messages, IsData, RegisterDone, Discover, Torn
  <1>3. /\ DOMAIN s = 1 .. n /\ s[n] = Msg(f)
        /\ \A i \in DOMAIN source : s[i] = source[i]
    BY <1>2, AppendProperties
  <1>4. /\ DOMAIN w = 1 .. Len(w) /\ Len(w) \in Nat
        /\ DOMAIN source = 1 .. Len(source) /\ Len(source) \in Nat
    OBVIOUS
  <1> HIDE DEF v, s
  <1>5. \A i \in DOMAIN v : i \in DOMAIN w \/ i = Len(w) + 1
    BY <1>1, <1>4
  <1>6. \A i \in DOMAIN v :
          IsData(v[i]) => v[i].body \in DOMAIN s /\ Msg(v[i]) = s[v[i].body]
    BY <1>1, <1>3, <1>4, <1>5 DEF Flow
  <1>7. \A i \in DOMAIN w : IsData(w[i]) => w[i].body < n
    BY <1>4 DEF Flow
  <1>8. \A i, j \in DOMAIN v :
          i < j /\ IsData(v[i]) /\ IsData(v[j]) => v[i].body < v[j].body
    BY <1>1, <1>4, <1>5, <1>7 DEF Flow
  <1>9. \A k \in DOMAIN sink : sink[k].n \in DOMAIN source
    BY DEF Flow
  <1>10. \A k \in DOMAIN sink :
           sink[k].n \in DOMAIN s /\ sink[k] = s[sink[k].n]
    BY <1>3, <1>4, <1>9 DEF Flow
  <1>11. \A k \in DOMAIN sink, i \in DOMAIN v :
           IsData(v[i]) => sink[k].n < v[i].body
    BY <1>1, <1>4, <1>5, <1>9 DEF Flow
  <1>12. Flow(sink, v, s)
    BY <1>6, <1>8, <1>10, <1>11 DEF Flow
  <1> QED  BY <1>12 DEF v, s

\* The first message leaves it.
LEMMA FlowTakes ==
    ASSUME NEW sink \in Seq(Messages), NEW w \in Seq(Frames), w # <<>>,
           NEW source, Flow(sink, w, source), IsData(Head(w))
    PROVE  Flow(Append(sink, Msg(Head(w))), Tail(w), source)
  <1> DEFINE v == Tail(w)
             m == Msg(Head(w))
             s == Append(sink, m)
             n == Len(sink) + 1
  <1>1. /\ 1 \in DOMAIN w /\ Head(w) = w[1] /\ Head(w) \in Frames
        /\ \A i \in DOMAIN v : i + 1 \in DOMAIN w /\ v[i] = w[i + 1] /\ i > 0
    BY HeadTailProperties
  <1>2. m \in Messages /\ m.n = w[1].body
    BY <1>1 DEF Frames, Msg, Messages, IsData, RegisterDone, Discover, Torn
  <1>3. /\ DOMAIN s = 1 .. n /\ s[n] = m
        /\ \A k \in DOMAIN sink : s[k] = sink[k]
    BY <1>2, AppendProperties
  <1>4. DOMAIN sink = 1 .. Len(sink) /\ Len(sink) \in Nat
    OBVIOUS
  <1>5. \A i \in DOMAIN v : i \in Int
    OBVIOUS
  <1> HIDE DEF v, s, m
  <1>6. \A k \in DOMAIN s : k \in DOMAIN sink \/ k = n
    BY <1>3, <1>4
  <1>7. Flow(sink, v, source)
    <2>1. Thins(v, w)
      BY TailThins DEF v
    <2> QED  BY <2>1, FlowThins
  <1>8. \A k \in DOMAIN sink : sink[k].n < m.n
    BY <1>1, <1>2 DEF Flow
  <1>9. Increasing(s)
    BY <1>3, <1>4, <1>6, <1>8 DEF Flow, Increasing
  <1>10. \A k \in DOMAIN s :
           s[k].n \in DOMAIN source /\ s[k] = source[s[k].n]
    <2>1. m.n \in DOMAIN source /\ m = source[m.n]
      BY <1>1, <1>2 DEF Flow, m
    <2> QED  BY <1>3, <1>6, <2>1 DEF Flow
  <1>11. \A i \in DOMAIN v : IsData(v[i]) => m.n < v[i].body
    <2>1. ASSUME NEW i \in DOMAIN v, IsData(v[i]) PROVE m.n < v[i].body
      <3>1. i + 1 \in DOMAIN w /\ v[i] = w[i + 1] /\ 1 < i + 1
        BY <1>1, <1>5
      <3>2. w[1].body < w[i + 1].body
        BY <1>1, <2>1, <3>1 DEF Flow
      <3> QED  BY <1>2, <3>1, <3>2
    <2> QED  BY <2>1
  <1>12. \A k \in DOMAIN s, i \in DOMAIN v :
           IsData(v[i]) => s[k].n < v[i].body
    BY <1>3, <1>6, <1>7, <1>11 DEF Flow
  <1>13. Flow(s, v, source)
    BY <1>7, <1>9, <1>10, <1>12 DEF Flow
  <1> QED  BY <1>13 DEF s, v, m

\* What has come through is a part of what was sent, in order.
LEMMA FlowIsOrdered ==
    ASSUME NEW sink, NEW w, NEW source, Flow(sink, w, source)
    PROVE  OrderedPartOf(sink, source)
  BY DEF Flow, OrderedPartOf

-----------------------------------------------------------------------------
(* Type correctness                                                        *)

\* Board, agent and line start well typed.
LEMMA InitType == Init => TypeOK
  <1> SUFFICES ASSUME Init PROVE TypeOK
    OBVIOUS
  <1>1. ClientTypeOK
    BY ClientInitType DEF Init
  <1>2. AgentTypeOK
    <2>1. NoAck \in Frames /\ NoAck.type = "ACK"
      BY DEF NoAck, AckFrame, AckOk, AckStatus, WireTopicIds, Frames
    <2>2. queue \in Seq(Frames) /\ Len(queue) <= QueueMax
      BY AgentAssumption DEF Init, AgentInit
    <2>3. rosOut \in Seq(Messages) /\ rosIn \in Seq(Messages)
      BY DEF Init, AgentInit
    <2>4. /\ needRegistration \in BOOLEAN /\ frameHasPayload \in BOOLEAN
          /\ needAck \in BOOLEAN /\ spawned \in BOOLEAN
      BY DEF Init, AgentInit
    <2>5. /\ agentPc = "recv" /\ ack = NoAck /\ newTopics = {} /\ handles = {}
      BY DEF Init, AgentInit
    <2> QED  BY <2>1, <2>2, <2>3, <2>4, <2>5 DEF AgentTypeOK
  <1>3. /\ restarts \in 0 .. MaxRestarts /\ resets \in 0 .. MaxResets
        /\ corruptions \in 0 .. MaxCorrupt
    BY BoundsAssumption DEF Init
  <1> QED  BY <1>1, <1>2, <1>3 DEF TypeOK

\* Whatever becomes of a frame that is sent, the line stays a line.
LEMMA SendType ==
    ASSUME NEW f \in Frames, toClient \in Seq(Frames), Send(f)
    PROVE  toClient' \in Seq(Frames)
  BY FramesAreFrames, AppendProperties DEF Send

\* Agent threads keep the types of the agent and of the line.
LEMMA AgentStepType ==
    ASSUME TypeOK,
           \/ AgentLoop \/ RecvTorn
           \/ \E id \in Ids : SubscriptionCallback(id)
    PROVE  AgentTypeOK' /\ toAgent' \in Seq(Frames) /\ toClient' \in Seq(Frames)
  <1> USE DEF TypeOK
  <1>1. toAgent \in Seq(Frames) /\ toClient \in Seq(Frames)
    BY DEF ClientTypeOK
  <1>2. toAgent # <<>> =>
          Head(toAgent) \in Frames /\ Tail(toAgent) \in Seq(Frames)
    BY <1>1, HeadTailProperties
  <1>3. CASE RecvNothing
    BY <1>1, <1>3 DEF RecvNothing, AgentTypeOK, ackSlot, node, link
  <1>4. CASE RecvData
    <2>1. /\ Head(toAgent) \in Frames /\ Head(toAgent).type = "DATA"
          /\ toAgent' \in Seq(Frames)
      BY <1>2, <1>4 DEF RecvData, Recv, Arrives
    <2>2. Msg(Head(toAgent)) \in Messages
      BY <2>1 DEF Frames, Msg, Messages, RegisterDone, Discover, Torn
    <2>3. rosOut' \in Seq(Messages)
      BY <1>4, <2>2, AppendProperties DEF RecvData, AgentTypeOK
    <2>4. agentPc' \in {"discover", "crashed"}
      BY <1>4 DEF RecvData
    <2> QED
      BY <1>1, <1>4, <2>1, <2>3, <2>4
         DEF RecvData, Recv, AgentTypeOK, ackSlot, node
  <1>5. CASE RecvRegister
    <2>1. /\ Head(toAgent) \in Frames /\ Head(toAgent).type = "REGISTER"
          /\ toAgent' \in Seq(Frames)
      BY <1>2, <1>5 DEF RecvRegister, Recv, Arrives
    <2>2. Head(toAgent).topic \in WireTopicIds
      BY <2>1 DEF Frames, RegisterDone, Discover, Torn
    <2>3. ack' \in Frames /\ ack'.type = "ACK"
      BY <1>5, <2>2
         DEF RecvRegister, AckFrame, RegistrationStatus, AckStatus, Frames
    <2>4. newTopics' \subseteq WireTopicIds
      BY <1>5, <2>2 DEF RecvRegister, Registers, AgentTypeOK
    <2> QED
      BY <1>1, <1>5, <2>1, <2>3, <2>4 DEF RecvRegister, Recv, AgentTypeOK
  <1>6. CASE RecvRegisterDone
    <2>1. toAgent' \in Seq(Frames)
      BY <1>2, <1>6 DEF RecvRegisterDone, Recv, Arrives
    <2>2. agentPc' \in {"discover", "aborted"}
      BY <1>6 DEF RecvRegisterDone
    <2> QED
      BY <1>1, <1>6, <2>1, <2>2
         DEF RecvRegisterDone, Recv, AgentTypeOK, ackSlot
  <1>7. CASE SendDiscover
    <2>1. Torn \in Frames /\ Discover \in Frames
      BY DEF Frames
    <2>2. toClient' \in Seq(Frames)
      BY <1>1, <1>7, <2>1, SendType DEF SendDiscover
    <2> QED
      BY <1>1, <1>7, <2>2 DEF SendDiscover, AgentTypeOK, ackSlot, node
  <1>8. CASE SendQueued
    <2>1. CASE queue = <<>>
      BY <1>1, <1>8, <2>1 DEF SendQueued, AgentTypeOK, ackSlot, node
    <2>2. CASE queue # <<>>
      <3>1. /\ Head(queue) \in Frames /\ Tail(queue) \in Seq(Frames)
            /\ Len(Tail(queue)) = Len(queue) - 1
        BY <2>2, HeadTailProperties DEF AgentTypeOK
      <3>2. Send(Head(queue)) /\ queue' = Tail(queue)
        BY <1>8, <2>2 DEF SendQueued, Popped
      <3>3. toClient' \in Seq(Frames)
        BY <1>1, <3>1, <3>2, SendType
      <3>4. queue' \in Seq(Frames) /\ Len(queue') <= QueueMax
        BY <3>1, <3>2, AgentAssumption DEF AgentTypeOK
      <3>5. toAgent' \in Seq(Frames)
        BY <1>1, <1>8 DEF SendQueued
      <3> QED
        BY <1>8, <3>3, <3>4, <3>5 DEF SendQueued, AgentTypeOK, ackSlot, node
    <2> QED  BY <2>1, <2>2
  <1>9. CASE SendAck
    <2>1. toClient' \in Seq(Frames)
      BY <1>1, <1>9, SendType DEF SendAck, AgentTypeOK
    <2> QED
      BY <1>1, <1>9, <2>1 DEF SendAck, AckedLeaves, AgentTypeOK, node
  <1>10. CASE RecvTorn
    BY <1>1, <1>10, ResyncsAreWires
       DEF RecvTorn, AgentTypeOK, agentVars, ackSlot, node
  <1>11. CASE \E id \in Ids : SubscriptionCallback(id)
    <2>1. PICK id \in Ids : SubscriptionCallback(id)
      BY <1>11
    <2> DEFINE f == DataFrame(id, Len(rosIn) + 1)
    <2>2. id \in WireTopicIds /\ Len(rosIn) + 1 \in Nat
      BY TopicTableAssumption DEF Ids, AgentTypeOK
    <2>3. f \in Frames /\ Msg(f) \in Messages
      BY <2>2 DEF DataFrame, Frames, Msg, Messages
    <2>4. rosIn' \in Seq(Messages)
      BY <2>1, <2>3, AppendProperties DEF SubscriptionCallback, AgentTypeOK
    <2> HIDE DEF f
    <2>5. queue' \in Seq(Frames) /\ Len(queue') <= QueueMax
      <3> DEFINE kept == IF Len(queue) >= QueueMax THEN Tail(queue) ELSE queue
      <3>1. queue' = Append(kept, f)
        BY <2>1 DEF SubscriptionCallback, Push, f
      <3>2. queue \in Seq(Frames) /\ Len(queue) <= QueueMax /\ QueueMax \in Nat \ {0}
        BY AgentAssumption DEF AgentTypeOK
      <3>3. Len(queue) >= QueueMax => queue # <<>>
        BY <3>2
      <3>4. kept \in Seq(Frames) /\ Len(kept) < QueueMax
        BY <3>2, <3>3, HeadTailProperties
      <3> QED  BY <2>3, <3>1, <3>2, <3>4, AppendProperties
    <2> QED
      BY <1>1, <2>1, <2>4, <2>5
         DEF SubscriptionCallback, AgentTypeOK, ackSlot, node, link
  <1> QED
    BY <1>3, <1>4, <1>5, <1>6, <1>7, <1>8, <1>9, <1>10, <1>11
       DEF AgentLoop, RecvFrame

\* Every step of the board, of the agent and of the faults keeps the types.
LEMMA NextType == TypeOK /\ [Next]_vars => TypeOK'
  <1> SUFFICES ASSUME TypeOK, [Next]_vars PROVE TypeOK'
    OBVIOUS
  <1> USE DEF TypeOK
  <1>1. CASE Client
    <2>1. ClientTypeOK'
      BY <1>1, ClientStepType DEF Client
    <2> QED
      BY <1>1, <2>1 DEF Client, AgentTypeOK, agentVars, ackSlot, node, faultVars
  <1>2. CASE AgentThreads
    <2>1. AgentTypeOK' /\ toAgent' \in Seq(Frames) /\ toClient' \in Seq(Frames)
      BY <1>2, AgentStepType DEF AgentThreads
    <2> QED
      BY <1>2, <2>1
         DEF AgentThreads, ClientTypeOK, clientVars, tx, registration, faultVars
  <1>3. CASE Restart
    <2>1. restarts' \in 0 .. MaxRestarts
      BY <1>3, BoundsAssumption DEF Restart
    <2>2. toAgent' \in Seq(Frames) /\ toClient' \in Seq(Frames)
      BY <1>3, SuffixesThin, PrefixesThin
         DEF Restart, AgentRestart, Thins, ClientTypeOK
    <2>3. NoAck \in Frames /\ NoAck.type = "ACK"
      BY DEF NoAck, AckFrame, AckOk, AckStatus, WireTopicIds, Frames
    <2>4. queue' \in Seq(Frames) /\ Len(queue') <= QueueMax
      BY <1>3, AgentAssumption DEF Restart, AgentRestart
    <2>5. AgentTypeOK'
      BY <1>3, <2>3, <2>4 DEF Restart, AgentRestart, AgentTypeOK
    <2>6. ClientTypeOK'
      BY <1>3, <2>2 DEF Restart, ClientTypeOK, clientVars, tx, registration
    <2> QED  BY <1>3, <2>1, <2>5, <2>6 DEF Restart
  <1>4. CASE Reset
    <2>1. resets' \in 0 .. MaxResets
      BY <1>4, BoundsAssumption DEF Reset
    <2>2. toAgent' \in Seq(Frames) /\ toClient' \in Seq(Frames)
      BY <1>4, SuffixesThin, FramesAreFrames, AppendProperties
         DEF Reset, ClientReset, Thins, ClientTypeOK
    <2>3. txFrame' \in Frames /\ bytesSent' \in 0 .. FrameLen
      BY <1>4, FramesAreFrames, ClientAssumption DEF Reset, ClientReset
    <2>4. /\ txState' \in {"IDLE", "SENDING_FRAME"}
          /\ regIdx' \in 0 .. 255
      BY <1>4 DEF Reset, ClientReset
    <2>5. /\ isRegistration' \in BOOLEAN /\ sendingRegDone' \in BOOLEAN
          /\ awaitingAck' \in BOOLEAN /\ registrationComplete' \in BOOLEAN
          /\ clientFault' \in BOOLEAN
      BY <1>4 DEF Reset, ClientReset
    <2>6. accepted' \in Seq(Messages) /\ received' \in Seq(Messages)
      BY <1>4 DEF Reset, ClientReset, ClientTypeOK
    <2>7. ClientTypeOK'
      BY <2>2, <2>3, <2>4, <2>5, <2>6 DEF ClientTypeOK
    <2>8. AgentTypeOK'
      BY <1>4 DEF Reset, AgentTypeOK, agentVars, ackSlot, node
    <2> QED  BY <1>4, <2>1, <2>7, <2>8 DEF Reset
  <1>5. CASE Corrupt
    <2>1. corruptions' \in 0 .. MaxCorrupt
      BY <1>5, BoundsAssumption DEF Corrupt
    <2>2. toAgent' \in Seq(Frames) /\ toClient' \in Seq(Frames)
      BY <1>5, CorruptedThins DEF Corrupt, Thins, ClientTypeOK
    <2> QED
      BY <1>5, <2>1, <2>2
         DEF Corrupt, ClientTypeOK, AgentTypeOK, clientVars, tx, registration,
             agentVars, ackSlot, node
  <1>6. CASE UNCHANGED vars
    BY <1>6 DEF vars, link, ClientTypeOK, AgentTypeOK, clientVars, tx,
                registration, agentVars, ackSlot, node, faultVars
  <1> QED  BY <1>1, <1>2, <1>3, <1>4, <1>5, <1>6 DEF Next, Faults

\* The session keeps its types through every fault, and the queue its limit.
THEOREM TypeCorrect == Spec => []TypeOK
  BY InitType, NextType, PTL DEF Spec

-----------------------------------------------------------------------------
(* Both directions are flows, whatever the faults                          *)

\* The frame tx.buffer still has to write.
InHand == IF txState = "SENDING_FRAME" THEN <<txFrame>> ELSE <<>>

Upward   == toAgent \o InHand
Downward == toClient \o queue

FlowInv ==
    /\ Flow(rosOut, Upward, accepted)
    /\ Flow(received, Downward, rosIn)
    /\ \A i \in DOMAIN rosIn : rosIn[i].topic \in SubscriberIds
    /\ NoNullCallback

\* The types of the parts.
LEMMA PartsType ==
    ASSUME TypeOK
    PROVE  /\ toAgent \in Seq(Frames) /\ InHand \in Seq(Frames)
           /\ toClient \in Seq(Frames) /\ queue \in Seq(Frames)
           /\ Upward \in Seq(Frames) /\ Downward \in Seq(Frames)
           /\ rosOut \in Seq(Messages) /\ accepted \in Seq(Messages)
           /\ received \in Seq(Messages) /\ rosIn \in Seq(Messages)
  BY ConcatProperties
     DEF TypeOK, ClientTypeOK, AgentTypeOK, InHand, Upward, Downward

\* Thinning the parts thins the whole.
LEMMA UpwardThins ==
    ASSUME TypeOK, Thins(toAgent', toAgent), Thins(InHand', InHand)
    PROVE  Thins(Upward', Upward)
  BY PartsType, ThinsJoin DEF Upward

\* The way from ROS to the board's callbacks is thinned part by part.
LEMMA DownwardThins ==
    ASSUME TypeOK, Thins(toClient', toClient), Thins(queue', queue)
    PROVE  Thins(Downward', Downward)
  BY PartsType, ThinsJoin DEF Downward

\* Putting a frame without data on a line.
LEMMA PutThins ==
    ASSUME NEW w \in Seq(Frames), NEW g \in Frames, ~IsData(g)
    PROVE  Thins(Append(w, g), w)
  <1>1. Append(w, g) = w \o <<g>> /\ w \o <<>> = w /\ <<>> \in Seq(Frames)
    BY AppendIsConcat, ConcatEmptySeq
  <1>2. Thins(w, w) /\ Thins(<<g>>, <<>>)
    BY ThinsItself, NoDataThins
  <1>3. Thins(w \o <<g>>, w \o <<>>)
    BY <1>1, <1>2, ThinsJoin
  <1> QED  BY <1>1, <1>3

\* A frame of another kind in tx.buffer, over whatever was there.
LEMMA StartThins ==
    ASSUME TypeOK, NEW f \in Frames, ~IsData(f), StartFrame(f)
    PROVE  Thins(Upward', Upward)
  <1>1. Thins(toAgent', toAgent)
    <2>1. Torn \in Frames /\ ~IsData(Torn)
      BY DEF Frames, IsData, Torn
    <2> QED  BY <2>1, PartsType, PutThins, ThinsItself DEF StartFrame
  <1>2. InHand' = <<f>>
    BY DEF StartFrame, InHand
  <1>3. Thins(InHand', InHand)
    BY <1>2, NoDataThins
  <1> QED  BY <1>1, <1>3, UpwardThins

\* Loading a REGISTER or REGISTER_DONE takes nothing but what it overwrites.
LEMMA LoadNextThins ==
    ASSUME TypeOK, NEW idx \in Nat, NEW done \in BOOLEAN, NEW waiting,
           done \/ idx \in TopicIdx,
           LoadNextRegistrationFrame(idx, done, waiting)
    PROVE  Thins(Upward', Upward)
  <1>1. CASE StartFrame(RegisterDone)
    <2>1. ~IsData(RegisterDone)
      BY DEF IsData, RegisterDone
    <2> QED  BY <1>1, <2>1, StartThins, FramesAreFrames
  <1>2. CASE UNCHANGED <<tx, toAgent>>
    <2>1. Upward' = Upward
      BY <1>2 DEF Upward, InHand, tx
    <2> QED  BY <2>1, PartsType, ThinsItself
  <1>3. CASE ~done /\ StartFrame(RegisterFrame(idx))
    <2>1. RegisterFrame(idx) \in Frames /\ ~IsData(RegisterFrame(idx))
      BY <1>3, FramesAreFrames DEF IsData, RegisterFrame
    <2> QED  BY <1>3, <2>1, StartThins
  <1> QED  BY <1>1, <1>2, <1>3 DEF LoadNextRegistrationFrame

\* The line to the board loses its first frame to the parser.
LEMMA ReceivesThins ==
    ASSUME TypeOK, NEW type, Receives(type)
    PROVE  Thins(toClient', toClient)
  BY PartsType, TailThins DEF Receives, Arrives

\* Whatever becomes of a frame without data.
LEMMA SendThins ==
    ASSUME TypeOK, NEW f \in Frames, ~IsData(f), Send(f)
    PROVE  Thins(toClient', toClient)
  <1>1. Torn \in Frames /\ ~IsData(Torn)
    BY DEF Frames, IsData, Torn
  <1> QED  BY <1>1, PartsType, PutThins, ThinsItself DEF Send

\* The first frame of two lines after each other.
LEMMA FirstOfTwo ==
    ASSUME NEW w1 \in Seq(Frames), w1 # <<>>, NEW w2 \in Seq(Frames)
    PROVE  /\ w1 \o w2 # <<>>
           /\ Head(w1 \o w2) = Head(w1)
           /\ Tail(w1 \o w2) = Tail(w1) \o w2
  <1>1. Len(w1) \in Nat \ {0}
    BY EmptySeq
  <1>2. /\ w1 \o w2 \in Seq(Frames) /\ Len(w1 \o w2) = Len(w1) + Len(w2)
        /\ \A i \in 1 .. Len(w1) + Len(w2) :
             (w1 \o w2)[i] = IF i <= Len(w1) THEN w1[i] ELSE w2[i - Len(w1)]
    BY ConcatProperties
  <1>3. w1 \o w2 # <<>> /\ Head(w1 \o w2) = Head(w1)
    BY <1>1, <1>2
  <1>4. /\ Tail(w1) \in Seq(Frames) /\ Len(Tail(w1)) = Len(w1) - 1
        /\ \A i \in 1 .. Len(Tail(w1)) : Tail(w1)[i] = w1[i + 1]
    BY HeadTailProperties
  <1>5. /\ Tail(w1) \o w2 \in Seq(Frames)
        /\ Len(Tail(w1) \o w2) = Len(w1) - 1 + Len(w2)
        /\ \A i \in 1 .. Len(w1) - 1 + Len(w2) :
             (Tail(w1) \o w2)[i] =
               IF i <= Len(w1) - 1 THEN Tail(w1)[i] ELSE w2[i - (Len(w1) - 1)]
    BY <1>4, ConcatProperties
  <1>6. /\ Tail(w1 \o w2) \in Seq(Frames)
        /\ Len(Tail(w1 \o w2)) = Len(w1) + Len(w2) - 1
        /\ \A i \in 1 .. Len(w1) + Len(w2) - 1 :
             Tail(w1 \o w2)[i] = (w1 \o w2)[i + 1]
    BY <1>2, <1>3, HeadTailProperties
  <1>7. ASSUME NEW i \in 1 .. Len(w1) + Len(w2) - 1
        PROVE  Tail(w1 \o w2)[i] = (Tail(w1) \o w2)[i]
    <2>1. CASE i + 1 <= Len(w1)
      BY <1>1, <1>2, <1>4, <1>5, <1>6, <2>1
    <2>2. CASE i + 1 > Len(w1)
      BY <1>1, <1>2, <1>4, <1>5, <1>6, <2>2
    <2> QED  BY <1>1, <2>1, <2>2
  <1>8. Tail(w1 \o w2) = Tail(w1) \o w2
    BY <1>5, <1>6, <1>7, SeqEqual
  <1> QED  BY <1>3, <1>8

-----------------------------------------------------------------------------
(* The steps of a flow                                                     *)

FlowStep(sink, w, source, sink2, w2, source2) ==
    \/ Thins(w2, w) /\ sink2 = sink /\ source2 = source
    \/ \E f \in Frames, v \in Seq(Frames) :
         /\ IsData(f) /\ f.body = Len(source) + 1
         /\ Thins(v, w)
         /\ w2 = Append(v, f) /\ source2 = Append(source, Msg(f))
         /\ sink2 = sink
    \/ /\ w # <<>> /\ IsData(Head(w))
       /\ w2 = Tail(w) /\ sink2 = Append(sink, Msg(Head(w)))
       /\ source2 = source

\* A flow stays one.
LEMMA FlowSteps ==
    ASSUME NEW sink \in Seq(Messages), NEW w \in Seq(Frames),
           NEW source \in Seq(Messages), Flow(sink, w, source),
           NEW sink2, NEW w2, NEW source2,
           FlowStep(sink, w, source, sink2, w2, source2)
    PROVE  Flow(sink2, w2, source2)
  <1>1. CASE Thins(w2, w) /\ sink2 = sink /\ source2 = source
    BY <1>1, FlowThins
  <1>2. ASSUME NEW f \in Frames, NEW v \in Seq(Frames),
               IsData(f), f.body = Len(source) + 1, Thins(v, w),
               w2 = Append(v, f), source2 = Append(source, Msg(f)),
               sink2 = sink
        PROVE  Flow(sink2, w2, source2)
    <2>1. Flow(sink, v, source)
      BY <1>2, FlowThins
    <2> QED  BY <1>2, <2>1, FlowPuts
  <1>3. CASE /\ w # <<>> /\ IsData(Head(w))
             /\ w2 = Tail(w) /\ sink2 = Append(sink, Msg(Head(w)))
             /\ source2 = source
    BY <1>3, FlowTakes
  <1> QED  BY <1>1, <1>2, <1>3 DEF FlowStep

\* On the way from nros_publish to ROS.
LEMMA UpwardStep ==
    ASSUME TypeOK, [Next]_vars
    PROVE  FlowStep(rosOut, Upward, accepted, rosOut', Upward', accepted')
  <1>1. ASSUME Thins(Upward', Upward), UNCHANGED <<rosOut, accepted>>
        PROVE  FlowStep(rosOut, Upward, accepted, rosOut', Upward', accepted')
    BY <1>1 DEF FlowStep
  <1>2. ASSUME UNCHANGED <<toAgent, tx>> PROVE Thins(Upward', Upward)
    <2>1. Upward' = Upward
      BY <1>2 DEF Upward, InHand, tx
    <2> QED  BY <2>1, PartsType, ThinsItself
  <1>3. ASSUME UNCHANGED tx, Thins(toAgent', toAgent)
        PROVE  Thins(Upward', Upward)
    <2>1. InHand' = InHand
      BY <1>3 DEF InHand, tx
    <2>2. Thins(InHand', InHand)
      BY <2>1, PartsType, ThinsItself
    <2> QED  BY <1>3, <2>2, UpwardThins
  <1>4. CASE Client
    <2>1. UNCHANGED rosOut
      BY <1>4 DEF Client, agentVars
    <2>2. CASE RxData \/ RxAckIgnored \/ RxIgnored \/ RxTorn
      <3>1. UNCHANGED <<toAgent, tx, accepted>>
        BY <2>2 DEF RxData, RxAckIgnored, RxIgnored, RxTorn, clientVars
      <3> QED  BY <1>1, <1>2, <2>1, <3>1
    <2>3. CASE RxAckAdvances
      <3>1. regIdx' \in 0 .. 255 /\ sendingRegDone' \in BOOLEAN
        BY <2>3 DEF RxAckAdvances, TypeOK, ClientTypeOK
      <3>2. sendingRegDone' \/ regIdx' \in TopicIdx
        <4>1. CASE regIdx' >= TopicCount
          BY <2>3, <4>1 DEF RxAckAdvances, RegistersUpTo
        <4>2. CASE ~(regIdx' >= TopicCount)
          BY <3>1, <4>2, TopicTableAssumption DEF TopicIdx
        <4> QED  BY <4>1, <4>2
      <3>3. LoadNextRegistrationFrame(regIdx', sendingRegDone', FALSE)
        BY <2>3 DEF RxAckAdvances
      <3>4. Thins(Upward', Upward)
        <4>1. regIdx' \in Nat
          BY <3>1
        <4> QED  BY <3>1, <3>2, <3>3, <4>1, LoadNextThins
      <3> QED  BY <1>1, <2>1, <2>3, <3>4 DEF RxAckAdvances
    <2>4. CASE RxDiscover
      <3>1. UNCHANGED accepted
        BY <2>4 DEF RxDiscover
      <3>2. CASE txState = "IDLE"
        <4>1. LoadNextRegistrationFrame(0, FALSE, awaitingAck)
          BY <2>4, <3>2 DEF RxDiscover
        <4>2. 0 \in TopicIdx
          BY TopicTableAssumption DEF TopicIdx
        <4>3. Thins(Upward', Upward)
          BY <4>1, <4>2, LoadNextThins
        <4> QED  BY <1>1, <2>1, <3>1, <4>3
      <3>3. CASE txState # "IDLE"
        BY <1>1, <1>2, <2>1, <2>4, <3>1, <3>3 DEF RxDiscover
      <3> QED  BY <3>2, <3>3
    <2>5. CASE TxPoll
      <3>1. UNCHANGED <<accepted, txFrame>> /\ txState = "SENDING_FRAME"
        BY <2>5 DEF TxPoll
      <3>2. Upward' = Upward
        <4>1. CASE bytesSent' < FrameLen
          BY <2>5, <3>1, <4>1 DEF TxPoll, Upward, InHand
        <4>2. CASE ~(bytesSent' < FrameLen)
          <5>1. InHand = <<txFrame>> /\ InHand' = <<>>
            BY <2>5, <3>1, <4>2 DEF TxPoll, TxFrameComplete, InHand
          <5>2. toAgent' = Append(toAgent, txFrame)
            BY <2>5, <4>2 DEF TxPoll
          <5>3. txFrame \in Frames
            BY DEF TypeOK, ClientTypeOK
          <5>4. toAgent' = toAgent \o <<txFrame>> /\ toAgent' \in Seq(Frames)
            BY <5>2, <5>3, PartsType, AppendIsConcat, AppendProperties
          <5> QED  BY <5>1, <5>4, ConcatEmptySeq DEF Upward
        <4> QED  BY <4>1, <4>2
      <3>3. Thins(Upward', Upward)
        BY <3>2, PartsType, ThinsItself
      <3> QED  BY <1>1, <2>1, <3>1, <3>3
    <2>6. CASE \E id \in PublisherIds : Publish(id)
      <3>1. PICK id \in PublisherIds : Publish(id)
        BY <2>6
      <3> DEFINE f == DataFrame(id, Len(accepted) + 1)
      <3>2. id \in Ids /\ Len(accepted) + 1 \in Nat
        BY PartsType DEF PublisherIds
      <3>3. f \in Frames /\ IsData(f) /\ f.body = Len(accepted) + 1
        BY <3>2, FramesAreFrames DEF IsData, DataFrame
      <3>4. txState = "IDLE" /\ StartFrame(f)
        BY <3>1 DEF Publish, MayPublish, LoadData
      <3>5. accepted' = Append(accepted, Msg(f))
        BY <3>1 DEF Publish
      <3> HIDE DEF f
      <3>6. InHand = <<>> /\ InHand' = <<f>> /\ UNCHANGED toAgent
        BY <3>4 DEF StartFrame, MidFrame, InHand
      <3>7. Upward' = Append(Upward, f)
        BY <3>3, <3>6, PartsType, AppendIsConcat, ConcatEmptySeq DEF Upward
      <3>8. Thins(Upward, Upward)
        BY PartsType, ThinsItself
      <3> QED  BY <2>1, <3>3, <3>5, <3>7, <3>8, PartsType DEF FlowStep
    <2> QED
      BY <1>4, <2>2, <2>3, <2>4, <2>5, <2>6 DEF Client, RxPoll
  <1>5. CASE AgentThreads
    <2>1. UNCHANGED <<accepted, tx>>
      BY <1>5 DEF AgentThreads, clientVars
    <2>2. CASE RecvFrame
      <3>1. toAgent # <<>> /\ toAgent' = Tail(toAgent)
        BY <2>2 DEF RecvFrame, RecvData, RecvRegister, RecvRegisterDone, Recv,
                    Arrives
      <3>2. Thins(Upward', Upward)
        BY <1>3, <2>1, <3>1, PartsType, TailThins
      <3>3. CASE UNCHANGED rosOut
        BY <1>1, <2>1, <3>2, <3>3
      <3>4. CASE ~UNCHANGED rosOut
        <4>1. RecvData
          BY <2>2, <3>4 DEF RecvFrame, RecvRegister, RecvRegisterDone
        <4>2. /\ Head(toAgent).type = "DATA"
              /\ rosOut' = Append(rosOut, Msg(Head(toAgent)))
          BY <3>4, <4>1 DEF RecvData, Recv, Arrives
        <4>3. InHand' = InHand
          BY <2>1 DEF InHand, tx
        <4>4. /\ Upward # <<>> /\ Head(Upward) = Head(toAgent)
              /\ Upward' = Tail(Upward)
          BY <3>1, <4>3, PartsType, FirstOfTwo DEF Upward
        <4> QED  BY <2>1, <4>2, <4>4 DEF FlowStep, IsData
      <3> QED  BY <3>3, <3>4
    <2>3. CASE RecvTorn
      <3>1. Thins(toAgent', toAgent) /\ UNCHANGED rosOut
        BY <2>3, PartsType, ResyncsThin DEF RecvTorn, agentVars
      <3> QED  BY <1>1, <1>3, <2>1, <3>1
    <2>4. CASE \/ RecvNothing \/ SendDiscover \/ SendQueued \/ SendAck
               \/ \E id \in Ids : SubscriptionCallback(id)
      <3>1. UNCHANGED <<toAgent, rosOut>>
        BY <2>4 DEF RecvNothing, SendDiscover, SendQueued, SendAck,
                    SubscriptionCallback, link
      <3> QED  BY <1>1, <1>2, <2>1, <3>1
    <2> QED  BY <1>5, <2>2, <2>3, <2>4 DEF AgentThreads, AgentLoop
  <1>6. CASE Restart
    <2>1. UNCHANGED <<rosOut, accepted, tx>> /\ Thins(toAgent', toAgent)
      BY <1>6, PartsType, SuffixesThin DEF Restart, AgentRestart, clientVars
    <2> QED  BY <1>1, <1>3, <2>1
  <1>7. CASE Reset
    <2>1. UNCHANGED <<rosOut, accepted>>
      BY <1>7 DEF Reset, ClientReset, agentVars
    <2>2. Thins(toAgent', toAgent)
      <3>1. Torn \in Frames /\ ~IsData(Torn)
        BY DEF Frames, IsData, Torn
      <3> QED
        BY <1>7, <3>1, PartsType, PutThins, ThinsItself DEF Reset, ClientReset
    <2>3. InHand' = <<>>
      BY <1>7 DEF Reset, ClientReset, InHand
    <2>4. Thins(InHand', InHand)
      BY <2>3, NothingThins
    <2> QED  BY <1>1, <2>1, <2>2, <2>4, UpwardThins
  <1>8. CASE Corrupt
    <2>1. UNCHANGED <<rosOut, accepted, tx>>
      BY <1>8 DEF Corrupt, clientVars, agentVars
    <2>2. Thins(toAgent', toAgent)
      BY <1>8, PartsType, CorruptedThins, ThinsItself DEF Corrupt
    <2> QED  BY <1>1, <1>3, <2>1, <2>2
  <1>9. CASE UNCHANGED vars
    <2>1. UNCHANGED <<toAgent, tx, rosOut, accepted>>
      BY <1>9 DEF vars, link, clientVars, agentVars
    <2> QED  BY <1>1, <1>2, <2>1
  <1> QED  BY <1>4, <1>5, <1>6, <1>7, <1>8, <1>9 DEF Next, Faults

\* Concatenation of frames is associative.
LEMMA Regroup ==
    ASSUME NEW a \in Seq(Frames), NEW b \in Seq(Frames), NEW c \in Seq(Frames)
    PROVE  (a \o b) \o c = a \o (b \o c)
  BY ConcatAssociative

\* The DATA frame the board reads is for a callback.
LEMMA DataHasCallback ==
    ASSUME TypeOK, FlowInv, Arrives(toClient, "DATA")
    PROVE  Head(toClient).topic \in SubscriberIds
  <1>1. /\ toClient # <<>> /\ Downward # <<>>
        /\ Head(Downward) = Head(toClient) /\ Downward \in Seq(Frames)
    BY PartsType, FirstOfTwo DEF Downward, Arrives
  <1>2. 1 \in DOMAIN Downward /\ Downward[1] = Head(toClient)
    BY <1>1
  <1>3. IsData(Downward[1])
    BY <1>2 DEF IsData, Arrives
  <1>4. /\ Downward[1].body \in DOMAIN rosIn
        /\ Msg(Downward[1]) = rosIn[Downward[1].body]
    BY <1>2, <1>3 DEF FlowInv, Flow
  <1>5. Msg(Downward[1]).topic \in SubscriberIds
    BY <1>4 DEF FlowInv
  <1> QED  BY <1>2, <1>5 DEF Msg

\* On the way from ROS to the callbacks of the board.
LEMMA DownwardStep ==
    ASSUME TypeOK, FlowInv, [Next]_vars
    PROVE  FlowStep(received, Downward, rosIn, received', Downward', rosIn')
  <1>1. ASSUME Thins(Downward', Downward), UNCHANGED <<received, rosIn>>
        PROVE  FlowStep(received, Downward, rosIn,
                        received', Downward', rosIn')
    BY <1>1 DEF FlowStep
  <1>2. ASSUME UNCHANGED <<toClient, queue>> PROVE Thins(Downward', Downward)
    <2>1. Downward' = Downward
      BY <1>2 DEF Downward
    <2> QED  BY <2>1, PartsType, ThinsItself
  <1>3. ASSUME UNCHANGED queue, Thins(toClient', toClient)
        PROVE  Thins(Downward', Downward)
    BY <1>3, PartsType, ThinsItself, DownwardThins
  <1>4. CASE Client
    <2>1. UNCHANGED <<queue, rosIn>>
      BY <1>4 DEF Client, agentVars
    <2>2. CASE RxData
      <3>1. /\ toClient # <<>> /\ Head(toClient).type = "DATA"
            /\ toClient' = Tail(toClient)
        BY <2>2 DEF RxData, Receives, Arrives
      <3>2. Head(toClient).topic \in SubscriberIds
        BY <2>2, DataHasCallback DEF RxData, Receives
      <3>3. received' = Append(received, Msg(Head(toClient)))
        BY <2>2, <3>2 DEF RxData
      <3>4. /\ Downward # <<>> /\ Head(Downward) = Head(toClient)
            /\ Downward' = Tail(Downward)
        BY <2>1, <3>1, PartsType, FirstOfTwo DEF Downward
      <3> QED  BY <2>1, <3>1, <3>3, <3>4 DEF FlowStep, IsData
    <2>3. CASE RxAckIgnored \/ RxAckAdvances \/ RxDiscover \/ RxIgnored
      <3>1. Thins(toClient', toClient)
        BY <2>3, ReceivesThins
           DEF RxAckIgnored, RxAckAdvances, RxDiscover, RxIgnored
      <3>2. UNCHANGED received
        BY <2>3 DEF RxAckIgnored, RxAckAdvances, RxDiscover, RxIgnored,
                    clientVars
      <3> QED  BY <1>1, <1>3, <2>1, <3>1, <3>2
    <2>4. CASE RxTorn
      <3>1. Thins(toClient', toClient) /\ UNCHANGED received
        BY <2>4, PartsType, ResyncsThin DEF RxTorn, clientVars
      <3> QED  BY <1>1, <1>3, <2>1, <3>1
    <2>5. CASE TxPoll \/ \E id \in PublisherIds : Publish(id)
      <3>1. UNCHANGED <<toClient, received>>
        BY <2>5 DEF TxPoll, Publish
      <3> QED  BY <1>1, <1>2, <2>1, <3>1
    <2> QED  BY <1>4, <2>2, <2>3, <2>4, <2>5 DEF Client, RxPoll
  <1>5. CASE AgentThreads
    <2>1. UNCHANGED received
      BY <1>5 DEF AgentThreads, clientVars
    <2>2. CASE RecvNothing \/ RecvFrame \/ RecvTorn
      <3>1. UNCHANGED <<toClient, queue, rosIn>>
        BY <2>2 DEF RecvNothing, RecvFrame, RecvData, RecvRegister,
                    RecvRegisterDone, RecvTorn, Recv, agentVars, link
      <3> QED  BY <1>1, <1>2, <2>1, <3>1
    <2>3. CASE SendDiscover
      <3>1. UNCHANGED <<queue, rosIn>>
        BY <2>3 DEF SendDiscover
      <3>2. CASE UNCHANGED toClient
        BY <1>1, <1>2, <2>1, <3>1, <3>2
      <3>3. CASE Send(Torn) \/ Send(Discover)
        <4>1. /\ Torn \in Frames /\ Discover \in Frames
              /\ ~IsData(Torn) /\ ~IsData(Discover)
          BY DEF Frames, IsData, Torn, Discover
        <4> QED  BY <1>1, <1>3, <2>1, <3>1, <3>3, <4>1, SendThins
      <3> QED  BY <2>3, <3>2, <3>3 DEF SendDiscover
    <2>4. CASE SendAck
      <3>1. UNCHANGED <<queue, rosIn>>
        BY <2>4 DEF SendAck
      <3>2. CASE UNCHANGED toClient
        BY <1>1, <1>2, <2>1, <3>1, <3>2
      <3>3. CASE Send(ack)
        <4>1. ack \in Frames /\ ~IsData(ack)
          BY DEF TypeOK, AgentTypeOK, IsData
        <4> QED  BY <1>1, <1>3, <2>1, <3>1, <3>3, <4>1, SendThins
      <3> QED  BY <2>4, <3>2, <3>3 DEF SendAck
    <2>5. CASE SendQueued
      <3>1. UNCHANGED rosIn
        BY <2>5 DEF SendQueued
      <3>2. CASE queue = <<>>
        BY <1>1, <1>2, <2>1, <2>5, <3>1, <3>2 DEF SendQueued
      <3>3. CASE queue # <<>>
        <4>1. Send(Head(queue)) /\ queue' = Tail(queue)
          BY <2>5, <3>3 DEF SendQueued, Popped
        <4>2. /\ Head(queue) \in Frames /\ Tail(queue) \in Seq(Frames)
              /\ Thins(queue', queue)
          BY <3>3, <4>1, PartsType, HeadTailProperties, TailThins
        <4>3. CASE toClient' = Append(toClient, Head(queue))
          <5> DEFINE h == <<Head(queue)>>
          <5>1. h \in Seq(Frames) /\ toClient' = toClient \o h
            BY <4>2, <4>3, PartsType, AppendIsConcat
          <5>2. h \o Tail(queue) = queue
            BY <3>3, PartsType
          <5> HIDE DEF h
          <5>3. (toClient \o h) \o Tail(queue) = toClient \o (h \o Tail(queue))
            <6>1. toClient \in Seq(Frames)
              BY PartsType
            <6> QED  BY <4>2, <5>1, <6>1, Regroup, Zenon
          <5>4. Downward' = Downward
            BY <4>1, <5>1, <5>2, <5>3 DEF Downward
          <5>5. Thins(Downward', Downward)
            BY <5>4, PartsType, ThinsItself
          <5> QED  BY <1>1, <2>1, <3>1, <5>5
        <4>4. CASE toClient' \in {toClient, Append(toClient, Torn)}
          <5>1. Torn \in Frames /\ ~IsData(Torn)
            BY DEF Frames, IsData, Torn
          <5>2. Thins(toClient', toClient)
            BY <4>4, <5>1, PartsType, PutThins, ThinsItself
          <5> QED  BY <1>1, <2>1, <3>1, <4>2, <5>2, DownwardThins
        <4> QED  BY <4>1, <4>3, <4>4 DEF Send
      <3> QED  BY <3>2, <3>3
    <2>6. CASE \E id \in Ids : SubscriptionCallback(id)
      <3>1. PICK id \in Ids : SubscriptionCallback(id)
        BY <2>6
      <3> DEFINE f == DataFrame(id, Len(rosIn) + 1)
                 q == IF Len(queue) >= QueueMax THEN Tail(queue) ELSE queue
      <3>2. f \in Frames /\ IsData(f) /\ f.body = Len(rosIn) + 1
        BY PartsType, FramesAreFrames DEF IsData, DataFrame
      <3>3. queue' = Append(q, f) /\ rosIn' = Append(rosIn, Msg(f))
        BY <3>1 DEF SubscriptionCallback, Push
      <3>4. q \in Seq(Frames) /\ Thins(q, queue)
        <4>1. CASE Len(queue) >= QueueMax
          <5>1. queue # <<>>
            BY <4>1, AgentAssumption
          <5> QED  BY <4>1, <5>1, PartsType, TailThins, HeadTailProperties
        <4>2. CASE ~(Len(queue) >= QueueMax)
          BY <4>2, PartsType, ThinsItself
        <4> QED  BY <4>1, <4>2
      <3>5. UNCHANGED toClient
        BY <3>1 DEF SubscriptionCallback, link
      <3> HIDE DEF f, q
      <3> DEFINE v == toClient \o q
      <3>6. v \in Seq(Frames) /\ Thins(v, Downward)
        BY <3>4, PartsType, ThinsItself, ThinsJoin, ConcatProperties
           DEF Downward
      <3>7. Downward' = Append(v, f)
        <4>1. queue' = q \o <<f>> /\ <<f>> \in Seq(Frames)
          BY <3>2, <3>3, <3>4, AppendIsConcat
        <4>2. (toClient \o q) \o <<f>> = toClient \o (q \o <<f>>)
          <5>1. toClient \in Seq(Frames)
            BY PartsType
          <5> QED  BY <3>4, <4>1, <5>1, Regroup, Zenon
        <4>3. Append(v, f) = v \o <<f>>
          BY <3>2, <3>6, AppendIsConcat
        <4> QED  BY <3>5, <4>1, <4>2, <4>3 DEF Downward
      <3> HIDE DEF v
      <3> QED  BY <2>1, <3>2, <3>3, <3>6, <3>7 DEF FlowStep
    <2> QED
      BY <1>5, <2>2, <2>3, <2>4, <2>5, <2>6 DEF AgentThreads, AgentLoop
  <1>6. CASE Restart
    <2>1. UNCHANGED <<received, rosIn>> /\ Thins(toClient', toClient)
      BY <1>6, PartsType, PrefixesThin DEF Restart, AgentRestart, clientVars
    <2>2. Thins(queue', queue)
      BY <1>6, NothingThins DEF Restart, AgentRestart
    <2> QED  BY <1>1, <2>1, <2>2, DownwardThins
  <1>7. CASE Reset
    <2>1. UNCHANGED <<received, rosIn, queue>> /\ Thins(toClient', toClient)
      BY <1>7, PartsType, SuffixesThin DEF Reset, ClientReset, agentVars
    <2> QED  BY <1>1, <1>3, <2>1
  <1>8. CASE Corrupt
    <2>1. UNCHANGED <<received, rosIn, queue>>
      BY <1>8 DEF Corrupt, clientVars, agentVars
    <2>2. Thins(toClient', toClient)
      BY <1>8, PartsType, CorruptedThins, ThinsItself DEF Corrupt
    <2> QED  BY <1>1, <1>3, <2>1, <2>2
  <1>9. CASE UNCHANGED vars
    <2>1. UNCHANGED <<toClient, queue, received, rosIn>>
      BY <1>9 DEF vars, link, clientVars, agentVars
    <2> QED  BY <1>1, <1>2, <2>1
  <1> QED  BY <1>4, <1>5, <1>6, <1>7, <1>8, <1>9 DEF Next, Faults

\* The flows at the start.
LEMMA InitFlow == Init => FlowInv
  <1> SUFFICES ASSUME Init PROVE FlowInv
    OBVIOUS
  <1>1. Upward = <<>> /\ Downward = <<>>
    BY DEF Init, LinkInit, ClientInit, ClientStart, AgentInit, Upward,
           Downward, InHand
  <1>2. \A i \in DOMAIN <<>> : FALSE
    OBVIOUS
  <1>3. Flow(<<>>, <<>>, <<>>)
    BY <1>2 DEF Flow, Increasing
  <1>4. rosOut = <<>> /\ accepted = <<>> /\ received = <<>> /\ rosIn = <<>>
    BY DEF Init, ClientInit, AgentInit
  <1>5. NoNullCallback
    BY DEF Init, ClientInit, ClientStart, NoNullCallback
  <1> QED  BY <1>1, <1>2, <1>3, <1>4, <1>5 DEF FlowInv

\* Only topics of the board that it subscribes to are listened to, and every
\* DATA frame finds its callback.
LEMMA NextFlow == TypeOK /\ FlowInv /\ [Next]_vars => FlowInv'
  <1> SUFFICES ASSUME TypeOK, FlowInv, [Next]_vars PROVE FlowInv'
    OBVIOUS
  <1>1. Flow(rosOut, Upward, accepted)'
    BY PartsType, UpwardStep, FlowSteps DEF FlowInv
  <1>2. Flow(received, Downward, rosIn)'
    BY PartsType, DownwardStep, FlowSteps DEF FlowInv
  <1>3. \A i \in DOMAIN rosIn' : rosIn'[i].topic \in SubscriberIds
    <2>1. CASE UNCHANGED rosIn
      BY <2>1 DEF FlowInv
    <2>2. CASE \E id \in Ids : SubscriptionCallback(id)
      <3>1. PICK id \in Ids : SubscriptionCallback(id)
        BY <2>2
      <3> DEFINE m == Msg(DataFrame(id, Len(rosIn) + 1))
      <3>2. rosIn' = Append(rosIn, m) /\ ~IsPublisher(id)
        BY <3>1 DEF SubscriptionCallback, Subscribed
      <3>3. m \in Messages /\ m.topic \in SubscriberIds
        BY <3>2, PartsType, TopicTableAssumption
           DEF Msg, DataFrame, Messages, Ids, SubscriberIds
      <3> HIDE DEF m
      <3>4. /\ DOMAIN rosIn' = 1 .. Len(rosIn) + 1
            /\ \A i \in DOMAIN rosIn : rosIn'[i] = rosIn[i]
            /\ rosIn'[Len(rosIn) + 1] = m
        BY <3>2, <3>3, PartsType, AppendProperties
      <3>5. \A i \in DOMAIN rosIn' : i \in DOMAIN rosIn \/ i = Len(rosIn) + 1
        <4>1. rosIn \in Seq(Messages)
          BY PartsType
        <4>2. DOMAIN rosIn = 1 .. Len(rosIn) /\ Len(rosIn) \in Nat
          BY <4>1
        <4> QED  BY <3>4, <4>2
      <3> QED  BY <3>3, <3>4, <3>5 DEF FlowInv
    <2> QED
      BY <2>1, <2>2
         DEF Next, Client, AgentThreads, Faults, Restart, Reset, Corrupt,
             AgentLoop, RecvNothing, RecvFrame, RecvData, RecvRegister,
             RecvRegisterDone, RecvTorn, SendDiscover, SendQueued, SendAck,
             AgentRestart, agentVars, vars
  <1>4. NoNullCallback'
    <2>1. CASE UNCHANGED clientFault \/ clientFault' = FALSE
      BY <2>1 DEF FlowInv, NoNullCallback
    <2>2. CASE RxData
      BY <2>2, DataHasCallback DEF RxData, Receives, FlowInv, NoNullCallback
    <2> QED
      BY <2>1, <2>2
         DEF Next, Client, AgentThreads, Faults, Restart, Reset, Corrupt,
             RxPoll, RxAckIgnored, RxAckAdvances, RxDiscover, RxIgnored, RxTorn,
             TxPoll, Publish, ClientReset, clientVars, vars
  <1> QED  BY <1>1, <1>2, <1>3, <1>4 DEF FlowInv

\* The flows hold in every reachable state.
THEOREM FlowsHold == Spec => [](TypeOK /\ FlowInv)
  <1>1. Init => TypeOK /\ FlowInv
    BY InitType, InitFlow
  <1>2. (TypeOK /\ FlowInv) /\ [Next]_vars => (TypeOK /\ FlowInv)'
    BY NextType, NextFlow
  <1> QED  BY <1>1, <1>2, PTL DEF Spec

\* What the agent publishes to ROS is, through every restart, reset, lost and
\* torn frame, an ordered part of what nros_publish accepted.
THEOREM RosOutStaysOrdered == Spec => []RosOutIsOrdered
  <1>1. FlowInv => RosOutIsOrdered
    BY FlowIsOrdered DEF FlowInv, RosOutIsOrdered
  <1> QED  BY <1>1, FlowsHold, PTL

\* And so is what the callbacks of the board get of what ROS published; none of
\* it is for a topic that has no callback.
THEOREM ReceivedStaysOrdered == Spec => []ReceivedIsOrdered
  <1>1. FlowInv => ReceivedIsOrdered
    BY FlowIsOrdered DEF FlowInv, ReceivedIsOrdered
  <1> QED  BY <1>1, FlowsHold, PTL

-----------------------------------------------------------------------------
(* The session without faults                                              *)

\* Sends succeed, nothing dies or is lost, and the agent accepts every topic
\* the board publishes on: the premises of what follows.
CleanSession ==
    /\ MaxRestarts = 0 /\ MaxResets = 0 /\ MaxCorrupt = 0
    /\ ~SendsMayFail /\ ~CreateMayThrow
    /\ Oversized = {}
    /\ PublisherIds \subseteq AcceptableIds

-----------------------------------------------------------------------------
(* The phases of a session: who holds the turn, and all there is on the    *)
(* line while it does.                                                     *)

AcceptedBelow(n) ==
    {TopicId[i] : i \in {j \in TopicIdx : j < n /\ TopicQos[j] < QosCount}}

AckOf(i) == AckFrame(TopicId[i], RegistrationStatus(TopicQos[i]))

\* Before the board may publish nothing has been sent either way.
Setup ==
    /\ ~spawned /\ handles = {} /\ queue = <<>>
    /\ ~registrationComplete
    /\ accepted = <<>> /\ rosOut = <<>>

AtStart ==
    /\ needRegistration /\ ~needAck /\ ~frameHasPayload
    /\ agentPc \in {"recv", "discover"}
    /\ newTopics = {}
    /\ toAgent = <<>> /\ toClient = <<>> /\ txState = "IDLE"
    /\ ~awaitingAck

Discovering ==
    /\ ~needRegistration /\ ~needAck
    /\ newTopics = {}
    /\ toAgent = <<>> /\ toClient = <<Discover>> /\ txState = "IDLE"
    /\ ~awaitingAck

Registering ==
    /\ ~needRegistration
    /\ isRegistration /\ awaitingAck /\ ~sendingRegDone /\ regIdx \in TopicIdx

SendingRegister ==
    /\ Registering /\ ~needAck
    /\ newTopics = AcceptedBelow(regIdx)
    /\ toAgent = <<>> /\ toClient = <<>>
    /\ txState = "SENDING_FRAME" /\ txFrame = RegisterFrame(regIdx)

RegisterArriving ==
    /\ Registering /\ ~needAck
    /\ newTopics = AcceptedBelow(regIdx)
    /\ toAgent = <<RegisterFrame(regIdx)>> /\ toClient = <<>>
    /\ txState = "IDLE"

Acknowledging ==
    /\ Registering /\ needAck /\ ack = AckOf(regIdx) /\ agentPc # "recv"
    /\ newTopics = AcceptedBelow(regIdx + 1)
    /\ toAgent = <<>> /\ toClient = <<>> /\ txState = "IDLE"

AckArriving ==
    /\ Registering /\ ~needAck
    /\ newTopics = AcceptedBelow(regIdx + 1)
    /\ toAgent = <<>> /\ toClient = <<AckOf(regIdx)>> /\ txState = "IDLE"

SendingDone ==
    /\ ~needRegistration /\ ~needAck
    /\ isRegistration /\ ~awaitingAck /\ sendingRegDone
    /\ newTopics = AcceptableIds
    /\ toAgent = <<>> /\ toClient = <<>>
    /\ txState = "SENDING_FRAME" /\ txFrame = RegisterDone

AllData(w, ids) == \A i \in DOMAIN w : IsData(w[i]) /\ w[i].topic \in ids

\* The frames with messages between nros_publish and ROS.
Carried == (IF spawned THEN toAgent ELSE Tail(toAgent)) \o InHand

Msgs(w) == [i \in DOMAIN w |-> Msg(w[i])]

Running ==
    /\ ~needRegistration /\ ~needAck /\ ~awaitingAck /\ registrationComplete
    /\ newTopics = AcceptableIds
    /\ IF spawned THEN handles = AcceptableIds
       ELSE /\ handles = {} /\ rosOut = <<>>
            /\ toAgent # <<>> /\ Head(toAgent) = RegisterDone
    /\ txState = "SENDING_FRAME" => ~isRegistration
    /\ AllData(toClient, SubscriberIds) /\ AllData(queue, SubscriberIds)
    /\ AllData(Carried, PublisherIds)
    /\ accepted = rosOut \o Msgs(Carried)

PhaseInv ==
    /\ AgentKeepsRunning
    /\ \/ Setup /\ \/ AtStart \/ Discovering \/ SendingRegister
                   \/ RegisterArriving \/ Acknowledging \/ AckArriving
                   \/ SendingDone
       \/ Running

-----------------------------------------------------------------------------
(* The set of topics the agent has taken note of                           *)

\* Before the first topic the agent knows none.
LEMMA AcceptedNone == AcceptedBelow(0) = {}
  BY DEF AcceptedBelow, TopicIdx

\* After the last it knows every one it can accept.
LEMMA AcceptedAll == AcceptedBelow(TopicCount) = AcceptableIds
  BY TopicTableAssumption DEF AcceptedBelow, AcceptableIds, TopicIdx

\* A REGISTER adds its topic, if its QoS is one the agent knows.
LEMMA AcceptedNext ==
    ASSUME NEW i \in TopicIdx
    PROVE  AcceptedBelow(i + 1) = AcceptedBelow(i) \cup Registers(RegisterFrame(i))
  <1>1. \A j \in TopicIdx : j < i + 1 <=> j < i \/ j = i
    BY TopicTableAssumption DEF TopicIdx
  <1>2. TopicQos[i] \in 0 .. 255
    BY TopicTableAssumption
  <1>3. Registers(RegisterFrame(i)) =
          IF TopicQos[i] < QosCount THEN {TopicId[i]} ELSE {}
    BY <1>2 DEF Registers, RegistrationStatus, RegisterFrame, QosCount, AckOk,
                AckUnsupportedQos
  <1> QED  BY <1>1, <1>3 DEF AcceptedBelow

-----------------------------------------------------------------------------
(* Registration                                                            *)

\* With nothing on a line nobody reads from it.
LEMMA EmptyLines ==
    /\ toClient = <<>> => ~(RxPoll \/ RxTorn)
    /\ toAgent = <<>> => ~(RecvFrame \/ RecvTorn)
  BY DEF RxPoll, RxData, RxAckIgnored, RxAckAdvances, RxDiscover, RxIgnored,
         RxTorn, Receives, Arrives, Resyncs, RecvFrame, RecvData, RecvRegister,
         RecvRegisterDone, Recv, RecvTorn

\* A turn of Agent::run in which nothing arrives and nothing is sent.
AgentTurns ==
    /\ AgentKeepsRunning'
    /\ needAck /\ agentPc # "recv" => agentPc' # "recv"
    /\ UNCHANGED <<link, clientVars, needRegistration, frameHasPayload, ackSlot,
                   node, queue, rosOut, rosIn>>

\* Without faults only the board and the agent take steps.
LEMMA CleanStep ==
    ASSUME CleanSession, TypeOK, [Next]_vars
    PROVE  Client \/ AgentThreads \/ UNCHANGED vars
  <1>1. restarts = 0 /\ resets = 0 /\ corruptions = 0
    BY DEF CleanSession, TypeOK
  <1> QED
    BY <1>1 DEF Next, Faults, Restart, Reset, Corrupt, CleanSession

\* What may happen during registration.
LEMMA SetupStep ==
    ASSUME TypeOK, AgentKeepsRunning, Setup, ~needRegistration,
           Client \/ AgentThreads \/ UNCHANGED vars
    PROVE  \/ AgentTurns
           \/ (RxPoll \/ RxTorn \/ TxPoll) /\ UNCHANGED agentVars
           \/ (RecvFrame \/ RecvTorn) /\ UNCHANGED clientVars
           \/ SendAck /\ needAck /\ UNCHANGED clientVars
  <1>1. CASE Client
    BY <1>1 DEF Client, Publish, MayPublish, Setup
  <1>2. CASE AgentThreads
    <2>1. CASE RecvNothing
      BY <1>2, <2>1
         DEF AgentThreads, RecvNothing, AgentTurns, AgentKeepsRunning
    <2>2. CASE SendDiscover
      <3>1. needRegistration' = needRegistration
        BY <2>2 DEF SendDiscover, TypeOK, AgentTypeOK
      <3> QED
        BY <1>2, <2>2, <3>1
           DEF AgentThreads, SendDiscover, AgentTurns, AgentKeepsRunning, link
    <2>3. CASE SendQueued
      BY <1>2, <2>3
         DEF AgentThreads, SendQueued, AgentTurns, AgentKeepsRunning, Setup,
             link
    <2>4. CASE SendAck
      <3>1. CASE needAck
        BY <1>2, <2>4, <3>1 DEF AgentThreads
      <3>2. CASE ~needAck
        <4>1. needAck' = needAck
          BY <2>4, <3>2 DEF SendAck, AckedLeaves, TypeOK, AgentTypeOK
        <4> QED
          BY <1>2, <2>4, <3>2, <4>1
             DEF AgentThreads, SendAck, AgentTurns, AgentKeepsRunning, link,
                 ackSlot
      <3> QED  BY <3>1, <3>2
    <2>5. CASE RecvFrame \/ RecvTorn
      BY <1>2, <2>5 DEF AgentThreads
    <2>6. CASE \E id \in Ids : SubscriptionCallback(id)
      BY <2>6 DEF SubscriptionCallback, Subscribed, Setup
    <2> QED
      BY <1>2, <2>1, <2>2, <2>3, <2>4, <2>5, <2>6 DEF AgentThreads, AgentLoop
  <1>3. CASE UNCHANGED vars
    BY <1>3 DEF vars, link, agentVars, AgentTurns, AgentKeepsRunning
  <1> QED  BY <1>1, <1>2, <1>3

\* A turn of the agent moves nothing.
LEMMA TurnsMoveNothing ==
    ASSUME AgentTurns
    PROVE  /\ AgentKeepsRunning'
           /\ Setup => Setup'
           /\ Discovering => Discovering'
           /\ SendingRegister => SendingRegister'
           /\ RegisterArriving => RegisterArriving'
           /\ Acknowledging => Acknowledging'
           /\ AckArriving => AckArriving'
           /\ SendingDone => SendingDone'
  <1> USE DEF AgentTurns, link, clientVars, tx, registration, ackSlot, node
  <1>1. Setup => Setup'
    BY DEF Setup
  <1>2. Discovering => Discovering'
    BY DEF Discovering
  <1>3. SendingRegister => SendingRegister'
    BY DEF SendingRegister, Registering
  <1>4. RegisterArriving => RegisterArriving'
    BY DEF RegisterArriving, Registering
  <1>5. Acknowledging => Acknowledging'
    BY DEF Acknowledging, Registering
  <1>6. AckArriving => AckArriving'
    BY DEF AckArriving, Registering
  <1>7. SendingDone => SendingDone'
    BY DEF SendingDone
  <1> QED  BY <1>1, <1>2, <1>3, <1>4, <1>5, <1>6, <1>7

\* The agent sends its one DISCOVER.
LEMMA FromStart ==
    ASSUME CleanSession, TypeOK, AgentKeepsRunning, Setup, AtStart, [Next]_vars
    PROVE  PhaseInv'
  <1>1. CASE Client
    BY <1>1, EmptyLines
       DEF Client, AtStart, TxPoll, Publish, MayPublish, Setup
  <1>2. CASE AgentThreads
    <2>1. UNCHANGED clientVars
      BY <1>2 DEF AgentThreads
    <2>2. CASE RecvNothing
      BY <2>1, <2>2
         DEF RecvNothing, AtStart, Setup, PhaseInv, AgentKeepsRunning, link,
             clientVars, tx, registration, ackSlot, node
    <2>3. CASE SendDiscover
      <3>1. toClient' = Append(toClient, Discover)
        BY <2>3 DEF SendDiscover, AtStart, Send, CleanSession
      <3>2. toClient' = <<Discover>>
        BY <3>1 DEF AtStart
      <3>3. Discovering' /\ Setup' /\ AgentKeepsRunning'
        BY <2>1, <2>3, <3>2
           DEF SendDiscover, AtStart, Setup, Discovering, AgentKeepsRunning,
               clientVars, tx, registration, ackSlot, node
      <3> QED  BY <3>3 DEF PhaseInv
    <2>4. CASE RecvFrame \/ RecvTorn
      BY <2>4, EmptyLines DEF AtStart
    <2>5. CASE SendQueued \/ SendAck
      BY <2>5 DEF SendQueued, SendAck, AtStart
    <2>6. CASE \E id \in Ids : SubscriptionCallback(id)
      BY <2>6 DEF SubscriptionCallback, Subscribed, Setup
    <2> QED
      BY <1>2, <2>2, <2>3, <2>4, <2>5, <2>6 DEF AgentThreads, AgentLoop
  <1>3. CASE Faults
    <2>1. restarts = 0 /\ resets = 0 /\ corruptions = 0
      BY DEF CleanSession, TypeOK
    <2> QED
      BY <1>3, <2>1 DEF Faults, Restart, Reset, Corrupt, CleanSession
  <1>4. CASE UNCHANGED vars
    BY <1>4
       DEF vars, link, AtStart, Setup, PhaseInv, AgentKeepsRunning, clientVars,
           agentVars, tx, registration, ackSlot, node
  <1> QED  BY <1>1, <1>2, <1>3, <1>4 DEF Next

\* The only frame on the line is the next the board reads.
LEMMA OnlyFrame ==
    ASSUME NEW f \in Frames, toClient = <<f>>, RxPoll \/ RxTorn,
           f.type \in {"DISCOVER", "ACK"}
    PROVE  /\ toClient' = <<>>
           /\ f.type = "DISCOVER" => RxDiscover
           /\ f.type = "ACK" => RxAckIgnored \/ RxAckAdvances
  <1>1. Head(toClient) = f /\ Tail(toClient) = <<>>
    OBVIOUS
  <1> QED
    BY <1>1 DEF RxPoll, RxData, RxAckIgnored, RxAckAdvances, RxDiscover,
                RxIgnored, RxTorn, Receives, Arrives, Resyncs

\* The board answers with its first REGISTER.
LEMMA FromDiscovering ==
    ASSUME CleanSession, TypeOK, AgentKeepsRunning, Setup, Discovering,
           [Next]_vars
    PROVE  PhaseInv'
  <1>1. CASE AgentTurns
    BY <1>1, TurnsMoveNothing DEF PhaseInv
  <1>2. CASE (RxPoll \/ RxTorn) /\ UNCHANGED agentVars
    <2>1. Discover \in Frames /\ Discover.type = "DISCOVER"
      BY DEF Frames, Discover
    <2>2. RxDiscover /\ toClient' = <<>>
      BY <1>2, <2>1, OnlyFrame DEF Discovering
    <2>3. 0 \in TopicIdx
      BY TopicTableAssumption DEF TopicIdx
    <2>4. StartFrame(RegisterFrame(0)) /\ awaitingAck' = TRUE
      BY <2>2 DEF RxDiscover, LoadNextRegistrationFrame, Discovering,
                  CleanSession
    <2>5. /\ isRegistration' = TRUE /\ regIdx' = 0 /\ sendingRegDone' = FALSE
          /\ UNCHANGED <<registrationComplete, accepted>>
      BY <2>2 DEF RxDiscover, Discovering
    <2>6. /\ txState' = "SENDING_FRAME" /\ txFrame' = RegisterFrame(0)
          /\ toAgent' = <<>>
      BY <2>4 DEF StartFrame, MidFrame, Discovering
    <2>7. Setup' /\ AgentKeepsRunning'
      BY <1>2, <2>5 DEF Setup, AgentKeepsRunning, agentVars, node
    <2>8. newTopics' = AcceptedBelow(0)
      BY <1>2, AcceptedNone DEF Discovering, agentVars, node
    <2>9. SendingRegister'
      BY <1>2, <2>2, <2>3, <2>4, <2>5, <2>6, <2>8
         DEF SendingRegister, Registering, Discovering, agentVars, ackSlot
    <2> QED  BY <2>7, <2>9 DEF PhaseInv
  <1>3. CASE TxPoll
    BY <1>3 DEF TxPoll, Discovering
  <1>4. CASE RecvFrame \/ RecvTorn
    BY <1>4, EmptyLines DEF Discovering
  <1>5. CASE SendAck /\ needAck
    BY <1>5 DEF Discovering
  <1> QED
    BY <1>1, <1>2, <1>3, <1>4, <1>5, CleanStep, SetupStep DEF Discovering

\* A REGISTER goes out.
LEMMA FromSendingRegister ==
    ASSUME TypeOK, AgentKeepsRunning, Setup, SendingRegister,
           Client \/ AgentThreads \/ UNCHANGED vars
    PROVE  AgentKeepsRunning' /\ Setup' /\ (SendingRegister' \/ RegisterArriving')
  <1>1. CASE AgentTurns
    BY <1>1, TurnsMoveNothing
  <1>2. CASE TxPoll /\ UNCHANGED agentVars
    <2>1. /\ UNCHANGED <<txFrame, isRegistration, sendingRegDone, regIdx,
                         awaitingAck, accepted, toClient>>
          /\ AgentKeepsRunning'
      BY <1>2 DEF TxPoll, registration, AgentKeepsRunning, agentVars
    <2>2. UNCHANGED registrationComplete
      BY <1>2 DEF TxPoll, TxFrameComplete, SendingRegister, Registering,
                  TypeOK, ClientTypeOK
    <2>3. Setup'
      BY <1>2, <2>1, <2>2 DEF Setup, agentVars, node
    <2>4. CASE bytesSent' < FrameLen
      <3>1. UNCHANGED <<txState, toAgent>>
        BY <1>2, <2>4 DEF TxPoll
      <3>2. SendingRegister'
        BY <1>2, <2>1, <3>1
           DEF SendingRegister, Registering, agentVars, ackSlot, node
      <3> QED  BY <2>1, <2>3, <3>2
    <2>5. CASE ~(bytesSent' < FrameLen)
      <3>1. txState' = "IDLE" /\ toAgent' = Append(toAgent, txFrame)
        BY <1>2, <2>5 DEF TxPoll, TxFrameComplete
      <3>2. toAgent' = <<RegisterFrame(regIdx)>>
        BY <3>1 DEF SendingRegister
      <3>3. RegisterArriving'
        BY <1>2, <2>1, <3>1, <3>2
           DEF SendingRegister, RegisterArriving, Registering, RegisterFrame,
               agentVars, ackSlot, node
      <3> QED  BY <2>1, <2>3, <3>3
    <2> QED  BY <2>4, <2>5
  <1>3. CASE RxPoll \/ RxTorn
    BY <1>3, EmptyLines DEF SendingRegister
  <1>4. CASE RecvFrame \/ RecvTorn
    BY <1>4, EmptyLines DEF SendingRegister
  <1>5. CASE SendAck /\ needAck
    BY <1>5 DEF SendingRegister
  <1> QED
    BY <1>1, <1>2, <1>3, <1>4, <1>5, SetupStep DEF SendingRegister, Registering

\* The agent takes note of the topic.
LEMMA FromRegisterArriving ==
    ASSUME TypeOK, AgentKeepsRunning, Setup, RegisterArriving,
           Client \/ AgentThreads \/ UNCHANGED vars
    PROVE  AgentKeepsRunning' /\ Setup' /\ (RegisterArriving' \/ Acknowledging')
  <1>1. CASE AgentTurns
    BY <1>1, TurnsMoveNothing
  <1>2. CASE (RecvFrame \/ RecvTorn) /\ UNCHANGED clientVars
    <2> DEFINE f == RegisterFrame(regIdx)
    <2>1. regIdx \in TopicIdx /\ f \in Frames
      BY FramesAreFrames DEF RegisterArriving, Registering
    <2>2. f.type = "REGISTER" /\ f.topic = TopicId[regIdx]
          /\ f.body = TopicQos[regIdx]
      BY DEF RegisterFrame
    <2>3. toAgent = <<f>>
      BY DEF RegisterArriving
    <2> HIDE DEF f
    <2>4. toAgent # <<>> /\ Head(toAgent) = f /\ Tail(toAgent) = <<>>
      BY <2>3
    <2>5. RecvRegister
      BY <1>2, <2>2, <2>4
         DEF RecvFrame, RecvData, RecvRegisterDone, RecvTorn, Recv, Arrives,
             Resyncs
    <2>6. toAgent' = <<>> /\ UNCHANGED toClient
      BY <2>4, <2>5 DEF RecvRegister, Recv
    <2>7. needAck' = TRUE /\ ack' = AckOf(regIdx)
      BY <2>2, <2>4, <2>5 DEF RecvRegister, AckOf
    <2>8. newTopics' = AcceptedBelow(regIdx) \cup Registers(f)
      BY <2>4, <2>5 DEF RecvRegister, RegisterArriving
    <2>9. newTopics' = AcceptedBelow(regIdx + 1)
      BY <2>1, <2>8, AcceptedNext DEF f
    <2>10. agentPc' = "discover"
           /\ UNCHANGED <<needRegistration, spawned, handles, queue, rosOut>>
      BY <2>5 DEF RecvRegister
    <2>11. Setup' /\ AgentKeepsRunning'
      BY <1>2, <2>10 DEF Setup, AgentKeepsRunning, clientVars
    <2>12. Acknowledging'
      BY <1>2, <2>6, <2>7, <2>9, <2>10
         DEF Acknowledging, RegisterArriving, Registering, AckOf, clientVars,
             tx, registration
    <2> QED  BY <2>11, <2>12
  <1>3. CASE RxPoll \/ RxTorn
    BY <1>3, EmptyLines DEF RegisterArriving
  <1>4. CASE TxPoll
    BY <1>4 DEF TxPoll, RegisterArriving
  <1>5. CASE SendAck /\ needAck
    BY <1>5 DEF RegisterArriving
  <1> QED
    BY <1>1, <1>2, <1>3, <1>4, <1>5, SetupStep
       DEF RegisterArriving, Registering

\* The ACK goes out.
LEMMA FromAcknowledging ==
    ASSUME CleanSession, TypeOK, AgentKeepsRunning, Setup, Acknowledging,
           [Next]_vars
    PROVE  PhaseInv'
  <1>1. CASE AgentTurns
    BY <1>1, TurnsMoveNothing DEF PhaseInv
  <1>2. CASE SendAck /\ needAck /\ UNCHANGED clientVars
    <2>1. toClient' = Append(toClient, ack)
      BY <1>2 DEF SendAck, Send, CleanSession
    <2>2. toClient' = <<AckOf(regIdx)>>
      BY <2>1 DEF Acknowledging
    <2>3. /\ needAck' = FALSE /\ agentPc' = "recv"
          /\ UNCHANGED <<needRegistration, node, queue, rosOut, toAgent>>
      BY <1>2 DEF SendAck, AckedLeaves
    <2>4. Setup' /\ AgentKeepsRunning'
      BY <1>2, <2>3 DEF Setup, AgentKeepsRunning, clientVars, node
    <2>5. AckArriving'
      BY <1>2, <2>2, <2>3
         DEF Acknowledging, AckArriving, Registering, AckOf, clientVars, tx,
             registration, node
    <2> QED  BY <2>4, <2>5 DEF PhaseInv
  <1>3. CASE RxPoll \/ RxTorn
    BY <1>3, EmptyLines DEF Acknowledging
  <1>4. CASE RecvFrame \/ RecvTorn
    BY <1>4, EmptyLines DEF Acknowledging
  <1>5. CASE TxPoll
    BY <1>5 DEF TxPoll, Acknowledging
  <1> QED
    BY <1>1, <1>2, <1>3, <1>4, <1>5, CleanStep, SetupStep DEF Acknowledging, Registering

\* The board goes on to the next topic, or is done.
LEMMA FromAckArriving ==
    ASSUME CleanSession, TypeOK, AgentKeepsRunning, Setup, AckArriving,
           [Next]_vars
    PROVE  PhaseInv'
  <1>1. CASE AgentTurns
    BY <1>1, TurnsMoveNothing DEF PhaseInv
  <1>2. CASE (RxPoll \/ RxTorn) /\ UNCHANGED agentVars
    <2>1. AckOf(regIdx) \in Frames /\ AckOf(regIdx).type = "ACK"
      BY TopicTableAssumption
         DEF AckArriving, Registering, AckOf, AckFrame, RegistrationStatus,
             AckStatus, Frames
    <2>2. RxAckAdvances /\ toClient' = <<>>
      <3>1. toClient' = <<>> /\ (RxAckIgnored \/ RxAckAdvances)
        BY <1>2, <2>1, OnlyFrame DEF AckArriving
      <3> QED  BY <3>1 DEF RxAckIgnored, AckExpected, AckArriving, Registering
    <2>3. regIdx \in 0 .. TopicCount - 1 /\ TopicCount \in 1 .. 255
      BY TopicTableAssumption DEF AckArriving, Registering, TopicIdx
    <2>4. regIdx' = regIdx + 1
      BY <2>2, <2>3 DEF RxAckAdvances
    <2>5. UNCHANGED <<isRegistration, registrationComplete, accepted>>
      BY <2>2 DEF RxAckAdvances
    <2>6. LoadNextRegistrationFrame(regIdx', sendingRegDone', FALSE)
      BY <2>2 DEF RxAckAdvances
    <2>7. sendingRegDone' = (regIdx' >= TopicCount)
      BY <2>2 DEF RxAckAdvances, RegistersUpTo, AckArriving, Registering
    <2>8. Setup' /\ AgentKeepsRunning'
      BY <1>2, <2>5 DEF Setup, AgentKeepsRunning, agentVars, node
    <2>9. newTopics' = AcceptedBelow(regIdx')
      BY <1>2, <2>4 DEF AckArriving, agentVars, node
    <2>10. ASSUME NEW f, StartFrame(f)
           PROVE  txState' = "SENDING_FRAME" /\ txFrame' = f /\ toAgent' = <<>>
      BY <2>10 DEF StartFrame, MidFrame, AckArriving
    <2>11. ~needAck' /\ ~needRegistration'
      BY <1>2 DEF AckArriving, Registering, agentVars, ackSlot
    <2>12. CASE regIdx' >= TopicCount
      <3>1. StartFrame(RegisterDone) /\ awaitingAck' = FALSE
        BY <2>6, <2>7, <2>12 DEF LoadNextRegistrationFrame
      <3>2. regIdx' = TopicCount
        BY <2>3, <2>4, <2>12
      <3>3. newTopics' = AcceptableIds
        BY <2>9, <3>2, AcceptedAll
      <3>4. SendingDone'
        BY <2>2, <2>5, <2>7, <2>10, <2>11, <2>12, <3>1, <3>3
           DEF SendingDone, AckArriving, Registering
      <3> QED  BY <2>8, <3>4 DEF PhaseInv
    <2>13. CASE ~(regIdx' >= TopicCount)
      <3>1. StartFrame(RegisterFrame(regIdx')) /\ awaitingAck' = TRUE
        BY <2>6, <2>7, <2>13 DEF LoadNextRegistrationFrame, CleanSession
      <3>2. regIdx' \in TopicIdx
        BY <2>3, <2>4, <2>13 DEF TopicIdx
      <3>3. /\ txState' = "SENDING_FRAME" /\ toAgent' = <<>>
            /\ txFrame' = RegisterFrame(regIdx')
        BY <2>10, <3>1
      <3>4. SendingRegister'
        BY <2>2, <2>5, <2>7, <2>9, <2>11, <2>13, <3>1, <3>2, <3>3
           DEF SendingRegister, AckArriving, Registering, RegisterFrame
      <3> QED  BY <2>8, <3>4 DEF PhaseInv
    <2> QED  BY <2>12, <2>13
  <1>3. CASE TxPoll
    BY <1>3 DEF TxPoll, AckArriving
  <1>4. CASE RecvFrame \/ RecvTorn
    BY <1>4, EmptyLines DEF AckArriving
  <1>5. CASE SendAck /\ needAck
    BY <1>5 DEF AckArriving
  <1> QED
    BY <1>1, <1>2, <1>3, <1>4, <1>5, CleanStep, SetupStep DEF AckArriving, Registering

\* With the last byte of REGISTER_DONE the board may publish.
LEMMA FromSendingDone ==
    ASSUME CleanSession, TypeOK, AgentKeepsRunning, Setup, SendingDone,
           [Next]_vars
    PROVE  PhaseInv'
  <1>1. CASE AgentTurns
    BY <1>1, TurnsMoveNothing DEF PhaseInv
  <1>2. CASE TxPoll /\ UNCHANGED agentVars
    <2>1. /\ UNCHANGED <<txFrame, isRegistration, sendingRegDone, regIdx,
                         awaitingAck, accepted, toClient>>
          /\ AgentKeepsRunning'
      BY <1>2 DEF TxPoll, registration, AgentKeepsRunning, agentVars
    <2>2. CASE bytesSent' < FrameLen
      <3>1. UNCHANGED <<txState, toAgent, registrationComplete>>
        BY <1>2, <2>2 DEF TxPoll
      <3>2. Setup' /\ SendingDone'
        BY <1>2, <2>1, <3>1
           DEF SendingDone, Setup, agentVars, ackSlot, node
      <3> QED  BY <2>1, <3>2 DEF PhaseInv
    <2>3. CASE ~(bytesSent' < FrameLen)
      <3>1. txState' = "IDLE" /\ toAgent' = Append(toAgent, txFrame)
        BY <1>2, <2>3 DEF TxPoll, TxFrameComplete
      <3>2. toAgent' = <<RegisterDone>>
        BY <3>1 DEF SendingDone
      <3>3. registrationComplete'
        BY <1>2, <2>3 DEF TxPoll, TxFrameComplete, SendingDone
      <3>4. ~spawned' /\ handles' = {} /\ rosOut' = <<>> /\ queue' = <<>>
        BY <1>2 DEF Setup, agentVars, node
      <3>5. /\ toAgent' # <<>> /\ Head(toAgent') = RegisterDone
            /\ Tail(toAgent') = <<>> /\ InHand' = <<>>
        BY <3>1, <3>2 DEF InHand
      <3>6. Carried' = <<>>
        BY <3>4, <3>5 DEF Carried
      <3>7. \A i \in DOMAIN <<>> : FALSE
        OBVIOUS
      <3>8. AllData(toClient, SubscriberIds)' /\ AllData(queue, SubscriberIds)'
            /\ AllData(Carried, PublisherIds)'
        BY <2>1, <3>4, <3>6, <3>7 DEF AllData, SendingDone
      <3>9. accepted' = rosOut' \o Msgs(Carried')
        <4>1. Msgs(<<>>) = <<>>
          BY DEF Msgs
        <4>2. <<>> \o <<>> = <<>>
          OBVIOUS
        <4> QED  BY <2>1, <3>4, <3>6, <4>1, <4>2 DEF Setup
      <3>10. /\ ~needRegistration' /\ ~needAck' /\ ~awaitingAck'
             /\ newTopics' = AcceptableIds
        BY <1>2, <2>1 DEF SendingDone, agentVars, ackSlot, node
      <3>11. Running'
        BY <3>1, <3>3, <3>4, <3>5, <3>8, <3>9, <3>10 DEF Running
      <3> QED  BY <2>1, <3>11 DEF PhaseInv
    <2> QED  BY <2>2, <2>3
  <1>3. CASE RxPoll \/ RxTorn
    BY <1>3, EmptyLines DEF SendingDone
  <1>4. CASE RecvFrame \/ RecvTorn
    BY <1>4, EmptyLines DEF SendingDone
  <1>5. CASE SendAck /\ needAck
    BY <1>5 DEF SendingDone
  <1> QED
    BY <1>1, <1>2, <1>3, <1>4, <1>5, CleanStep, SetupStep DEF SendingDone

-----------------------------------------------------------------------------
(* After registration                                                      *)

\* Frames of which all are data.
LEMMA AllDataAppend ==
    ASSUME NEW w \in Seq(Frames), NEW ids, AllData(w, ids),
           NEW f \in Frames, IsData(f), f.topic \in ids
    PROVE  AllData(Append(w, f), ids)
  <1>1. /\ Len(Append(w, f)) = Len(w) + 1 /\ Append(w, f) \in Seq(Frames)
        /\ \A i \in 1 .. Len(w) : Append(w, f)[i] = w[i]
        /\ Append(w, f)[Len(w) + 1] = f
    BY AppendProperties
  <1>2. \A i \in DOMAIN Append(w, f) : i \in DOMAIN w \/ i = Len(w) + 1
    BY <1>1
  <1> QED  BY <1>1, <1>2 DEF AllData

\* The first of a sequence of DATA frames, and the rest.
LEMMA AllDataTail ==
    ASSUME NEW w \in Seq(Frames), w # <<>>, NEW ids, AllData(w, ids)
    PROVE  /\ IsData(Head(w)) /\ Head(w).topic \in ids /\ Head(w) \in Frames
           /\ Tail(w) \in Seq(Frames) /\ AllData(Tail(w), ids)
  <1>1. /\ 1 \in DOMAIN w /\ Head(w) = w[1]
        /\ Head(w) \in Frames /\ Tail(w) \in Seq(Frames)
    BY HeadTailProperties
  <1>2. \A i \in DOMAIN Tail(w) : i + 1 \in DOMAIN w /\ Tail(w)[i] = w[i + 1]
    BY HeadTailProperties
  <1> QED  BY <1>1, <1>2 DEF AllData

\* The types of what follows.
LEMMA CarriedType ==
    ASSUME TypeOK, ~spawned => toAgent # <<>>
    PROVE  /\ Carried \in Seq(Frames)
           /\ (IF spawned THEN toAgent ELSE Tail(toAgent)) \in Seq(Frames)
  BY PartsType, ConcatProperties, HeadTailProperties DEF Carried

\* The first frame the agent reads once it has a node carries a message.
LEMMA CarriedFirst ==
    ASSUME TypeOK, spawned, toAgent # <<>>
    PROVE  /\ Carried # <<>> /\ Head(Carried) = Head(toAgent)
           /\ Tail(Carried) = Tail(toAgent) \o InHand
  BY PartsType, FirstOfTwo DEF Carried

\* What may happen while the session runs.
LEMMA RunningStep ==
    ASSUME CleanSession, TypeOK, Running, [Next]_vars
    PROVE  \/ /\ RxData \/ TxPoll \/ \E id \in PublisherIds : Publish(id)
              /\ UNCHANGED agentVars
           \/ /\ \/ RecvNothing
                 \/ spawned /\ RecvData
                 \/ ~spawned /\ RecvRegisterDone
                 \/ SendDiscover \/ SendQueued \/ SendAck
                 \/ \E id \in Ids : SubscriptionCallback(id)
              /\ UNCHANGED clientVars
           \/ UNCHANGED vars
  <1>1. CASE Client
    <2>1. toClient # <<>> => Head(toClient).type = "DATA"
      BY PartsType, AllDataTail DEF Running, IsData
    <2> QED
      BY <1>1, <2>1
         DEF Client, RxPoll, RxAckIgnored, RxAckAdvances, RxDiscover,
             RxIgnored, RxTorn, Receives, Arrives, Resyncs
  <1>2. CASE AgentThreads
    <2>1. CASE RecvFrame \/ RecvTorn
      <3>1. toAgent # <<>>
        BY <2>1, EmptyLines
      <3>2. CASE spawned
        <4>1. Head(toAgent).type = "DATA"
          BY <3>1, <3>2, CarriedFirst, CarriedType, AllDataTail
             DEF Running, IsData
        <4> QED
          BY <1>2, <2>1, <3>2, <4>1
             DEF AgentThreads, RecvFrame, RecvRegister, RecvRegisterDone,
                 RecvTorn, Recv, Arrives, Resyncs
      <3>3. CASE ~spawned
        <4>1. Head(toAgent).type = "REGISTER_DONE"
          BY <3>3 DEF Running, RegisterDone
        <4> QED
          BY <1>2, <2>1, <3>3, <4>1
             DEF AgentThreads, RecvFrame, RecvRegister, RecvData, RecvTorn,
                 Recv, Arrives, Resyncs
      <3> QED  BY <3>2, <3>3
    <2>2. CASE ~(RecvFrame \/ RecvTorn)
      BY <1>2, <2>2 DEF AgentThreads, AgentLoop
    <2> QED  BY <2>1, <2>2
  <1>3. CASE Faults
    <2>1. restarts = 0 /\ resets = 0 /\ corruptions = 0
      BY DEF CleanSession, TypeOK
    <2> QED
      BY <1>3, <2>1 DEF Faults, Restart, Reset, Corrupt, CleanSession
  <1> QED  BY <1>1, <1>2, <1>3 DEF Next

\* The way to the board carries messages only.
LEMMA RunningDown ==
    ASSUME CleanSession, TypeOK, Running, [Next]_vars
    PROVE  AllData(toClient, SubscriberIds)' /\ AllData(queue, SubscriberIds)'
  <1>1. /\ toClient \in Seq(Frames) /\ queue \in Seq(Frames)
        /\ AllData(toClient, SubscriberIds) /\ AllData(queue, SubscriberIds)
    BY PartsType DEF Running
  <1>2. CASE UNCHANGED <<toClient, queue>>
    BY <1>1, <1>2
  <1>3. CASE RxData /\ UNCHANGED queue
    <2>1. toClient # <<>> /\ toClient' = Tail(toClient)
      BY <1>3 DEF RxData, Receives, Arrives
    <2> QED  BY <1>1, <1>3, <2>1, AllDataTail
  <1>4. CASE SendQueued
    <2>1. CASE queue = <<>>
      BY <1>2, <1>4, <2>1 DEF SendQueued
    <2>2. CASE queue # <<>>
      <3>1. toClient' = Append(toClient, Head(queue)) /\ queue' = Tail(queue)
        BY <1>4, <2>2 DEF SendQueued, Send, Popped, CleanSession
      <3>2. /\ IsData(Head(queue)) /\ Head(queue).topic \in SubscriberIds
            /\ Head(queue) \in Frames /\ AllData(Tail(queue), SubscriberIds)
        BY <1>1, <2>2, AllDataTail
      <3> QED  BY <1>1, <3>1, <3>2, AllDataAppend
    <2> QED  BY <2>1, <2>2
  <1>5. CASE \E id \in Ids : SubscriptionCallback(id)
    <2>1. PICK id \in Ids : SubscriptionCallback(id)
      BY <1>5
    <2> DEFINE f == DataFrame(id, Len(rosIn) + 1)
               q == IF Len(queue) >= QueueMax THEN Tail(queue) ELSE queue
    <2>2. f \in Frames /\ IsData(f) /\ f.topic \in SubscriberIds
      BY <2>1, PartsType, FramesAreFrames
         DEF IsData, DataFrame, SubscriptionCallback, Subscribed, SubscriberIds
    <2>3. queue' = Append(q, f) /\ UNCHANGED toClient
      BY <2>1 DEF SubscriptionCallback, Push, link
    <2>4. q \in Seq(Frames) /\ AllData(q, SubscriberIds)
      <3>1. Len(queue) >= QueueMax => queue # <<>>
        BY AgentAssumption
      <3> QED  BY <1>1, <3>1, AllDataTail
    <2> HIDE DEF f, q
    <2> QED  BY <1>1, <2>2, <2>3, <2>4, AllDataAppend
  <1>6. CASE SendDiscover \/ SendAck
    BY <1>2, <1>6 DEF SendDiscover, SendAck, Running
  <1>7. CASE TxPoll /\ UNCHANGED agentVars
    BY <1>2, <1>7 DEF TxPoll, agentVars
  <1>8. CASE (\E id \in PublisherIds : Publish(id)) /\ UNCHANGED agentVars
    BY <1>2, <1>8 DEF Publish, agentVars
  <1>9. CASE RecvNothing \/ RecvData \/ RecvRegisterDone
    BY <1>2, <1>9 DEF RecvNothing, RecvData, RecvRegisterDone, Recv, link
  <1> QED
    BY <1>2, <1>3, <1>4, <1>5, <1>6, <1>7, <1>8, <1>9, RunningStep
       DEF vars, link, agentVars

\* Numbers of messages.
LEMMA MsgsAppend ==
    ASSUME NEW w \in Seq(Frames), NEW f \in Frames, IsData(f)
    PROVE  Msgs(Append(w, f)) = Append(Msgs(w), Msg(f))
  <1>1. /\ DOMAIN Append(w, f) = 1 .. Len(w) + 1
        /\ \A i \in 1 .. Len(w) : Append(w, f)[i] = w[i]
        /\ Append(w, f)[Len(w) + 1] = f
    BY AppendProperties
  <1>2. DOMAIN w = 1 .. Len(w) /\ Len(w) \in Nat
    OBVIOUS
  <1>3. Msgs(w) = [i \in 1 .. Len(w) |-> Msg(w[i])]
    BY <1>2 DEF Msgs
  <1>4. Len(Msgs(w)) = Len(w)
    BY <1>2, <1>3
  <1>5. Append(Msgs(w), Msg(f)) =
          [i \in 1 .. Len(w) + 1 |-> IF i = Len(w) + 1 THEN Msg(f)
                                                       ELSE Msg(w[i])]
    BY <1>2, <1>3, <1>4
  <1>6. Msgs(Append(w, f)) =
          [i \in 1 .. Len(w) + 1 |-> IF i = Len(w) + 1 THEN Msg(f)
                                                       ELSE Msg(w[i])]
    BY <1>1, <1>2 DEF Msgs
  <1> QED  BY <1>5, <1>6

\* DATA frames carry one message each.
LEMMA MsgsType ==
    ASSUME NEW w \in Seq(Frames), NEW ids, AllData(w, ids)
    PROVE  Msgs(w) \in Seq(Messages) /\ Len(Msgs(w)) = Len(w)
  <1>1. \A i \in 1 .. Len(w) : w[i] \in Frames /\ w[i].type = "DATA"
    BY DEF AllData, IsData
  <1>2. \A f \in Frames : f.type = "DATA" => Msg(f) \in Messages
    BY DEF Frames, Msg, Messages, RegisterDone, Discover, Torn
  <1>3. DOMAIN w = 1 .. Len(w) /\ Len(w) \in Nat
    OBVIOUS
  <1>4. Msgs(w) = [i \in 1 .. Len(w) |-> Msg(w[i])]
    BY <1>3 DEF Msgs
  <1>5. \A i \in 1 .. Len(w) : Msg(w[i]) \in Messages
    BY <1>1, <1>2
  <1>6. Msgs(w) \in [1 .. Len(w) -> Messages]
    BY <1>4, <1>5
  <1> QED  BY <1>3, <1>6

\* The first frame carries the first message.
LEMMA MsgsFirst ==
    ASSUME NEW w \in Seq(Frames), w # <<>>, NEW ids, AllData(w, ids)
    PROVE  /\ Msgs(w) = <<Msg(Head(w))>> \o Msgs(Tail(w))
           /\ Msg(Head(w)) \in Messages
           /\ Msgs(Tail(w)) \in Seq(Messages)
  <1> DEFINE m == Msg(Head(w))
             t == Tail(w)
             u == <<m>> \o Msgs(t)
  <1>1. /\ IsData(Head(w)) /\ Head(w) \in Frames
        /\ t \in Seq(Frames) /\ AllData(t, ids)
    BY AllDataTail
  <1>2. m \in Messages
    BY <1>1 DEF Frames, Msg, Messages, IsData, RegisterDone, Discover, Torn
  <1>3. Len(t) = Len(w) - 1 /\ \A i \in 1 .. Len(t) : t[i] = w[i + 1]
    BY HeadTailProperties
  <1>4. /\ Msgs(w) \in Seq(Messages) /\ Len(Msgs(w)) = Len(w)
        /\ Msgs(t) \in Seq(Messages) /\ Len(Msgs(t)) = Len(t)
    BY <1>1, MsgsType
  <1>5. /\ \A i \in 1 .. Len(w) : Msgs(w)[i] = Msg(w[i])
        /\ \A i \in 1 .. Len(t) : Msgs(t)[i] = Msg(t[i])
    BY <1>1 DEF Msgs
  <1>6. Len(w) \in Nat \ {0} /\ w[1] = Head(w)
    BY EmptySeq
  <1> HIDE DEF m, t
  <1>7. /\ u \in Seq(Messages) /\ Len(u) = 1 + Len(Msgs(t))
        /\ \A i \in 1 .. 1 + Len(Msgs(t)) :
             u[i] = IF i <= 1 THEN <<m>>[i] ELSE Msgs(t)[i - 1]
    <2>1. <<m>> \in Seq(Messages) /\ Len(<<m>>) = 1
      BY <1>2
    <2> QED  BY <1>4, <2>1, ConcatProperties
  <1> HIDE DEF u
  <1>8. ASSUME NEW i \in 1 .. Len(w) PROVE Msgs(w)[i] = u[i]
    <2>1. CASE i = 1
      BY <1>3, <1>4, <1>5, <1>6, <1>7, <2>1 DEF m
    <2>2. CASE i > 1
      <3>1. i - 1 \in 1 .. Len(t) /\ t[i - 1] = w[i]
        BY <1>3, <1>6, <2>2
      <3>2. u[i] = Msgs(t)[i - 1]
        BY <1>3, <1>4, <1>6, <1>7, <2>2
      <3> QED  BY <1>5, <3>1, <3>2
    <2> QED  BY <1>6, <2>1, <2>2
  <1>9. Len(Msgs(w)) = Len(u) /\ \A i \in 1 .. Len(Msgs(w)) : Msgs(w)[i] = u[i]
    BY <1>3, <1>4, <1>6, <1>7, <1>8
  <1>10. Msgs(w) = u
    BY <1>4, <1>7, <1>9, SeqEqual, Zenon
  <1> QED  BY <1>2, <1>4, <1>10, Zenon DEF m, t, u

\* Concatenation of messages is associative.
LEMMA RegroupMsgs ==
    ASSUME NEW a \in Seq(Messages), NEW b \in Seq(Messages),
           NEW c \in Seq(Messages)
    PROVE  (a \o b) \o c = a \o (b \o c)
  BY ConcatAssociative

\* One more message at the end of the second of two sequences, or the first
\* of the second at the end of the first.
LEMMA GrowSecond ==
    ASSUME NEW a \in Seq(Messages), NEW b \in Seq(Messages), NEW m \in Messages
    PROVE  Append(a \o b, m) = a \o Append(b, m)
  <1> DEFINE one == <<m>>
  <1>1. a \o b \in Seq(Messages) /\ one \in Seq(Messages)
    BY ConcatProperties
  <1>2. Append(a \o b, m) = (a \o b) \o one
    BY <1>1, AppendIsConcat
  <1>3. Append(b, m) = b \o one
    BY AppendIsConcat
  <1> HIDE DEF one
  <1>4. (a \o b) \o one = a \o (b \o one)
    BY <1>1, RegroupMsgs, Zenon
  <1>5. a \o Append(b, m) = a \o (b \o one)
    BY <1>3, Zenon
  <1> QED  BY <1>2, <1>4, <1>5, SMT

\* A message that goes from the front of one sequence to the end of another
\* leaves the two together as they were.
LEMMA MoveFirst ==
    ASSUME NEW a \in Seq(Messages), NEW b \in Seq(Messages), NEW m \in Messages
    PROVE  Append(a, m) \o b = a \o (<<m>> \o b)
  <1> DEFINE one == <<m>>
  <1>1. Append(a, m) = a \o one /\ one \in Seq(Messages)
    BY AppendIsConcat
  <1> HIDE DEF one
  <1>2. (a \o one) \o b = a \o (one \o b)
    BY <1>1, RegroupMsgs, Zenon
  <1>3. Append(a, m) \o b = a \o (one \o b)
    BY <1>1, <1>2, SMT
  <1> QED  BY <1>3 DEF one

\* The steps of the messages that are carried to ROS.
CarriedStep ==
    \/ Carried' = Carried /\ UNCHANGED <<accepted, rosOut>>
    \/ \E f \in Frames :
         /\ IsData(f) /\ f.topic \in PublisherIds
         /\ Carried' = Append(Carried, f)
         /\ accepted' = Append(accepted, Msg(f)) /\ UNCHANGED rosOut
    \/ /\ Carried # <<>> /\ Carried' = Tail(Carried)
       /\ rosOut' = Append(rosOut, Msg(Head(Carried)))
       /\ UNCHANGED accepted

\* Once the session runs, every step moves messages as CarriedStep says.
LEMMA CarriedSteps ==
    ASSUME CleanSession, TypeOK, Running, [Next]_vars
    PROVE  CarriedStep
  <1>1. ASSUME UNCHANGED <<toAgent, tx, spawned>> PROVE Carried' = Carried
    BY <1>1 DEF Carried, InHand, tx
  <1>2. CASE RxData /\ UNCHANGED agentVars
    BY <1>1, <1>2 DEF RxData, agentVars, node, CarriedStep
  <1>3. CASE TxPoll /\ UNCHANGED agentVars
    <2>1. UNCHANGED <<accepted, txFrame, rosOut, spawned>>
          /\ txState = "SENDING_FRAME"
      BY <1>3 DEF TxPoll, agentVars, node
    <2>2. CASE bytesSent' < FrameLen
      BY <1>3, <2>1, <2>2 DEF TxPoll, Carried, InHand, CarriedStep
    <2>3. CASE ~(bytesSent' < FrameLen)
      <3> DEFINE w == IF spawned THEN toAgent ELSE Tail(toAgent)
      <3>1. w \in Seq(Frames) /\ txFrame \in Frames /\ toAgent \in Seq(Frames)
        BY CarriedType DEF Running, TypeOK, ClientTypeOK
      <3>2. toAgent' = Append(toAgent, txFrame)
        BY <1>3, <2>3 DEF TxPoll
      <3>3. (IF spawned THEN toAgent' ELSE Tail(toAgent')) = Append(w, txFrame)
        BY <3>1, <3>2, HeadTailAppend DEF Running
      <3>4. InHand = <<txFrame>> /\ InHand' = <<>>
        BY <1>3, <2>1, <2>3 DEF TxPoll, TxFrameComplete, InHand
      <3>5. /\ Append(w, txFrame) = w \o <<txFrame>>
            /\ Append(w, txFrame) \in Seq(Frames)
        BY <3>1, AppendIsConcat, AppendProperties
      <3>6. Carried' = Append(w, txFrame) \o <<>>
        BY <2>1, <3>3, <3>4 DEF Carried
      <3>7. Carried = w \o <<txFrame>>
        BY <3>4 DEF Carried
      <3> QED  BY <2>1, <3>5, <3>6, <3>7, ConcatEmptySeq DEF CarriedStep
    <2> QED  BY <2>2, <2>3
  <1>4. CASE (\E id \in PublisherIds : Publish(id)) /\ UNCHANGED agentVars
    <2>1. PICK id \in PublisherIds : Publish(id)
      BY <1>4
    <2> DEFINE f == DataFrame(id, Len(accepted) + 1)
               w == IF spawned THEN toAgent ELSE Tail(toAgent)
    <2>2. f \in Frames /\ IsData(f) /\ f.topic \in PublisherIds
      <3>1. id \in Ids /\ Len(accepted) + 1 \in Nat
        BY PartsType DEF PublisherIds
      <3> QED  BY <3>1, FramesAreFrames DEF IsData, DataFrame
    <2>3. txState = "IDLE" /\ StartFrame(f) /\ accepted' = Append(accepted, Msg(f))
      BY <2>1 DEF Publish, MayPublish, LoadData
    <2> HIDE DEF f
    <2>4. InHand = <<>> /\ InHand' = <<f>> /\ UNCHANGED toAgent
      BY <2>3 DEF StartFrame, MidFrame, InHand
    <2>5. UNCHANGED <<spawned, rosOut>>
      BY <1>4 DEF agentVars, node
    <2>6. w \in Seq(Frames)
      BY CarriedType DEF Running
    <2>7. Carried = w \o <<>> /\ Carried' = w \o <<f>>
      BY <2>4, <2>5 DEF Carried
    <2>8. Carried' = Append(Carried, f)
      BY <2>2, <2>6, <2>7, AppendIsConcat, ConcatEmptySeq
    <2> QED  BY <2>2, <2>3, <2>5, <2>8 DEF CarriedStep
  <1>5. CASE spawned /\ RecvData /\ UNCHANGED clientVars
    <2>1. toAgent # <<>> /\ toAgent' = Tail(toAgent) /\ UNCHANGED spawned
      BY <1>5 DEF RecvData, Recv, Arrives, node
    <2>2. InHand' = InHand /\ UNCHANGED accepted
      BY <1>5 DEF InHand, clientVars, tx
    <2>3. /\ Carried # <<>> /\ Head(Carried) = Head(toAgent)
          /\ Tail(Carried) = Tail(toAgent) \o InHand
      BY <1>5, <2>1, CarriedFirst
    <2>4. Carried' = Tail(Carried)
      BY <1>5, <2>1, <2>2, <2>3 DEF Carried
    <2>5. Head(toAgent).topic \in PublisherIds
      BY <1>5, <2>3, CarriedType, AllDataTail DEF Running
    <2>6. Head(toAgent).topic \in handles /\ IsPublisher(Head(toAgent).topic)
      BY <1>5, <2>5 DEF Running, CleanSession, PublisherIds
    <2>7. rosOut' = Append(rosOut, Msg(Head(toAgent)))
      BY <1>5, <2>6 DEF RecvData
    <2> QED  BY <2>2, <2>3, <2>4, <2>7 DEF CarriedStep
  <1>6. CASE ~spawned /\ RecvRegisterDone /\ UNCHANGED clientVars
    <2>1. toAgent' = Tail(toAgent) /\ spawned'
      BY <1>6 DEF RecvRegisterDone, Recv
    <2>2. InHand' = InHand /\ UNCHANGED <<accepted, rosOut>>
      BY <1>6 DEF InHand, clientVars, tx, RecvRegisterDone
    <2> QED  BY <1>6, <2>1, <2>2 DEF Carried, CarriedStep
  <1>7. CASE /\ \/ RecvNothing \/ SendDiscover \/ SendQueued \/ SendAck
                \/ \E id \in Ids : SubscriptionCallback(id)
             /\ UNCHANGED clientVars
    BY <1>1, <1>7
       DEF RecvNothing, SendDiscover, SendQueued, SendAck, SubscriptionCallback,
           link, node, clientVars, CarriedStep
  <1>8. CASE UNCHANGED vars
    BY <1>1, <1>8
       DEF vars, link, clientVars, agentVars, node, CarriedStep
  <1> QED
    BY <1>2, <1>3, <1>4, <1>5, <1>6, <1>7, <1>8, RunningStep

\* What was accepted is what has come out and what is carried.
LEMMA RunningCarried ==
    ASSUME CleanSession, TypeOK, Running, [Next]_vars
    PROVE  /\ AllData(Carried, PublisherIds)'
           /\ accepted' = rosOut' \o Msgs(Carried')
  <1>1. /\ Carried \in Seq(Frames) /\ AllData(Carried, PublisherIds)
        /\ accepted = rosOut \o Msgs(Carried)
    BY CarriedType DEF Running
  <1>2. rosOut \in Seq(Messages) /\ Msgs(Carried) \in Seq(Messages)
    BY <1>1, PartsType, MsgsType
  <1>3. CASE Carried' = Carried /\ UNCHANGED <<accepted, rosOut>>
    BY <1>1, <1>3
  <1>4. ASSUME NEW f \in Frames, IsData(f), f.topic \in PublisherIds,
               Carried' = Append(Carried, f),
               accepted' = Append(accepted, Msg(f)), UNCHANGED rosOut
        PROVE  /\ AllData(Carried, PublisherIds)'
               /\ accepted' = rosOut' \o Msgs(Carried')
    <2>1. AllData(Carried', PublisherIds)
      BY <1>1, <1>4, AllDataAppend
    <2>2. Msg(f) \in Messages
      BY <1>4 DEF Frames, Msg, Messages, IsData, RegisterDone, Discover, Torn
    <2>3. Append(rosOut \o Msgs(Carried), Msg(f))
            = rosOut \o Append(Msgs(Carried), Msg(f))
      BY <1>2, <2>2, GrowSecond
    <2>4. Msgs(Append(Carried, f)) = Append(Msgs(Carried), Msg(f))
      BY <1>1, <1>4, MsgsAppend
    <2>5. accepted' = rosOut' \o Msgs(Carried')
      BY <1>1, <1>4, <2>3, <2>4, Zenon
    <2> QED  BY <2>1, <2>5
  <1>5. CASE /\ Carried # <<>> /\ Carried' = Tail(Carried)
             /\ rosOut' = Append(rosOut, Msg(Head(Carried)))
             /\ UNCHANGED accepted
    <2> DEFINE m == Msg(Head(Carried))
               t == Tail(Carried)
    <2>1. AllData(Carried', PublisherIds)
      BY <1>1, <1>5, AllDataTail
    <2>2. /\ Msgs(Carried) = <<m>> \o Msgs(t)
          /\ m \in Messages /\ Msgs(t) \in Seq(Messages)
      BY <1>1, <1>5, MsgsFirst
    <2> HIDE DEF m
    <2>3. Append(rosOut, m) \o Msgs(t) = rosOut \o (<<m>> \o Msgs(t))
      BY <1>2, <2>2, MoveFirst
    <2>4. rosOut' = Append(rosOut, m)
      BY <1>5 DEF m
    <2>5. accepted' = rosOut' \o Msgs(Carried')
      BY <1>1, <1>5, <2>2, <2>3, <2>4, Zenon
    <2> QED  BY <2>1, <2>5
  <1> QED  BY <1>3, <1>4, <1>5, CarriedSteps DEF CarriedStep

\* A running session runs on, and its node stays what it is.
LEMMA FromRunning ==
    ASSUME CleanSession, TypeOK, AgentKeepsRunning, Running, [Next]_vars
    PROVE  /\ Running' /\ AgentKeepsRunning'
           /\ spawned => spawned' /\ handles' = handles
  <1>1. /\ AllData(toClient, SubscriberIds)' /\ AllData(queue, SubscriberIds)'
        /\ AllData(Carried, PublisherIds)'
        /\ accepted' = rosOut' \o Msgs(Carried')
    BY RunningDown, RunningCarried
  <1>2. ASSUME UNCHANGED <<needRegistration, needAck, awaitingAck,
                           registrationComplete, newTopics, spawned, handles>>,
               AgentKeepsRunning',
               ~spawned => /\ rosOut' = <<>> /\ toAgent' # <<>>
                           /\ Head(toAgent') = RegisterDone,
               txState' = "SENDING_FRAME" => ~isRegistration'
        PROVE  /\ Running' /\ AgentKeepsRunning'
               /\ spawned => spawned' /\ handles' = handles
    BY <1>1, <1>2 DEF Running
  <1>3. ~spawned => /\ rosOut = <<>> /\ toAgent # <<>>
                    /\ Head(toAgent) = RegisterDone
    BY DEF Running
  <1>4. /\ txState = "SENDING_FRAME" => ~isRegistration
        /\ ~needAck /\ ~needRegistration /\ ~awaitingAck /\ registrationComplete
    BY DEF Running
  <1>5. /\ needAck \in BOOLEAN /\ needRegistration \in BOOLEAN
        /\ awaitingAck \in BOOLEAN /\ registrationComplete \in BOOLEAN
    BY DEF TypeOK, ClientTypeOK, AgentTypeOK
  <1>6. CASE RxData /\ UNCHANGED agentVars
    BY <1>2, <1>3, <1>4, <1>6
       DEF RxData, AgentKeepsRunning, agentVars, ackSlot, node, tx, registration
  <1>7. CASE TxPoll /\ UNCHANGED agentVars
    <2>1. UNCHANGED <<awaitingAck, isRegistration>> /\ txState = "SENDING_FRAME"
      BY <1>7 DEF TxPoll, registration
    <2>2. UNCHANGED registrationComplete
      BY <1>4, <1>5, <1>7, <2>1 DEF TxPoll, TxFrameComplete
    <2>3. toAgent' = toAgent \/ toAgent' = Append(toAgent, txFrame)
      BY <1>7 DEF TxPoll
    <2>4. ~spawned => toAgent' # <<>> /\ Head(toAgent') = RegisterDone
      <3>1. txFrame \in Frames /\ toAgent \in Seq(Frames)
        BY DEF TypeOK, ClientTypeOK
      <3> QED  BY <1>3, <2>3, <3>1, HeadTailAppend, AppendProperties
    <2> QED
      BY <1>2, <1>3, <1>4, <1>7, <2>1, <2>2, <2>4
         DEF AgentKeepsRunning, agentVars, ackSlot, node
  <1>8. CASE (\E id \in PublisherIds : Publish(id)) /\ UNCHANGED agentVars
    <2>1. /\ UNCHANGED <<awaitingAck, registrationComplete, toAgent>>
          /\ isRegistration' = FALSE
      BY <1>8 DEF Publish, MayPublish, LoadData, StartFrame, MidFrame
    <2> QED
      BY <1>2, <1>3, <1>8, <2>1 DEF AgentKeepsRunning, agentVars, ackSlot, node
  <1>9. CASE spawned /\ RecvData /\ UNCHANGED clientVars
    <2>1. toAgent # <<>>
      BY <1>9 DEF RecvData, Recv, Arrives
    <2>2. Head(toAgent).topic \in PublisherIds
      BY <1>9, <2>1, CarriedFirst, CarriedType, AllDataTail DEF Running
    <2>3. Head(toAgent).topic \in handles
      BY <1>9, <2>2 DEF Running, CleanSession
    <2>4. agentPc' = "discover"
      BY <1>9, <2>3 DEF RecvData
    <2> QED
      BY <1>2, <1>4, <1>9, <2>4
         DEF RecvData, AgentKeepsRunning, clientVars, tx, registration, ackSlot,
             node
  <1>10. CASE ~spawned /\ RecvRegisterDone /\ UNCHANGED clientVars
    <2>1. /\ spawned' = TRUE /\ handles' = newTopics /\ agentPc' = "discover"
          /\ UNCHANGED <<needRegistration, ackSlot, newTopics, rosOut>>
      BY <1>10 DEF RecvRegisterDone, CleanSession
    <2>2. UNCHANGED <<txState, isRegistration, awaitingAck,
                      registrationComplete>>
      BY <1>10 DEF clientVars, tx, registration
    <2>3. AgentKeepsRunning'
      BY <2>1 DEF AgentKeepsRunning
    <2>4. Running'
      BY <1>1, <2>1, <2>2 DEF Running, ackSlot
    <2> QED  BY <1>10, <2>3, <2>4
  <1>11. CASE /\ \/ RecvNothing \/ SendDiscover \/ SendQueued \/ SendAck
                 \/ \E id \in Ids : SubscriptionCallback(id)
              /\ UNCHANGED clientVars
    <2>1. UNCHANGED <<newTopics, spawned, handles, rosOut, toAgent>>
      BY <1>11 DEF RecvNothing, SendDiscover, SendQueued, SendAck,
                   SubscriptionCallback, link, node
    <2>2. UNCHANGED <<needRegistration, needAck>>
      BY <1>4, <1>5, <1>11
         DEF RecvNothing, SendDiscover, SendQueued, SendAck, AckedLeaves,
             SubscriptionCallback, ackSlot
    <2>3. AgentKeepsRunning'
      BY <1>11 DEF RecvNothing, SendDiscover, SendQueued, SendAck,
                   SubscriptionCallback, AgentKeepsRunning
    <2> QED
      BY <1>2, <1>3, <1>4, <1>11, <2>1, <2>2, <2>3
         DEF clientVars, tx, registration
  <1>12. CASE UNCHANGED vars
    BY <1>2, <1>3, <1>4, <1>12
       DEF vars, link, clientVars, agentVars, tx, registration, ackSlot, node,
           AgentKeepsRunning
  <1> QED
    BY <1>6, <1>7, <1>8, <1>9, <1>10, <1>11, <1>12, RunningStep

\* The session starts in its first phase.
LEMMA InitPhase == Init => PhaseInv
  <1> SUFFICES ASSUME Init PROVE PhaseInv
    OBVIOUS
  <1>1. Setup /\ AtStart /\ AgentKeepsRunning
    BY DEF Init, LinkInit, ClientInit, ClientStart, AgentInit, Setup, AtStart,
           AgentKeepsRunning
  <1> QED  BY <1>1 DEF PhaseInv

\* One phase leads to the next.
LEMMA NextPhase ==
    ASSUME CleanSession
    PROVE  TypeOK /\ PhaseInv /\ [Next]_vars => PhaseInv'
  <1> SUFFICES ASSUME TypeOK, PhaseInv, [Next]_vars PROVE PhaseInv'
    OBVIOUS
  <1>1. CASE Running
    BY <1>1, FromRunning DEF PhaseInv
  <1> QED
    BY <1>1, CleanStep, FromStart, FromDiscovering, FromSendingRegister,
       FromRegisterArriving, FromAcknowledging, FromAckArriving,
       FromSendingDone
       DEF PhaseInv

\* The clean session is always in one of the phases.
THEOREM PhasesHold == ASSUME CleanSession PROVE Spec => [](TypeOK /\ PhaseInv)
  <1>1. Init => TypeOK /\ PhaseInv
    BY InitType, InitPhase
  <1>2. (TypeOK /\ PhaseInv) /\ [Next]_vars => (TypeOK /\ PhaseInv)'
    BY NextType, NextPhase
  <1> QED  BY <1>1, <1>2, PTL DEF Spec

-----------------------------------------------------------------------------
(* What the phases say about the lines                                     *)

\* Of the seven turns one is held.
LEMMA OneOfSeven ==
    ASSUME NEW t, DOMAIN t = 1 .. 7, NEW k \in 1 .. 7, t[k],
           \A j \in 1 .. 7 : j # k => ~t[j]
    PROVE  Cardinality({j \in DOMAIN t : t[j]}) = 1
  <1>1. {j \in DOMAIN t : t[j]} = {k}
    OBVIOUS
  <1> QED  BY <1>1, FS_Singleton

\* All there is on the lines of a running session.
LEMMA RunningLines ==
    ASSUME TypeOK, Running
    PROVE  /\ \A i \in DOMAIN toClient : toClient[i].type = "DATA"
           /\ spawned => \A i \in DOMAIN toAgent :
                /\ toAgent[i].type = "DATA" /\ toAgent[i].topic \in PublisherIds
           /\ ~spawned =>
                /\ 1 \in DOMAIN toAgent /\ toAgent[1] = RegisterDone
                /\ \A i \in DOMAIN toAgent :
                     i # 1 => toAgent[i].type = "DATA" /\ i > 1
  <1> DEFINE w == IF spawned THEN toAgent ELSE Tail(toAgent)
  <1>1. toAgent \in Seq(Frames) /\ w \in Seq(Frames) /\ InHand \in Seq(Frames)
    BY PartsType, CarriedType DEF Running
  <1>2. \A i \in DOMAIN w : IsData(w[i]) /\ w[i].topic \in PublisherIds
    <2>1. /\ Carried \in Seq(Frames) /\ Len(Carried) = Len(w) + Len(InHand)
          /\ \A i \in 1 .. Len(w) + Len(InHand) :
               Carried[i] = IF i <= Len(w) THEN w[i] ELSE InHand[i - Len(w)]
      BY <1>1, ConcatProperties DEF Carried
    <2>2. DOMAIN w = 1 .. Len(w) /\ Len(w) \in Nat /\ Len(InHand) \in Nat
      BY <1>1
    <2> HIDE DEF w
    <2>3. \A i \in DOMAIN w : i \in DOMAIN Carried /\ Carried[i] = w[i]
      BY <2>1, <2>2
    <2> QED  BY <2>3 DEF Running, AllData
  <1>3. \A i \in DOMAIN toClient : toClient[i].type = "DATA"
    BY DEF Running, AllData, IsData
  <1>4. CASE spawned
    BY <1>2, <1>3, <1>4 DEF IsData
  <1>5. CASE ~spawned
    <2>1. toAgent # <<>> /\ Head(toAgent) = RegisterDone
      BY <1>5 DEF Running
    <2>2. 1 \in DOMAIN toAgent /\ toAgent[1] = RegisterDone
      BY <1>1, <2>1
    <2>3. Len(Tail(toAgent)) = Len(toAgent) - 1
          /\ \A i \in 1 .. Len(Tail(toAgent)) : Tail(toAgent)[i] = toAgent[i + 1]
      BY <1>1, <2>1, HeadTailProperties
    <2>4. ASSUME NEW i \in DOMAIN toAgent, i # 1
          PROVE  toAgent[i].type = "DATA" /\ i > 1
      <3>1. i - 1 \in DOMAIN w /\ w[i - 1] = toAgent[i] /\ i > 1
        BY <1>1, <1>5, <2>3, <2>4
      <3> QED  BY <1>2, <3>1 DEF IsData
    <2> QED  BY <1>3, <1>5, <2>2, <2>4
  <1> QED  BY <1>4, <1>5

\* The frames of the two lines during registration.
LEMMA SetupLines ==
    ASSUME PhaseInv, ~Running
    PROVE  /\ \A i \in DOMAIN toClient :
                \/ Discovering /\ toClient[i] = Discover
                \/ AckArriving /\ toClient[i] = AckOf(regIdx)
           /\ \A i \in DOMAIN toAgent :
                RegisterArriving /\ toAgent[i] = RegisterFrame(regIdx)
  <1>1. \A i \in DOMAIN <<>> : FALSE
    OBVIOUS
  <1>2. \A f : \A i \in DOMAIN <<f>> : <<f>>[i] = f
    OBVIOUS
  <1> QED
    BY <1>1, <1>2
       DEF PhaseInv, AtStart, Discovering, SendingRegister, RegisterArriving,
           Acknowledging, AckArriving, SendingDone

\* Nothing is torn.
THEOREM NothingIsTorn == ASSUME CleanSession PROVE Spec => []NothingTorn
  <1>1. TypeOK /\ PhaseInv => NothingTorn
    <2> SUFFICES ASSUME TypeOK, PhaseInv PROVE NothingTorn
      OBVIOUS
    <2>1. CASE Running
      BY <2>1, RunningLines DEF NothingTorn, RegisterDone
    <2>2. CASE ~Running
      BY <2>2, SetupLines
         DEF NothingTorn, Discover, AckOf, AckFrame, RegisterFrame
    <2> QED  BY <2>1, <2>2
  <1> QED  BY <1>1, PhasesHold, PTL

\* Every ACK on its way is the answer to the topic being registered.
THEOREM AcksAnswerRegisters ==
    ASSUME CleanSession PROVE Spec => []AckAnswersRegister
  <1>1. TypeOK /\ PhaseInv => AckAnswersRegister
    <2> SUFFICES ASSUME TypeOK, PhaseInv PROVE AckAnswersRegister
      OBVIOUS
    <2>1. CASE Running
      BY <2>1, RunningLines DEF AckAnswersRegister
    <2>2. CASE ~Running
      BY <2>2, SetupLines
         DEF AckAnswersRegister, Discover, AckOf, AckArriving, Registering
    <2> QED  BY <2>1, <2>2
  <1> QED  BY <1>1, PhasesHold, PTL

\* The agent never reads a message before it has a publisher for it.
THEOREM DataFindsItsPublisher ==
    ASSUME CleanSession PROVE Spec => []DataFindsPublisher
  <1>1. TypeOK /\ PhaseInv => DataFindsPublisher
    <2> SUFFICES ASSUME TypeOK, PhaseInv PROVE DataFindsPublisher
      OBVIOUS
    <2>1. CASE Running /\ spawned
      <3>1. PublisherIds \subseteq handles
        BY <2>1 DEF Running, CleanSession
      <3> QED  BY <2>1, <3>1, RunningLines DEF DataFindsPublisher
    <2>2. CASE Running /\ ~spawned
      BY <2>2, RunningLines DEF DataFindsPublisher, RegisterDone
    <2>3. CASE ~Running
      BY <2>3, SetupLines DEF DataFindsPublisher, RegisterFrame
    <2> QED  BY <2>1, <2>2, <2>3
  <1> QED  BY <1>1, PhasesHold, PTL

\* The agent neither crashes nor aborts.
THEOREM AgentStaysUp == ASSUME CleanSession PROVE Spec => []AgentKeepsRunning
  <1>1. PhaseInv => AgentKeepsRunning
    BY DEF PhaseInv
  <1> QED  BY <1>1, PhasesHold, PTL

\* The handles of the node are final once it is there.
LEMMA HandlesStep ==
    ASSUME CleanSession
    PROVE  TypeOK /\ PhaseInv /\ [Next]_vars
             => (spawned => spawned' /\ handles' = handles)
  BY FromRunning DEF PhaseInv, Setup

\* spawn_client is called once: after it the node keeps the handles it was
\* given (HandlesAreFinal).
THEOREM HandlesStayFinal == ASSUME CleanSession PROVE Spec => HandlesAreFinal
  <1>1. TypeOK /\ PhaseInv /\ [Next]_vars
          => (spawned => spawned' /\ handles' = handles)
    BY HandlesStep
  <1> QED  BY <1>1, PhasesHold, PTL DEF Spec, HandlesAreFinal

\* Registration is a conversation: one party has the turn.
LEMMA OneTurnInPhases == TypeOK /\ PhaseInv => OneTurn
  <1> SUFFICES ASSUME TypeOK, PhaseInv PROVE OneTurn
    OBVIOUS
  <1> DEFINE t == RegistrationTurns
             discovered == \E i \in DOMAIN toClient : toClient[i].type = "DISCOVER"
             sending    == txState = "SENDING_FRAME" /\ isRegistration
             registered == \E i \in DOMAIN toAgent : toAgent[i].type = "REGISTER"
             acked      == \E i \in DOMAIN toClient : toClient[i].type = "ACK"
  <1>1. /\ t = <<needRegistration, discovered, sending, registered, needAck,
                 acked, registrationComplete>>
    BY DEF RegistrationTurns
  <1>2. DOMAIN t = 1 .. 7
    BY <1>1
  <1>3. /\ t[1] = needRegistration /\ t[2] = discovered /\ t[3] = sending
        /\ t[4] = registered /\ t[5] = needAck /\ t[6] = acked
        /\ t[7] = registrationComplete
    BY <1>1
  <1> HIDE DEF t
  <1>4. ASSUME NEW k \in 1 .. 7, t[k], \A j \in 1 .. 7 : j # k => ~t[j]
        PROVE  OneTurn
    <2>1. Cardinality({j \in DOMAIN t : t[j]}) = 1
      BY <1>2, <1>4, OneOfSeven
    <2> QED  BY <2>1 DEF OneTurn, t
  <1>5. \A j \in 1 .. 7 : \/ j = 1 \/ j = 2 \/ j = 3 \/ j = 4 \/ j = 5 \/ j = 6
                          \/ j = 7
    OBVIOUS
  <1>6. CASE Running
    <2>1. ~needRegistration /\ ~needAck /\ registrationComplete /\ ~sending
      BY <1>6 DEF Running
    <2>2. ~discovered /\ ~acked /\ ~registered
      BY <1>6, RunningLines DEF RegisterDone
    <2> HIDE DEF discovered, sending, registered, acked
    <2>3. t[7] /\ \A j \in 1 .. 7 : j # 7 => ~t[j]
      BY <1>3, <1>5, <2>1, <2>2
    <2> QED  BY <1>4, <2>3
  <1>7. CASE ~Running
    <2>1. ~registrationComplete
      BY <1>7 DEF PhaseInv, Setup
    <2>2. /\ discovered => Discovering
          /\ acked => AckArriving
          /\ registered => RegisterArriving
      BY <1>7, SetupLines
         DEF Discover, AckOf, AckFrame, RegisterFrame
    <2>3. CASE AtStart
      <3>1. /\ needRegistration /\ ~needAck /\ ~sending
            /\ ~discovered /\ ~acked /\ ~registered
        BY <2>2, <2>3 DEF AtStart, Discovering, AckArriving, RegisterArriving,
                          Registering
      <3> HIDE DEF discovered, sending, registered, acked
      <3>2. t[1] /\ \A j \in 1 .. 7 : j # 1 => ~t[j]
        BY <1>3, <1>5, <2>1, <3>1
      <3> QED  BY <1>4, <3>2
    <2>4. CASE Discovering
      <3>1. ~needRegistration /\ ~needAck /\ ~sending /\ ~registered /\ ~acked
        BY <2>2, <2>4 DEF Discovering, AckArriving, RegisterArriving,
                          Registering
      <3>2. discovered
        <4>1. toClient = <<Discover>>
          BY <2>4 DEF Discovering
        <4>2. 1 \in DOMAIN toClient /\ toClient[1].type = "DISCOVER"
          BY <4>1 DEF Discover
        <4> QED  BY <4>2
      <3> HIDE DEF discovered, sending, registered, acked
      <3>3. t[2] /\ \A j \in 1 .. 7 : j # 2 => ~t[j]
        BY <1>3, <1>5, <2>1, <3>1, <3>2
      <3> QED  BY <1>4, <3>3
    <2>5. CASE SendingRegister \/ SendingDone
      <3>1. /\ ~needRegistration /\ ~needAck /\ sending
            /\ ~discovered /\ ~registered /\ ~acked
        BY <2>2, <2>5
           DEF SendingRegister, SendingDone, Discovering, AckArriving,
               RegisterArriving, Registering
      <3> HIDE DEF discovered, sending, registered, acked
      <3>2. t[3] /\ \A j \in 1 .. 7 : j # 3 => ~t[j]
        BY <1>3, <1>5, <2>1, <3>1
      <3> QED  BY <1>4, <3>2
    <2>6. CASE RegisterArriving
      <3>1. /\ ~needRegistration /\ ~needAck /\ ~sending
            /\ ~discovered /\ ~acked
        BY <2>2, <2>6 DEF Discovering, AckArriving, RegisterArriving,
                          Registering
      <3>2. registered
        <4>1. toAgent = <<RegisterFrame(regIdx)>>
          BY <2>6 DEF RegisterArriving
        <4>2. 1 \in DOMAIN toAgent /\ toAgent[1].type = "REGISTER"
          BY <4>1 DEF RegisterFrame
        <4> QED  BY <4>2
      <3> HIDE DEF discovered, sending, registered, acked
      <3>3. t[4] /\ \A j \in 1 .. 7 : j # 4 => ~t[j]
        BY <1>3, <1>5, <2>1, <3>1, <3>2
      <3> QED  BY <1>4, <3>3
    <2>7. CASE Acknowledging
      <3>1. /\ ~needRegistration /\ needAck /\ ~sending
            /\ ~discovered /\ ~registered /\ ~acked
        BY <2>2, <2>7
           DEF Acknowledging, Discovering, AckArriving, RegisterArriving,
               Registering
      <3> HIDE DEF discovered, sending, registered, acked
      <3>2. t[5] /\ \A j \in 1 .. 7 : j # 5 => ~t[j]
        BY <1>3, <1>5, <2>1, <3>1
      <3> QED  BY <1>4, <3>2
    <2>8. CASE AckArriving
      <3>1. /\ ~needRegistration /\ ~needAck /\ ~sending
            /\ ~registered /\ ~discovered
        BY <2>2, <2>8 DEF Discovering, AckArriving, RegisterArriving,
                          Registering, AckOf, AckFrame, Discover
      <3>2. acked
        <4>1. toClient = <<AckOf(regIdx)>>
          BY <2>8 DEF AckArriving
        <4>2. 1 \in DOMAIN toClient /\ toClient[1].type = "ACK"
          BY <4>1 DEF AckOf, AckFrame
        <4> QED  BY <4>2
      <3> HIDE DEF discovered, sending, registered, acked
      <3>3. t[6] /\ \A j \in 1 .. 7 : j # 6 => ~t[j]
        BY <1>3, <1>5, <2>1, <3>1, <3>2
      <3> QED  BY <1>4, <3>3
    <2> QED
      BY <1>7, <2>3, <2>4, <2>5, <2>6, <2>7, <2>8 DEF PhaseInv
  <1> QED  BY <1>6, <1>7

\* Until REGISTER_DONE is out exactly one of board, agent and line holds the
\* next move of the registration, so it neither stalls nor runs twice.
THEOREM OneHasTheTurn == ASSUME CleanSession PROVE Spec => []OneTurn
  BY OneTurnInPhases, PhasesHold, PTL

-----------------------------------------------------------------------------
(* The way from nros_publish to ROS is a pipe                              *)

\* A message that is accepted enters the pipe, one that the agent publishes
\* leaves it, and nothing else moves.
LEMMA PipeStep ==
    ASSUME CleanSession
    PROVE  TypeOK /\ PhaseInv /\ [Next]_vars
             => [PubPipe!PipeNext]_(PubPipe!pipeVars)
  <1> SUFFICES ASSUME TypeOK, PhaseInv, [Next]_vars
               PROVE  [PubPipe!PipeNext]_(PubPipe!pipeVars)
    OBVIOUS
  <1>1. CASE UNCHANGED <<accepted, rosOut>>
    BY <1>1 DEF PubPipe!pipeVars
  <1>2. CASE Running
    <2>1. /\ rosOut \in Seq(Messages) /\ accepted \in Seq(Messages)
          /\ Carried \in Seq(Frames) /\ AllData(Carried, PublisherIds)
          /\ accepted = rosOut \o Msgs(Carried)
      BY <1>2, PartsType, CarriedType DEF Running
    <2>2. ASSUME NEW f \in Frames, IsData(f),
                 accepted' = Append(accepted, Msg(f)), UNCHANGED rosOut
          PROVE  PubPipe!Accept
      <3>1. Msg(f) \in Messages
        BY <2>2 DEF Frames, Msg, Messages, IsData, RegisterDone, Discover, Torn
      <3>2. /\ accepted' \in Seq(Messages) /\ Len(accepted') = Len(accepted) + 1
            /\ \A i \in 1 .. Len(accepted) : accepted'[i] = accepted[i]
        BY <2>1, <2>2, <3>1, AppendProperties
      <3>3. SubSeq(accepted', 1, Len(accepted)) = accepted
        <4> DEFINE u == SubSeq(accepted', 1, Len(accepted))
        <4>1. Len(accepted) \in Nat
          BY <2>1
        <4>2. \A i \in 1 .. Len(accepted) : accepted'[i] \in Messages
          BY <2>1, <3>2
        <4>3. /\ u \in Seq(Messages) /\ Len(u) = Len(accepted)
              /\ \A i \in 1 .. Len(accepted) : u[i] = accepted[i]
          BY <3>2, <4>1, <4>2, SubSeqProperties
        <4> HIDE DEF u
        <4>4. u = accepted
          BY <2>1, <4>3, SeqEqual
        <4> QED  BY <4>4 DEF u
      <3> QED  BY <2>2, <3>2, <3>3 DEF PubPipe!Accept
    <2>3. ASSUME Carried # <<>>, rosOut' = Append(rosOut, Msg(Head(Carried))),
                 UNCHANGED accepted
          PROVE  PubPipe!Deliver
      <3> DEFINE m == Msg(Head(Carried))
                 r == Msgs(Tail(Carried))
      <3>1. Msgs(Carried) = <<m>> \o r /\ m \in Messages /\ r \in Seq(Messages)
        BY <2>1, <2>3, MsgsFirst
      <3> HIDE DEF m, r
      <3>2. /\ <<m>> \o r \in Seq(Messages) /\ Len(<<m>> \o r) = 1 + Len(r)
            /\ (<<m>> \o r)[1] = m
        BY <3>1, ConcatProperties
      <3>3. Len(rosOut) \in Nat /\ Len(r) \in Nat
        BY <2>1, <3>1
      <3>4. /\ Len(accepted) = Len(rosOut) + Len(<<m>> \o r)
            /\ \A i \in 1 .. Len(rosOut) + Len(<<m>> \o r) :
                 accepted[i] = IF i <= Len(rosOut) THEN rosOut[i]
                               ELSE (<<m>> \o r)[i - Len(rosOut)]
        BY <2>1, <3>1, <3>2, ConcatProperties
      <3>5. Len(rosOut) < Len(accepted) /\ accepted[Len(rosOut) + 1] = m
        BY <3>2, <3>3, <3>4
      <3> QED  BY <2>3, <3>5 DEF PubPipe!Deliver, m
    <2> QED
      BY <1>1, <1>2, <2>2, <2>3, CarriedSteps
         DEF CarriedStep, PubPipe!PipeNext
  <1>3. CASE ~Running
    <2>1. Setup /\ ~registrationComplete /\ ~spawned
      BY <1>3 DEF PhaseInv, Setup
    <2>2. UNCHANGED accepted
      BY <2>1 DEF Next, Client, AgentThreads, Faults, Restart, Reset, Corrupt,
                  RxPoll, RxData, RxAckIgnored, RxAckAdvances, RxDiscover,
                  RxIgnored, RxTorn, TxPoll, Publish, MayPublish, ClientReset,
                  clientVars, vars
    <2>3. UNCHANGED rosOut
      BY <2>1 DEF Next, Client, AgentThreads, Faults, Restart, Reset, Corrupt,
                  AgentLoop, RecvNothing, RecvFrame, RecvData, RecvRegister,
                  RecvRegisterDone, RecvTorn, SendDiscover, SendQueued,
                  SendAck, SubscriptionCallback, AgentRestart, agentVars, vars
    <2> QED  BY <1>1, <2>2, <2>3
  <1> QED  BY <1>2, <1>3

\* The safety part of PublishIsReliable: what ROS gets is what nros_publish
\* accepted, message by message.
THEOREM PublishIsAPipe ==
    ASSUME CleanSession
    PROVE  Spec => PubPipe!PipeInit /\ [][PubPipe!PipeNext]_(PubPipe!pipeVars)
  <1>1. Init => PubPipe!PipeInit
    BY DEF Init, ClientInit, AgentInit, PubPipe!PipeInit
  <1>2. TypeOK /\ PhaseInv /\ [Next]_vars
          => [PubPipe!PipeNext]_(PubPipe!pipeVars)
    BY PipeStep
  <1> QED  BY <1>1, <1>2, PhasesHold, PTL DEF Spec

-----------------------------------------------------------------------------
(* What a crash takes                                                      *)

\* The frames the agent never repeats.
NotDiscover == {f \in Frames : f.type # "DISCOVER"}

HasDone(w) == \E i \in DOMAIN w : w[i].type = "REGISTER_DONE"

\* The board has nothing to answer: no DISCOVER has been sent, or it has not
\* been read.
NotDiscovered ==
    /\ Setup /\ ~needAck /\ ~awaitingAck
    /\ newTopics = {} /\ toAgent = <<>> /\ txState = "IDLE"
    /\ toClient \in {<<>>, <<Discover>>, <<Torn>>}
    /\ needRegistration => toClient = <<>>

\* AckArriving, with an ACK that may be lost.
AckArrivingOrLost ==
    /\ Registering /\ ~needAck
    /\ newTopics = AcceptedBelow(regIdx + 1)
    /\ toAgent = <<>> /\ txState = "IDLE"
    /\ toClient \in {<<>>, <<AckOf(regIdx)>>, <<Torn>>}

\* Every DATA frame of the line finds a node, which is open or will be by
\* then, and nothing can swallow the REGISTER_DONE before it.
DataIsExpected ==
    /\ \A i \in DOMAIN toAgent :
         toAgent[i].type = "DATA" =>
            /\ toAgent[i].topic \in PublisherIds
            /\ \/ spawned
               \/ \E j \in DOMAIN toAgent :
                    j < i /\ toAgent[j].type = "REGISTER_DONE"
    /\ HasDone(toAgent) => PublisherIds \subseteq newTopics
    /\ spawned => PublisherIds \subseteq handles
    /\ \A i \in DOMAIN toAgent :
         toAgent[i].type = "TORN" => i = Len(toAgent)

\* The board is registered and publishes.
Publishing ==
    /\ registrationComplete
    /\ spawned \/ HasDone(toAgent)
    /\ \A i \in DOMAIN toAgent : toAgent[i].type # "TORN"
    /\ txState = "SENDING_FRAME" =>
         txFrame.type = "DATA" /\ txFrame.topic \in PublisherIds

\* The board has rebooted, or has come to a topic it cannot register, and
\* stays silent, since the only DISCOVER is gone.
Silent == ~registrationComplete /\ txState = "IDLE"

Settled ==
    /\ ~needRegistration /\ ~awaitingAck
    /\ toClient \in Seq(NotDiscover) /\ queue \in Seq(NotDiscover)
    /\ DataIsExpected
    /\ Publishing \/ Silent

\* Registration, up to the last byte of REGISTER_DONE.
Asking ==
    \/ NotDiscovered
    \/ Setup /\ \/ SendingRegister \/ RegisterArriving
                \/ Acknowledging \/ AckArrivingOrLost \/ SendingDone

\* As long as the agent has not been restarted and the line has lost nothing.
CalmInv ==
    restarts = 0 /\ corruptions = 0 =>
        \/ AgentKeepsRunning /\ Asking
        \/ agentPc # "crashed" /\ Settled

\* Every suffix of a sequence is a sequence of the same elements.
LEMMA SuffixesAreSequences ==
    ASSUME NEW S, NEW w \in Seq(S), NEW v \in Suffixes(w)
    PROVE  v \in Seq(S)
  <1>1. CASE v = <<>>
    BY <1>1
  <1>2. CASE v # <<>>
    <2>1. PICK l \in 1 .. Len(w) : v = SubSeq(w, l, Len(w))
      BY <1>2 DEF Suffixes
    <2> QED  BY <2>1, SubSeqProperties
  <1> QED  BY <1>1, <1>2

\* Restarts and corruptions are only counted up: without them, the step was
\* one of the board, of the agent, or a reboot of the board.
LEMMA CalmStep ==
    ASSUME TypeOK, [Next]_vars, restarts' = 0, corruptions' = 0
    PROVE  /\ restarts = 0 /\ corruptions = 0
           /\ Client \/ AgentThreads \/ Reset \/ UNCHANGED vars
  <1>1. restarts \in Nat /\ corruptions \in Nat
    BY BoundsAssumption DEF TypeOK
  <1>2. ~Restart /\ ~Corrupt
    BY <1>1 DEF Restart, Corrupt
  <1> QED
    BY <1>1, <1>2 DEF Next, Faults, Client, AgentThreads, Reset, vars, faultVars

-----------------------------------------------------------------------------
(* The board's side of a settled session                                   *)

\* A line that has grown by one frame that is expected.
LEMMA ExpectedGrows ==
    ASSUME DataIsExpected, toAgent \in Seq(Frames), NEW f \in Frames,
           toAgent' = Append(toAgent, f),
           \A i \in DOMAIN toAgent : toAgent[i].type # "TORN",
           f.type # "REGISTER_DONE",
           f.type = "DATA" => /\ f.topic \in PublisherIds
                              /\ spawned \/ HasDone(toAgent),
           UNCHANGED <<newTopics, spawned, handles>>
    PROVE  /\ DataIsExpected'
           /\ HasDone(toAgent) => HasDone(toAgent')
           /\ f.type # "TORN" =>
                \A i \in DOMAIN toAgent' : toAgent'[i].type # "TORN"
  <1>1. /\ Len(toAgent) \in Nat /\ Len(toAgent') = Len(toAgent) + 1
        /\ DOMAIN toAgent = 1 .. Len(toAgent)
        /\ DOMAIN toAgent' = 1 .. Len(toAgent) + 1
        /\ \A i \in 1 .. Len(toAgent) : toAgent'[i] = toAgent[i]
        /\ toAgent'[Len(toAgent) + 1] = f
    BY AppendProperties
  <1>2. \A i \in DOMAIN toAgent' : i \in DOMAIN toAgent \/ i = Len(toAgent) + 1
    BY <1>1
  <1>3. HasDone(toAgent') <=> HasDone(toAgent)
    BY <1>1, <1>2 DEF HasDone
  <1>4. ASSUME NEW i \in DOMAIN toAgent', toAgent'[i].type = "DATA"
        PROVE  /\ toAgent'[i].topic \in PublisherIds
               /\ \/ spawned
                  \/ \E j \in DOMAIN toAgent' :
                       j < i /\ toAgent'[j].type = "REGISTER_DONE"
    <2>1. CASE i \in DOMAIN toAgent
      BY <1>1, <1>4, <2>1 DEF DataIsExpected
    <2>2. CASE i = Len(toAgent) + 1
      BY <1>1, <1>4, <2>2 DEF HasDone
    <2> QED  BY <1>2, <2>1, <2>2
  <1>5. \A i \in DOMAIN toAgent' : toAgent'[i].type = "TORN" => i = Len(toAgent')
    BY <1>1, <1>2
  <1> QED  BY <1>1, <1>2, <1>3, <1>4, <1>5 DEF DataIsExpected

\* What the board does keeps a session settled.
LEMMA SettledClient ==
    ASSUME TypeOK, Settled, Client
    PROVE  Settled'
  <1>1. /\ toAgent \in Seq(Frames) /\ toClient \in Seq(NotDiscover)
        /\ txFrame \in Frames /\ registrationComplete \in BOOLEAN
        /\ DataIsExpected /\ ~awaitingAck /\ ~needRegistration
    BY DEF TypeOK, ClientTypeOK, Settled
  <1>2. UNCHANGED agentVars
    BY DEF Client
  <1>3. ~needRegistration' /\ queue' \in Seq(NotDiscover)
        /\ UNCHANGED <<newTopics, spawned, handles>>
    BY <1>2 DEF Settled, agentVars, node
  <1>4. toClient # <<>> =>
          Head(toClient).type # "DISCOVER" /\ Tail(toClient) \in Seq(NotDiscover)
    BY <1>1, HeadTailProperties DEF NotDiscover
  <1>5. ASSUME UNCHANGED <<toAgent, txState, txFrame, registrationComplete>>,
               toClient' \in Seq(NotDiscover), ~awaitingAck'
        PROVE  Settled'
    BY <1>3, <1>5 DEF Settled, DataIsExpected, Publishing, Silent, HasDone
  <1>6. CASE RxPoll \/ RxTorn
    <2>1. /\ UNCHANGED <<toAgent, txState, txFrame, registrationComplete>>
          /\ ~awaitingAck'
      <3>1. CASE RxData
        BY <1>1, <3>1 DEF RxData, tx, registration
      <3>2. CASE RxAckIgnored
        BY <3>2 DEF RxAckIgnored, tx
      <3>3. CASE RxAckAdvances
        BY <1>1, <3>3 DEF RxAckAdvances, AckExpected
      <3>4. CASE RxDiscover
        BY <1>4, <3>4 DEF RxDiscover, Receives, Arrives
      <3>5. CASE RxIgnored \/ RxTorn
        BY <1>1, <3>5 DEF RxIgnored, RxTorn, clientVars, tx, registration
      <3> QED  BY <1>6, <3>1, <3>2, <3>3, <3>4, <3>5 DEF RxPoll
    <2>2. toClient' \in Seq(NotDiscover)
      <3>1. CASE RxPoll
        BY <1>4, <3>1
           DEF RxPoll, RxData, RxAckIgnored, RxAckAdvances, RxDiscover,
               RxIgnored, Receives, Arrives
      <3>2. CASE RxTorn
        BY <1>1, <3>2, ResyncsAreWires DEF RxTorn
      <3> QED  BY <1>6, <3>1, <3>2
    <2> QED  BY <1>5, <2>1, <2>2
  <1>7. CASE TxPoll
    <2>1. /\ Publishing /\ txFrame.type = "DATA" /\ txFrame.topic \in PublisherIds
          /\ UNCHANGED <<txFrame, awaitingAck, toClient>>
      BY <1>7 DEF TxPoll, registration, Settled, Silent, Publishing
    <2>2. CASE bytesSent' < FrameLen
      BY <1>1, <1>5, <1>7, <2>1, <2>2 DEF TxPoll
    <2>3. CASE ~(bytesSent' < FrameLen)
      <3>1. toAgent' = Append(toAgent, txFrame) /\ txState' = "IDLE"
            /\ registrationComplete'
        BY <1>7, <2>1, <2>3 DEF TxPoll, TxFrameComplete, Publishing
      <3>2. /\ DataIsExpected'
            /\ HasDone(toAgent) => HasDone(toAgent')
            /\ \A i \in DOMAIN toAgent' : toAgent'[i].type # "TORN"
        BY <1>1, <1>3, <2>1, <3>1, ExpectedGrows DEF Publishing
      <3>3. Publishing'
        BY <1>3, <2>1, <3>1, <3>2 DEF Publishing
      <3> QED  BY <1>1, <1>3, <2>1, <3>2, <3>3 DEF Settled
    <2> QED  BY <2>2, <2>3
  <1>8. CASE \E id \in PublisherIds : Publish(id)
    <2>1. PICK id \in PublisherIds : Publish(id)
      BY <1>8
    <2>2. /\ Publishing /\ txState = "IDLE"
          /\ UNCHANGED <<awaitingAck, registrationComplete, toClient>>
      BY <2>1 DEF Publish, MayPublish, Settled, Silent
    <2>3. /\ UNCHANGED toAgent
          /\ txFrame' = DataFrame(id, Len(accepted) + 1)
      BY <2>1, <2>2 DEF Publish, LoadData, StartFrame, MidFrame
    <2>4. txFrame'.type = "DATA" /\ txFrame'.topic \in PublisherIds
      BY <2>3 DEF DataFrame
    <2> QED
      BY <1>1, <1>3, <2>2, <2>3, <2>4
         DEF Settled, DataIsExpected, Publishing, HasDone
  <1> QED  BY <1>6, <1>7, <1>8 DEF Client

\* A reboot silences the board.
LEMMA SettledReset ==
    ASSUME TypeOK, Settled, Reset
    PROVE  Settled'
  <1>1. /\ toAgent \in Seq(Frames) /\ toClient \in Seq(NotDiscover)
        /\ DataIsExpected /\ ~needRegistration /\ queue \in Seq(NotDiscover)
    BY DEF TypeOK, ClientTypeOK, Settled
  <1>2. /\ ~registrationComplete' /\ txState' = "IDLE" /\ ~awaitingAck'
        /\ toAgent' = IF MidFrame THEN Append(toAgent, Torn) ELSE toAgent
        /\ toClient' \in Suffixes(toClient)
    BY DEF Reset, ClientReset
  <1>3. UNCHANGED <<needRegistration, queue, newTopics, spawned, handles>>
    BY DEF Reset, agentVars, node
  <1>4. toClient' \in Seq(NotDiscover)
    BY <1>1, <1>2, SuffixesAreSequences
  <1>5. DataIsExpected'
    <2>1. CASE MidFrame
      <3>1. \A i \in DOMAIN toAgent : toAgent[i].type # "TORN"
        BY <2>1 DEF MidFrame, Settled, Silent, Publishing
      <3>2. Torn \in Frames /\ Torn.type = "TORN"
        BY DEF Torn, Frames
      <3> QED  BY <1>1, <1>2, <1>3, <2>1, <3>1, <3>2, ExpectedGrows
    <2>2. CASE ~MidFrame
      BY <1>1, <1>2, <1>3, <2>2 DEF DataIsExpected, HasDone
    <2> QED  BY <2>1, <2>2
  <1> QED  BY <1>1, <1>2, <1>3, <1>4, <1>5 DEF Settled, Silent

-----------------------------------------------------------------------------
(* The agent's side of a settled session                                   *)

\* A line of which the first frame has been read.
LEMMA ExpectedReads ==
    ASSUME DataIsExpected, toAgent \in Seq(Frames), toAgent # <<>>,
           toAgent' = Tail(toAgent), newTopics \subseteq newTopics',
           IF Head(toAgent).type = "REGISTER_DONE"
             THEN spawned' /\ handles' = newTopics
             ELSE UNCHANGED <<spawned, handles>>
    PROVE  /\ DataIsExpected'
           /\ spawned \/ HasDone(toAgent) => spawned' \/ HasDone(toAgent')
           /\ (\A i \in DOMAIN toAgent : toAgent[i].type # "TORN") =>
                \A i \in DOMAIN toAgent' : toAgent'[i].type # "TORN"
  <1>1. /\ Len(toAgent) \in Nat /\ Len(toAgent') = Len(toAgent) - 1
        /\ DOMAIN toAgent = 1 .. Len(toAgent)
        /\ DOMAIN toAgent' = 1 .. Len(toAgent) - 1
        /\ \A i \in 1 .. Len(toAgent) - 1 : toAgent'[i] = toAgent[i + 1]
        /\ 1 \in DOMAIN toAgent /\ Head(toAgent) = toAgent[1]
    BY HeadTailProperties
  <1>2. \A i \in DOMAIN toAgent' : i + 1 \in DOMAIN toAgent
    BY <1>1
  <1>3. \A j \in DOMAIN toAgent : j = 1 \/ j - 1 \in DOMAIN toAgent'
    BY <1>1
  <1>4. HasDone(toAgent) =>
          Head(toAgent).type = "REGISTER_DONE" \/ HasDone(toAgent')
    <2> SUFFICES ASSUME NEW j \in DOMAIN toAgent,
                        toAgent[j].type = "REGISTER_DONE"
                 PROVE  Head(toAgent).type = "REGISTER_DONE" \/ HasDone(toAgent')
      BY DEF HasDone
    <2>1. CASE j = 1
      BY <1>1, <2>1
    <2>2. CASE j - 1 \in DOMAIN toAgent'
      <3>1. toAgent'[j - 1] = toAgent[j]
        BY <1>1, <2>2
      <3> QED  BY <2>2, <3>1 DEF HasDone
    <2> QED  BY <1>3, <2>1, <2>2
  <1>5. HasDone(toAgent') => HasDone(toAgent)
    BY <1>1, <1>2 DEF HasDone
  <1>6. spawned => spawned'
    OBVIOUS
  <1>7. ASSUME NEW i \in DOMAIN toAgent', toAgent'[i].type = "DATA"
        PROVE  /\ toAgent'[i].topic \in PublisherIds
               /\ \/ spawned'
                  \/ \E j \in DOMAIN toAgent' :
                       j < i /\ toAgent'[j].type = "REGISTER_DONE"
    <2>1. i + 1 \in DOMAIN toAgent /\ toAgent'[i] = toAgent[i + 1]
      BY <1>1, <1>2, <1>7
    <2>2. /\ toAgent[i + 1].topic \in PublisherIds
          /\ \/ spawned
             \/ \E j \in DOMAIN toAgent :
                  j < i + 1 /\ toAgent[j].type = "REGISTER_DONE"
      BY <1>7, <2>1 DEF DataIsExpected
    <2>3. CASE spawned
      BY <1>6, <2>1, <2>2, <2>3
    <2>4. ASSUME NEW j \in DOMAIN toAgent, j < i + 1,
                 toAgent[j].type = "REGISTER_DONE"
          PROVE  \/ spawned'
                 \/ \E k \in DOMAIN toAgent' :
                      k < i /\ toAgent'[k].type = "REGISTER_DONE"
      <3>1. CASE j = 1
        BY <1>1, <2>4, <3>1
      <3>2. CASE j - 1 \in DOMAIN toAgent'
        <4>1. toAgent'[j - 1] = toAgent[j] /\ j - 1 < i
          BY <1>1, <1>7, <2>4, <3>2
        <4> QED  BY <2>4, <3>2, <4>1
      <3> QED  BY <1>3, <3>1, <3>2
    <2> QED  BY <2>1, <2>2, <2>3, <2>4
  <1>8. HasDone(toAgent') => PublisherIds \subseteq newTopics'
    BY <1>5 DEF DataIsExpected
  <1>9. spawned' => PublisherIds \subseteq handles'
    <2>1. CASE Head(toAgent).type = "REGISTER_DONE"
      BY <1>1, <2>1 DEF DataIsExpected, HasDone
    <2>2. CASE Head(toAgent).type # "REGISTER_DONE"
      BY <2>2 DEF DataIsExpected
    <2> QED  BY <2>1, <2>2
  <1>10. \A i \in DOMAIN toAgent' : toAgent'[i].type = "TORN" => i = Len(toAgent')
    BY <1>1, <1>2 DEF DataIsExpected
  <1>11. (\A i \in DOMAIN toAgent : toAgent[i].type # "TORN") =>
            \A i \in DOMAIN toAgent' : toAgent'[i].type # "TORN"
    BY <1>1, <1>2
  <1>12. DataIsExpected'
    BY <1>7, <1>8, <1>9, <1>10 DEF DataIsExpected
  <1> QED  BY <1>4, <1>6, <1>11, <1>12

\* Sending anything but a DISCOVER.
LEMMA SendsNoDiscover ==
    ASSUME NEW f \in NotDiscover, toClient \in Seq(NotDiscover), Send(f)
    PROVE  toClient' \in Seq(NotDiscover)
  <1>1. Torn \in NotDiscover
    BY DEF Torn, NotDiscover, Frames
  <1> QED  BY <1>1, AppendProperties DEF Send

\* What the agent does keeps a session settled, and DATA finds its publisher.
LEMMA SettledAgent ==
    ASSUME TypeOK, Settled, agentPc # "crashed", AgentThreads
    PROVE  Settled' /\ agentPc' # "crashed"
  <1>1. /\ toAgent \in Seq(Frames) /\ toClient \in Seq(NotDiscover)
        /\ queue \in Seq(NotDiscover) /\ ack \in NotDiscover
        /\ DataIsExpected /\ ~needRegistration /\ ~awaitingAck
    BY DEF TypeOK, ClientTypeOK, AgentTypeOK, Settled, NotDiscover
  <1>2. UNCHANGED <<txState, txFrame, registrationComplete, awaitingAck>>
    BY DEF AgentThreads, clientVars, tx, registration
  <1>3. ASSUME UNCHANGED <<toAgent, newTopics, spawned, handles>>,
               ~needRegistration', toClient' \in Seq(NotDiscover),
               queue' \in Seq(NotDiscover)
        PROVE  Settled'
    BY <1>1, <1>2, <1>3 DEF Settled, DataIsExpected, Publishing, Silent, HasDone
  <1>4. ASSUME toAgent # <<>>, toAgent' = Tail(toAgent),
               newTopics \subseteq newTopics',
               IF Head(toAgent).type = "REGISTER_DONE"
                 THEN spawned' /\ handles' = newTopics
                 ELSE UNCHANGED <<spawned, handles>>,
               UNCHANGED <<needRegistration, toClient, queue>>
        PROVE  Settled'
    <2>1. /\ DataIsExpected'
          /\ spawned \/ HasDone(toAgent) => spawned' \/ HasDone(toAgent')
          /\ (\A i \in DOMAIN toAgent : toAgent[i].type # "TORN") =>
                \A i \in DOMAIN toAgent' : toAgent'[i].type # "TORN"
      BY <1>1, <1>4, ExpectedReads
    <2>2. (Publishing \/ Silent)'
      BY <1>2, <2>1 DEF Settled, Publishing, Silent
    <2> QED  BY <1>1, <1>2, <1>4, <2>1, <2>2 DEF Settled
  <1>5. toAgent # <<>> =>
          1 \in DOMAIN toAgent /\ Head(toAgent) = toAgent[1]
          /\ Len(toAgent) \in Nat
    BY <1>1, HeadTailProperties
  <1>6. CASE RecvNothing
    BY <1>1, <1>3, <1>6 DEF RecvNothing, link, node
  <1>7. CASE RecvTorn
    <2>1. toAgent # <<>> /\ Head(toAgent).type = "TORN" /\ Len(toAgent) = 1
      BY <1>1, <1>5, <1>7 DEF RecvTorn, Resyncs, Arrives, DataIsExpected
    <2>2. toAgent' = Tail(toAgent)
      BY <1>7, <2>1 DEF RecvTorn, Resyncs
    <2> QED  BY <1>4, <1>7, <2>1, <2>2 DEF RecvTorn, agentVars, node
  <1>8. CASE RecvData
    <2>1. /\ toAgent # <<>> /\ Head(toAgent).type = "DATA"
          /\ toAgent' = Tail(toAgent)
      BY <1>8 DEF RecvData, Recv, Arrives
    <2>2. spawned /\ Head(toAgent).topic \in handles
      <3>1. /\ Head(toAgent).topic \in PublisherIds
            /\ \/ spawned
               \/ \E j \in DOMAIN toAgent : j < 1
        BY <1>1, <1>5, <2>1 DEF DataIsExpected
      <3>2. \A j \in DOMAIN toAgent : ~(j < 1)
        BY <1>1
      <3> QED  BY <1>1, <3>1, <3>2 DEF DataIsExpected
    <2>3. agentPc' # "crashed"
      BY <1>8, <2>2 DEF RecvData
    <2> QED  BY <1>4, <1>8, <2>1, <2>3 DEF RecvData, Recv, node
  <1>9. CASE RecvRegister
    <2>1. /\ toAgent # <<>> /\ Head(toAgent).type = "REGISTER"
          /\ toAgent' = Tail(toAgent) /\ newTopics \subseteq newTopics'
      BY <1>9 DEF RecvRegister, Recv, Arrives
    <2> QED  BY <1>4, <1>9, <2>1 DEF RecvRegister, Recv
  <1>10. CASE RecvRegisterDone
    <2>1. /\ toAgent # <<>> /\ Head(toAgent).type = "REGISTER_DONE"
          /\ toAgent' = Tail(toAgent)
      BY <1>10 DEF RecvRegisterDone, Recv, Arrives
    <2> QED  BY <1>4, <1>10, <2>1 DEF RecvRegisterDone, Recv
  <1>11. CASE SendDiscover
    BY <1>1, <1>3, <1>11 DEF SendDiscover, node
  <1>12. CASE SendQueued
    <2>1. CASE queue = <<>>
      BY <1>1, <1>3, <1>12, <2>1 DEF SendQueued, node
    <2>2. CASE queue # <<>>
      <3>1. Head(queue) \in NotDiscover /\ Tail(queue) \in Seq(NotDiscover)
        BY <1>1, <2>2, HeadTailProperties
      <3>2. toClient' \in Seq(NotDiscover)
        BY <1>1, <1>12, <2>2, <3>1, SendsNoDiscover DEF SendQueued
      <3> QED  BY <1>1, <1>3, <1>12, <2>2, <3>1, <3>2 DEF SendQueued, Popped, node
    <2> QED  BY <2>1, <2>2
  <1>13. CASE SendAck
    <2>1. toClient' \in Seq(NotDiscover)
      BY <1>1, <1>13, SendsNoDiscover DEF SendAck
    <2> QED  BY <1>1, <1>3, <1>13, <2>1 DEF SendAck, node
  <1>14. CASE \E id \in Ids : SubscriptionCallback(id)
    <2>1. PICK id \in Ids : SubscriptionCallback(id)
      BY <1>14
    <2> DEFINE f == DataFrame(id, Len(rosIn) + 1)
    <2>2. f \in NotDiscover
      BY PartsType, FramesAreFrames DEF DataFrame, NotDiscover
    <2>3. queue' \in Seq(NotDiscover)
      <3>1. Len(queue) >= QueueMax => queue # <<>>
        BY AgentAssumption
      <3>2. queue # <<>> => Tail(queue) \in Seq(NotDiscover)
        BY <1>1, HeadTailProperties
      <3> HIDE DEF f
      <3>3. Push(f)
        BY <2>1 DEF SubscriptionCallback, f
      <3> QED  BY <1>1, <2>2, <3>1, <3>2, <3>3, AppendProperties DEF Push
    <2> QED
      BY <1>1, <1>3, <2>1, <2>3 DEF SubscriptionCallback, link, node
  <1> QED
    BY <1>6, <1>7, <1>8, <1>9, <1>10, <1>11, <1>12, <1>13, <1>14
       DEF AgentThreads, AgentLoop, RecvFrame

-----------------------------------------------------------------------------
(* Registration with sends that fail and boards that reboot                *)

\* A board that has gone silent before its REGISTER_DONE was out.
LEMMA SilentSettles ==
    ASSUME NEW f \in Frames, f.type \in {"REGISTER", "TORN"},
           toAgent' \in {<<>>, <<f>>}, toClient' \in Seq(NotDiscover),
           queue' = <<>>, ~needRegistration', ~awaitingAck', ~spawned',
           ~registrationComplete', txState' = "IDLE"
    PROVE  Settled'
  <1>1. \A i \in DOMAIN toAgent' : i = Len(toAgent') /\ toAgent'[i] = f
    <2>1. CASE toAgent' = <<>>
      BY <2>1
    <2>2. CASE toAgent' = <<f>>
      BY <2>2
    <2> QED  BY <2>1, <2>2
  <1>2. DataIsExpected'
    BY <1>1 DEF DataIsExpected, HasDone
  <1> QED  BY <1>2 DEF Settled, Silent

\* What there is to be lost in a reboot.
LEMMA AskingLines ==
    ASSUME TypeOK, Asking, ~NotDiscovered
    PROVE  /\ Setup /\ ~needRegistration
           /\ toClient \in Seq(NotDiscover)
           /\ \/ toAgent = <<>>
              \/ /\ toAgent = <<RegisterFrame(regIdx)>> /\ regIdx \in TopicIdx
                 /\ txState = "IDLE"
  <1>1. Torn \in NotDiscover /\ <<Torn>> \in Seq(NotDiscover)
    BY DEF Torn, NotDiscover, Frames
  <1>2. regIdx \in TopicIdx => <<AckOf(regIdx)>> \in Seq(NotDiscover)
    BY TopicTableAssumption
       DEF AckOf, AckFrame, RegistrationStatus, AckStatus, Frames, NotDiscover
  <1>3. Setup /\ <<>> \in Seq(NotDiscover)
    BY DEF Asking
  <1>4. CASE SendingRegister
    BY <1>3, <1>4 DEF SendingRegister, Registering
  <1>5. CASE RegisterArriving
    BY <1>3, <1>5 DEF RegisterArriving, Registering
  <1>6. CASE Acknowledging
    BY <1>3, <1>6 DEF Acknowledging, Registering
  <1>7. CASE AckArrivingOrLost
    BY <1>1, <1>2, <1>3, <1>7 DEF AckArrivingOrLost, Registering
  <1>8. CASE SendingDone
    BY <1>3, <1>8 DEF SendingDone
  <1> QED  BY <1>4, <1>5, <1>6, <1>7, <1>8 DEF Asking

\* A reboot before the DISCOVER has been read changes nothing, and one after
\* it silences the board.
LEMMA AskingReset ==
    ASSUME TypeOK, Asking, Reset
    PROVE  NotDiscovered' \/ Settled'
  <1>1. /\ ~registrationComplete' /\ txState' = "IDLE" /\ ~awaitingAck'
        /\ toAgent' = IF MidFrame THEN Append(toAgent, Torn) ELSE toAgent
        /\ toClient' \in Suffixes(toClient)
        /\ UNCHANGED <<accepted, agentVars>>
    BY DEF Reset, ClientReset
  <1>2. CASE NotDiscovered
    <2>1. toAgent' = <<>>
      BY <1>1, <1>2 DEF NotDiscovered, MidFrame
    <2>2. toClient' \in {<<>>, toClient}
      <3>1. CASE toClient' # <<>>
        <4>1. PICK l \in 1 .. Len(toClient) :
                     toClient' = SubSeq(toClient, l, Len(toClient))
          BY <1>1, <3>1 DEF Suffixes
        <4>2. Len(toClient) \in {0, 1}
          BY <1>2 DEF NotDiscovered
        <4>3. toClient' = SubSeq(toClient, 1, 1) /\ Len(toClient) = 1
          BY <4>1, <4>2
        <4>4. toClient = <<toClient[1]>>
          BY <1>2, <4>3 DEF NotDiscovered
        <4> QED  BY <4>3, <4>4
      <3> QED  BY <3>1
    <2>3. Setup'
      BY <1>1, <1>2 DEF NotDiscovered, Setup, agentVars, node
    <2> QED
      BY <1>1, <1>2, <2>1, <2>2, <2>3 DEF NotDiscovered, agentVars, ackSlot, node
  <1>3. CASE ~NotDiscovered
    <2>1. /\ Setup /\ ~needRegistration /\ toClient \in Seq(NotDiscover)
          /\ \/ toAgent = <<>>
             \/ /\ toAgent = <<RegisterFrame(regIdx)>> /\ regIdx \in TopicIdx
                /\ txState = "IDLE"
      BY <1>3, AskingLines
    <2>2. toClient' \in Seq(NotDiscover)
      BY <1>1, <2>1, SuffixesAreSequences
    <2>3. /\ queue' = <<>> /\ ~needRegistration' /\ ~spawned'
      BY <1>1, <2>1 DEF Setup, agentVars, node
    <2>4. CASE toAgent = <<>>
      <3>1. toAgent' \in {<<>>, <<Torn>>} /\ Torn \in Frames
            /\ Torn.type = "TORN"
        BY <1>1, <2>4 DEF Torn, Frames
      <3> QED  BY <1>1, <2>2, <2>3, <3>1, SilentSettles
    <2>5. CASE toAgent = <<RegisterFrame(regIdx)>> /\ regIdx \in TopicIdx
               /\ txState = "IDLE"
      <3>1. toAgent' = <<RegisterFrame(regIdx)>>
        BY <1>1, <2>5 DEF MidFrame
      <3>2. RegisterFrame(regIdx) \in Frames
            /\ RegisterFrame(regIdx).type = "REGISTER"
        BY <2>5, FramesAreFrames DEF RegisterFrame
      <3> QED  BY <1>1, <2>2, <2>3, <3>1, <3>2, SilentSettles
    <2> QED  BY <2>1, <2>4, <2>5
  <1> QED  BY <1>2, <1>3

\* Past a damaged frame that is alone there is nothing.
LEMMA OnlyTorn ==
    ASSUME toClient = <<Torn>>, RxPoll \/ RxTorn
    PROVE  RxTorn /\ toClient' = <<>>
  <1>1. Head(toClient) = Torn /\ Tail(toClient) = <<>> /\ Len(toClient) = 1
    OBVIOUS
  <1>2. Torn.type = "TORN"
    BY DEF Torn
  <1>3. ~RxPoll
    BY <1>1, <1>2 DEF RxPoll, RxData, RxAckIgnored, RxAckAdvances, RxDiscover,
                      RxIgnored, Receives, Arrives
  <1>4. Resyncs(toClient) = {<<>>}
    BY <1>1, <1>2 DEF Resyncs, Arrives
  <1> QED  BY <1>3, <1>4 DEF RxTorn

\* The board has loaded a REGISTER, or goes silent at a topic whose names are
\* too long for one.
LEMMA RegistersOrSilent ==
    ASSUME TypeOK, Setup, toAgent = <<>>, txState = "IDLE",
           ~needRegistration', ~needAck', toClient' = <<>>,
           UNCHANGED <<registrationComplete, accepted, queue, spawned, handles,
                       rosOut>>,
           isRegistration', ~sendingRegDone', regIdx' \in TopicIdx,
           newTopics' = AcceptedBelow(regIdx'),
           LoadNextRegistrationFrame(regIdx', FALSE, FALSE)
    PROVE  (Setup' /\ SendingRegister') \/ Settled'
  <1>1. CASE StartFrame(RegisterFrame(regIdx')) /\ awaitingAck' = TRUE
    <2>1. /\ txState' = "SENDING_FRAME" /\ txFrame' = RegisterFrame(regIdx')
          /\ toAgent' = <<>>
      BY <1>1 DEF StartFrame, MidFrame
    <2> QED
      BY <1>1, <2>1 DEF Setup, SendingRegister, Registering, RegisterFrame
  <1>2. CASE UNCHANGED <<tx, toAgent>> /\ awaitingAck' = FALSE
    <2>1. Torn \in Frames /\ Torn.type = "TORN"
      BY DEF Torn, Frames
    <2>2. /\ toAgent' = <<>> /\ txState' = "IDLE" /\ ~awaitingAck'
          /\ toClient' \in Seq(NotDiscover) /\ queue' = <<>> /\ ~spawned'
          /\ ~registrationComplete'
      BY <1>2 DEF tx, Setup
    <2> QED  BY <2>1, <2>2, SilentSettles
  <1> QED  BY <1>1, <1>2 DEF LoadNextRegistrationFrame

\* The DISCOVER is sent, lost, or read.
LEMMA CalmNotDiscovered ==
    ASSUME TypeOK, AgentKeepsRunning, NotDiscovered,
           Client \/ AgentThreads \/ UNCHANGED vars
    PROVE  AgentKeepsRunning' /\ (Asking' \/ Settled')
  <1>0. needRegistration \in BOOLEAN /\ needAck \in BOOLEAN
    BY DEF TypeOK, AgentTypeOK
  <1>1. CASE Client
    <2>0. AgentKeepsRunning'
      BY <1>1 DEF Client, AgentKeepsRunning, agentVars
    <2>1. RxPoll \/ RxTorn
      BY <1>1 DEF Client, TxPoll, Publish, MayPublish, NotDiscovered, Setup
    <2>2. toClient \in {<<Discover>>, <<Torn>>} /\ ~needRegistration
      BY <2>1, EmptyLines DEF NotDiscovered
    <2>3. CASE toClient = <<Torn>>
      <3>1. RxTorn /\ toClient' = <<>>
        BY <2>1, <2>3, OnlyTorn
      <3> QED
        BY <1>1, <2>0, <3>1
           DEF Client, RxTorn, NotDiscovered, Asking, Setup, clientVars,
               agentVars, tx, registration, ackSlot, node
    <2>4. CASE toClient = <<Discover>>
      <3>1. Discover \in Frames /\ Discover.type = "DISCOVER"
        BY DEF Frames, Discover
      <3>2. RxDiscover /\ toClient' = <<>>
        BY <2>1, <2>4, <3>1, OnlyFrame
      <3>3. /\ isRegistration' = TRUE /\ regIdx' = 0 /\ sendingRegDone' = FALSE
            /\ LoadNextRegistrationFrame(0, FALSE, awaitingAck)
            /\ UNCHANGED <<registrationComplete, accepted>>
        BY <3>2 DEF RxDiscover, NotDiscovered
      <3>4. /\ UNCHANGED <<needRegistration, needAck, queue, spawned, handles,
                           newTopics, rosOut>>
        BY <1>1 DEF Client, agentVars, ackSlot, node
      <3>5. LoadNextRegistrationFrame(regIdx', FALSE, FALSE)
        BY <3>3 DEF NotDiscovered, LoadNextRegistrationFrame, TypeOK, ClientTypeOK
      <3>6. regIdx' \in TopicIdx
        BY <3>3, TopicTableAssumption DEF TopicIdx
      <3>7. newTopics' = AcceptedBelow(regIdx')
        BY <3>3, <3>4, AcceptedNone DEF NotDiscovered
      <3>8. (Setup' /\ SendingRegister') \/ Settled'
        BY <2>2, <3>2, <3>3, <3>4, <3>5, <3>6, <3>7, RegistersOrSilent
           DEF NotDiscovered
      <3> QED  BY <2>0, <3>8 DEF Asking
    <2> QED  BY <2>2, <2>3, <2>4
  <1>2. CASE AgentThreads
    <2>1. UNCHANGED clientVars
      BY <1>2 DEF AgentThreads
    <2>2. ~(RecvFrame \/ RecvTorn)
      BY EmptyLines DEF NotDiscovered
    <2>3. ASSUME toAgent' = toAgent, toClient' \in {<<>>, <<Discover>>, <<Torn>>},
                 needRegistration' => toClient' = <<>>,
                 UNCHANGED <<needAck, node, queue, rosOut>>, AgentKeepsRunning'
          PROVE  AgentKeepsRunning' /\ Asking'
      <3>1. Setup'
        BY <2>1, <2>3 DEF NotDiscovered, Setup, clientVars, node
      <3> QED
        BY <2>1, <2>3, <3>1
           DEF NotDiscovered, Asking, clientVars, tx, registration, node
    <2>4. CASE RecvNothing
      BY <2>3, <2>4
         DEF RecvNothing, NotDiscovered, AgentKeepsRunning, link, ackSlot
    <2>5. CASE SendDiscover
      <3>1. needRegistration => toClient' \in {<<>>, <<Discover>>, <<Torn>>}
        <4>1. ASSUME needRegistration,
                     NEW f \in {Discover, Torn}, Send(f)
              PROVE  toClient' \in {<<>>, <<Discover>>, <<Torn>>}
          BY <4>1 DEF Send, NotDiscovered
        <4> QED  BY <2>5, <4>1 DEF SendDiscover
      <3>2. ~needRegistration => toClient' = toClient
        BY <2>5 DEF SendDiscover
      <3> QED
        BY <2>3, <2>5, <3>1, <3>2
           DEF SendDiscover, NotDiscovered, AgentKeepsRunning, ackSlot
    <2>6. CASE SendQueued
      BY <2>3, <2>6
         DEF SendQueued, NotDiscovered, Setup, AgentKeepsRunning, ackSlot
    <2>7. CASE SendAck
      <3>1. needAck' = needAck
        BY <1>0, <2>7 DEF SendAck, AckedLeaves, NotDiscovered
      <3> QED
        BY <2>3, <2>7, <3>1 DEF SendAck, NotDiscovered, AgentKeepsRunning
    <2>8. CASE \E id \in Ids : SubscriptionCallback(id)
      BY <2>8 DEF SubscriptionCallback, Subscribed, NotDiscovered, Setup
    <2> QED
      BY <1>2, <2>2, <2>4, <2>5, <2>6, <2>7, <2>8 DEF AgentThreads, AgentLoop
  <1>3. CASE UNCHANGED vars
    BY <1>3
       DEF vars, link, NotDiscovered, Asking, Setup, AgentKeepsRunning,
           clientVars, agentVars, tx, registration, ackSlot, node
  <1> QED  BY <1>1, <1>2, <1>3

\* The ACK goes out, or it does not.
LEMMA CalmAcknowledging ==
    ASSUME TypeOK, AgentKeepsRunning, Setup, Acknowledging,
           Client \/ AgentThreads \/ UNCHANGED vars
    PROVE  AgentKeepsRunning' /\ Asking'
  <1>1. CASE AgentTurns
    BY <1>1, TurnsMoveNothing DEF Asking
  <1>2. CASE SendAck /\ needAck /\ UNCHANGED clientVars
    <2>1. Send(ack)
      BY <1>2 DEF SendAck
    <2>2. toClient' \in {<<>>, <<AckOf(regIdx)>>, <<Torn>>}
      BY <2>1 DEF Acknowledging, Send
    <2>3. /\ needAck' = FALSE /\ agentPc' = "recv"
          /\ UNCHANGED <<needRegistration, node, queue, rosOut, toAgent>>
      BY <1>2 DEF SendAck, AckedLeaves
    <2>4. Setup' /\ AgentKeepsRunning'
      BY <1>2, <2>3 DEF Setup, AgentKeepsRunning, clientVars, node
    <2>5. AckArrivingOrLost'
      BY <1>2, <2>2, <2>3
         DEF Acknowledging, AckArrivingOrLost, Registering, AckOf, clientVars,
             tx, registration, node
    <2> QED  BY <2>4, <2>5 DEF Asking
  <1>3. CASE RxPoll \/ RxTorn
    BY <1>3, EmptyLines DEF Acknowledging
  <1>4. CASE RecvFrame \/ RecvTorn
    BY <1>4, EmptyLines DEF Acknowledging
  <1>5. CASE TxPoll
    BY <1>5 DEF TxPoll, Acknowledging
  <1> QED
    BY <1>1, <1>2, <1>3, <1>4, <1>5, SetupStep DEF Acknowledging, Registering

\* The board goes on to the next topic, is done, or waits for ever for an ACK
\* that was lost.
LEMMA CalmAckArriving ==
    ASSUME TypeOK, AgentKeepsRunning, Setup, AckArrivingOrLost,
           Client \/ AgentThreads \/ UNCHANGED vars
    PROVE  AgentKeepsRunning' /\ (Asking' \/ Settled')
  <1>1. CASE AgentTurns
    <2>1. AgentKeepsRunning' /\ Setup'
      BY <1>1, TurnsMoveNothing
    <2>2. AckArrivingOrLost'
      BY <1>1
         DEF AgentTurns, AckArrivingOrLost, Registering, link, clientVars, tx,
             registration, ackSlot, node
    <2> QED  BY <2>1, <2>2 DEF Asking
  <1>2. CASE (RxPoll \/ RxTorn) /\ UNCHANGED agentVars
    <2>0. /\ AgentKeepsRunning'
          /\ ~needAck' /\ ~needRegistration'
          /\ UNCHANGED <<queue, spawned, handles, newTopics, rosOut>>
      BY <1>2 DEF AgentKeepsRunning, AckArrivingOrLost, Registering, agentVars,
                  ackSlot, node
    <2>1. toClient \in {<<AckOf(regIdx)>>, <<Torn>>}
      BY <1>2, EmptyLines DEF AckArrivingOrLost
    <2>2. CASE toClient = <<Torn>>
      <3>1. toClient' = <<>> /\ UNCHANGED <<clientVars, toAgent>>
        BY <1>2, <2>2, OnlyTorn DEF RxTorn
      <3> QED
        BY <1>2, <2>0, <3>1
           DEF AckArrivingOrLost, Registering, Asking, Setup, clientVars,
               agentVars, tx, registration, ackSlot, node
    <2>3. CASE toClient = <<AckOf(regIdx)>>
      <3>1. AckOf(regIdx) \in Frames /\ AckOf(regIdx).type = "ACK"
        BY TopicTableAssumption
           DEF AckArrivingOrLost, Registering, AckOf, AckFrame,
               RegistrationStatus, AckStatus, Frames
      <3>2. RxAckAdvances /\ toClient' = <<>>
        <4>1. toClient' = <<>> /\ (RxAckIgnored \/ RxAckAdvances)
          BY <1>2, <2>3, <3>1, OnlyFrame
        <4> QED
          BY <4>1 DEF RxAckIgnored, AckExpected, AckArrivingOrLost, Registering
      <3>3. regIdx \in 0 .. TopicCount - 1 /\ TopicCount \in 1 .. 255
        BY TopicTableAssumption DEF AckArrivingOrLost, Registering, TopicIdx
      <3>4. regIdx' = regIdx + 1
        BY <3>2, <3>3 DEF RxAckAdvances
      <3>5. /\ UNCHANGED <<isRegistration, registrationComplete, accepted>>
            /\ LoadNextRegistrationFrame(regIdx', sendingRegDone', FALSE)
        BY <3>2 DEF RxAckAdvances
      <3>6. sendingRegDone' = (regIdx' >= TopicCount)
        BY <3>2 DEF RxAckAdvances, RegistersUpTo, AckArrivingOrLost, Registering
      <3>7. newTopics' = AcceptedBelow(regIdx')
        BY <2>0, <3>4 DEF AckArrivingOrLost
      <3>8. toAgent = <<>> /\ txState = "IDLE" /\ isRegistration'
        BY <3>5 DEF AckArrivingOrLost, Registering
      <3>9. CASE regIdx' >= TopicCount
        <4>1. StartFrame(RegisterDone) /\ awaitingAck' = FALSE
          BY <3>5, <3>6, <3>9 DEF LoadNextRegistrationFrame
        <4>2. /\ txState' = "SENDING_FRAME" /\ txFrame' = RegisterDone
              /\ toAgent' = <<>>
          BY <3>8, <4>1 DEF StartFrame, MidFrame
        <4>3. regIdx' = TopicCount
          BY <3>3, <3>4, <3>9
        <4>4. newTopics' = AcceptableIds
          BY <3>7, <4>3, AcceptedAll
        <4>5. SendingDone'
          BY <2>0, <3>2, <3>5, <3>6, <3>8, <3>9, <4>1, <4>2, <4>4 DEF SendingDone
        <4>6. Setup'
          BY <2>0, <3>5 DEF Setup
        <4> QED  BY <2>0, <4>5, <4>6 DEF Asking
      <3>10. CASE ~(regIdx' >= TopicCount)
        <4>1. regIdx' \in TopicIdx
          BY <3>3, <3>4, <3>10 DEF TopicIdx
        <4>2. LoadNextRegistrationFrame(regIdx', FALSE, FALSE)
              /\ ~sendingRegDone'
          BY <3>5, <3>6, <3>10 DEF LoadNextRegistrationFrame
        <4>3. (Setup' /\ SendingRegister') \/ Settled'
          BY <2>0, <3>2, <3>5, <3>7, <3>8, <4>1, <4>2, RegistersOrSilent
        <4> QED  BY <2>0, <4>3 DEF Asking
      <3> QED  BY <3>9, <3>10
    <2> QED  BY <2>1, <2>2, <2>3
  <1>3. CASE TxPoll
    BY <1>3 DEF TxPoll, AckArrivingOrLost
  <1>4. CASE RecvFrame \/ RecvTorn
    BY <1>4, EmptyLines DEF AckArrivingOrLost
  <1>5. CASE SendAck /\ needAck
    BY <1>5 DEF AckArrivingOrLost
  <1> QED
    BY <1>1, <1>2, <1>3, <1>4, <1>5, SetupStep
       DEF AckArrivingOrLost, Registering

\* With REGISTER_DONE on its way the board may publish.
LEMMA CalmSendingDone ==
    ASSUME PublisherIds \subseteq AcceptableIds,
           TypeOK, AgentKeepsRunning, Setup, SendingDone,
           Client \/ AgentThreads \/ UNCHANGED vars
    PROVE  AgentKeepsRunning' /\ (Asking' \/ Settled')
  <1>1. CASE AgentTurns
    BY <1>1, TurnsMoveNothing DEF Asking
  <1>2. CASE TxPoll /\ UNCHANGED agentVars
    <2>1. /\ UNCHANGED <<txFrame, isRegistration, sendingRegDone, regIdx,
                         awaitingAck, accepted, toClient>>
          /\ AgentKeepsRunning'
      BY <1>2 DEF TxPoll, registration, AgentKeepsRunning, agentVars
    <2>2. CASE bytesSent' < FrameLen
      <3>1. UNCHANGED <<txState, toAgent, registrationComplete>>
        BY <1>2, <2>2 DEF TxPoll
      <3>2. Setup' /\ SendingDone'
        BY <1>2, <2>1, <3>1 DEF SendingDone, Setup, agentVars, ackSlot, node
      <3> QED  BY <2>1, <3>2 DEF Asking
    <2>3. CASE ~(bytesSent' < FrameLen)
      <3>1. txState' = "IDLE" /\ toAgent' = Append(toAgent, txFrame)
        BY <1>2, <2>3 DEF TxPoll, TxFrameComplete
      <3>2. toAgent' = <<RegisterDone>>
        BY <3>1 DEF SendingDone
      <3>3. registrationComplete'
        BY <1>2, <2>3 DEF TxPoll, TxFrameComplete, SendingDone
      <3>4. /\ ~spawned' /\ queue' = <<>> /\ newTopics' = AcceptableIds
            /\ ~needRegistration' /\ ~awaitingAck' /\ toClient' = <<>>
        BY <1>2, <2>1 DEF Setup, SendingDone, agentVars, ackSlot, node
      <3>5. /\ 1 \in DOMAIN toAgent' /\ RegisterDone.type = "REGISTER_DONE"
            /\ \A i \in DOMAIN toAgent' : toAgent'[i] = RegisterDone
        BY <3>2 DEF RegisterDone
      <3>6. DataIsExpected'
        BY <3>4, <3>5 DEF DataIsExpected
      <3>7. Publishing'
        BY <3>1, <3>3, <3>5 DEF Publishing, HasDone
      <3>8. toClient' \in Seq(NotDiscover) /\ queue' \in Seq(NotDiscover)
        BY <3>4
      <3> QED  BY <2>1, <3>4, <3>6, <3>7, <3>8 DEF Settled
    <2> QED  BY <2>2, <2>3
  <1>3. CASE RxPoll \/ RxTorn
    BY <1>3, EmptyLines DEF SendingDone
  <1>4. CASE RecvFrame \/ RecvTorn
    BY <1>4, EmptyLines DEF SendingDone
  <1>5. CASE SendAck /\ needAck
    BY <1>5 DEF SendingDone
  <1> QED
    BY <1>1, <1>2, <1>3, <1>4, <1>5, SetupStep DEF SendingDone

\* The session starts calm.
LEMMA InitCalm == Init => CalmInv
  <1> SUFFICES ASSUME Init PROVE CalmInv
    OBVIOUS
  <1>1. Setup /\ NotDiscovered /\ AgentKeepsRunning
    BY DEF Init, LinkInit, ClientInit, ClientStart, AgentInit, Setup,
           NotDiscovered, AgentKeepsRunning
  <1> QED  BY <1>1 DEF CalmInv, Asking

\* Without a restart or a corruption it stays so.
LEMMA NextCalm ==
    ASSUME PublisherIds \subseteq AcceptableIds
    PROVE  TypeOK /\ CalmInv /\ [Next]_vars => CalmInv'
  <1> SUFFICES ASSUME TypeOK, CalmInv, [Next]_vars, restarts' = 0, corruptions' = 0
               PROVE  \/ AgentKeepsRunning' /\ Asking'
                      \/ agentPc' # "crashed" /\ Settled'
    BY DEF CalmInv
  <1>1. /\ restarts = 0 /\ corruptions = 0
        /\ Client \/ AgentThreads \/ Reset \/ UNCHANGED vars
    BY CalmStep
  <1>2. AgentKeepsRunning' => agentPc' # "crashed"
    BY DEF AgentKeepsRunning
  <1>3. CASE AgentKeepsRunning /\ Asking
    <2>1. CASE Reset
      <3>1. AgentKeepsRunning'
        BY <1>3, <2>1 DEF Reset, AgentKeepsRunning, agentVars
      <3> QED  BY <1>2, <1>3, <2>1, <3>1, AskingReset DEF Asking
    <2>2. CASE Client \/ AgentThreads \/ UNCHANGED vars
      <3>1. CASE NotDiscovered
        BY <1>2, <1>3, <2>2, <3>1, CalmNotDiscovered
      <3>2. CASE Setup /\ SendingRegister
        BY <1>2, <1>3, <2>2, <3>2, FromSendingRegister DEF Asking
      <3>3. CASE Setup /\ RegisterArriving
        BY <1>2, <1>3, <2>2, <3>3, FromRegisterArriving DEF Asking
      <3>4. CASE Setup /\ Acknowledging
        BY <1>2, <1>3, <2>2, <3>4, CalmAcknowledging
      <3>5. CASE Setup /\ AckArrivingOrLost
        BY <1>2, <1>3, <2>2, <3>5, CalmAckArriving
      <3>6. CASE Setup /\ SendingDone
        BY <1>2, <1>3, <2>2, <3>6, CalmSendingDone
      <3> QED  BY <1>3, <3>1, <3>2, <3>3, <3>4, <3>5, <3>6 DEF Asking
    <2> QED  BY <1>1, <2>1, <2>2
  <1>4. CASE agentPc # "crashed" /\ Settled
    <2>1. CASE Client
      BY <1>4, <2>1, SettledClient DEF Client, agentVars
    <2>2. CASE AgentThreads
      BY <1>4, <2>2, SettledAgent
    <2>3. CASE Reset
      BY <1>4, <2>3, SettledReset DEF Reset, agentVars
    <2>4. CASE UNCHANGED vars
      BY <1>4, <2>4
         DEF vars, link, clientVars, agentVars, tx, registration, node,
             Settled, DataIsExpected, Publishing, Silent, HasDone
    <2> QED  BY <1>1, <2>1, <2>2, <2>3, <2>4
  <1> QED  BY <1>1, <1>3, <1>4 DEF CalmInv

\* Whatever sends give up and however often the board reboots: as long as the
\* agent is not restarted and the line loses nothing, either the board is
\* being registered, or each message it sends finds its node.
THEOREM CalmHolds ==
    ASSUME PublisherIds \subseteq AcceptableIds
    PROVE  Spec => [](TypeOK /\ CalmInv)
  <1>1. Init => TypeOK /\ CalmInv
    BY InitType, InitCalm
  <1>2. (TypeOK /\ CalmInv) /\ [Next]_vars => (TypeOK /\ CalmInv)'
    BY NextType, NextCalm
  <1> QED  BY <1>1, <1>2, PTL DEF Spec

\* The agent uses a null client_ or a null handle only after a restart of its
\* own or a frame lost on the line (CrashNeedsLoss).
THEOREM CrashTakesLoss ==
    ASSUME PublisherIds \subseteq AcceptableIds
    PROVE  Spec => []CrashNeedsLoss
  <1>1. TypeOK /\ CalmInv => CrashNeedsLoss
    <2> SUFFICES ASSUME TypeOK, CalmInv, agentPc = "crashed",
                        ~(restarts > 0), ~(corruptions > 0)
                 PROVE  FALSE
      BY DEF CrashNeedsLoss
    <2>1. restarts = 0 /\ corruptions = 0
      BY BoundsAssumption DEF TypeOK
    <2> QED  BY <2>1 DEF CalmInv, AgentKeepsRunning
  <1> QED  BY <1>1, CalmHolds, PTL

-----------------------------------------------------------------------------
(* What a loss cannot do                                                   *)

Has(w, type) == \E i \in DOMAIN w : w[i].type = type

Once(w, type) ==
    \A i, j \in DOMAIN w : w[i].type = type /\ w[j].type = type => i = j

\* The frames of the registration, by their direction.
ToBoard == {"DISCOVER", "ACK"}
ToHost == {"REGISTER", "REGISTER_DONE"}

InBuffer(type) == txState = "SENDING_FRAME" /\ txFrame.type = type

\* At most one of agent, board and line has the next move of the registration,
\* and has it once.
OneTurnAtMost ==
    /\ needRegistration =>
         /\ ~Has(toClient, "DISCOVER") /\ ~InBuffer("REGISTER")
         /\ ~Has(toAgent, "REGISTER") /\ ~needAck /\ ~Has(toClient, "ACK")
    /\ Has(toClient, "DISCOVER") =>
         /\ ~InBuffer("REGISTER")
         /\ ~Has(toAgent, "REGISTER") /\ ~needAck /\ ~Has(toClient, "ACK")
    /\ InBuffer("REGISTER") =>
         ~Has(toAgent, "REGISTER") /\ ~needAck /\ ~Has(toClient, "ACK")
    /\ Has(toAgent, "REGISTER") => ~needAck /\ ~Has(toClient, "ACK")
    /\ needAck => ~Has(toClient, "ACK")
    /\ Once(toClient, "DISCOVER") /\ Once(toAgent, "REGISTER")
    /\ Once(toClient, "ACK")

\* Nobody waits for an ACK before there has been a DISCOVER.
DiscoverComesFirst ==
    needRegistration \/ Has(toClient, "DISCOVER") => ~awaitingAck

\* What is registered is a row of the topic table.
RegistersAreRows ==
    /\ InBuffer("REGISTER") => \E i \in TopicIdx : txFrame = RegisterFrame(i)
    /\ \A k \in DOMAIN toAgent :
         toAgent[k].type = "REGISTER" => \E i \in TopicIdx : toAgent[k] = RegisterFrame(i)
    /\ newTopics \subseteq AcceptableIds

\* While the board waits for an ACK, the agent knows all topics before the one that
\* is being registered, and this one too once it has its turn to acknowledge it.
KnownSoFar ==
    AckExpected =>
        /\ ~sendingRegDone /\ regIdx \in TopicIdx
        /\ AcceptedBelow(regIdx) \subseteq newTopics
        /\ InBuffer("REGISTER") => txFrame = RegisterFrame(regIdx)
        /\ \A k \in DOMAIN toAgent :
             toAgent[k].type = "REGISTER" => toAgent[k] = RegisterFrame(regIdx)
        /\ needAck \/ Has(toClient, "ACK") =>
             AcceptedBelow(regIdx + 1) \subseteq newTopics

\* REGISTER_DONE is written and sent when the agent knows all it can accept.
DoneIsLast ==
    InBuffer("REGISTER_DONE") \/ Has(toAgent, "REGISTER_DONE") =>
        AcceptableIds \subseteq newTopics

QueueIsData == \A i \in DOMAIN queue : queue[i].type = "DATA"

StallInv ==
    /\ OneTurnAtMost /\ DiscoverComesFirst /\ RegistersAreRows
    /\ KnownSoFar /\ DoneIsLast /\ QueueIsData

\* As long as the agent has not been restarted, whatever is lost.
LossInv == restarts = 0 => StallInv


\* Of the frames of these types, those of v are some of those of w, each once.
Fewer(types, v, w) ==
    /\ v \in Seq(Frames)
    /\ \A i \in DOMAIN v : v[i].type \in types => \E j \in DOMAIN w : v[i] = w[j]
    /\ \A type \in types : Once(w, type) => Once(v, type)


\* A line as it is.
LEMMA FewerItself ==
    ASSUME NEW types, NEW w \in Seq(Frames) PROVE Fewer(types, w, w)
  BY DEF Fewer

\* A line with a frame of another type behind it.
LEMMA FewerAppend ==
    ASSUME NEW types, NEW w \in Seq(Frames), NEW f \in Frames, f.type \notin types
    PROVE  Fewer(types, Append(w, f), w)
  <1> DEFINE v == Append(w, f)
  <1>1. /\ v \in Seq(Frames) /\ Len(w) \in Nat
        /\ DOMAIN v = 1 .. Len(w) + 1 /\ DOMAIN w = 1 .. Len(w)
        /\ \A i \in 1 .. Len(w) : v[i] = w[i]
        /\ v[Len(w) + 1] = f
    BY AppendProperties
  <1> HIDE DEF v
  <1>2. \A i \in DOMAIN v : v[i].type \in types => i \in DOMAIN w /\ v[i] = w[i]
    BY <1>1
  <1>3. \A type \in types : Once(w, type) => Once(v, type)
    BY <1>2 DEF Once
  <1>4. Fewer(types, v, w)
    BY <1>1, <1>2, <1>3 DEF Fewer
  <1> QED  BY <1>4 DEF v

\* Consecutive frames of a line.
LEMMA FewerRun ==
    ASSUME NEW types, NEW w \in Seq(Frames), NEW m \in 1 .. Len(w) + 1,
           NEW n \in 0 .. Len(w)
    PROVE  Fewer(types, SubSeq(w, m, n), w)
  <1> DEFINE v == SubSeq(w, m, n)
  <1>1. /\ v \in Seq(Frames) /\ Len(w) \in Nat
        /\ Len(v) = IF m <= n THEN n - m + 1 ELSE 0
        /\ \A i \in 1 .. (n - m + 1) : v[i] = w[m + i - 1]
    BY SubSeqProperties
  <1>2. \A i \in DOMAIN v : i \in Int /\ m + i - 1 \in DOMAIN w /\ v[i] = w[m + i - 1]
    BY <1>1
  <1> HIDE DEF v
  <1>3. ASSUME NEW type \in types, Once(w, type)
        PROVE  Once(v, type)
    <2> SUFFICES ASSUME NEW i \in DOMAIN v, NEW j \in DOMAIN v,
                        v[i].type = type, v[j].type = type
                 PROVE  i = j
      BY DEF Once
    <2>1. m + i - 1 = m + j - 1
      BY <1>2, <1>3 DEF Once
    <2> QED  BY <1>2, <2>1
  <1>4. Fewer(types, v, w)
    BY <1>1, <1>2, <1>3 DEF Fewer
  <1> QED  BY <1>4 DEF v

\* A line without its first frame.
LEMMA FewerTail ==
    ASSUME NEW types, NEW w \in Seq(Frames), w # <<>>
    PROVE  Fewer(types, Tail(w), w)
  <1>1. Len(w) \in Nat \ {0} /\ Tail(w) = SubSeq(w, 2, Len(w))
    BY EmptySeq, TailIsSubSeq
  <1>2. 2 \in 1 .. Len(w) + 1 /\ Len(w) \in 0 .. Len(w)
    BY <1>1
  <1> QED  BY <1>1, <1>2, FewerRun

\* A line without its second frame.
LEMMA FewerWithoutSecond ==
    ASSUME NEW types, NEW w \in Seq(Frames), Len(w) > 1
    PROVE  Fewer(types, RemoveAt(w, 2), w)
  <1> DEFINE n == Len(w)
             x == SubSeq(w, 1, 1)
             z == SubSeq(w, 3, n)
             v == x \o z
             Place(i) == IF i < 2 THEN i ELSE i + 1
  <1>1. n \in Nat /\ n > 1 /\ DOMAIN w = 1 .. n
    OBVIOUS
  <1>2. x \in Seq(Frames) /\ Len(x) = 1 /\ x[1] = w[1]
    BY <1>1, SubSeqProperties
  <1>3. /\ z \in Seq(Frames)
        /\ Len(z) = IF 3 <= n THEN n - 3 + 1 ELSE 0
        /\ \A i \in 1 .. (n - 3 + 1) : z[i] = w[3 + i - 1]
    <2>1. 3 \in 1 .. n + 1 /\ n \in 0 .. n
      BY <1>1
    <2> QED  BY <2>1, SubSeqProperties
  <1>4. RemoveAt(w, 2) = v
    BY DEF RemoveAt
  <1> HIDE DEF n, x, z
  <1>5. Len(z) = n - 2 /\ \A i \in 1 .. n - 2 : z[i] = w[i + 2]
    BY <1>1, <1>3
  <1>6. /\ v \in Seq(Frames) /\ Len(v) = Len(x) + Len(z)
        /\ \A i \in 1 .. Len(x) + Len(z) :
             v[i] = IF i <= Len(x) THEN x[i] ELSE z[i - Len(x)]
    BY <1>2, <1>3, ConcatProperties
  <1> HIDE DEF v
  <1>7. DOMAIN v = 1 .. n - 1
    BY <1>1, <1>2, <1>5, <1>6
  <1>8. \A i \in 1 .. n - 1 : Place(i) \in 1 .. n /\ v[i] = w[Place(i)]
    <2> SUFFICES ASSUME NEW i \in 1 .. n - 1
                 PROVE  Place(i) \in 1 .. n /\ v[i] = w[Place(i)]
      OBVIOUS
    <2>1. CASE i < 2
      BY <1>1, <1>2, <1>5, <1>6, <2>1
    <2>2. CASE ~(i < 2)
      <3>1. i - 1 \in 1 .. n - 2 /\ i - 1 + 2 = i + 1 /\ i + 1 \in 1 .. n
        BY <1>1, <2>2
      <3>2. v[i] = z[i - 1]
        BY <1>1, <1>2, <1>5, <1>6, <2>2
      <3>3. v[i] = w[i + 1]
        BY <1>5, <3>1, <3>2
      <3> QED  BY <2>2, <3>1, <3>3
    <2> QED  BY <2>1, <2>2
  <1>9. \A i, j \in 1 .. n - 1 : Place(i) = Place(j) => i = j
    BY <1>1
  <1> HIDE DEF Place
  <1>10. \A type : Once(w, type) => Once(v, type)
    BY <1>1, <1>7, <1>8, <1>9 DEF Once
  <1>11. Fewer(types, v, w)
    BY <1>1, <1>6, <1>7, <1>8, <1>10 DEF Fewer
  <1> QED  BY <1>4, <1>11

\* What the parser makes of a line that starts with a Torn.
LEMMA FewerResyncs ==
    ASSUME NEW types, NEW w \in Seq(Frames), NEW v \in Resyncs(w)
    PROVE  Fewer(types, v, w)
  <1>1. w # <<>>
    BY DEF Resyncs, Arrives
  <1> QED  BY <1>1, FewerTail, FewerWithoutSecond DEF Resyncs

\* What is lost while the board is down.
LEMMA FewerSuffixes ==
    ASSUME NEW types, NEW w \in Seq(Frames), NEW v \in Suffixes(w)
    PROVE  Fewer(types, v, w)
  <1>1. CASE v = <<>>
    BY <1>1 DEF Fewer, Once
  <1>2. CASE v # <<>>
    <2>1. PICK l \in 1 .. Len(w) : v = SubSeq(w, l, Len(w))
      BY <1>2 DEF Suffixes
    <2> QED  BY <2>1, FewerRun
  <1> QED  BY <1>1, <1>2

\* A frame that no longer checks.
LEMMA FewerCorrupted ==
    ASSUME NEW types, "TORN" \notin types, NEW w \in Seq(Frames), NEW i \in DOMAIN w
    PROVE  Fewer(types, Corrupted(w, i), w)
  <1> DEFINE v == Corrupted(w, i)
  <1>1. /\ v \in Seq(Frames) /\ DOMAIN v = DOMAIN w
        /\ \A j \in DOMAIN w : v[j] = IF j = i THEN Torn ELSE w[j]
    BY FramesAreFrames, ExceptSeq DEF Corrupted
  <1> HIDE DEF v
  <1>2. \A j \in DOMAIN v : v[j].type \in types => v[j] = w[j]
    BY <1>1 DEF Torn
  <1>3. \A type \in types : Once(w, type) => Once(v, type)
    BY <1>1, <1>2 DEF Once
  <1>4. Fewer(types, v, w)
    BY <1>1, <1>2, <1>3 DEF Fewer
  <1> QED  BY <1>4 DEF v

\* What a line without some frames has not, and what a line has once.
LEMMA FewerHas ==
    ASSUME NEW types, NEW v, NEW w, Fewer(types, v, w), NEW type \in types
    PROVE  /\ Has(v, type) => Has(w, type)
           /\ Once(w, type) => Once(v, type)
  BY DEF Fewer, Has

\* A frame put on a line that has none of its type.
LEMMA PutsOnce ==
    ASSUME NEW w \in Seq(Frames), NEW f \in Frames
    PROVE  /\ \A type : Has(Append(w, f), type) <=> Has(w, type) \/ f.type = type
           /\ \A type : Once(w, type) /\ ~(Has(w, type) /\ f.type = type)
                          => Once(Append(w, f), type)
           /\ \A i \in DOMAIN Append(w, f) :
                Append(w, f)[i] = f \/ \E j \in DOMAIN w : Append(w, f)[i] = w[j]
  <1> DEFINE v == Append(w, f)
  <1>1. /\ v \in Seq(Frames) /\ Len(w) \in Nat
        /\ DOMAIN v = 1 .. Len(w) + 1 /\ DOMAIN w = 1 .. Len(w)
        /\ \A i \in 1 .. Len(w) : v[i] = w[i]
        /\ v[Len(w) + 1] = f
    BY AppendProperties
  <1> HIDE DEF v
  <1>2. \A type : Has(v, type) <=> Has(w, type) \/ f.type = type
    BY <1>1 DEF Has
  <1>3. \A type : Once(w, type) /\ ~(Has(w, type) /\ f.type = type) => Once(v, type)
    BY <1>1 DEF Has, Once
  <1>4. \A i \in DOMAIN v : v[i] = f \/ \E j \in DOMAIN w : v[i] = w[j]
    BY <1>1
  <1> QED  BY <1>2, <1>3, <1>4 DEF v

\* A frame taken off a line that has it once.
LEMMA TakesOnce ==
    ASSUME NEW w \in Seq(Frames), NEW type, Arrives(w, type), Once(w, type)
    PROVE  Has(w, type) /\ ~Has(Tail(w), type)
  <1>1. w # <<>> /\ Len(w) \in Nat \ {0} /\ w[1].type = type
    BY EmptySeq DEF Arrives
  <1>2. /\ DOMAIN Tail(w) = 1 .. Len(w) - 1
        /\ \A i \in 1 .. Len(w) - 1 : Tail(w)[i] = w[i + 1]
    BY <1>1, HeadTailProperties
  <1>3. \A i \in DOMAIN Tail(w) : Tail(w)[i].type # type
    BY <1>1, <1>2 DEF Once
  <1> QED  BY <1>1, <1>3 DEF Has


-----------------------------------------------------------------------------
(* Steps                                                                   *)

\* Steps that begin nothing: frames and flags of the registration may be lost, and
\* nothing is loaded, acknowledged or asked for.
Quiet ==
    /\ Fewer(ToBoard, toClient', toClient) /\ Fewer(ToHost, toAgent', toAgent)
    /\ needRegistration' => needRegistration
    /\ needAck' => needAck
    /\ awaitingAck' => awaitingAck
    /\ AckExpected' => AckExpected /\ regIdx' = regIdx /\ sendingRegDone' = sendingRegDone
    /\ InBuffer("REGISTER")' => InBuffer("REGISTER") /\ txFrame' = txFrame
    /\ InBuffer("REGISTER_DONE")' => InBuffer("REGISTER_DONE")
    /\ newTopics' = newTopics
    /\ QueueIsData'

\* What is lost on the two lines.
LEMMA FewerLines ==
    ASSUME Fewer(ToBoard, toClient', toClient), Fewer(ToHost, toAgent', toAgent)
    PROVE  /\ Has(toClient, "DISCOVER")' => Has(toClient, "DISCOVER")
           /\ Has(toClient, "ACK")' => Has(toClient, "ACK")
           /\ Has(toAgent, "REGISTER")' => Has(toAgent, "REGISTER")
           /\ Has(toAgent, "REGISTER_DONE")' => Has(toAgent, "REGISTER_DONE")
           /\ Once(toClient, "DISCOVER") => Once(toClient, "DISCOVER")'
           /\ Once(toClient, "ACK") => Once(toClient, "ACK")'
           /\ Once(toAgent, "REGISTER") => Once(toAgent, "REGISTER")'
           /\ \A k \in DOMAIN toAgent' :
                toAgent'[k].type = "REGISTER" =>
                  \E j \in DOMAIN toAgent : toAgent'[k] = toAgent[j]
  <1>1. /\ "DISCOVER" \in ToBoard /\ "ACK" \in ToBoard
        /\ "REGISTER" \in ToHost /\ "REGISTER_DONE" \in ToHost
    BY DEF ToBoard, ToHost
  <1>2. /\ \A type \in ToBoard : /\ Has(toClient', type) => Has(toClient, type)
                                 /\ Once(toClient, type) => Once(toClient', type)
        /\ \A type \in ToHost : /\ Has(toAgent', type) => Has(toAgent, type)
                                /\ Once(toAgent, type) => Once(toAgent', type)
    BY FewerHas
  <1>3. \A k \in DOMAIN toAgent' :
          toAgent'[k].type = "REGISTER" =>
            \E j \in DOMAIN toAgent : toAgent'[k] = toAgent[j]
    BY <1>1 DEF Fewer
  <1>4. /\ Has(toClient, "DISCOVER")' = Has(toClient', "DISCOVER")
        /\ Has(toClient, "ACK")' = Has(toClient', "ACK")
        /\ Has(toAgent, "REGISTER")' = Has(toAgent', "REGISTER")
        /\ Has(toAgent, "REGISTER_DONE")' = Has(toAgent', "REGISTER_DONE")
        /\ Once(toClient, "DISCOVER")' = Once(toClient', "DISCOVER")
        /\ Once(toClient, "ACK")' = Once(toClient', "ACK")
        /\ Once(toAgent, "REGISTER")' = Once(toAgent', "REGISTER")
    BY DEF Has, Once
  <1> QED  BY <1>1, <1>2, <1>3, <1>4

\* Such a step keeps the invariant.
LEMMA QuietStep == ASSUME StallInv, Quiet PROVE StallInv'
  <1>1. /\ Has(toClient, "DISCOVER")' => Has(toClient, "DISCOVER")
        /\ Has(toClient, "ACK")' => Has(toClient, "ACK")
        /\ Has(toAgent, "REGISTER")' => Has(toAgent, "REGISTER")
        /\ Has(toAgent, "REGISTER_DONE")' => Has(toAgent, "REGISTER_DONE")
        /\ Once(toClient, "DISCOVER") => Once(toClient, "DISCOVER")'
        /\ Once(toClient, "ACK") => Once(toClient, "ACK")'
        /\ Once(toAgent, "REGISTER") => Once(toAgent, "REGISTER")'
    BY FewerLines DEF Quiet
  <1>2. \A k \in DOMAIN toAgent' :
          toAgent'[k].type = "REGISTER" =>
            \E j \in DOMAIN toAgent : toAgent'[k] = toAgent[j]
    BY FewerLines DEF Quiet
  <1>3. OneTurnAtMost'
    BY <1>1 DEF Quiet, StallInv, OneTurnAtMost
  <1>4. DiscoverComesFirst'
    BY <1>1 DEF Quiet, StallInv, DiscoverComesFirst
  <1>5. RegistersAreRows'
    BY <1>2 DEF Quiet, StallInv, RegistersAreRows
  <1>6. KnownSoFar'
    <2> SUFFICES ASSUME AckExpected' PROVE
          /\ ~sendingRegDone' /\ regIdx' \in TopicIdx
          /\ AcceptedBelow(regIdx') \subseteq newTopics'
          /\ InBuffer("REGISTER")' => txFrame' = RegisterFrame(regIdx')
          /\ \A k \in DOMAIN toAgent' :
               toAgent'[k].type = "REGISTER" => toAgent'[k] = RegisterFrame(regIdx')
          /\ needAck' \/ Has(toClient, "ACK")' =>
               AcceptedBelow(regIdx' + 1) \subseteq newTopics'
      BY DEF KnownSoFar, AcceptedBelow, RegisterFrame
    <2>1. /\ AckExpected /\ regIdx' = regIdx /\ sendingRegDone' = sendingRegDone
          /\ newTopics' = newTopics
      BY DEF Quiet
    <2>2. /\ ~sendingRegDone /\ regIdx \in TopicIdx
          /\ AcceptedBelow(regIdx) \subseteq newTopics
          /\ InBuffer("REGISTER") => txFrame = RegisterFrame(regIdx)
          /\ \A k \in DOMAIN toAgent :
               toAgent[k].type = "REGISTER" => toAgent[k] = RegisterFrame(regIdx)
          /\ needAck \/ Has(toClient, "ACK") =>
               AcceptedBelow(regIdx + 1) \subseteq newTopics
      BY <2>1 DEF StallInv, KnownSoFar
    <2>3. \A k \in DOMAIN toAgent' :
            toAgent'[k].type = "REGISTER" => toAgent'[k] = RegisterFrame(regIdx)
      BY <1>2, <2>2
    <2> QED  BY <1>1, <2>1, <2>2, <2>3 DEF Quiet
  <1>7. DoneIsLast'
    BY <1>1 DEF Quiet, StallInv, DoneIsLast, AcceptableIds
  <1> QED  BY <1>3, <1>4, <1>5, <1>6, <1>7 DEF Quiet, StallInv

\* The board.
BoardAlone == UNCHANGED <<agentVars, faultVars>>

\* Whatever is loaded into tx.buffer, the line to the agent keeps its frames.
LEMMA StartFewer ==
    ASSUME TypeOK, NEW f, StartFrame(f)
    PROVE  Fewer(ToHost, toAgent', toAgent)
  <1>1. Torn \in Frames /\ Torn.type \notin ToHost
    BY FramesAreFrames DEF Torn, ToHost
  <1> QED  BY <1>1, PartsType, FewerItself, FewerAppend DEF StartFrame

\* A frame the parser hands on leaves the line to the board.
LEMMA ReceivesFewer ==
    ASSUME TypeOK, NEW type, Receives(type)
    PROVE  Fewer(ToBoard, toClient', toClient)
  BY PartsType, FewerTail DEF Receives, Arrives

\* The last frame of its type is read.
LEMMA ReceivesLast ==
    ASSUME TypeOK, OneTurnAtMost, NEW type \in ToBoard, Receives(type)
    PROVE  Has(toClient, type) /\ ~Has(toClient', type)
  <1>1. Once(toClient, type)
    BY DEF OneTurnAtMost, ToBoard
  <1> QED  BY <1>1, PartsType, TakesOnce DEF Receives

\* A board that starts to register has done so for nothing yet.
LEMMA BeginsStep ==
    ASSUME TypeOK, StallInv, BoardAlone, Receives("DISCOVER"),
           isRegistration', regIdx' = 0, ~sendingRegDone', 0 \notin Oversized,
           StartFrame(RegisterFrame(0)), txState = "IDLE"
    PROVE  StallInv'
  <1>1. Has(toClient, "DISCOVER") /\ ~Has(toClient', "DISCOVER")
    BY ReceivesLast DEF StallInv, ToBoard
  <1>2. Fewer(ToBoard, toClient', toClient) /\ toAgent' = toAgent
    BY ReceivesFewer DEF StartFrame, MidFrame
  <1>3. Fewer(ToHost, toAgent', toAgent)
    BY <1>2, PartsType, FewerItself
  <1>4. /\ ~needRegistration /\ ~Has(toAgent, "REGISTER")
        /\ ~needAck /\ ~Has(toClient, "ACK")
    BY <1>1 DEF StallInv, OneTurnAtMost
  <1>5. /\ ~Has(toClient, "DISCOVER")' /\ ~Has(toClient, "ACK")'
        /\ ~Has(toAgent, "REGISTER")'
        /\ Once(toClient, "DISCOVER")' /\ Once(toClient, "ACK")'
        /\ Once(toAgent, "REGISTER")'
        /\ Has(toAgent, "REGISTER_DONE")' => Has(toAgent, "REGISTER_DONE")
    BY <1>1, <1>2, <1>3, <1>4, FewerLines DEF StallInv, OneTurnAtMost, Has
  <1>6. /\ needRegistration' = needRegistration /\ needAck' = needAck
        /\ newTopics' = newTopics /\ queue' = queue
    BY DEF BoardAlone, agentVars, ackSlot, node
  <1>7. txFrame' = RegisterFrame(0) /\ ~InBuffer("REGISTER_DONE")'
    BY DEF StartFrame, InBuffer, RegisterFrame
  <1>8. 0 \in TopicIdx
    BY TopicTableAssumption DEF TopicIdx
  <1>9. OneTurnAtMost'
    BY <1>4, <1>5, <1>6 DEF OneTurnAtMost
  <1>10. DiscoverComesFirst'
    BY <1>4, <1>5, <1>6 DEF DiscoverComesFirst
  <1>11. RegistersAreRows'
    <2>1. \A k \in DOMAIN toAgent' :
            toAgent'[k].type = "REGISTER" => \E i \in TopicIdx : toAgent'[k] = RegisterFrame(i)
      BY <1>2 DEF StallInv, RegistersAreRows
    <2>2. newTopics' \subseteq AcceptableIds
      BY <1>6 DEF StallInv, RegistersAreRows
    <2> QED  BY <1>7, <1>8, <2>1, <2>2 DEF RegistersAreRows
  <1>12. KnownSoFar'
    <2>1. \A k \in DOMAIN toAgent' : toAgent'[k].type # "REGISTER"
      BY <1>5 DEF Has
    <2>2. AcceptedBelow(0) \subseteq newTopics'
      BY AcceptedNone
    <2> QED  BY <1>4, <1>5, <1>6, <1>7, <1>8, <2>1, <2>2
             DEF KnownSoFar, AcceptedBelow, RegisterFrame
  <1>13. DoneIsLast'
    BY <1>5, <1>6, <1>7 DEF StallInv, DoneIsLast, AcceptableIds
  <1>14. QueueIsData'
    BY <1>6 DEF StallInv, QueueIsData
  <1> QED  BY <1>9, <1>10, <1>11, <1>12, <1>13, <1>14 DEF StallInv

\* A step that begins nothing, on the board.
LEMMA QuietBoard ==
    ASSUME TypeOK, StallInv, BoardAlone,
           Fewer(ToBoard, toClient', toClient), Fewer(ToHost, toAgent', toAgent),
           awaitingAck' => awaitingAck,
           AckExpected' => AckExpected /\ regIdx' = regIdx /\ sendingRegDone' = sendingRegDone,
           InBuffer("REGISTER")' => InBuffer("REGISTER") /\ txFrame' = txFrame,
           InBuffer("REGISTER_DONE")' => InBuffer("REGISTER_DONE")
    PROVE  StallInv'
  <1>1. /\ needRegistration' = needRegistration /\ needAck' = needAck
        /\ newTopics' = newTopics /\ queue' = queue
    BY DEF BoardAlone, agentVars, ackSlot, node
  <1>2. QueueIsData'
    BY <1>1 DEF StallInv, QueueIsData
  <1>3. Quiet
    BY <1>1, <1>2 DEF Quiet
  <1> QED  BY <1>3, QuietStep

\* DISCOVER.
LEMMA DiscoverLossStep ==
    ASSUME TypeOK, StallInv, BoardAlone, RxDiscover PROVE StallInv'
  <1>1. Receives("DISCOVER")
    BY DEF RxDiscover
  <1>2. Fewer(ToBoard, toClient', toClient)
    BY <1>1, ReceivesFewer
  <1>3. CASE txState # "IDLE"
    <2>1. UNCHANGED <<tx, registration, toAgent>>
      BY <1>3 DEF RxDiscover
    <2>2. Fewer(ToHost, toAgent', toAgent)
      BY <2>1, PartsType, FewerItself
    <2> QED  BY <1>2, <2>1, <2>2, QuietBoard DEF tx, registration, AckExpected, InBuffer
  <1>4. CASE txState = "IDLE"
    <2>1. /\ isRegistration' = TRUE /\ regIdx' = 0 /\ sendingRegDone' = FALSE
          /\ LoadNextRegistrationFrame(0, FALSE, awaitingAck)
      BY <1>4 DEF RxDiscover
    <2>2. CASE 0 \in Oversized
      <3>1. awaitingAck' = awaitingAck /\ UNCHANGED <<tx, toAgent>>
        BY <2>1, <2>2 DEF LoadNextRegistrationFrame
      <3>2. ~awaitingAck
        BY <1>1, ReceivesLast DEF StallInv, DiscoverComesFirst, ToBoard
      <3>3. Fewer(ToHost, toAgent', toAgent)
        BY <3>1, PartsType, FewerItself
      <3> QED  BY <1>2, <3>1, <3>2, <3>3, QuietBoard DEF tx, AckExpected, InBuffer
    <2>3. CASE 0 \notin Oversized
      <3>1. StartFrame(RegisterFrame(0))
        BY <2>1, <2>3 DEF LoadNextRegistrationFrame
      <3> QED  BY <1>1, <1>4, <2>1, <2>3, <3>1, BeginsStep
    <2> QED  BY <2>2, <2>3
  <1> QED  BY <1>3, <1>4

\* The ACK the board waits for, with what the agent knows when it comes.
LEMMA AckIsTheOnlyTurn ==
    ASSUME TypeOK, StallInv, BoardAlone, Receives("ACK"), AckExpected
    PROVE  /\ ~needRegistration' /\ ~needAck'
           /\ ~Has(toClient, "DISCOVER")' /\ ~Has(toClient, "ACK")'
           /\ ~Has(toAgent, "REGISTER") /\ ~InBuffer("REGISTER")
           /\ Once(toClient, "DISCOVER")' /\ Once(toClient, "ACK")'
           /\ ~sendingRegDone /\ regIdx \in TopicIdx
           /\ AcceptedBelow(regIdx + 1) \subseteq newTopics
           /\ newTopics' = newTopics /\ queue' = queue
  <1>1. Has(toClient, "ACK") /\ ~Has(toClient', "ACK")
    BY ReceivesLast DEF StallInv, ToBoard
  <1>2. /\ needRegistration' = needRegistration /\ needAck' = needAck
        /\ newTopics' = newTopics /\ queue' = queue
    BY DEF BoardAlone, agentVars, ackSlot, node
  <1>3. /\ ~needRegistration /\ ~Has(toClient, "DISCOVER")
        /\ ~Has(toAgent, "REGISTER") /\ ~InBuffer("REGISTER") /\ ~needAck
        /\ Once(toClient, "DISCOVER") /\ Once(toClient, "ACK")
    BY <1>1 DEF StallInv, OneTurnAtMost
  <1>4. Fewer(ToBoard, toClient', toClient)
    BY ReceivesFewer
  <1>5. \A type \in ToBoard : /\ Has(toClient', type) => Has(toClient, type)
                              /\ Once(toClient, type) => Once(toClient', type)
    BY <1>4, FewerHas
  <1>6. /\ ~Has(toClient', "DISCOVER")
        /\ Once(toClient', "DISCOVER") /\ Once(toClient', "ACK")
    BY <1>3, <1>5 DEF ToBoard
  <1>7. /\ ~Has(toClient, "DISCOVER")' /\ ~Has(toClient, "ACK")'
        /\ Once(toClient, "DISCOVER")' /\ Once(toClient, "ACK")'
    BY <1>1, <1>6 DEF Has, Once
  <1>8. /\ ~sendingRegDone /\ regIdx \in TopicIdx
        /\ AcceptedBelow(regIdx + 1) \subseteq newTopics
    BY <1>1 DEF StallInv, KnownSoFar
  <1> QED  BY <1>2, <1>3, <1>7, <1>8

\* It makes the board register the next topic.
LEMMA AckLoadsNext ==
    ASSUME TypeOK, StallInv, BoardAlone, Receives("ACK"), AckExpected,
           regIdx' = regIdx + 1, regIdx' \in TopicIdx, ~sendingRegDone',
           StartFrame(RegisterFrame(regIdx'))
    PROVE  StallInv'
  <1>1. /\ ~needRegistration' /\ ~needAck'
        /\ ~Has(toClient, "DISCOVER")' /\ ~Has(toClient, "ACK")'
        /\ ~Has(toAgent, "REGISTER")
        /\ Once(toClient, "DISCOVER")' /\ Once(toClient, "ACK")'
        /\ AcceptedBelow(regIdx + 1) \subseteq newTopics
        /\ newTopics' = newTopics /\ queue' = queue
    BY AckIsTheOnlyTurn
  <1>2. Fewer(ToBoard, toClient', toClient) /\ Fewer(ToHost, toAgent', toAgent)
    BY ReceivesFewer, StartFewer
  <1>3. /\ ~Has(toAgent, "REGISTER")' /\ Once(toAgent, "REGISTER")'
        /\ Has(toAgent, "REGISTER_DONE")' => Has(toAgent, "REGISTER_DONE")
    BY <1>1, <1>2, FewerLines DEF StallInv, OneTurnAtMost
  <1>4. txFrame' = RegisterFrame(regIdx') /\ ~InBuffer("REGISTER_DONE")'
    BY DEF StartFrame, InBuffer, RegisterFrame
  <1>5. \A k \in DOMAIN toAgent' : toAgent'[k].type # "REGISTER"
    BY <1>3 DEF Has
  <1>6. OneTurnAtMost'
    BY <1>1, <1>3 DEF OneTurnAtMost
  <1>7. DiscoverComesFirst'
    BY <1>1 DEF DiscoverComesFirst
  <1>8. RegistersAreRows'
    <2>1. newTopics' \subseteq AcceptableIds
      BY <1>1 DEF StallInv, RegistersAreRows
    <2> QED  BY <1>4, <1>5, <2>1 DEF RegistersAreRows
  <1>9. KnownSoFar'
    <2>1. AcceptedBelow(regIdx') \subseteq newTopics'
      BY <1>1
    <2> QED  BY <1>1, <1>4, <1>5, <2>1 DEF KnownSoFar, AcceptedBelow, RegisterFrame
  <1>10. DoneIsLast'
    BY <1>1, <1>3, <1>4 DEF StallInv, DoneIsLast, AcceptableIds
  <1>11. QueueIsData'
    BY <1>1 DEF StallInv, QueueIsData
  <1> QED  BY <1>6, <1>7, <1>8, <1>9, <1>10, <1>11 DEF StallInv

\* Or it makes it finish, when the agent knows them all.
LEMMA AckLoadsDone ==
    ASSUME TypeOK, StallInv, BoardAlone, Receives("ACK"), AckExpected,
           regIdx + 1 >= TopicCount, StartFrame(RegisterDone), ~awaitingAck'
    PROVE  StallInv'
  <1>1. /\ ~needRegistration' /\ ~needAck'
        /\ ~Has(toClient, "DISCOVER")' /\ ~Has(toClient, "ACK")'
        /\ ~Has(toAgent, "REGISTER")
        /\ Once(toClient, "DISCOVER")' /\ Once(toClient, "ACK")'
        /\ regIdx \in TopicIdx
        /\ AcceptedBelow(regIdx + 1) \subseteq newTopics
        /\ newTopics' = newTopics /\ queue' = queue
    BY AckIsTheOnlyTurn
  <1>2. Fewer(ToBoard, toClient', toClient) /\ Fewer(ToHost, toAgent', toAgent)
    BY ReceivesFewer, StartFewer
  <1>3. ~Has(toAgent, "REGISTER")' /\ Once(toAgent, "REGISTER")'
    BY <1>1, <1>2, FewerLines DEF StallInv, OneTurnAtMost
  <1>4. ~InBuffer("REGISTER")'
    BY DEF StartFrame, InBuffer, RegisterDone
  <1>5. \A k \in DOMAIN toAgent' : toAgent'[k].type # "REGISTER"
    BY <1>3 DEF Has
  <1>6. OneTurnAtMost'
    BY <1>1, <1>3, <1>4 DEF OneTurnAtMost
  <1>7. DiscoverComesFirst'
    BY <1>1 DEF DiscoverComesFirst
  <1>8. RegistersAreRows'
    <2>1. newTopics' \subseteq AcceptableIds
      BY <1>1 DEF StallInv, RegistersAreRows
    <2> QED  BY <1>4, <1>5, <2>1 DEF RegistersAreRows
  <1>9. KnownSoFar'
    BY DEF KnownSoFar, AckExpected
  <1>10. DoneIsLast'
    <2>1. regIdx + 1 = TopicCount
      BY <1>1, TopicTableAssumption DEF TopicIdx
    <2>2. AcceptableIds \subseteq newTopics'
      BY <1>1, <2>1, AcceptedAll
    <2> QED  BY <2>2 DEF DoneIsLast, AcceptableIds
  <1>11. QueueIsData'
    BY <1>1 DEF StallInv, QueueIsData
  <1> QED  BY <1>6, <1>7, <1>8, <1>9, <1>10, <1>11 DEF StallInv

\* An ACK.
LEMMA AckLossStep ==
    ASSUME TypeOK, StallInv, BoardAlone, RxAckAdvances PROVE StallInv'
  <1>1. /\ Receives("ACK") /\ AckExpected
        /\ regIdx' = (regIdx + 1) % 256
        /\ sendingRegDone' = (sendingRegDone \/ RegistersUpTo(regIdx'))
        /\ LoadNextRegistrationFrame(regIdx', sendingRegDone', FALSE)
        /\ isRegistration' = isRegistration
    BY DEF RxAckAdvances
  <1>2. ~sendingRegDone /\ regIdx \in TopicIdx
    BY <1>1, AckIsTheOnlyTurn
  <1>3. regIdx' = regIdx + 1 /\ TopicCount \in Nat /\ regIdx \in Nat
    BY <1>1, <1>2, TopicTableAssumption DEF TopicIdx
  <1>4. sendingRegDone' <=> regIdx + 1 >= TopicCount
    BY <1>1, <1>2, <1>3 DEF RegistersUpTo
  <1>5. CASE sendingRegDone'
    <2>1. StartFrame(RegisterDone) /\ ~awaitingAck'
      BY <1>1, <1>5 DEF LoadNextRegistrationFrame
    <2> QED  BY <1>1, <1>4, <1>5, <2>1, AckLoadsDone
  <1>6. CASE ~sendingRegDone' /\ regIdx' \in Oversized
    <2>1. ~awaitingAck' /\ UNCHANGED <<tx, toAgent>>
      BY <1>1, <1>6 DEF LoadNextRegistrationFrame
    <2>2. Fewer(ToHost, toAgent', toAgent) /\ Fewer(ToBoard, toClient', toClient)
      BY <1>1, <2>1, PartsType, FewerItself, ReceivesFewer
    <2> QED  BY <2>1, <2>2, QuietBoard DEF tx, AckExpected, InBuffer
  <1>7. CASE ~sendingRegDone' /\ regIdx' \notin Oversized
    <2>1. StartFrame(RegisterFrame(regIdx'))
      BY <1>1, <1>7 DEF LoadNextRegistrationFrame
    <2>2. regIdx' \in TopicIdx
      BY <1>3, <1>4, <1>7 DEF TopicIdx
    <2> QED  BY <1>1, <1>3, <1>7, <2>1, <2>2, AckLoadsNext
  <1> QED  BY <1>5, <1>6, <1>7

\* A REGISTER has been written.
LEMMA RegisterWritten ==
    ASSUME TypeOK, StallInv, BoardAlone, InBuffer("REGISTER"), txState' = "IDLE",
           UNCHANGED <<registration, toClient>>, toAgent' = Append(toAgent, txFrame)
    PROVE  StallInv'
  <1>1. /\ txFrame \in Frames /\ txFrame.type = "REGISTER"
        /\ toAgent \in Seq(Frames)
    BY DEF TypeOK, ClientTypeOK, InBuffer
  <1>2. /\ needRegistration' = needRegistration /\ needAck' = needAck
        /\ newTopics' = newTopics /\ queue' = queue
    BY DEF BoardAlone, agentVars, ackSlot, node
  <1>3. /\ ~needRegistration /\ ~Has(toClient, "DISCOVER")
        /\ ~Has(toAgent, "REGISTER") /\ ~needAck /\ ~Has(toClient, "ACK")
        /\ Once(toClient, "DISCOVER") /\ Once(toClient, "ACK")
        /\ Once(toAgent, "REGISTER")
    BY DEF StallInv, OneTurnAtMost
  <1>4. /\ \A type : Has(toAgent', type) <=> Has(toAgent, type) \/ txFrame.type = type
        /\ \A type : Once(toAgent, type) /\ ~(Has(toAgent, type) /\ txFrame.type = type)
                       => Once(toAgent', type)
        /\ \A k \in DOMAIN toAgent' :
             toAgent'[k] = txFrame \/ \E j \in DOMAIN toAgent : toAgent'[k] = toAgent[j]
    BY <1>1, PutsOnce
  <1>5. Once(toAgent', "REGISTER") /\ (Has(toAgent', "REGISTER_DONE") => Has(toAgent, "REGISTER_DONE"))
    BY <1>1, <1>3, <1>4
  <1>6. /\ Once(toAgent, "REGISTER")' /\ Once(toClient, "DISCOVER")'
        /\ Once(toClient, "ACK")'
        /\ ~Has(toClient, "DISCOVER")' /\ ~Has(toClient, "ACK")'
        /\ Has(toAgent, "REGISTER_DONE")' => Has(toAgent, "REGISTER_DONE")
    BY <1>3, <1>5 DEF Has, Once
  <1>7. ~InBuffer("REGISTER")' /\ ~InBuffer("REGISTER_DONE")'
    BY DEF InBuffer
  <1>8. \A k \in DOMAIN toAgent' : toAgent'[k].type = "REGISTER" => toAgent'[k] = txFrame
    BY <1>3, <1>4 DEF Has
  <1>9. OneTurnAtMost'
    BY <1>2, <1>3, <1>6, <1>7 DEF OneTurnAtMost
  <1>10. DiscoverComesFirst'
    BY <1>2, <1>3, <1>6 DEF DiscoverComesFirst
  <1>11. RegistersAreRows'
    <2>1. \E i \in TopicIdx : txFrame = RegisterFrame(i)
      BY DEF StallInv, RegistersAreRows
    <2>2. newTopics' \subseteq AcceptableIds
      BY <1>2 DEF StallInv, RegistersAreRows
    <2> QED  BY <1>7, <1>8, <2>1, <2>2 DEF RegistersAreRows
  <1>12. KnownSoFar'
    BY <1>2, <1>3, <1>6, <1>7, <1>8
       DEF StallInv, KnownSoFar, AckExpected, registration, AcceptedBelow, RegisterFrame
  <1>13. DoneIsLast'
    BY <1>2, <1>6, <1>7 DEF StallInv, DoneIsLast, AcceptableIds
  <1>14. QueueIsData'
    BY <1>2 DEF StallInv, QueueIsData
  <1> QED  BY <1>9, <1>10, <1>11, <1>12, <1>13, <1>14 DEF StallInv

\* REGISTER_DONE has been written.
LEMMA DoneWritten ==
    ASSUME TypeOK, StallInv, BoardAlone, InBuffer("REGISTER_DONE"), txState' = "IDLE",
           UNCHANGED <<registration, toClient>>, toAgent' = Append(toAgent, txFrame)
    PROVE  StallInv'
  <1>1. /\ txFrame \in Frames /\ txFrame.type = "REGISTER_DONE"
        /\ toAgent \in Seq(Frames)
    BY DEF TypeOK, ClientTypeOK, InBuffer
  <1>2. /\ needRegistration' = needRegistration /\ needAck' = needAck
        /\ newTopics' = newTopics /\ queue' = queue
    BY DEF BoardAlone, agentVars, ackSlot, node
  <1>3. Fewer({"REGISTER"}, toAgent', toAgent) /\ "REGISTER" \in {"REGISTER"}
    BY <1>1, FewerAppend
  <1>4. /\ Has(toAgent', "REGISTER") => Has(toAgent, "REGISTER")
        /\ Once(toAgent, "REGISTER") => Once(toAgent', "REGISTER")
    BY <1>3, FewerHas
  <1>5. /\ Has(toAgent, "REGISTER")' => Has(toAgent, "REGISTER")
        /\ Once(toAgent, "REGISTER") => Once(toAgent, "REGISTER")'
        /\ Has(toClient, "DISCOVER")' = Has(toClient, "DISCOVER")
        /\ Has(toClient, "ACK")' = Has(toClient, "ACK")
        /\ Once(toClient, "DISCOVER")' = Once(toClient, "DISCOVER")
        /\ Once(toClient, "ACK")' = Once(toClient, "ACK")
    BY <1>4 DEF Has, Once
  <1>6. \A k \in DOMAIN toAgent' :
          toAgent'[k].type = "REGISTER" =>
            \E j \in DOMAIN toAgent : toAgent'[k] = toAgent[j]
    BY <1>3 DEF Fewer
  <1>7. ~InBuffer("REGISTER")'
    BY DEF InBuffer
  <1>8. OneTurnAtMost'
    BY <1>2, <1>5, <1>7 DEF StallInv, OneTurnAtMost
  <1>9. DiscoverComesFirst'
    BY <1>2, <1>5 DEF StallInv, DiscoverComesFirst, registration
  <1>10. RegistersAreRows'
    BY <1>2, <1>6, <1>7 DEF StallInv, RegistersAreRows
  <1>11. KnownSoFar'
    BY <1>2, <1>5, <1>6, <1>7
       DEF StallInv, KnownSoFar, AckExpected, registration, AcceptedBelow, RegisterFrame
  <1>12. DoneIsLast'
    BY <1>2 DEF StallInv, DoneIsLast, AcceptableIds
  <1>13. QueueIsData'
    BY <1>2 DEF StallInv, QueueIsData
  <1> QED  BY <1>8, <1>9, <1>10, <1>11, <1>12, <1>13 DEF StallInv

\* More of a frame is written, or all of it.
LEMMA TxLossStep ==
    ASSUME TypeOK, StallInv, BoardAlone, TxPoll PROVE StallInv'
  <1>1. /\ txState = "SENDING_FRAME" /\ txFrame' = txFrame
        /\ UNCHANGED <<registration, toClient>>
        /\ txFrame \in Frames
    BY DEF TxPoll, TypeOK, ClientTypeOK
  <1>2. Fewer(ToBoard, toClient', toClient)
    BY <1>1, PartsType, FewerItself
  <1>3. CASE UNCHANGED <<txState, toAgent>>
    <2>1. Fewer(ToHost, toAgent', toAgent)
      BY <1>3, PartsType, FewerItself
    <2> QED  BY <1>1, <1>2, <1>3, <2>1, QuietBoard DEF AckExpected, registration, InBuffer
  <1>4. CASE txState' = "IDLE" /\ toAgent' = Append(toAgent, txFrame)
    <2>1. CASE txFrame.type = "REGISTER"
      BY <1>1, <1>4, <2>1, RegisterWritten DEF InBuffer
    <2>2. CASE txFrame.type = "REGISTER_DONE"
      BY <1>1, <1>4, <2>2, DoneWritten DEF InBuffer
    <2>3. CASE txFrame.type \notin {"REGISTER", "REGISTER_DONE"}
      <3>1. Fewer(ToHost, toAgent', toAgent)
        BY <1>1, <1>4, <2>3, PartsType, FewerAppend DEF ToHost
      <3> QED  BY <1>1, <1>2, <1>4, <3>1, QuietBoard DEF AckExpected, registration, InBuffer
    <2> QED  BY <2>1, <2>2, <2>3
  <1> QED  BY <1>3, <1>4 DEF TxPoll, TxFrameComplete

\* Everything else the board does.
LEMMA OtherBoardStep ==
    ASSUME TypeOK, StallInv, BoardAlone,
           RxData \/ RxAckIgnored \/ RxIgnored \/ RxTorn \/ \E id \in PublisherIds : Publish(id)
    PROVE  StallInv'
  <1>1. CASE RxData \/ RxIgnored \/ RxTorn
    <2>1. UNCHANGED <<tx, registration, toAgent>>
      BY <1>1 DEF RxData, RxIgnored, RxTorn, clientVars
    <2>2. Fewer(ToHost, toAgent', toAgent)
      BY <2>1, PartsType, FewerItself
    <2>3. Fewer(ToBoard, toClient', toClient)
      BY <1>1, PartsType, ReceivesFewer, FewerResyncs DEF RxData, RxIgnored, RxTorn
    <2> QED  BY <2>1, <2>2, <2>3, QuietBoard DEF tx, registration, AckExpected, InBuffer
  <1>2. CASE RxAckIgnored
    <2>1. /\ ~awaitingAck' /\ UNCHANGED <<tx, isRegistration, sendingRegDone, regIdx, toAgent>>
          /\ Receives("ACK")
      BY <1>2 DEF RxAckIgnored
    <2>2. Fewer(ToHost, toAgent', toAgent) /\ Fewer(ToBoard, toClient', toClient)
      BY <2>1, PartsType, FewerItself, ReceivesFewer
    <2> QED  BY <2>1, <2>2, QuietBoard DEF tx, AckExpected, InBuffer
  <1>3. ASSUME NEW id \in PublisherIds, Publish(id) PROVE StallInv'
    <2> DEFINE f == DataFrame(id, Len(accepted) + 1)
    <2>1. /\ StartFrame(f) /\ ~isRegistration' /\ awaitingAck' = awaitingAck
          /\ toClient' = toClient
      BY <1>3 DEF Publish, LoadData
    <2>2. f.type = "DATA"
      BY DEF DataFrame
    <2> HIDE DEF f
    <2>3. txFrame' = f
      BY <2>1 DEF StartFrame
    <2>4. Fewer(ToHost, toAgent', toAgent) /\ Fewer(ToBoard, toClient', toClient)
      BY <2>1, StartFewer, PartsType, FewerItself
    <2> QED  BY <2>1, <2>2, <2>3, <2>4, QuietBoard DEF AckExpected, InBuffer
  <1> QED  BY <1>1, <1>2, <1>3

\* The board.
LEMMA ClientLossStep == ASSUME TypeOK, StallInv, Client PROVE StallInv'
  <1>1. BoardAlone
    BY DEF Client, BoardAlone
  <1> QED  BY <1>1, DiscoverLossStep, AckLossStep, TxLossStep, OtherBoardStep
           DEF Client, RxPoll

\* A reboot of the board, and frames that no longer check.
LEMMA FaultLossStep == ASSUME TypeOK, StallInv, Reset \/ Corrupt PROVE StallInv'
  <1>1. CASE Reset
    <2>1. /\ UNCHANGED agentVars
          /\ txState' = "IDLE" /\ ~isRegistration' /\ ~awaitingAck'
          /\ toAgent' = IF MidFrame THEN Append(toAgent, Torn) ELSE toAgent
          /\ toClient' \in Suffixes(toClient)
      BY <1>1 DEF Reset, ClientReset
    <2>2. Torn \in Frames /\ Torn.type \notin ToHost
      BY FramesAreFrames DEF Torn, ToHost
    <2>3. Fewer(ToHost, toAgent', toAgent)
      BY <2>1, <2>2, PartsType, FewerItself, FewerAppend
    <2>4. Fewer(ToBoard, toClient', toClient)
      BY <2>1, PartsType, FewerSuffixes
    <2>5. QueueIsData'
      BY <2>1 DEF agentVars, StallInv, QueueIsData
    <2>6. Quiet
      BY <2>1, <2>3, <2>4, <2>5 DEF Quiet, agentVars, ackSlot, node, AckExpected, InBuffer
    <2> QED  BY <2>6, QuietStep
  <1>2. CASE Corrupt
    <2>1. UNCHANGED <<clientVars, agentVars>>
      BY <1>2 DEF Corrupt
    <2>2. "TORN" \notin ToHost /\ "TORN" \notin ToBoard
      BY DEF ToHost, ToBoard
    <2>3. Fewer(ToHost, toAgent', toAgent) /\ Fewer(ToBoard, toClient', toClient)
      BY <1>2, <2>2, PartsType, FewerItself, FewerCorrupted DEF Corrupt
    <2>4. QueueIsData'
      BY <2>1 DEF agentVars, StallInv, QueueIsData
    <2>5. Quiet
      BY <2>1, <2>3, <2>4
         DEF Quiet, clientVars, tx, registration, agentVars, ackSlot, node, AckExpected, InBuffer
    <2> QED  BY <2>5, QuietStep
  <1> QED  BY <1>1, <1>2

\* The agent's side: it touches nothing of the board.
AgentAlone == UNCHANGED <<clientVars, faultVars>>

\* What the board has is unchanged then.
LEMMA BoardKeeps ==
    ASSUME AgentAlone
    PROVE  /\ txFrame' = txFrame /\ regIdx' = regIdx
           /\ sendingRegDone' = sendingRegDone /\ awaitingAck' = awaitingAck
           /\ AckExpected' = AckExpected
           /\ \A type : InBuffer(type)' = InBuffer(type)
  BY DEF AgentAlone, clientVars, tx, registration, AckExpected, InBuffer

\* A step that begins nothing, of the agent.
LEMMA QuietAgent ==
    ASSUME TypeOK, StallInv, AgentAlone,
           Fewer(ToBoard, toClient', toClient), Fewer(ToHost, toAgent', toAgent),
           needRegistration' => needRegistration, needAck' => needAck,
           newTopics' = newTopics, QueueIsData'
    PROVE  StallInv'
  <1>1. Quiet
    BY BoardKeeps DEF Quiet
  <1> QED  BY <1>1, QuietStep

\* A REGISTER is read: its topic is known, and to be acknowledged.
LEMMA RegisterLossStep ==
    ASSUME TypeOK, StallInv, AgentAlone, RecvRegister PROVE StallInv'
  <1> DEFINE f == Head(toAgent)
  <1>1. /\ Arrives(toAgent, "REGISTER") /\ toAgent' = Tail(toAgent)
        /\ UNCHANGED <<toClient, needRegistration, queue>>
        /\ newTopics' = newTopics \cup Registers(f)
    BY DEF RecvRegister, Recv
  <1>2. toAgent \in Seq(Frames) /\ toAgent # <<>> /\ 1 \in DOMAIN toAgent /\ f = toAgent[1]
    <2>1. toAgent \in Seq(Frames) /\ toAgent # <<>>
      BY <1>1, PartsType DEF Arrives
    <2> QED  BY <2>1, EmptySeq
  <1>3. f.type = "REGISTER"
    BY <1>1 DEF Arrives
  <1> HIDE DEF f
  <1>4. Fewer(ToHost, toAgent', toAgent) /\ Fewer(ToBoard, toClient', toClient)
    BY <1>1, <1>2, FewerTail, FewerItself, PartsType
  <1>5. Has(toAgent, "REGISTER") /\ ~Has(toAgent', "REGISTER")
    BY <1>1, <1>2, TakesOnce DEF StallInv, OneTurnAtMost
  <1>6. /\ ~needRegistration /\ ~Has(toClient, "DISCOVER") /\ ~InBuffer("REGISTER")
        /\ ~Has(toClient, "ACK")
    BY <1>5 DEF StallInv, OneTurnAtMost
  <1>7. /\ ~Has(toClient, "DISCOVER")' /\ ~Has(toClient, "ACK")'
        /\ ~Has(toAgent, "REGISTER")'
        /\ Once(toClient, "DISCOVER")' /\ Once(toClient, "ACK")'
        /\ Once(toAgent, "REGISTER")'
        /\ Has(toAgent, "REGISTER_DONE")' => Has(toAgent, "REGISTER_DONE")
    BY <1>4, <1>5, <1>6, FewerLines DEF StallInv, OneTurnAtMost, Has
  <1>8. PICK row \in TopicIdx : f = RegisterFrame(row)
    BY <1>2, <1>3 DEF StallInv, RegistersAreRows
  <1>9. Registers(f) \subseteq AcceptableIds
    <2>1. /\ AcceptedBelow(row + 1) = AcceptedBelow(row) \cup Registers(f)
          /\ AcceptedBelow(row + 1) \subseteq AcceptableIds
      BY <1>8, AcceptedNext DEF AcceptedBelow, AcceptableIds
    <2> QED  BY <2>1
  <1>10. \A k \in DOMAIN toAgent' : toAgent'[k].type # "REGISTER"
    BY <1>5 DEF Has
  <1>11. OneTurnAtMost'
    BY <1>1, <1>6, <1>7, BoardKeeps DEF OneTurnAtMost
  <1>12. DiscoverComesFirst'
    BY <1>1, <1>6, <1>7 DEF DiscoverComesFirst
  <1>13. RegistersAreRows'
    <2>1. ~InBuffer("REGISTER")'
      BY <1>6, BoardKeeps
    <2>2. newTopics' \subseteq AcceptableIds
      BY <1>1, <1>9 DEF StallInv, RegistersAreRows
    <2> QED  BY <1>10, <2>1, <2>2 DEF RegistersAreRows
  <1>14. KnownSoFar'
    <2> SUFFICES ASSUME AckExpected' PROVE
          /\ ~sendingRegDone' /\ regIdx' \in TopicIdx
          /\ AcceptedBelow(regIdx') \subseteq newTopics'
          /\ InBuffer("REGISTER")' => txFrame' = RegisterFrame(regIdx')
          /\ \A k \in DOMAIN toAgent' :
               toAgent'[k].type = "REGISTER" => toAgent'[k] = RegisterFrame(regIdx')
          /\ needAck' \/ Has(toClient, "ACK")' =>
               AcceptedBelow(regIdx' + 1) \subseteq newTopics'
      BY DEF KnownSoFar, AcceptedBelow, RegisterFrame
    <2>1. AckExpected /\ regIdx' = regIdx /\ sendingRegDone' = sendingRegDone
      BY BoardKeeps
    <2>2. /\ ~sendingRegDone /\ regIdx \in TopicIdx
          /\ AcceptedBelow(regIdx) \subseteq newTopics
          /\ f = RegisterFrame(regIdx)
      BY <1>2, <1>3, <2>1 DEF StallInv, KnownSoFar
    <2>3. AcceptedBelow(regIdx + 1) = AcceptedBelow(regIdx) \cup Registers(f)
      BY <2>2, AcceptedNext
    <2>4. ~InBuffer("REGISTER")'
      BY <1>6, BoardKeeps
    <2> QED  BY <1>1, <1>10, <2>1, <2>2, <2>3, <2>4
  <1>15. DoneIsLast'
    <2>1. InBuffer("REGISTER_DONE")' => InBuffer("REGISTER_DONE")
      BY BoardKeeps
    <2> QED  BY <1>1, <1>7, <2>1 DEF StallInv, DoneIsLast, AcceptableIds
  <1>16. QueueIsData'
    BY <1>1 DEF StallInv, QueueIsData
  <1> QED  BY <1>11, <1>12, <1>13, <1>14, <1>15, <1>16 DEF StallInv

\* A frame of the registration goes out to the board, in the turn of its own.
LEMMA SendsOnce ==
    ASSUME TypeOK, StallInv, AgentAlone, NEW f \in Frames,
           toClient' = Append(toClient, f),
           ~Has(toClient, "DISCOVER"), ~Has(toClient, "ACK")
    PROVE  /\ Once(toClient, "DISCOVER")' /\ Once(toClient, "ACK")'
           /\ Has(toClient, "DISCOVER")' => f.type = "DISCOVER"
           /\ Has(toClient, "ACK")' => f.type = "ACK"
  <1>1. /\ \A type : Has(toClient', type) <=> Has(toClient, type) \/ f.type = type
        /\ \A type : Once(toClient, type) /\ ~(Has(toClient, type) /\ f.type = type)
                       => Once(toClient', type)
    BY PartsType, PutsOnce
  <1>2. Once(toClient, "DISCOVER") /\ Once(toClient, "ACK")
    BY DEF StallInv, OneTurnAtMost
  <1>3. /\ Once(toClient', "DISCOVER") /\ Once(toClient', "ACK")
        /\ Has(toClient', "DISCOVER") => f.type = "DISCOVER"
        /\ Has(toClient', "ACK") => f.type = "ACK"
    BY <1>1, <1>2
  <1> QED  BY <1>3 DEF Has, Once

\* DISCOVER goes out, or is lost at once.
LEMMA SendDiscoverLoss ==
    ASSUME TypeOK, StallInv, AgentAlone, SendDiscover PROVE StallInv'
  <1>1. /\ UNCHANGED <<needAck, newTopics, queue, toAgent>>
        /\ ~needRegistration'
    BY DEF SendDiscover, ackSlot, node
  <1>2. QueueIsData'
    BY <1>1 DEF StallInv, QueueIsData
  <1>3. Fewer(ToHost, toAgent', toAgent)
    BY <1>1, PartsType, FewerItself
  <1>4. Torn \in Frames /\ Torn.type \notin ToBoard /\ Discover \in Frames
    <2>1. Torn \in Frames /\ Torn.type \notin ToBoard
      BY FramesAreFrames DEF Torn, ToBoard
    <2>2. Discover \in Frames
      BY DEF Discover, Frames
    <2> QED  BY <2>1, <2>2
  <1>5. CASE toClient' \in {toClient, Append(toClient, Torn)}
    <2>1. Fewer(ToBoard, toClient', toClient)
      BY <1>4, <1>5, PartsType, FewerItself, FewerAppend
    <2> QED  BY <1>1, <1>2, <1>3, <2>1, QuietAgent
  <1>6. CASE needRegistration /\ toClient' = Append(toClient, Discover)
    <2>1. /\ ~Has(toClient, "DISCOVER") /\ ~InBuffer("REGISTER")
          /\ ~Has(toAgent, "REGISTER") /\ ~needAck /\ ~Has(toClient, "ACK")
          /\ ~awaitingAck /\ Once(toAgent, "REGISTER")
      BY <1>6 DEF StallInv, OneTurnAtMost, DiscoverComesFirst
    <2>2. /\ Once(toClient, "DISCOVER")' /\ Once(toClient, "ACK")'
          /\ ~Has(toClient, "ACK")'
      BY <1>4, <1>6, <2>1, SendsOnce DEF Discover
    <2>3. /\ ~InBuffer("REGISTER")' /\ ~Has(toAgent, "REGISTER")' /\ ~needAck'
          /\ ~awaitingAck' /\ Once(toAgent, "REGISTER")'
      BY <1>1, <2>1, BoardKeeps DEF Has, Once
    <2>4. OneTurnAtMost'
      BY <1>1, <2>2, <2>3 DEF OneTurnAtMost
    <2>5. DiscoverComesFirst'
      BY <2>3 DEF DiscoverComesFirst
    <2>6. RegistersAreRows'
      BY <1>1, <2>3 DEF StallInv, RegistersAreRows
    <2>7. KnownSoFar'
      BY <2>3 DEF KnownSoFar, AckExpected
    <2>8. DoneIsLast'
      BY <1>1, BoardKeeps DEF StallInv, DoneIsLast, AcceptableIds, Has
    <2> QED  BY <1>2, <2>4, <2>5, <2>6, <2>7, <2>8 DEF StallInv
  <1> QED  BY <1>5, <1>6 DEF SendDiscover, Send

\* So does an ACK.
LEMMA SendAckLoss ==
    ASSUME TypeOK, StallInv, AgentAlone, SendAck PROVE StallInv'
  <1>1. /\ UNCHANGED <<needRegistration, newTopics, queue, toAgent>>
        /\ ~needAck'
    BY DEF SendAck, AckedLeaves, node
  <1>2. QueueIsData'
    BY <1>1 DEF StallInv, QueueIsData
  <1>3. Fewer(ToHost, toAgent', toAgent)
    BY <1>1, PartsType, FewerItself
  <1>4. /\ Torn \in Frames /\ Torn.type \notin ToBoard
        /\ ack \in Frames /\ ack.type = "ACK"
    BY FramesAreFrames DEF Torn, ToBoard, TypeOK, AgentTypeOK
  <1>5. CASE toClient' \in {toClient, Append(toClient, Torn)}
    <2>1. Fewer(ToBoard, toClient', toClient)
      BY <1>4, <1>5, PartsType, FewerItself, FewerAppend
    <2> QED  BY <1>1, <1>2, <1>3, <2>1, QuietAgent
  <1>6. CASE needAck /\ toClient' = Append(toClient, ack)
    <2>1. /\ ~needRegistration /\ ~Has(toClient, "DISCOVER") /\ ~InBuffer("REGISTER")
          /\ ~Has(toAgent, "REGISTER") /\ ~Has(toClient, "ACK")
          /\ Once(toAgent, "REGISTER")
      BY <1>6 DEF StallInv, OneTurnAtMost
    <2>2. /\ Once(toClient, "DISCOVER")' /\ Once(toClient, "ACK")'
          /\ ~Has(toClient, "DISCOVER")'
      BY <1>4, <1>6, <2>1, SendsOnce
    <2>3. /\ ~InBuffer("REGISTER")' /\ ~Has(toAgent, "REGISTER")'
          /\ ~needRegistration' /\ Once(toAgent, "REGISTER")'
      BY <1>1, <2>1, BoardKeeps DEF Has, Once
    <2>4. OneTurnAtMost'
      BY <1>1, <2>2, <2>3 DEF OneTurnAtMost
    <2>5. DiscoverComesFirst'
      BY <2>2, <2>3 DEF DiscoverComesFirst
    <2>6. RegistersAreRows'
      BY <1>1, <2>3 DEF StallInv, RegistersAreRows
    <2>7. KnownSoFar'
      <3>1. KnownSoFar /\ needAck
        BY <1>6 DEF StallInv
      <3> QED  BY <1>1, <2>3, <3>1, BoardKeeps
               DEF KnownSoFar, AcceptedBelow, RegisterFrame
    <2>8. DoneIsLast'
      BY <1>1, BoardKeeps DEF StallInv, DoneIsLast, AcceptableIds, Has
    <2> QED  BY <1>2, <2>4, <2>5, <2>6, <2>7, <2>8 DEF StallInv
  <1> QED  BY <1>5, <1>6 DEF SendAck, Send

\* What is sent from the queue is DATA, and the queue goes on holding nothing else.
LEMMA QueueLossStep ==
    ASSUME TypeOK, StallInv, AgentAlone,
           SendQueued \/ \E id \in Ids : SubscriptionCallback(id)
    PROVE  StallInv'
  <1>1. queue \in Seq(Frames) /\ \A i \in DOMAIN queue : queue[i].type = "DATA"
    BY PartsType DEF StallInv, QueueIsData
  <1>2. queue # <<>> => /\ Head(queue) \in Frames /\ Head(queue).type = "DATA"
                        /\ Tail(queue) \in Seq(Frames)
                        /\ \A i \in DOMAIN Tail(queue) : Tail(queue)[i].type = "DATA"
    <2> SUFFICES ASSUME queue # <<>>
                 PROVE  /\ Head(queue) \in Frames /\ Head(queue).type = "DATA"
                        /\ Tail(queue) \in Seq(Frames)
                        /\ \A i \in DOMAIN Tail(queue) : Tail(queue)[i].type = "DATA"
      OBVIOUS
    <2>1. Len(queue) \in Nat \ {0} /\ Head(queue) = queue[1]
      BY <1>1, EmptySeq
    <2>2. /\ Tail(queue) \in Seq(Frames) /\ Head(queue) \in Frames
          /\ DOMAIN Tail(queue) = 1 .. Len(queue) - 1
          /\ \A i \in 1 .. Len(queue) - 1 : Tail(queue)[i] = queue[i + 1]
      BY <1>1, <2>1, HeadTailProperties
    <2> QED  BY <1>1, <2>1, <2>2
  <1>3. CASE SendQueued
    <2>1. /\ UNCHANGED <<needRegistration, needAck, newTopics, toAgent>>
          /\ \/ UNCHANGED <<queue, toClient>>
             \/ queue # <<>> /\ Send(Head(queue)) /\ queue' = Tail(queue)
      BY <1>3 DEF SendQueued, ackSlot, node, Popped
    <2>2. QueueIsData'
      BY <1>1, <1>2, <2>1 DEF QueueIsData
    <2>3. Fewer(ToHost, toAgent', toAgent)
      BY <2>1, PartsType, FewerItself
    <2>4. Torn \in Frames /\ Torn.type \notin ToBoard /\ "DATA" \notin ToBoard
      BY FramesAreFrames DEF Torn, ToBoard
    <2>5. Fewer(ToBoard, toClient', toClient)
      BY <1>2, <2>1, <2>4, PartsType, FewerItself, FewerAppend DEF Send
    <2> QED  BY <2>1, <2>2, <2>3, <2>5, QuietAgent
  <1>4. ASSUME NEW id \in Ids, SubscriptionCallback(id) PROVE StallInv'
    <2> DEFINE f == DataFrame(id, Len(rosIn) + 1)
    <2>1. /\ UNCHANGED <<needRegistration, needAck, newTopics, toAgent, toClient>>
          /\ queue' = Append(IF Len(queue) >= QueueMax THEN Tail(queue) ELSE queue, f)
      BY <1>4 DEF SubscriptionCallback, Push, ackSlot, node, link
    <2>2. f.type = "DATA"
      BY DEF DataFrame
    <2> HIDE DEF f
    <2>3. queue # <<>> \/ ~(Len(queue) >= QueueMax)
      BY <1>1, EmptySeq, AgentAssumption
    <2>4. \E q \in Seq(Frames) : /\ queue' = Append(q, f)
                                 /\ \A i \in DOMAIN q : q[i].type = "DATA"
      BY <1>1, <1>2, <2>1, <2>3
    <2>5. QueueIsData'
      BY <2>2, <2>4, AppendProperties DEF QueueIsData
    <2>6. Fewer(ToHost, toAgent', toAgent) /\ Fewer(ToBoard, toClient', toClient)
      BY <2>1, PartsType, FewerItself
    <2> QED  BY <2>1, <2>5, <2>6, QuietAgent
  <1> QED  BY <1>3, <1>4

\* What else the agent reads.
LEMMA OtherReadsLoss ==
    ASSUME TypeOK, StallInv, AgentAlone,
           RecvNothing \/ RecvTorn \/ RecvData \/ RecvRegisterDone
    PROVE  StallInv'
  <1>1. UNCHANGED <<needRegistration, needAck, newTopics, queue, toClient>>
    BY DEF RecvNothing, RecvTorn, RecvData, RecvRegisterDone, Recv, agentVars,
           ackSlot, node, link
  <1>2. Fewer(ToHost, toAgent', toAgent)
    BY PartsType, FewerItself, FewerTail, FewerResyncs
       DEF RecvNothing, RecvTorn, RecvData, RecvRegisterDone, Recv, Arrives, link
  <1>3. Fewer(ToBoard, toClient', toClient)
    BY <1>1, PartsType, FewerItself
  <1>4. QueueIsData'
    BY <1>1 DEF StallInv, QueueIsData
  <1> QED  BY <1>1, <1>2, <1>3, <1>4, QuietAgent

\* The agent.
LEMMA AgentLossStep == ASSUME TypeOK, StallInv, AgentThreads PROVE StallInv'
  <1>1. AgentAlone
    BY DEF AgentThreads, AgentAlone
  <1> QED  BY <1>1, RegisterLossStep, SendDiscoverLoss, SendAckLoss, QueueLossStep,
              OtherReadsLoss
           DEF AgentThreads, AgentLoop, RecvFrame

-----------------------------------------------------------------------------
\* At the start the turn is the agent's.
LEMMA InitLoss == Init => LossInv
  <1> SUFFICES ASSUME Init PROVE StallInv
    BY DEF LossInv
  <1> USE DEF Init, LinkInit, ClientInit, ClientStart, AgentInit
  <1>1. \A type : ~Has(<<>>, type) /\ Once(<<>>, type)
    BY DEF Has, Once
  <1>2. \A type : ~InBuffer(type)
    BY DEF InBuffer
  <1>3. toAgent = <<>> /\ toClient = <<>> /\ newTopics = {} /\ ~needAck /\ ~awaitingAck
    OBVIOUS
  <1>4. OneTurnAtMost
    BY <1>1, <1>2, <1>3 DEF OneTurnAtMost
  <1>5. RegistersAreRows
    BY <1>2, <1>3 DEF RegistersAreRows
  <1>6. DoneIsLast
    BY <1>1, <1>2, <1>3 DEF DoneIsLast
  <1> QED  BY <1>4, <1>5, <1>6
           DEF StallInv, DiscoverComesFirst, KnownSoFar, AckExpected, QueueIsData

\* Every step but a restart of the agent keeps it so.
LEMMA NextLoss == TypeOK /\ LossInv /\ [Next]_vars => LossInv'
  <1> SUFFICES ASSUME TypeOK, LossInv, [Next]_vars, restarts' = 0 PROVE StallInv'
    BY DEF LossInv
  <1>1. restarts \in Nat
    BY BoundsAssumption DEF TypeOK
  <1>2. ~Restart
    BY <1>1 DEF Restart
  <1>3. restarts = 0
    BY <1>2 DEF Next, Faults, Client, AgentThreads, Reset, Corrupt, vars, faultVars
  <1>4. StallInv
    BY <1>3 DEF LossInv
  <1>5. CASE UNCHANGED vars
    BY <1>4, <1>5
       DEF vars, link, clientVars, agentVars, tx, registration, ackSlot, node, StallInv,
           OneTurnAtMost, DiscoverComesFirst, RegistersAreRows, KnownSoFar, DoneIsLast,
           QueueIsData, Has, Once, InBuffer, AckExpected, AcceptedBelow, RegisterFrame,
           AcceptableIds
  <1> QED  BY <1>2, <1>4, <1>5, ClientLossStep, AgentLossStep, FaultLossStep
           DEF Next, Faults

\* Whatever is lost on the line, given up or forgotten in a reboot: until the agent is
\* restarted, at most one of board, agent and line has a move of the registration to make,
\* and what the board is at is what the agent has been told up to there.
THEOREM LossHolds == Spec => [](TypeOK /\ LossInv)
  <1>1. Init => TypeOK /\ LossInv
    BY InitType, InitLoss
  <1>2. (TypeOK /\ LossInv) /\ [Next]_vars => (TypeOK /\ LossInv)'
    BY NextType, NextLoss
  <1> QED  BY <1>1, <1>2, PTL DEF Spec

\* REGISTER_DONE comes when the agent knows every topic it can accept, whatever is lost
\* before, as long as the agent is not restarted (LossOnlyStalls).
THEOREM DoneComesLast == Spec => []LossOnlyStalls
  <1>1. TypeOK /\ LossInv => LossOnlyStalls
    <2> SUFFICES ASSUME TypeOK, StallInv, NEW i \in DOMAIN toAgent,
                        toAgent[i].type = "REGISTER_DONE"
                 PROVE  newTopics = AcceptableIds
      BY DEF LossInv, LossOnlyStalls, DoneMeansAllRegistered
    <2>1. Has(toAgent, "REGISTER_DONE")
      BY DEF Has
    <2> QED  BY <2>1 DEF StallInv, DoneIsLast, RegistersAreRows
  <1> QED  BY <1>1, LossHolds, PTL
=============================================================================
