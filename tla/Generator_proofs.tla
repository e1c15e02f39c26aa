-------------------------- MODULE Generator_proofs --------------------------
(***************************************************************************)
(* Theorems about what the parts of the code generator do by themselves:   *)
(* the worst-case size of a message, for every sequence of fields and      *)
(* strings of any length; topic ids, for any number of topics in any       *)
(* order; the search for packages, for every directory tree, with whatever *)
(* links and cycles; the structs and functions written of a type, and the  *)
(* calls that those functions come to, for every tree of fields.           *)
(***************************************************************************)
EXTENDS Emitter, TopicIds, PackageIndex, NatInduction, SequenceTheorems, TLAPS

-----------------------------------------------------------------------------
(* The size of a message                                                   *)

\* A set of paddings has a largest member.
LEMMA MaxOfPaddings ==
    ASSUME NEW S \in SUBSET (0 .. 7), S # {}
    PROVE  Max(S) \in S /\ \A y \in S : Max(S) >= y
  <1>1. \E x \in S : \A y \in S : x >= y
    <2>1. CASE 7 \in S  BY <2>1
    <2>2. CASE 6 \in S /\ 7 \notin S  BY <2>2
    <2>3. CASE 5 \in S /\ S \cap {6, 7} = {}  BY <2>3
    <2>4. CASE 4 \in S /\ S \cap {5, 6, 7} = {}  BY <2>4
    <2>5. CASE 3 \in S /\ S \cap {4, 5, 6, 7} = {}  BY <2>5
    <2>6. CASE 2 \in S /\ S \cap {3, 4, 5, 6, 7} = {}  BY <2>6
    <2>7. CASE 1 \in S /\ S \cap {2, 3, 4, 5, 6, 7} = {}  BY <2>7
    <2>8. CASE S = {0}  BY <2>8
    <2>9. S = {0} \/ \E i \in 1 .. 7 : i \in S
      <3>1. SUFFICES ASSUME \A i \in 1 .. 7 : i \notin S PROVE S = {0}
        OBVIOUS
      <3>2. \A x \in S : x = 0
        BY <3>1
      <3> QED  BY <3>2
    <2> QED
      BY <2>1, <2>2, <2>3, <2>4, <2>5, <2>6, <2>7, <2>8, <2>9
  <1> QED  BY <1>1 DEF Max

\* The gap is smaller than the alignment, and closes up to it.
LEMMA GapRange ==
    ASSUME NEW n \in Nat, NEW a \in Alignments
    PROVE  /\ Gap(n, a) \in 0 .. 7 /\ Gap(n, a) < a
           /\ (n + Gap(n, a)) % a = 0
  <1>1. CASE a = 1  BY <1>1 DEF Gap
  <1>2. CASE a = 2  BY <1>2 DEF Gap
  <1>3. CASE a = 4  BY <1>3 DEF Gap
  <1>4. CASE a = 8  BY <1>4 DEF Gap
  <1> QED  BY <1>1, <1>2, <1>3, <1>4 DEF Alignments

\* The remainder of a sum, by the remainder of its first part.
LEMMA ResidueOfSum ==
    ASSUME NEW n \in Nat, NEW s \in Nat, NEW m \in Alignments
    PROVE  /\ (n + s) % m = ((n % m) + s) % m
           /\ (n + s) % m \in 0 .. 7 /\ (n + s) % m < m
  <1>1. CASE m = 1  BY <1>1
  <1>2. CASE m = 2  BY <1>2
  <1>3. CASE m = 4  BY <1>3
  <1>4. CASE m = 8  BY <1>4
  <1> QED  BY <1>1, <1>2, <1>3, <1>4 DEF Alignments

\* A multiple of an alignment is one of every smaller alignment.
LEMMA ResidueOfMultiple ==
    ASSUME NEW n \in Nat, NEW a \in Alignments, NEW m \in Alignments,
           a <= m, n % m = 0
    PROVE  n % a = 0
  <1>1. CASE m = 1  BY <1>1 DEF Alignments
  <1>2. CASE m = 2  BY <1>2 DEF Alignments
  <1>3. CASE m = 4  BY <1>3 DEF Alignments
  <1>4. CASE m = 8  BY <1>4 DEF Alignments
  <1> QED  BY <1>1, <1>2, <1>3, <1>4 DEF Alignments

\* The padding depends on no more than the residue the generator knows.
LEMMA GapOfKnown ==
    ASSUME NEW n \in Nat, NEW a \in Alignments, NEW m \in Alignments, a <= m
    PROVE  Gap(n, a) = Gap(n % m, a)
  <1>1. CASE m = 1  BY <1>1 DEF Gap, Alignments
  <1>2. CASE m = 2
    <2>1. CASE a = 1  BY <2>1, <1>2 DEF Gap
    <2>2. CASE a = 2  BY <2>2, <1>2 DEF Gap
    <2> QED  BY <1>2, <2>1, <2>2 DEF Alignments
  <1>3. CASE m = 4
    <2>1. CASE a = 1  BY <2>1, <1>3 DEF Gap
    <2>2. CASE a = 2  BY <2>2, <1>3 DEF Gap
    <2>3. CASE a = 4  BY <2>3, <1>3 DEF Gap
    <2> QED  BY <1>3, <2>1, <2>2, <2>3 DEF Alignments
  <1>4. CASE m = 8
    <2>1. CASE a = 1  BY <2>1, <1>4 DEF Gap
    <2>2. CASE a = 2  BY <2>2, <1>4 DEF Gap
    <2>3. CASE a = 4  BY <2>3, <1>4 DEF Gap
    <2>4. CASE a = 8  BY <2>4, <1>4 DEF Gap
    <2> QED  BY <1>4, <2>1, <2>2, <2>3, <2>4 DEF Alignments
  <1> QED  BY <1>1, <1>2, <1>3, <1>4 DEF Alignments

\* One of the residues max_cdr_size tries is the one the board is at.
LEMMA GapIsTried ==
    ASSUME NEW n \in Nat, NEW a \in Alignments, NEW m \in Alignments, a > m
    PROVE  \E k \in 0 .. (a \div m - 1) : Gap(n, a) = Gap((n % m) + k * m, a)
  <1>1. CASE m = 1
    <2>1. CASE a = 2  BY <1>1, <2>1 DEF Gap
    <2>2. CASE a = 4  BY <1>1, <2>2 DEF Gap
    <2>3. CASE a = 8  BY <1>1, <2>3 DEF Gap
    <2> QED  BY <1>1, <2>1, <2>2, <2>3 DEF Alignments
  <1>2. CASE m = 2
    <2>2. CASE a = 4  BY <1>2, <2>2 DEF Gap
    <2>3. CASE a = 8  BY <1>2, <2>3 DEF Gap
    <2> QED  BY <1>2, <2>2, <2>3 DEF Alignments
  <1>3. CASE m = 4  BY <1>3 DEF Gap, Alignments
  <1>4. CASE m = 8  BY <1>4 DEF Alignments
  <1> QED  BY <1>1, <1>2, <1>3, <1>4 DEF Alignments

\* Pad is what the board writes at least, and exactly that once the generator
\* knows the position well enough.
LEMMA PadCoversGap ==
    ASSUME NEW p \in Positions, NEW a \in Alignments,
           NEW n \in Nat, n % p.m = p.r
    PROVE  /\ Pad(p, a) \in 0 .. 7
           /\ Gap(n, a) <= Pad(p, a)
           /\ a <= p.m => Pad(p, a) = Gap(n, a)
  <1> p.m \in Alignments /\ p.r \in 0 .. 7
    BY DEF Positions
  <1>1. CASE a <= p.m
    BY <1>1, GapOfKnown, GapRange DEF Pad
  <1>2. CASE a > p.m
    <2> DEFINE Tried == {Gap(p.r + k * p.m, a) : k \in 0 .. (a \div p.m - 1)}
    <2>1. Gap(n, a) \in Tried
      BY <1>2, GapIsTried
    <2>2. ASSUME NEW k \in 0 .. (a \div p.m - 1)
          PROVE  Gap(p.r + k * p.m, a) \in 0 .. 7
      <3>1. p.r + k * p.m \in Nat
        BY DEF Alignments
      <3> QED  BY <3>1, GapRange
    <2>3. Tried \in SUBSET (0 .. 7)
      BY <2>2
    <2>4. Max(Tried) \in Tried /\ \A y \in Tried : Max(Tried) >= y
      BY <2>1, <2>3, MaxOfPaddings
    <2>5. Pad(p, a) = Max(Tried)
      BY <1>2 DEF Pad, Alignments
    <2>6. Gap(n, a) \in 0 .. 7
      BY GapRange
    <2> HIDE DEF Tried
    <2>7. Pad(p, a) \in 0 .. 7 /\ Gap(n, a) <= Pad(p, a)
      BY <2>1, <2>3, <2>4, <2>5, <2>6
    <2> QED  BY <2>7, <1>2 DEF Alignments
  <1> QED  BY <1>1, <1>2 DEF Alignments

\* An aligned field of its own size leaves the generator with a true residue.
LEMMA MovedIsKnown ==
    ASSUME NEW p \in Positions, NEW a \in Alignments,
           NEW n \in Nat, n % p.m = p.r
    PROVE  /\ Moved(p, a, a) \in Positions
           /\ (n + Gap(n, a) + a) % Moved(p, a, a).m = Moved(p, a, a).r
           /\ p.m = 8 => Moved(p, a, a).m = 8
  <1> DEFINE g == Gap(n, a)
             q == Moved(p, a, a)
  <1> p.m \in Alignments /\ p.r \in 0 .. 7 /\ p.r < p.m /\ p = [r |-> p.r, m |-> p.m]
    BY DEF Positions
  <1>0. g \in 0 .. 7 /\ (n + g) % a = 0
    BY GapRange
  <1>1. CASE a > p.m
    <2>1. q = [r |-> 0, m |-> a]
      BY <1>1 DEF Moved, Alignments
    <2>2. (n + g + a) % a = 0
      <3> HIDE DEF g
      <3>1. CASE a = 1  BY <3>1, <1>0
      <3>2. CASE a = 2  BY <3>2, <1>0
      <3>3. CASE a = 4  BY <3>3, <1>0
      <3>4. CASE a = 8  BY <3>4, <1>0
      <3> QED  BY <3>1, <3>2, <3>3, <3>4 DEF Alignments
    <2> QED  BY <1>1, <2>1, <2>2 DEF Positions, Alignments
  <1>2. CASE a <= p.m
    <2>1. Pad(p, a) = g
      BY <1>2, PadCoversGap
    <2>2. q = [r |-> (p.r + g + a) % p.m, m |-> p.m]
      BY <1>2, <2>1 DEF Moved, Alignments
    <2>3. /\ (n + g + a) % p.m = (p.r + g + a) % p.m
          /\ (p.r + g + a) % p.m \in 0 .. 7
          /\ (p.r + g + a) % p.m < p.m
      <3> HIDE DEF g
      <3>1. g + a \in Nat /\ n + (g + a) = n + g + a /\ p.r + (g + a) = p.r + g + a
        <4>1. g \in Nat /\ a \in Nat /\ p.r \in Nat
          BY <1>0 DEF Alignments
        <4> QED  BY <4>1
      <3> QED  BY <3>1, ResidueOfSum
    <2> HIDE DEF g, q
    <2> QED  BY <2>2, <2>3 DEF Positions, g, q
  <1> QED  BY <1>1, <1>2 DEF Alignments

\* Micro-CDR never writes more padding than natural alignment asks for, and
\* none less: what it wrote last tells it when there is nothing to do.
LEMMA WriterAligns ==
    ASSUME NEW w \in [offset : Nat, last : {0} \cup Alignments],
           w.last > 0 => w.offset % w.last = 0,
           NEW a \in Alignments
    PROVE  /\ BufferAlignment(w, a) = Gap(w.offset, a)
           /\ Written(w, a, 1) = [offset |-> w.offset + Gap(w.offset, a) + a, last |-> a]
           /\ (w.offset + Gap(w.offset, a) + a) % a = 0
  <1>0. w.offset \in Nat /\ w.last \in {0} \cup Alignments
    OBVIOUS
  <1>3. BufferAlignment(w, a) = Gap(w.offset, a)
    <2>1. CASE a > w.last
      BY <2>1 DEF BufferAlignment
    <2>2. CASE a <= w.last
      <3>1. w.last \in Alignments
        BY <2>2 DEF Alignments
      <3>2. w.offset % w.last = 0
        BY <3>1 DEF Alignments
      <3>3. w.offset % a = 0
        BY <1>0, <2>2, <3>1, <3>2, ResidueOfMultiple
      <3>4. (a - 0) % a = 0
        BY DEF Alignments
      <3>5. Gap(w.offset, a) = 0
        BY <3>3, <3>4 DEF Gap
      <3>6. ~(a > w.last)
        BY <1>0, <2>2 DEF Alignments
      <3> QED  BY <3>5, <3>6 DEF BufferAlignment
    <2> QED  BY <1>0, <2>1, <2>2 DEF Alignments
  <1>4. Written(w, a, 1) = [offset |-> w.offset + Gap(w.offset, a) + a, last |-> a]
    BY <1>3 DEF Written, Alignments
  <1>5. (w.offset + Gap(w.offset, a) + a) % a = 0
    <2>1. (w.offset + Gap(w.offset, a)) % a = 0 /\ Gap(w.offset, a) \in 0 .. 7
      BY <1>0, GapRange
    <2>2. CASE a = 1  BY <2>1, <2>2, <1>0
    <2>3. CASE a = 2  BY <2>1, <2>3, <1>0
    <2>4. CASE a = 4  BY <2>1, <2>4, <1>0
    <2>5. CASE a = 8  BY <2>1, <2>5, <1>0
    <2> QED  BY <2>2, <2>3, <2>4, <2>5 DEF Alignments
  <1> QED  BY <1>3, <1>4, <1>5

\* ucdr_serialize_array aligns once; writing the elements one by one comes to
\* the same, which is why the walk has no action for arrays.
THEOREM ArrayIsElements ==
    ASSUME NEW w \in [offset : Nat, last : {0} \cup Alignments],
           NEW n \in Alignments, NEW count \in Nat \ {0}
    PROVE  Written(w, n, count + 1) = Written(Written(w, n, count), n, 1)
  <1>1. BufferAlignment(Written(w, n, count), n) = 0
    BY DEF Written, BufferAlignment, Alignments
  <1>2. BufferAlignment(w, n) \in Nat
    BY GapRange DEF BufferAlignment
  <1>3. (count + 1) * n = count * n + n
    BY DEF Alignments
  <1>4. count * n \in Nat
    BY DEF Alignments
  <1> QED  BY <1>1, <1>2, <1>3, <1>4 DEF Written, Alignments

-----------------------------------------------------------------------------
\* One fixed-size element: both sides move by what the lemmas say.
LEMMA FixedKeepsInvariant ==
    ASSUME WalkIInv, NEW prim \in Prims, WalkFixed(prim)
    PROVE  WalkIInv'
  <1> DEFINE a == Align(prim)
             g == Gap(writer.offset, a)
  <1>1. a \in Alignments /\ Size(prim) = a /\ Width(CType(prim)) = a
    BY DEF WalkFixed, Prims, Align, Size, CType, Width, Alignments
  <1>2. /\ pos \in Positions
        /\ writer.offset \in Nat /\ total \in Nat
        /\ writer \in [offset : Nat, last : {0} \cup Alignments]
        /\ writer.last > 0 => writer.offset % writer.last = 0
    BY DEF WalkIInv, WalkTypeOK, ShortcutIsNaturalAlignment, Positions, Alignments
  <1>3. writer.offset % pos.m = pos.r
    BY DEF WalkIInv, PosIsKnown
  <1>4. /\ total' = total + (Pad(pos, a) + a)
        /\ pos' = Moved(pos, a, a)
        /\ writer' = Written(writer, a, 1)
        /\ loose' = loose
    BY <1>1 DEF WalkFixed, Analyse, PrimBytes, AfterPrim
  <1>5. /\ Pad(pos, a) \in 0 .. 7 /\ g <= Pad(pos, a) /\ g \in 0 .. 7
        /\ a <= pos.m => Pad(pos, a) = g
    BY <1>1, <1>2, <1>3, PadCoversGap, GapRange
  <1>6. /\ Moved(pos, a, a) \in Positions
        /\ (writer.offset + g + a) % Moved(pos, a, a).m = Moved(pos, a, a).r
        /\ pos.m = 8 => Moved(pos, a, a).m = 8
    BY <1>1, <1>2, <1>3, MovedIsKnown
  <1>7. /\ writer' = [offset |-> writer.offset + g + a, last |-> a]
        /\ (writer.offset + g + a) % a = 0
    BY <1>1, <1>2, <1>4, WriterAligns
  <1> HIDE DEF a, g
  <1>8. a \in {1, 2, 4, 8} /\ g \in Nat /\ Pad(pos, a) \in Nat
    BY <1>1, <1>5 DEF Alignments
  <1>9. WalkTypeOK'
    <2>1. pos' \in [r : 0 .. 7, m : {1, 2, 4, 8}] /\ pos'.r < pos'.m
      BY <1>4, <1>6 DEF Positions, Alignments
    <2>2. writer' \in [offset : Nat, last : {0, 1, 2, 4, 8}]
      BY <1>2, <1>7, <1>8
    <2>3. total' \in Nat /\ loose' \in BOOLEAN
      BY <1>2, <1>4, <1>8 DEF WalkIInv, WalkTypeOK
    <2> QED  BY <2>1, <2>2, <2>3 DEF WalkTypeOK, Positions, Alignments
  <1>10. PosIsKnown'
    BY <1>4, <1>6, <1>7 DEF WalkIInv, PosIsKnown
  <1>11. ShortcutIsNaturalAlignment'
    BY <1>7 DEF ShortcutIsNaturalAlignment
  <1>12. MaxSizeIsUpperBound'
    BY <1>2, <1>4, <1>5, <1>7, <1>8 DEF WalkIInv, MaxSizeIsUpperBound
  <1>13. SizeIsExactWithoutStrings'
    <2>1. SUFFICES ASSUME ~loose PROVE total' = writer.offset'
      BY <1>4 DEF SizeIsExactWithoutStrings
    <2>2. pos.m = 8 /\ total = writer.offset
      BY <2>1 DEF WalkIInv, PosIsKnown, SizeIsExactWithoutStrings
    <2>3. Pad(pos, a) = g
      BY <1>5, <1>8, <2>2
    <2> QED  BY <1>2, <1>4, <1>7, <1>8, <2>2, <2>3
  <1> QED  BY <1>9, <1>10, <1>11, <1>12, <1>13 DEF WalkIInv

\* After a string, or an element of an array of strings, the generator knows
\* nothing but the worst case.
LEMMA StringKeepsInvariant ==
    ASSUME WalkIInv, Analyse("string"), loose' = TRUE,
           \/ \E bytes \in 1 .. StringMaxBytes : writer' = StringWritten(writer, bytes)
           \/ writer' = Written(writer, Width(CType("string")), 1)
    PROVE  WalkIInv'
  <1>1. /\ pos \in Positions
        /\ writer.offset \in Nat /\ total \in Nat
        /\ writer \in [offset : Nat, last : {0} \cup Alignments]
        /\ writer.last > 0 => writer.offset % writer.last = 0
        /\ writer.offset % pos.m = pos.r
        /\ writer.offset <= total
    BY DEF WalkIInv, WalkTypeOK, ShortcutIsNaturalAlignment, PosIsKnown,
           MaxSizeIsUpperBound, Positions, Alignments
  <1>2. total' = total + (Pad(pos, 4) + 4 + StringMaxBytes) /\ pos' = [r |-> 0, m |-> 1]
    BY DEF Analyse, PrimBytes, AfterPrim
  <1>3. Pad(pos, 4) \in 0 .. 7 /\ Gap(writer.offset, 4) <= Pad(pos, 4)
    BY <1>1, PadCoversGap DEF Alignments
  <1>4. Gap(writer.offset, 4) \in 0 .. 7 /\ Gap(writer.offset, 1) = 0
    <2>1. 4 \in Alignments /\ 1 \in Alignments
      BY DEF Alignments
    <2>2. Gap(writer.offset, 4) \in 0 .. 7
      BY <1>1, <2>1, GapRange
    <2>3. Gap(writer.offset, 1) \in 0 .. 7 /\ Gap(writer.offset, 1) < 1
      BY <1>1, <2>1, GapRange
    <2> QED  BY <2>2, <2>3
  <1>5. /\ writer' \in [offset : Nat, last : {1}]
        /\ writer'.offset <= writer.offset + Pad(pos, 4) + 4 + StringMaxBytes
    <2>1. CASE writer' = Written(writer, Width(CType("string")), 1)
      <3>1. Width(CType("string")) = 1
        BY DEF Width, CType
      <3>2. writer' = [offset |-> writer.offset + 0 + 1, last |-> 1]
        BY <1>1, <1>4, <2>1, <3>1, WriterAligns DEF Alignments
      <3> QED  BY <1>1, <1>3, <3>2, StringAssumption
    <2>2. ASSUME NEW bytes \in 1 .. StringMaxBytes,
                 writer' = StringWritten(writer, bytes)
          PROVE  /\ writer' \in [offset : Nat, last : {1}]
                 /\ writer'.offset <= writer.offset + Pad(pos, 4) + 4 + StringMaxBytes
      <3> DEFINE v == [offset |-> writer.offset + Gap(writer.offset, 4) + 4, last |-> 4]
      <3>1. Written(writer, 4, 1) = v
        BY <1>1, WriterAligns DEF Alignments
      <3>2. writer' = [offset |-> v.offset + 0 + bytes * 1, last |-> 1]
        BY <2>2, <3>1 DEF StringWritten, Written, BufferAlignment
      <3> QED  BY <1>1, <1>3, <1>4, <3>2, StringAssumption
    <2> QED  BY <2>1, <2>2
  <1>6. WalkTypeOK'
    <2>1. Pad(pos, 4) \in Nat /\ StringMaxBytes \in Nat
      BY <1>3, StringAssumption
    <2>2. total' \in Nat
      BY <1>1, <1>2, <2>1
    <2> QED  BY <1>2, <1>5, <2>2 DEF WalkTypeOK, Positions, Alignments
  <1>7. PosIsKnown' /\ ShortcutIsNaturalAlignment' /\ SizeIsExactWithoutStrings'
    BY <1>2, <1>5 DEF PosIsKnown, ShortcutIsNaturalAlignment, SizeIsExactWithoutStrings
  <1>8. MaxSizeIsUpperBound'
    <2>1. Pad(pos, 4) \in Nat /\ StringMaxBytes \in Nat /\ writer'.offset \in Nat
      BY <1>3, <1>5, StringAssumption
    <2> QED  BY <1>1, <1>2, <1>5, <2>1 DEF MaxSizeIsUpperBound
  <1> QED  BY <1>6, <1>7, <1>8 DEF WalkIInv

-----------------------------------------------------------------------------
\* Before the first field of the first message.
LEMMA WalkInitEstablishesInvariant ==
    ASSUME WalkInit
    PROVE  WalkIInv
  <1>1. /\ pos = [r |-> 0, m |-> 8] /\ writer = [offset |-> 0, last |-> 0]
        /\ total = 0 /\ loose = FALSE
    BY DEF WalkInit, StartPos, WriterStart
  <1>2. WalkTypeOK
    <2>1. pos \in [r : 0 .. 7, m : {1, 2, 4, 8}] /\ pos.r < pos.m
      BY <1>1
    <2>2. writer \in [offset : Nat, last : {0, 1, 2, 4, 8}] /\ total \in Nat
      BY <1>1
    <2>3. loose \in BOOLEAN
      BY <1>1
    <2> QED  BY <2>1, <2>2, <2>3 DEF WalkTypeOK, Positions, Alignments
  <1>3. pos.m = 8 /\ pos.r = 0 /\ writer.offset = 0 /\ writer.last = 0 /\ 0 % 8 = 0
    BY <1>1
  <1> QED  BY <1>1, <1>2, <1>3 DEF WalkIInv, PosIsKnown,
         ShortcutIsNaturalAlignment, MaxSizeIsUpperBound, SizeIsExactWithoutStrings

\* When a message is begun.
LEMMA WalkStartEstablishesInvariant ==
    ASSUME WalkStart
    PROVE  WalkIInv'
  <1>1. /\ pos' = [r |-> 0, m |-> 8] /\ writer' = [offset |-> 0, last |-> 0]
        /\ total' = 0 /\ loose' = FALSE
    BY DEF WalkStart, StartPos, WriterStart
  <1>2. WalkTypeOK'
    <2>1. pos' \in [r : 0 .. 7, m : {1, 2, 4, 8}] /\ pos'.r < pos'.m
      BY <1>1
    <2>2. writer' \in [offset : Nat, last : {0, 1, 2, 4, 8}] /\ total' \in Nat
      BY <1>1
    <2>3. loose' \in BOOLEAN
      BY <1>1
    <2> QED  BY <2>1, <2>2, <2>3 DEF WalkTypeOK, Positions, Alignments
  <1>3. pos'.m = 8 /\ pos'.r = 0 /\ writer'.offset = 0 /\ writer'.last = 0 /\ 0 % 8 = 0
    BY <1>1
  <1> QED  BY <1>1, <1>2, <1>3 DEF WalkIInv, PosIsKnown,
         ShortcutIsNaturalAlignment, MaxSizeIsUpperBound, SizeIsExactWithoutStrings

\* With every field, whatever it is.
LEMMA WalkNextKeepsInvariant ==
    ASSUME WalkIInv, [WalkNext]_walkVars
    PROVE  WalkIInv'
  <1>1. ASSUME NEW prim \in Prims, WalkFixed(prim) PROVE WalkIInv'
    BY <1>1, FixedKeepsInvariant
  <1>2. ASSUME NEW bytes \in 1 .. StringMaxBytes, WalkString(bytes) PROVE WalkIInv'
    BY <1>2, StringKeepsInvariant DEF WalkString
  <1>3. CASE WalkStringElement
    BY <1>3, StringKeepsInvariant DEF WalkStringElement
  <1>4. CASE UNCHANGED walkVars
    BY <1>4 DEF walkVars, WalkIInv, WalkTypeOK, PosIsKnown,
         ShortcutIsNaturalAlignment, MaxSizeIsUpperBound, SizeIsExactWithoutStrings
  <1> QED  BY <1>1, <1>2, <1>3, <1>4 DEF WalkNext

\* What the generator knows of the position is true, and what it has added up
\* is enough, after every field of every message.
THEOREM WalkInvariance == WalkSpec => []WalkIInv
  <1>1. WalkInit => WalkIInv
    BY WalkInitEstablishesInvariant
  <1>2. WalkIInv /\ [WalkNext]_walkVars => WalkIInv'
    BY WalkNextKeepsInvariant
  <1> QED  BY <1>1, <1>2, PTL DEF WalkSpec

\* For every sequence of fields and every length of every string, the board
\* writes no more than the generator has computed.
THEOREM MaxSizeBoundsEveryMessage == WalkSpec => []MaxSizeIsUpperBound
  <1>1. WalkIInv => MaxSizeIsUpperBound
    BY DEF WalkIInv
  <1> QED  BY <1>1, WalkInvariance, PTL

\* For message types without strings the computed size is the size.
THEOREM MaxSizeIsTight == WalkSpec => []SizeIsExactWithoutStrings
  <1>1. WalkIInv => SizeIsExactWithoutStrings
    BY DEF WalkIInv
  <1> QED  BY <1>1, WalkInvariance, PTL

\* Micro-CDR's shortcut never differs from CDR's alignment rule, on which the
\* ROS side decodes.
THEOREM MicroCdrAlignsNaturally == WalkSpec => []ShortcutIsNaturalAlignment
  <1>1. WalkIInv => ShortcutIsNaturalAlignment
    BY DEF WalkIInv
  <1> QED  BY <1>1, WalkInvariance, PTL

-----------------------------------------------------------------------------
(* Topic ids                                                               *)

\* Giving an id that is on the right side and above all others of its side.
LEMMA NewIdKeepsInvariant ==
    ASSUME IdsIInv, NEW name \in TopicNames, NEW type \in TopicTypes,
           AssignId(name, type)
    PROVE  IdsIInv'
  <1> DEFINE id == IF type = "publisher" THEN pubId ELSE subId
             line == [name |-> name, type |-> type, id |-> id]
  <1>1. /\ subId \in 0 .. SubIdLimit /\ pubId \in PubIdStart .. PubIdLimit
        /\ SubIdLimit \in 0 .. 255 /\ PubIdStart \in 0 .. 255 /\ PubIdLimit \in 0 .. 255
        /\ SubIdLimit <= PubIdStart /\ PubIdStart <= PubIdLimit
    BY IdAssumption DEF IdsIInv, IdsTypeOK
  <1>2. idLines' = Append(idLines, line)
    BY DEF AssignId, AssignPublisher, AssignSubscriber, Define, TopicTypes
  <1>3. \/ /\ type = "publisher" /\ pubId < PubIdLimit
           /\ pubId' = pubId + 1 /\ subId' = subId
        \/ /\ type = "subscriber" /\ subId < SubIdLimit
           /\ subId' = subId + 1 /\ pubId' = pubId
    BY <1>1 DEF AssignId, AssignPublisher, AssignSubscriber, TopicTypes
  <1>4. id \in 0 .. 254
    BY <1>1, <1>3
  <1>5. line \in [name : TopicNames, type : TopicTypes, id : 0 .. 254]
    BY <1>4
  <1>6. idLines \in Seq([name : TopicNames, type : TopicTypes, id : 0 .. 254])
    BY DEF IdsIInv, IdsTypeOK
  <1>7. IdsTypeOK'
    <2>1. idLines' \in Seq([name : TopicNames, type : TopicTypes, id : 0 .. 254])
      <3> HIDE DEF line
      <3> QED  BY <1>2, <1>5, <1>6, AppendProperties
    <2>2. subId' \in 0 .. SubIdLimit /\ pubId' \in PubIdStart .. PubIdLimit
      BY <1>1, <1>3
    <2> QED  BY <2>1, <2>2 DEF IdsTypeOK
  <1>8. /\ DOMAIN idLines = 1 .. Len(idLines)
        /\ DOMAIN idLines' = 1 .. Len(idLines) + 1
        /\ \A i \in 1 .. Len(idLines) : idLines'[i] = idLines[i]
        /\ idLines'[Len(idLines) + 1] = line
        /\ Len(idLines) \in Nat
    <2> HIDE DEF line
    <2> QED  BY <1>2, <1>5, <1>6, AppendProperties, LenProperties
  <1>9. ASSUME NEW i \in 1 .. Len(idLines)
        PROVE  /\ idLines[i].id \in 0 .. 254 /\ idLines[i].id # id
               /\ idLines[i].type = "publisher" => idLines[i].id \in PubIdStart .. (pubId - 1)
               /\ idLines[i].type # "publisher" => idLines[i].id \in 0 .. (subId - 1)
               /\ idLines[i].type = "publisher" <=> idLines[i].id >= PubIdStart
    <2>1. /\ idLines[i].type = "publisher" => idLines[i].id \in PubIdStart .. (pubId - 1)
          /\ idLines[i].type # "publisher" => idLines[i].id \in 0 .. (subId - 1)
      BY <1>8 DEF IdsIInv, IdsBelowNext
    <2>2. /\ idLines[i].type = "publisher" <=> idLines[i].id >= PubIdStart
          /\ idLines[i].id \in 0 .. 254
      BY <1>8 DEF IdsIInv, IdsTellTopicsApart
    <2>3. idLines[i].id # id
      <3>1. CASE type = "publisher"
        BY <1>1, <1>3, <2>1, <2>2, <3>1
      <3>2. CASE type = "subscriber"
        BY <1>1, <1>3, <2>1, <2>2, <3>2
      <3> QED  BY <3>1, <3>2 DEF TopicTypes
    <2> QED  BY <2>1, <2>2, <2>3
  <1>10. IdsBelowNext'
    <2>1. ASSUME NEW i \in 1 .. Len(idLines)
          PROVE  idLines[i].id \in IF idLines[i].type = "publisher"
                     THEN PubIdStart .. (pubId' - 1) ELSE 0 .. (subId' - 1)
      <3>1. CASE idLines[i].type = "publisher"
        BY <1>1, <1>3, <1>9, <3>1
      <3>2. CASE idLines[i].type # "publisher"
        BY <1>1, <1>3, <1>9, <3>2
      <3> QED  BY <3>1, <3>2
    <2>2. line.id \in IF line.type = "publisher"
                     THEN PubIdStart .. (pubId' - 1) ELSE 0 .. (subId' - 1)
      BY <1>1, <1>3
    <2> HIDE DEF line
    <2>3. ASSUME NEW i \in DOMAIN idLines'
          PROVE  idLines'[i].id \in IF idLines'[i].type = "publisher"
                     THEN PubIdStart .. (pubId' - 1) ELSE 0 .. (subId' - 1)
      <3>1. i \in 1 .. Len(idLines) \/ i = Len(idLines) + 1
        BY <1>8
      <3>2. CASE i \in 1 .. Len(idLines)
        <4>1. idLines'[i] = idLines[i]
          BY <1>8, <3>2
        <4> QED  BY <2>1, <3>2, <4>1
      <3>3. CASE i = Len(idLines) + 1
        BY <1>8, <2>2, <3>3
      <3> QED  BY <3>1, <3>2, <3>3
    <2> QED  BY <2>3 DEF IdsBelowNext
  <1>11. IdsTellTopicsApart'
    <2>1. line.type = "publisher" <=> line.id >= PubIdStart
      BY <1>1, <1>3
    <2>2. line.id = id
      OBVIOUS
    <2> HIDE DEF line, id
    <2>3. ASSUME NEW i \in DOMAIN idLines'
          PROVE  /\ idLines'[i].type = "publisher" <=> idLines'[i].id >= PubIdStart
                 /\ idLines'[i].id \in 0 .. 254
      <3>1. i \in 1 .. Len(idLines) \/ i = Len(idLines) + 1
        BY <1>8
      <3>2. CASE i \in 1 .. Len(idLines)
        <4>1. idLines'[i] = idLines[i]
          BY <1>8, <3>2
        <4> QED  BY <1>9, <3>2, <4>1
      <3>3. CASE i = Len(idLines) + 1
        BY <1>4, <1>8, <2>1, <2>2, <3>3
      <3> QED  BY <3>1, <3>2, <3>3
    <2>4. ASSUME NEW i \in DOMAIN idLines', NEW j \in DOMAIN idLines',
                 idLines'[i].id = idLines'[j].id
          PROVE  i = j
      <3>1. CASE i \in 1 .. Len(idLines) /\ j \in 1 .. Len(idLines)
        BY <1>8, <2>4, <3>1 DEF IdsIInv, IdsTellTopicsApart
      <3>2. CASE i = Len(idLines) + 1 \/ j = Len(idLines) + 1
        BY <1>8, <1>9, <2>2, <2>4, <3>2
      <3> QED  BY <1>8, <2>4, <3>1, <3>2
    <2> QED  BY <2>3, <2>4 DEF IdsTellTopicsApart
  <1> QED  BY <1>7, <1>10, <1>11 DEF IdsIInv

\* Before the first id.
LEMMA IdsInitEstablishesInvariant ==
    ASSUME IdsInit
    PROVE  IdsIInv
  <1>1. DOMAIN idLines = {}
    BY DEF IdsInit
  <1>2. IdsTypeOK
    <2>1. idLines \in Seq([name : TopicNames, type : TopicTypes, id : 0 .. 254])
      BY EmptySeq DEF IdsInit
    <2>2. SubIdLimit \in Nat /\ PubIdStart \in Nat /\ PubIdLimit \in Nat
          /\ PubIdStart <= PubIdLimit
      BY IdAssumption
    <2>3. subId = 0 /\ pubId = PubIdStart
      BY DEF IdsInit
    <2>4. subId \in 0 .. SubIdLimit /\ pubId \in PubIdStart .. PubIdLimit
      BY <2>2, <2>3
    <2> QED  BY <2>1, <2>4 DEF IdsTypeOK
  <1> QED  BY <1>1, <1>2 DEF IdsIInv, IdsBelowNext, IdsTellTopicsApart

\* When the ids of a ros.toml are begun.
LEMMA IdsStartEstablishesInvariant ==
    ASSUME IdsStart
    PROVE  IdsIInv'
  <1>1. DOMAIN idLines' = {}
    BY DEF IdsStart
  <1>2. IdsTypeOK'
    <2>1. idLines' \in Seq([name : TopicNames, type : TopicTypes, id : 0 .. 254])
      BY EmptySeq DEF IdsStart
    <2>2. SubIdLimit \in Nat /\ PubIdStart \in Nat /\ PubIdLimit \in Nat
          /\ PubIdStart <= PubIdLimit
      BY IdAssumption
    <2>3. subId' = 0 /\ pubId' = PubIdStart
      BY DEF IdsStart
    <2>4. subId' \in 0 .. SubIdLimit /\ pubId' \in PubIdStart .. PubIdLimit
      BY <2>2, <2>3
    <2> QED  BY <2>1, <2>4 DEF IdsTypeOK
  <1> QED  BY <1>1, <1>2 DEF IdsIInv, IdsBelowNext, IdsTellTopicsApart

\* Ids given out stay below the next ones, each on its side.
THEOREM IdsInvariance == IdsSpec => []IdsIInv
  <1>1. IdsInit => IdsIInv
    BY IdsInitEstablishesInvariant
  <1>2. IdsIInv /\ [IdsNext]_idVars => IdsIInv'
    <2> SUFFICES ASSUME IdsIInv, [IdsNext]_idVars PROVE IdsIInv'
      OBVIOUS
    <2>1. CASE IdsNext
      BY <2>1, NewIdKeepsInvariant DEF IdsNext
    <2>2. CASE UNCHANGED idVars
      BY <2>2 DEF idVars, IdsIInv, IdsTypeOK, IdsBelowNext, IdsTellTopicsApart
    <2> QED  BY <2>1, <2>2
  <1> QED  BY <1>1, <1>2, PTL DEF IdsSpec

\* However many topics a ros.toml has, its ids are distinct, below 255, and on
\* the side of PubIdStart where the agent looks for them: what
\* TopicTableAssumption of module Protocol asks of a table.
THEOREM IdsAlwaysTellTopicsApart == IdsSpec => []IdsTellTopicsApart
  <1>1. IdsIInv => IdsTellTopicsApart
    BY DEF IdsIInv
  <1> QED  BY <1>1, IdsInvariance, PTL

-----------------------------------------------------------------------------
(* Packages                                                                *)

\* What a sequence holds, by its indices.
LEMMA RangeIsElements ==
    ASSUME NEW S, NEW s \in Seq(S), NEW e
    PROVE  e \in Range(s) <=> \E i \in 1 .. Len(s) : s[i] = e
  BY LenProperties DEF Range

\* Popping loses the head alone.
LEMMA RangeOfTail ==
    ASSUME NEW S, NEW s \in Seq(S), s # <<>>, NEW e \in Range(s), e # Head(s)
    PROVE  e \in Range(Tail(s))
  <1>1. PICK i \in 1 .. Len(s) : s[i] = e
    BY RangeIsElements
  <1>2. /\ Tail(s) \in Seq(S) /\ Len(Tail(s)) = Len(s) - 1
        /\ \A j \in 1 .. Len(Tail(s)) : Tail(s)[j] = s[j + 1]
        /\ Len(s) \in Nat /\ Head(s) = s[1]
    BY HeadTailProperties, LenProperties
  <1>3. i - 1 \in 1 .. Len(Tail(s)) /\ Tail(s)[i - 1] = s[i]
    <2>1. i # 1
      BY <1>1, <1>2
    <2>2. i - 1 \in 1 .. Len(Tail(s)) /\ (i - 1) + 1 = i
      BY <1>1, <1>2, <2>1
    <2> QED  BY <1>2, <2>2
  <1>4. Tail(s)[i - 1] = e
    BY <1>1, <1>3
  <1> QED  BY <1>2, <1>3, <1>4, RangeIsElements

\* Pushing the subdirectories keeps both parts.
LEMMA RangeOfConcat ==
    ASSUME NEW S, NEW s \in Seq(S), NEW t \in Seq(S), NEW e,
           e \in Range(s) \/ e \in Range(t)
    PROVE  e \in Range(s \o t)
  <1>1. /\ s \o t \in Seq(S) /\ Len(s \o t) = Len(s) + Len(t)
        /\ \A i \in 1 .. Len(s) + Len(t) :
              (s \o t)[i] = IF i <= Len(s) THEN s[i] ELSE t[i - Len(s)]
        /\ Len(s) \in Nat /\ Len(t) \in Nat
    BY ConcatProperties, LenProperties
  <1>2. CASE e \in Range(s)
    <2>1. PICK i \in 1 .. Len(s) : s[i] = e
      BY <1>2, RangeIsElements
    <2>2. i \in 1 .. Len(s \o t) /\ (s \o t)[i] = e
      BY <1>1, <2>1
    <2> QED  BY <1>1, <2>2, RangeIsElements
  <1>3. CASE e \in Range(t)
    <2>1. PICK i \in 1 .. Len(t) : t[i] = e
      BY <1>3, RangeIsElements
    <2>2. i + Len(s) \in 1 .. Len(s) + Len(t) /\ ~(i + Len(s) <= Len(s))
          /\ i + Len(s) - Len(s) = i
      BY <1>1, <2>1
    <2>3. i + Len(s) \in 1 .. Len(s \o t) /\ (s \o t)[i + Len(s)] = e
      BY <1>1, <2>1, <2>2
    <2> QED  BY <1>1, <2>3, RangeIsElements
  <1> QED  BY <1>2, <1>3

\* What is in a directory.
LEMMA SubdirsAreEntries ==
    ASSUME NEW d \in Dirs
    PROVE  Subdirs[d] \in Seq(Entries)
  BY DirsAssumption DEF Entries

\* What the head of todo is, and that the rest is again a todo.
LEMMA TodoProperties ==
    ASSUME ScanTypeOK, Scanning
    PROVE  /\ todo \in Seq(Entries)
           /\ Head(todo) \in Entries
           /\ Tail(todo) \in Seq(Entries)
  BY HeadTailProperties DEF ScanTypeOK, Scanning, Entries

-----------------------------------------------------------------------------
\* Dropping the head of todo is harmless if its directory is skipped or has
\* been visited.
LEMMA PopKeepsClosed ==
    ASSUME ScanIInv, Scanning, todo' = Tail(todo),
           UNCHANGED <<index, scanFailed>>, visited \subseteq visited',
           IsSkippedDir(Head(todo).name) \/ Head(todo).dir \in visited',
           NEW d \in visited, ~scanFailed, ~IsPackage(d),
           NEW e \in Range(Subdirs[d])
    PROVE  IsSkippedDir(e.name) \/ e.dir \in visited' \/ e \in Range(todo')
  <1>1. IsSkippedDir(e.name) \/ e.dir \in visited \/ e \in Range(todo)
    BY DEF ScanIInv, VisitedIsClosed
  <1>2. CASE e \in Range(todo)
    <2>1. CASE e = Head(todo)
      BY <2>1
    <2>2. CASE e # Head(todo)
      <3>1. e \in Range(Tail(todo))
        BY <1>2, <2>2, TodoProperties, RangeOfTail DEF ScanIInv, Scanning
      <3> QED  BY <3>1
    <2> QED  BY <2>1, <2>2
  <1> QED  BY <1>1, <1>2

\* A directory that is skipped by its name, or visited already.
LEMMA SkipKeepsInvariant ==
    ASSUME ScanIInv, NEW d \in Dirs, SkipByName \/ AlreadyVisited(d)
    PROVE  ScanIInv'
  <1>1. /\ Scanning /\ todo' = Tail(todo) /\ UNCHANGED <<index, visited, scanFailed>>
        /\ IsSkippedDir(Head(todo).name) \/ Head(todo).dir \in visited'
    BY DEF SkipByName, AlreadyVisited, Visits
  <1>2. ScanTypeOK'
    BY <1>1, TodoProperties DEF ScanIInv, ScanTypeOK, Entries
  <1>3. ASSUME NEW x \in visited', ~scanFailed'
        PROVE  IF IsPackage(x) THEN NameOf(x) \in DOMAIN index'
               ELSE \A e \in Range(Subdirs[x]) :
                    IsSkippedDir(e.name) \/ e.dir \in visited' \/ e \in Range(todo')
    <2>1. x \in visited /\ ~scanFailed
      BY <1>1, <1>3
    <2>2. CASE IsPackage(x)
      BY <1>1, <2>1, <2>2 DEF ScanIInv, VisitedIsClosed
    <2>3. CASE ~IsPackage(x)
      BY <1>1, <2>1, <2>3, PopKeepsClosed
    <2> QED  BY <2>2, <2>3
  <1>4. IndexIsTrue'
    BY <1>1 DEF ScanIInv, IndexIsTrue
  <1> QED  BY <1>2, <1>3, <1>4 DEF ScanIInv, VisitedIsClosed

\* A package.
LEMMA FindKeepsInvariant ==
    ASSUME ScanIInv, NEW d \in Dirs, FindPackage(d)
    PROVE  ScanIInv'
  <1>1. /\ Scanning /\ todo' = Tail(todo) /\ scanFailed' = scanFailed
        /\ visited' = visited \cup {d} /\ d = Head(todo).dir /\ d \notin visited
        /\ IsPackage(d)
        /\ index' = [n \in DOMAIN index \cup {NameOf(d)} |->
                        IF n \in DOMAIN index THEN index[n] ELSE d]
    BY DEF FindPackage, Enter, Visits
  <1>2. ScanTypeOK'
    BY <1>1, TodoProperties DEF ScanIInv, ScanTypeOK, Entries
  <1>3. DOMAIN index' = DOMAIN index \cup {NameOf(d)}
    BY <1>1
  <1>4. ASSUME NEW x \in visited', ~scanFailed'
        PROVE  IF IsPackage(x) THEN NameOf(x) \in DOMAIN index'
               ELSE \A e \in Range(Subdirs[x]) :
                    IsSkippedDir(e.name) \/ e.dir \in visited' \/ e \in Range(todo')
    <2>1. CASE x = d
      BY <1>1, <1>3, <2>1
    <2>2. CASE x \in visited /\ IsPackage(x)
      BY <1>1, <1>3, <1>4, <2>2 DEF ScanIInv, VisitedIsClosed
    <2>3. CASE x \in visited /\ ~IsPackage(x)
      <3>1. ASSUME NEW e \in Range(Subdirs[x])
            PROVE  IsSkippedDir(e.name) \/ e.dir \in visited' \/ e \in Range(todo')
        <4>1. IsSkippedDir(e.name) \/ e.dir \in visited \/ e \in Range(todo)
          BY <1>1, <1>4, <2>3 DEF ScanIInv, VisitedIsClosed
        <4>2. CASE e \in Range(todo) /\ e # Head(todo)
          <5>1. e \in Range(Tail(todo))
            BY <1>1, <4>2, TodoProperties, RangeOfTail DEF ScanIInv, Scanning
          <5> QED  BY <1>1, <5>1
        <4> QED  BY <1>1, <4>1, <4>2
      <3> QED  BY <2>3, <3>1
    <2> QED  BY <1>1, <2>1, <2>2, <2>3
  <1>5. IndexIsTrue'
    <2>1. ASSUME NEW n \in DOMAIN index'
          PROVE  index'[n] \in visited' /\ IsPackage(index'[n]) /\ NameOf(index'[n]) = n
      <3>1. CASE n \in DOMAIN index
        BY <1>1, <3>1 DEF ScanIInv, IndexIsTrue
      <3>2. CASE n \notin DOMAIN index
        BY <1>1, <1>3, <3>2
      <3> QED  BY <3>1, <3>2
    <2> QED  BY <2>1 DEF IndexIsTrue
  <1> QED  BY <1>2, <1>4, <1>5 DEF ScanIInv, VisitedIsClosed

\* A directory that is descended into.
LEMMA DescendKeepsInvariant ==
    ASSUME ScanIInv, NEW d \in Dirs, Descend(d)
    PROVE  ScanIInv'
  <1>1. /\ Scanning /\ todo' = Subdirs[d] \o Tail(todo)
        /\ UNCHANGED <<index, scanFailed>>
        /\ visited' = visited \cup {d} /\ d = Head(todo).dir /\ ~IsPackage(d)
    BY DEF Descend, Enter, Visits
  <1>2. /\ Subdirs[d] \in Seq(Entries) /\ Tail(todo) \in Seq(Entries)
        /\ todo \in Seq(Entries) /\ todo # <<>>
    BY <1>1, SubdirsAreEntries, TodoProperties DEF ScanIInv, Scanning
  <1>3. ScanTypeOK'
    <2>1. todo' \in Seq(Entries)
      BY <1>1, <1>2, ConcatProperties
    <2> QED  BY <1>1, <2>1 DEF ScanIInv, ScanTypeOK, Entries
  <1>4. ASSUME NEW e, e \in Range(Subdirs[d]) \/ (e \in Range(todo) /\ e # Head(todo))
        PROVE  e \in Range(todo')
    <2>1. CASE e \in Range(Subdirs[d])
      BY <1>1, <1>2, <2>1, RangeOfConcat
    <2>2. CASE e \in Range(todo) /\ e # Head(todo)
      <3>1. e \in Range(Tail(todo))
        BY <1>2, <2>2, RangeOfTail
      <3> QED  BY <1>1, <1>2, <3>1, RangeOfConcat
    <2> QED  BY <1>4, <2>1, <2>2
  <1>5. ASSUME NEW x \in visited', ~scanFailed'
        PROVE  IF IsPackage(x) THEN NameOf(x) \in DOMAIN index'
               ELSE \A e \in Range(Subdirs[x]) :
                    IsSkippedDir(e.name) \/ e.dir \in visited' \/ e \in Range(todo')
    <2>1. CASE x = d
      BY <1>1, <1>4, <2>1
    <2>2. CASE x \in visited /\ IsPackage(x)
      BY <1>1, <1>5, <2>2 DEF ScanIInv, VisitedIsClosed
    <2>3. CASE x \in visited /\ ~IsPackage(x)
      <3>1. ASSUME NEW e \in Range(Subdirs[x])
            PROVE  IsSkippedDir(e.name) \/ e.dir \in visited' \/ e \in Range(todo')
        <4>1. IsSkippedDir(e.name) \/ e.dir \in visited \/ e \in Range(todo)
          BY <1>1, <1>5, <2>3 DEF ScanIInv, VisitedIsClosed
        <4>2. CASE e \in Range(todo) /\ e # Head(todo)
          BY <1>4, <4>2
        <4> QED  BY <1>1, <4>1, <4>2
      <3> QED  BY <2>3, <3>1
    <2> QED  BY <1>1, <2>1, <2>2, <2>3
  <1>6. IndexIsTrue'
    BY <1>1 DEF ScanIInv, IndexIsTrue
  <1> QED  BY <1>3, <1>5, <1>6 DEF ScanIInv, VisitedIsClosed

\* An error, which ends the scan.
LEMMA ErrorKeepsInvariant ==
    ASSUME ScanIInv, NEW d \in Dirs, ScanError(d)
    PROVE  ScanIInv'
  <1>1. /\ todo' = <<>> /\ scanFailed' = TRUE /\ index' = index
        /\ visited' = visited \cup {d}
    BY DEF ScanError, Enter
  <1>2. ScanTypeOK'
    <2>1. todo' \in Seq(Entries)
      BY <1>1, EmptySeq
    <2> QED  BY <1>1, <2>1 DEF ScanIInv, ScanTypeOK
  <1>3. VisitedIsClosed'
    BY <1>1 DEF VisitedIsClosed
  <1>4. IndexIsTrue'
    BY <1>1 DEF ScanIInv, IndexIsTrue
  <1> QED  BY <1>2, <1>3, <1>4 DEF ScanIInv

-----------------------------------------------------------------------------
\* With every step of a scan.
LEMMA ScanNextKeepsInvariant ==
    ASSUME ScanIInv, [ScanNext]_scanVars
    PROVE  ScanIInv'
  <1>1. CASE SkipByName
    <2>1. Head(todo).dir \in Dirs
      BY <1>1, TodoProperties DEF SkipByName, ScanIInv, Entries
    <2> QED  BY <1>1, <2>1, SkipKeepsInvariant
  <1>2. ASSUME NEW d \in Dirs,
               AlreadyVisited(d) \/ FindPackage(d) \/ Descend(d) \/ ScanError(d)
        PROVE  ScanIInv'
    BY <1>2, SkipKeepsInvariant, FindKeepsInvariant, DescendKeepsInvariant,
       ErrorKeepsInvariant
  <1>3. CASE UNCHANGED scanVars
    BY <1>3 DEF scanVars, ScanIInv, ScanTypeOK, VisitedIsClosed, IndexIsTrue
  <1> QED  BY <1>1, <1>2, <1>3 DEF ScanNext

\* When the walk is over, its invariant says that nothing is missing.
LEMMA ClosedMeansFound == ScanIInv => EveryPackageIsFound
  <1> SUFFICES ASSUME ScanIInv, ~Scanning, ~scanFailed,
                      NEW r \in visited, NEW d \in Reachable[r], IsPackage(d)
               PROVE  NameOf(d) \in DOMAIN index
    BY DEF EveryPackageIsFound
  <1>1. visited \in SUBSET Dirs /\ r \in Dirs
    BY DEF ScanIInv, ScanTypeOK
  <1>2. ASSUME NEW x \in visited PROVE LeadsTo[x] \subseteq visited
    <2>1. SUFFICES ASSUME ~IsPackage(x), NEW e \in Range(Subdirs[x]),
                          ~IsSkippedDir(e.name)
                   PROVE  e.dir \in visited
      BY <1>1 DEF LeadsTo
    <2>2. e \notin Range(todo)
      BY DEF Scanning, Range
    <2> QED  BY <2>1, <2>2 DEF ScanIInv, VisitedIsClosed
  <1>3. d \in visited
    BY <1>1, <1>2 DEF Reachable, ClosedSets
  <1> QED  BY <1>3 DEF ScanIInv, VisitedIsClosed

\* Whatever the tree, what the scan has left to do is in todo.
THEOREM ScanInvariance == ScanSpec => []ScanIInv
  <1>1. ScanInit => ScanIInv
    <2> SUFFICES ASSUME ScanInit PROVE ScanIInv
      OBVIOUS
    <2>1. PICK root \in Dirs : todo = <<[name |-> NoName, dir |-> root]>>
      BY DEF ScanInit, ScanRoot
    <2>2. index = <<>> /\ visited = {} /\ scanFailed = FALSE
      BY DEF ScanInit
    <2>3. ScanTypeOK
      <3> DEFINE first == [name |-> NoName, dir |-> root]
      <3>1. first \in Entries
        BY DEF Entries
      <3> HIDE DEF first
      <3>2. <<first>> \in Seq(Entries)
        BY <3>1
      <3>3. todo \in Seq(Entries)
        BY <2>1, <3>2 DEF first
      <3> QED  BY <2>2, <3>3 DEF ScanTypeOK
    <2>4. DOMAIN index = {}
      BY <2>2
    <2> QED  BY <2>2, <2>3, <2>4 DEF ScanIInv, VisitedIsClosed, IndexIsTrue
  <1>2. ScanIInv /\ [ScanNext]_scanVars => ScanIInv'
    BY ScanNextKeepsInvariant
  <1> QED  BY <1>1, <1>2, PTL DEF ScanSpec

\* For every directory tree, a scan that ends without an error has indexed all
\* packages it could have come to.
THEOREM NoPackageIsMissed == ScanSpec => []EveryPackageIsFound
  BY ClosedMeansFound, ScanInvariance, PTL

\* And each name in the index is the name of a package that was visited.
THEOREM IndexedPackagesAreReal == ScanSpec => []IndexIsTrue
  <1>1. ScanIInv => IndexIsTrue
    BY DEF ScanIInv
  <1> QED  BY <1>1, ScanInvariance, PTL

-----------------------------------------------------------------------------
(* Loops                                                                   *)

\* What the start has become after each number of passes up to n.
PassesUpTo(pass, start, g, n) ==
    g = [i \in 0 .. n |-> IF i = 0 THEN start ELSE pass[i][g[i - 1]]]

\* There is a function that has it.
LEMMA PassesExist ==
    ASSUME NEW pass, NEW start, NEW n \in Nat
    PROVE  \E g : PassesUpTo(pass, start, g, n)
  <1> DEFINE T == {m \in Nat : \E g : PassesUpTo(pass, start, g, m)}
             W(before, k) == IF k = 0 THEN start ELSE pass[k][before]
  <1>0. \A x, y : W(x, 0) = W(y, 0)
    OBVIOUS
  <1> HIDE DEF W
  <1>1. 0 \in T
    <2> DEFINE g == [k \in 0 .. 0 |-> W(<<>>, 0)]
    <2>1. g = [k \in 0 .. 0 |-> W(g[k - 1], k)]
      BY <1>0
    <2> HIDE DEF g
    <2>2. PassesUpTo(pass, start, g, 0)
      BY <2>1 DEF PassesUpTo, W
    <2> QED  BY <2>2
  <1>2. ASSUME NEW m \in Nat, m \in T
        PROVE  m + 1 \in T
    <2>1. PICK g : PassesUpTo(pass, start, g, m)
      BY <1>2
    <2> DEFINE h == [k \in 0 .. m + 1 |-> IF k <= m THEN g[k] ELSE W(g[m], m + 1)]
    <2>2. \A k \in 0 .. m : g[k] = W(g[k - 1], k)
      BY <2>1, Zenon DEF PassesUpTo, W
    <2>3. ASSUME NEW k \in 0 .. m + 1
          PROVE  h[k] = W(h[k - 1], k)
      <3>1. CASE k = 0
        <4>1. h[0] = g[0] /\ g[0] = W(g[0 - 1], 0)
          BY <2>2
        <4> QED  BY <4>1, <1>0, <3>1
      <3>2. CASE k \in 1 .. m
        <4>1. h[k] = g[k] /\ h[k - 1] = g[k - 1]
          BY <3>2
        <4> QED  BY <4>1, <2>2, <3>2
      <3>3. CASE k = m + 1
        <4>1. h[k] = W(g[m], k) /\ h[k - 1] = g[m]
          BY <3>3
        <4> QED  BY <4>1
      <3> QED  BY <3>1, <3>2, <3>3
    <2>4. h = [k \in 0 .. m + 1 |-> h[k]]
      OBVIOUS
    <2> HIDE DEF h
    <2>5. h = [k \in 0 .. m + 1 |-> W(h[k - 1], k)]
      BY <2>3, <2>4
    <2>6. PassesUpTo(pass, start, h, m + 1)
      BY <2>5 DEF PassesUpTo, W
    <2> QED  BY <2>6
  <1> HIDE DEF T
  <1>3. n \in T
    BY <1>1, <1>2, NatSetInduction
  <1> QED  BY <1>3 DEF T

\* What a loop makes, pass by pass.
Passes(pass, start, n) ==
    CHOOSE g : PassesUpTo(pass, start, g, n)

\* So a loop is what its definition says.
LEMMA LoopDef ==
    ASSUME NEW pass, NEW start, NEW n \in Nat
    PROVE  /\ Loop(pass, start, n) = Passes(pass, start, n)[n]
           /\ Passes(pass, start, n)[0] = start
           /\ \A i \in 1 .. n : Passes(pass, start, n)[i]
                                    = pass[i][Passes(pass, start, n)[i - 1]]
  <1> DEFINE after == Passes(pass, start, n)
  <1>1. Loop(pass, start, n) = after[n]
    BY DEF Loop, Passes, PassesUpTo
  <1>2. after = [i \in 0 .. n |-> IF i = 0 THEN start ELSE pass[i][after[i - 1]]]
    <2>1. PassesUpTo(pass, start, after, n)
      BY PassesExist DEF Passes
    <2> QED  BY <2>1, Zenon DEF PassesUpTo
  <1> HIDE DEF after
  <1>3. \A i \in 0 .. n : after[i] = IF i = 0 THEN start ELSE pass[i][after[i - 1]]
    BY <1>2, Zenon
  <1>4. 0 \in 0 .. n /\ \A i \in 1 .. n : i \in 0 .. n /\ i # 0
    OBVIOUS
  <1>5. /\ after[0] = start
        /\ \A i \in 1 .. n : after[i] = pass[i][after[i - 1]]
    BY <1>3, <1>4, Zenon
  <1> QED  BY <1>1, <1>5 DEF after

\* What every pass keeps in, a loop does not leave.
LEMMA LoopStays ==
    ASSUME NEW S, NEW n \in Nat, NEW pass, NEW start \in S,
           \A i \in 1 .. n : pass[i] \in [S -> S]
    PROVE  /\ Loop(pass, start, n) \in S
           /\ \A i \in 0 .. n : Passes(pass, start, n)[i] \in S
  <1> DEFINE after == Passes(pass, start, n)
             T == {i \in Nat : i <= n => after[i] \in S}
  <1>1. /\ Loop(pass, start, n) = after[n]
        /\ after[0] = start
        /\ \A i \in 1 .. n : after[i] = pass[i][after[i - 1]]
    BY LoopDef
  <1> HIDE DEF after
  <1>2. 0 \in T
    BY <1>1
  <1>3. ASSUME NEW i \in Nat, i \in T
        PROVE  i + 1 \in T
    <2>1. SUFFICES ASSUME i + 1 <= n PROVE after[i + 1] \in S
      OBVIOUS
    <2>2. after[i] \in S /\ i + 1 \in 1 .. n /\ (i + 1) - 1 = i
      BY <1>3, <2>1
    <2>3. after[i + 1] = pass[i + 1][after[i]]
      BY <1>1, <2>2
    <2>4. pass[i + 1] \in [S -> S]
      BY <2>2
    <2> QED  BY <2>2, <2>3, <2>4
  <1> HIDE DEF T
  <1>4. Nat \subseteq T
    BY <1>2, <1>3, NatSetInduction
  <1>5. \A i \in 0 .. n : after[i] \in S
    BY <1>4 DEF T
  <1>6. n \in 0 .. n
    OBVIOUS
  <1> QED  BY <1>1, <1>5, <1>6 DEF after

\* A loop, by the one with a pass less.
LEMMA LoopNext ==
    ASSUME NEW pass, NEW start, NEW n \in Nat
    PROVE  /\ Loop(pass, start, 0) = start
           /\ Loop(pass, start, n + 1) = pass[n + 1][Loop(pass, start, n)]
  <1> DEFINE g == Passes(pass, start, n)
             h == Passes(pass, start, n + 1)
             T == {i \in Nat : i <= n => g[i] = h[i]}
  <1>1. /\ g[0] = start /\ \A i \in 1 .. n : g[i] = pass[i][g[i - 1]]
        /\ Loop(pass, start, n) = g[n]
    BY LoopDef
  <1>2. /\ h[0] = start /\ \A i \in 1 .. n + 1 : h[i] = pass[i][h[i - 1]]
        /\ Loop(pass, start, n + 1) = h[n + 1]
    <2>1. n + 1 \in Nat
      OBVIOUS
    <2> QED  BY <2>1, LoopDef
  <1> HIDE DEF g, h
  <1>3. 0 \in T
    BY <1>1, <1>2
  <1>4. ASSUME NEW i \in Nat, i \in T
        PROVE  i + 1 \in T
    <2>1. SUFFICES ASSUME i + 1 <= n PROVE g[i + 1] = h[i + 1]
      OBVIOUS
    <2>2. i + 1 \in 1 .. n /\ i + 1 \in 1 .. n + 1 /\ (i + 1) - 1 = i /\ i <= n
      BY <2>1
    <2> QED  BY <1>1, <1>2, <1>4, <2>2
  <1> HIDE DEF T
  <1>5. n \in T
    BY <1>3, <1>4, NatSetInduction
  <1>6. n + 1 \in 1 .. n + 1 /\ (n + 1) - 1 = n
    OBVIOUS
  <1>7. h[n + 1] = pass[n + 1][g[n]]
    BY <1>2, <1>5, <1>6 DEF T
  <1>8. Loop(pass, start, 0) = start
    <2>1. 0 \in Nat
      OBVIOUS
    <2> QED  BY <2>1, LoopDef
  <1> QED  BY <1>1, <1>2, <1>7, <1>8

\* The passes do the same to whatever they may meet.
Agree(S, pass, other, n) ==
    \A i \in 1 .. n : \A s \in S : pass[i][s] \in S /\ other[i][s] = pass[i][s]

\* So do the loops.
LEMMA LoopsAgree ==
    ASSUME NEW S, NEW n \in Nat, NEW pass, NEW other, NEW start \in S,
           Agree(S, pass, other, n)
    PROVE  Loop(pass, start, n) \in S /\ Loop(other, start, n) = Loop(pass, start, n)
  <1> DEFINE p(i) == Loop(pass, start, i)
             o(i) == Loop(other, start, i)
             T == {i \in Nat : i <= n => p(i) \in S /\ o(i) = p(i)}
  <1>1. \A i \in Nat : /\ p(0) = start /\ p(i + 1) = pass[i + 1][p(i)]
                       /\ o(0) = start /\ o(i + 1) = other[i + 1][o(i)]
    BY LoopNext
  <1> HIDE DEF p, o
  <1>2. 0 \in T
    BY <1>1
  <1>3. ASSUME NEW i \in Nat, i \in T
        PROVE  i + 1 \in T
    <2>1. SUFFICES ASSUME i + 1 <= n PROVE p(i + 1) \in S /\ o(i + 1) = p(i + 1)
      OBVIOUS
    <2>2. i + 1 \in 1 .. n /\ p(i) \in S /\ o(i) = p(i)
      BY <1>3, <2>1
    <2> QED  BY <1>1, <2>2 DEF Agree
  <1> HIDE DEF T
  <1>4. n \in T
    BY <1>2, <1>3, NatSetInduction
  <1> QED  BY <1>4 DEF T, p, o

\* A loop in two parts.
LEMMA LoopSplit ==
    ASSUME NEW pass, NEW start, NEW n \in Nat, NEW m \in Nat
    PROVE  Loop(pass, start, n + m)
               = Loop([i \in 1 .. m |-> pass[n + i]], Loop(pass, start, n), m)
  <1> DEFINE rest == [i \in 1 .. m |-> pass[n + i]]
             p(i) == Loop(pass, start, i)
             r(i) == Loop(rest, p(n), i)
             T == {i \in Nat : i <= m => p(n + i) = r(i)}
  <1>1. /\ \A i \in Nat : p(i + 1) = pass[i + 1][p(i)]
        /\ \A i \in Nat : r(0) = p(n) /\ r(i + 1) = rest[i + 1][r(i)]
    <2> DEFINE half == p(n)
    <2>1. \A i \in Nat : p(i + 1) = pass[i + 1][p(i)]
      BY LoopNext
    <2> HIDE DEF rest, half
    <2>2. \A i \in Nat : /\ Loop(rest, half, 0) = half
                         /\ Loop(rest, half, i + 1) = rest[i + 1][Loop(rest, half, i)]
      BY LoopNext
    <2> QED  BY <2>1, <2>2 DEF half
  <1>2. \A i \in 1 .. m : rest[i] = pass[n + i]
    OBVIOUS
  <1> HIDE DEF p, r, rest
  <1>3. 0 \in T
    <2>1. n + 0 = n /\ 0 \in Nat
      OBVIOUS
    <2> QED  BY <1>1, <2>1
  <1>4. ASSUME NEW i \in Nat, i \in T
        PROVE  i + 1 \in T
    <2>1. SUFFICES ASSUME i + 1 <= m PROVE p(n + (i + 1)) = r(i + 1)
      OBVIOUS
    <2>2. /\ i + 1 \in 1 .. m /\ p(n + i) = r(i)
          /\ n + i \in Nat /\ n + (i + 1) = (n + i) + 1
      BY <1>4, <2>1
    <2> QED  BY <1>1, <1>2, <2>2
  <1> HIDE DEF T
  <1>5. m \in T
    BY <1>3, <1>4, NatSetInduction
  <1> QED  BY <1>5 DEF T, p, r, rest

-----------------------------------------------------------------------------
(* Fields of every depth                                                   *)

\* The fields of each depth up to n.
TreesUpTo(g, n) ==
    g = [d \in 0 .. n |-> IF d = 0 THEN {<<>>} ELSE Seq(FieldsWith(g[d - 1]))]

\* For each depth there is a function that has the fields up to it.
LEMMA TreesExist ==
    ASSUME NEW n \in Nat
    PROVE  \E g : TreesUpTo(g, n)
  <1> DEFINE T == {m \in Nat : \E g : TreesUpTo(g, m)}
  <1>1. 0 \in T
    <2> DEFINE g == [d \in 0 .. 0 |-> {<<>>}]
    <2>1. g = [d \in 0 .. 0 |-> IF d = 0 THEN {<<>>} ELSE Seq(FieldsWith(g[d - 1]))]
      OBVIOUS
    <2> QED  BY <2>1 DEF TreesUpTo
  <1>2. ASSUME NEW m \in Nat, m \in T
        PROVE  m + 1 \in T
    <2>1. PICK g : TreesUpTo(g, m)
      BY <1>2
    <2> DEFINE h == [d \in 0 .. m + 1 |-> IF d <= m THEN g[d] ELSE Seq(FieldsWith(g[m]))]
    <2>2. \A d \in 0 .. m :
             g[d] = IF d = 0 THEN {<<>>} ELSE Seq(FieldsWith(g[d - 1]))
      BY <2>1, Zenon DEF TreesUpTo
    <2>3. ASSUME NEW d \in 0 .. m + 1
          PROVE  h[d] = IF d = 0 THEN {<<>>} ELSE Seq(FieldsWith(h[d - 1]))
      <3>1. CASE d = 0
        BY <2>2, <3>1
      <3>2. CASE d \in 1 .. m
        <4>1. h[d] = g[d] /\ h[d - 1] = g[d - 1]
          BY <3>2
        <4> QED  BY <4>1, <2>2, <3>2
      <3>3. CASE d = m + 1
        <4>1. h[d] = Seq(FieldsWith(g[m])) /\ h[d - 1] = g[m] /\ d # 0
          BY <3>3
        <4> QED  BY <4>1
      <3> QED  BY <3>1, <3>2, <3>3
    <2> HIDE DEF h
    <2>4. h = [d \in 0 .. m + 1 |-> h[d]]
      BY DEF h
    <2>5. TreesUpTo(h, m + 1)
      BY <2>3, <2>4 DEF TreesUpTo
    <2> QED  BY <2>5
  <1> HIDE DEF T
  <1>3. n \in T
    BY <1>1, <1>2, NatSetInduction
  <1> QED  BY <1>3 DEF T

\* So FieldTrees is what its definition says.
LEMMA FieldTreesDef ==
    /\ FieldTrees[0] = {<<>>}
    /\ \A d \in 1 .. MaxNesting : FieldTrees[d] = Seq(FieldsWith(FieldTrees[d - 1]))
  <1> DEFINE trees == CHOOSE g : g = [d \in 0 .. MaxNesting |->
                 IF d = 0 THEN {<<>>} ELSE Seq(FieldsWith(g[d - 1]))]
  <1>1. FieldTrees = trees
    BY DEF FieldTrees
  <1>2. \E g : g = [d \in 0 .. MaxNesting |->
                 IF d = 0 THEN {<<>>} ELSE Seq(FieldsWith(g[d - 1]))]
    BY TreesExist, NestingAssumption DEF TreesUpTo
  <1>3. trees = [d \in 0 .. MaxNesting |->
                 IF d = 0 THEN {<<>>} ELSE Seq(FieldsWith(trees[d - 1]))]
    BY <1>2
  <1> HIDE DEF trees
  <1>4. MaxNesting \in Nat
    BY NestingAssumption
  <1>5. \A d \in 0 .. MaxNesting :
           trees[d] = IF d = 0 THEN {<<>>} ELSE Seq(FieldsWith(trees[d - 1]))
    BY <1>3, Zenon
  <1>6. 0 \in 0 .. MaxNesting /\ \A d \in 1 .. MaxNesting : d \in 0 .. MaxNesting /\ d # 0
    BY <1>4
  <1> QED  BY <1>1, <1>5, <1>6, Zenon

\* What has fields of some depth has them of any larger one.
LEMMA TreesGrow ==
    \A d \in 1 .. MaxNesting : FieldTrees[d - 1] \subseteq FieldTrees[d]
  <1> DEFINE T == {d \in Nat : d + 1 <= MaxNesting => FieldTrees[d] \subseteq FieldTrees[d + 1]}
  <1> MaxNesting \in Nat
    BY NestingAssumption
  <1>1. 0 \in T
    <2>1. SUFFICES ASSUME 0 + 1 <= MaxNesting
                   PROVE  FieldTrees[0] \subseteq FieldTrees[0 + 1]
      OBVIOUS
    <2>0. 1 \in 1 .. MaxNesting /\ 1 - 1 = 0 /\ 0 + 1 = 1
      BY <2>1
    <2>2. FieldTrees[0] = {<<>>} /\ FieldTrees[1] = Seq(FieldsWith(FieldTrees[0]))
      BY <2>0, FieldTreesDef
    <2>3. <<>> \in Seq(FieldsWith(FieldTrees[0]))
      BY EmptySeq
    <2> QED  BY <2>0, <2>2, <2>3
  <1>2. ASSUME NEW d \in Nat, d \in T
        PROVE  d + 1 \in T
    <2>1. SUFFICES ASSUME d + 2 <= MaxNesting
                   PROVE  FieldTrees[d + 1] \subseteq FieldTrees[d + 2]
      OBVIOUS
    <2>2. FieldTrees[d] \subseteq FieldTrees[d + 1]
      BY <1>2, <2>1
    <2>3. /\ d + 1 \in 1 .. MaxNesting /\ (d + 1) - 1 = d
          /\ d + 2 \in 1 .. MaxNesting /\ (d + 2) - 1 = d + 1
      BY <2>1
    <2>4. /\ FieldTrees[d + 1] = Seq(FieldsWith(FieldTrees[d]))
          /\ FieldTrees[d + 2] = Seq(FieldsWith(FieldTrees[d + 1]))
      BY <2>3, FieldTreesDef
    <2>5. FieldsWith(FieldTrees[d]) \subseteq FieldsWith(FieldTrees[d + 1])
      BY <2>2 DEF FieldsWith
    <2>6. \A S, R : S \subseteq R => Seq(S) \subseteq Seq(R)
      OBVIOUS
    <2> QED  BY <2>4, <2>5, <2>6
  <1> HIDE DEF T
  <1>3. Nat \subseteq T
    BY <1>1, <1>2, NatSetInduction
  <1>4. ASSUME NEW d \in 1 .. MaxNesting
        PROVE  FieldTrees[d - 1] \subseteq FieldTrees[d]
    <2>1. d - 1 \in Nat /\ (d - 1) + 1 = d
      OBVIOUS
    <2>2. d - 1 \in T
      BY <1>3, <2>1
    <2> QED  BY <2>1, <2>2 DEF T
  <1> QED  BY <1>4

\* Fields of a depth, and those of the types inside, one less.
LEMMA TreeParts ==
    ASSUME NEW d \in 0 .. MaxNesting, NEW fields \in FieldTrees[d]
    PROVE  /\ fields \in Seq(FieldsWith(FieldTrees[d]))
           /\ d = 0 => fields = <<>>
           /\ d > 0 => /\ fields \in Seq(FieldsWith(FieldTrees[d - 1]))
                       /\ \A i \in DOMAIN fields : fields[i].fields \in FieldTrees[d - 1]
  <1>1. CASE d = 0
    <2>1. fields = <<>>
      BY <1>1, FieldTreesDef
    <2> QED  BY <1>1, <2>1, EmptySeq
  <1>2. CASE d > 0
    <2>1. d \in 1 .. MaxNesting
      BY <1>2
    <2>2. fields \in Seq(FieldsWith(FieldTrees[d - 1]))
      BY <2>1, FieldTreesDef
    <2>3. FieldTrees[d - 1] \subseteq FieldTrees[d]
      BY <2>1, TreesGrow
    <2>4. FieldsWith(FieldTrees[d - 1]) \subseteq FieldsWith(FieldTrees[d])
      BY <2>3 DEF FieldsWith
    <2>5. \A S, R : S \subseteq R => Seq(S) \subseteq Seq(R)
      OBVIOUS
    <2>6. fields \in Seq(FieldsWith(FieldTrees[d]))
      BY <2>2, <2>4, <2>5
    <2>7. \A i \in DOMAIN fields : fields[i] \in FieldsWith(FieldTrees[d - 1])
      BY <2>2, ElementOfSeq
    <2>8. \A i \in DOMAIN fields : fields[i].fields \in FieldTrees[d - 1]
      BY <2>7 DEF FieldsWith
    <2> QED  BY <1>2, <2>2, <2>6, <2>8
  <1> QED  BY <1>1, <1>2

\* They are all fields of messages.
LEMMA TreesAreFields ==
    /\ \A d \in 0 .. MaxNesting : FieldTrees[d] \subseteq MsgFieldSeqs
    /\ \A d, e \in 0 .. MaxNesting : d <= e => FieldTrees[d] \subseteq FieldTrees[e]
  <1> MaxNesting \in Nat
    BY NestingAssumption
  <1>1. ASSUME NEW d \in 0 .. MaxNesting
        PROVE  \A e \in d .. MaxNesting : FieldTrees[d] \subseteq FieldTrees[e]
    <2> DEFINE T == {k \in Nat : d + k <= MaxNesting => FieldTrees[d] \subseteq FieldTrees[d + k]}
    <2>1. 0 \in T
      <3>1. d + 0 = d
        OBVIOUS
      <3> QED  BY <3>1
    <2>2. ASSUME NEW k \in Nat, k \in T
          PROVE  k + 1 \in T
      <3>1. SUFFICES ASSUME d + (k + 1) <= MaxNesting
                     PROVE  FieldTrees[d] \subseteq FieldTrees[d + (k + 1)]
        OBVIOUS
      <3>2. d + (k + 1) \in 1 .. MaxNesting /\ (d + (k + 1)) - 1 = d + k /\ d + k <= MaxNesting
        BY <3>1
      <3>3. FieldTrees[d] \subseteq FieldTrees[d + k]
        BY <2>2, <3>2
      <3>4. FieldTrees[d + k] \subseteq FieldTrees[d + (k + 1)]
        BY <3>2, TreesGrow
      <3> QED  BY <3>3, <3>4
    <2> HIDE DEF T
    <2>3. Nat \subseteq T
      BY <2>1, <2>2, NatSetInduction
    <2>4. ASSUME NEW e \in d .. MaxNesting
          PROVE  FieldTrees[d] \subseteq FieldTrees[e]
      <3>1. e - d \in Nat /\ d + (e - d) = e /\ e <= MaxNesting
        OBVIOUS
      <3>2. e - d \in T
        BY <2>3, <3>1
      <3> QED  BY <3>1, <3>2 DEF T
    <2> QED  BY <2>4
  <1>2. \A d, e \in 0 .. MaxNesting : d <= e => FieldTrees[d] \subseteq FieldTrees[e]
    <2>1. ASSUME NEW d \in 0 .. MaxNesting, NEW e \in 0 .. MaxNesting, d <= e
          PROVE  FieldTrees[d] \subseteq FieldTrees[e]
      <3>1. e \in d .. MaxNesting
        BY <2>1
      <3> QED  BY <1>1, <3>1
    <2> QED  BY <2>1
  <1>3. MaxNesting \in 0 .. MaxNesting /\ \A d \in 0 .. MaxNesting : d <= MaxNesting
    OBVIOUS
  <1> QED  BY <1>2, <1>3 DEF MsgFieldSeqs

-----------------------------------------------------------------------------
(* What is written for the fields of a type                                *)

\* What UserCStructs does with the members, by the function itself.
InnerStructs(g, fields) ==
    [i \in DOMAIN fields |-> IF IsNested(fields[i]) THEN g[fields[i].fields][fields[i].type]
                             ELSE Same(Outputs(CStructs))]

StructBegun(out, type) == [emitted |-> out.emitted \cup {StructName(type)}, text |-> out.text]

StructsFrom(g, fields) == [type \in Types |-> [out \in Outputs(CStructs) |->
    LET inside == Loop(InnerStructs(g, fields), StructBegun(out, type), Len(fields))
    IN  IF StructName(type) \in out.emitted THEN out
        ELSE [emitted |-> inside.emitted,
              text |-> Placed(out.text, inside.text, CStruct(type, fields))]]]

\* The structs of fields of a depth.
StructsUpTo(g, d) == g = [fields \in FieldTrees[d] |-> StructsFrom(g, fields)]

\* It depends on what the function is for the members only.
LEMMA StructsByMembers ==
    ASSUME NEW g, NEW h, NEW fields,
           \A i \in DOMAIN fields : g[fields[i].fields] = h[fields[i].fields]
    PROVE  StructsFrom(g, fields) = StructsFrom(h, fields)
  <1>1. InnerStructs(g, fields) = InnerStructs(h, fields)
    BY DEF InnerStructs
  <1> QED  BY <1>1, Zenon DEF StructsFrom

\* There is a function that has them.
LEMMA StructFunctionExists ==
    ASSUME NEW d \in 0 .. MaxNesting
    PROVE  \E g : StructsUpTo(g, d)
  <1> DEFINE T == {m \in Nat : m <= MaxNesting => \E g : StructsUpTo(g, m)}
  <1> MaxNesting \in Nat
    BY NestingAssumption
  <1>1. 0 \in T
    <2> DEFINE g == [fields \in FieldTrees[0] |-> StructsFrom(<<>>, fields)]
    <2>1. ASSUME NEW fields \in FieldTrees[0]
          PROVE  g[fields] = StructsFrom(g, fields)
      <3>1. 0 \in 0 .. MaxNesting
        OBVIOUS
      <3>2. fields = <<>>
        BY <3>1, TreeParts
      <3>3. \A i \in DOMAIN fields : <<>>[fields[i].fields] = g[fields[i].fields]
        BY <3>2
      <3>4. g[fields] = StructsFrom(<<>>, fields)
        OBVIOUS
      <3> HIDE DEF g
      <3>5. StructsFrom(<<>>, fields) = StructsFrom(g, fields)
        BY <3>3, StructsByMembers
      <3> QED  BY <3>4, <3>5
    <2>2. g = [fields \in FieldTrees[0] |-> g[fields]]
      OBVIOUS
    <2> HIDE DEF g
    <2>3. g = [fields \in FieldTrees[0] |-> StructsFrom(g, fields)]
      BY <2>1, <2>2
    <2> QED  BY <2>3 DEF StructsUpTo
  <1>2. ASSUME NEW m \in Nat, m \in T
        PROVE  m + 1 \in T
    <2>1. SUFFICES ASSUME m + 1 <= MaxNesting PROVE \E g : StructsUpTo(g, m + 1)
      OBVIOUS
    <2>2. PICK h : StructsUpTo(h, m)
      BY <1>2, <2>1
    <2> DEFINE g == [fields \in FieldTrees[m + 1] |-> StructsFrom(h, fields)]
    <2>3. m + 1 \in 1 .. MaxNesting /\ (m + 1) - 1 = m /\ m + 1 \in 0 .. MaxNesting /\ m + 1 > 0
      BY <2>1
    <2>4. \A fields \in FieldTrees[m] : h[fields] = StructsFrom(h, fields)
      BY <2>2, Zenon DEF StructsUpTo
    <2>5. FieldTrees[m] \subseteq FieldTrees[m + 1]
      BY <2>3, TreesGrow
    <2>6. \A fields \in FieldTrees[m] : g[fields] = h[fields]
      BY <2>4, <2>5
    <2>7. ASSUME NEW fields \in FieldTrees[m + 1]
          PROVE  g[fields] = StructsFrom(g, fields)
      <3>1. \A i \in DOMAIN fields : fields[i].fields \in FieldTrees[m]
        BY <2>3, TreeParts
      <3>2. g[fields] = StructsFrom(h, fields)
        OBVIOUS
      <3> HIDE DEF g
      <3>3. \A i \in DOMAIN fields : h[fields[i].fields] = g[fields[i].fields]
        BY <2>6, <3>1
      <3>4. StructsFrom(h, fields) = StructsFrom(g, fields)
        BY <3>3, StructsByMembers
      <3> QED  BY <3>2, <3>4
    <2>8. g = [fields \in FieldTrees[m + 1] |-> g[fields]]
      OBVIOUS
    <2> HIDE DEF g
    <2>9. g = [fields \in FieldTrees[m + 1] |-> StructsFrom(g, fields)]
      BY <2>7, <2>8
    <2> QED  BY <2>9 DEF StructsUpTo
  <1> HIDE DEF T
  <1>3. d \in T /\ d <= MaxNesting
    BY <1>1, <1>2, NatSetInduction
  <1> QED  BY <1>3 DEF T

\* So UserCStructs is what its definition says.
LEMMA UserCStructsDef ==
    \A fields \in MsgFieldSeqs : UserCStructs[fields] = StructsFrom(UserCStructs, fields)
  <1> DEFINE g == CHOOSE g : StructsUpTo(g, MaxNesting)
  <1>1. UserCStructs = g
    BY DEF UserCStructs, StructsUpTo, StructsFrom, InnerStructs, StructBegun, MsgFieldSeqs
  <1>2. StructsUpTo(g, MaxNesting)
    <2>1. MaxNesting \in 0 .. MaxNesting
      BY NestingAssumption
    <2> QED  BY <2>1, StructFunctionExists
  <1> HIDE DEF g
  <1>3. \A fields \in MsgFieldSeqs : g[fields] = StructsFrom(g, fields)
    BY <1>2, Zenon DEF StructsUpTo, MsgFieldSeqs
  <1> QED  BY <1>1, <1>3, Zenon
\* The same of SerdeFunctions.
InnerSerdes(g, fields) ==
    [i \in DOMAIN fields |-> IF IsNested(fields[i])
                             THEN g[fields[i].fields][PrefixOf(StructName(fields[i].type))]
                             ELSE Same(Outputs(Serdes))]

SerdeBegun(out, prefix) == [emitted |-> out.emitted \cup {prefix}, text |-> out.text]

SerdesFrom(g, fields) == [prefix \in Types |-> [out \in Outputs(Serdes) |->
    LET inside == Loop(InnerSerdes(g, fields), SerdeBegun(out, prefix), Len(fields))
    IN  IF prefix \in out.emitted THEN out
        ELSE [emitted |-> inside.emitted,
              text |-> Append(inside.text, Serde(prefix, fields))]]]

\* The serialisers of fields of a depth.
SerdesUpTo(g, d) == g = [fields \in FieldTrees[d] |-> SerdesFrom(g, fields)]

\* It depends on what the function is for the members only.
LEMMA SerdesByMembers ==
    ASSUME NEW g, NEW h, NEW fields,
           \A i \in DOMAIN fields : g[fields[i].fields] = h[fields[i].fields]
    PROVE  SerdesFrom(g, fields) = SerdesFrom(h, fields)
  <1>1. InnerSerdes(g, fields) = InnerSerdes(h, fields)
    BY DEF InnerSerdes
  <1> QED  BY <1>1, Zenon DEF SerdesFrom

\* There is a function that has them.
LEMMA SerdeFunctionExists ==
    ASSUME NEW d \in 0 .. MaxNesting
    PROVE  \E g : SerdesUpTo(g, d)
  <1> DEFINE T == {m \in Nat : m <= MaxNesting => \E g : SerdesUpTo(g, m)}
  <1> MaxNesting \in Nat
    BY NestingAssumption
  <1>1. 0 \in T
    <2> DEFINE g == [fields \in FieldTrees[0] |-> SerdesFrom(<<>>, fields)]
    <2>1. ASSUME NEW fields \in FieldTrees[0]
          PROVE  g[fields] = SerdesFrom(g, fields)
      <3>1. 0 \in 0 .. MaxNesting
        OBVIOUS
      <3>2. fields = <<>>
        BY <3>1, TreeParts
      <3>3. \A i \in DOMAIN fields : <<>>[fields[i].fields] = g[fields[i].fields]
        BY <3>2
      <3>4. g[fields] = SerdesFrom(<<>>, fields)
        OBVIOUS
      <3> HIDE DEF g
      <3>5. SerdesFrom(<<>>, fields) = SerdesFrom(g, fields)
        BY <3>3, SerdesByMembers
      <3> QED  BY <3>4, <3>5
    <2>2. g = [fields \in FieldTrees[0] |-> g[fields]]
      OBVIOUS
    <2> HIDE DEF g
    <2>3. g = [fields \in FieldTrees[0] |-> SerdesFrom(g, fields)]
      BY <2>1, <2>2
    <2> QED  BY <2>3 DEF SerdesUpTo
  <1>2. ASSUME NEW m \in Nat, m \in T
        PROVE  m + 1 \in T
    <2>1. SUFFICES ASSUME m + 1 <= MaxNesting PROVE \E g : SerdesUpTo(g, m + 1)
      OBVIOUS
    <2>2. PICK h : SerdesUpTo(h, m)
      BY <1>2, <2>1
    <2> DEFINE g == [fields \in FieldTrees[m + 1] |-> SerdesFrom(h, fields)]
    <2>3. m + 1 \in 1 .. MaxNesting /\ (m + 1) - 1 = m /\ m + 1 \in 0 .. MaxNesting /\ m + 1 > 0
      BY <2>1
    <2>4. \A fields \in FieldTrees[m] : h[fields] = SerdesFrom(h, fields)
      BY <2>2, Zenon DEF SerdesUpTo
    <2>5. FieldTrees[m] \subseteq FieldTrees[m + 1]
      BY <2>3, TreesGrow
    <2>6. \A fields \in FieldTrees[m] : g[fields] = h[fields]
      BY <2>4, <2>5
    <2>7. ASSUME NEW fields \in FieldTrees[m + 1]
          PROVE  g[fields] = SerdesFrom(g, fields)
      <3>1. \A i \in DOMAIN fields : fields[i].fields \in FieldTrees[m]
        BY <2>3, TreeParts
      <3>2. g[fields] = SerdesFrom(h, fields)
        OBVIOUS
      <3> HIDE DEF g
      <3>3. \A i \in DOMAIN fields : h[fields[i].fields] = g[fields[i].fields]
        BY <2>6, <3>1
      <3>4. SerdesFrom(h, fields) = SerdesFrom(g, fields)
        BY <3>3, SerdesByMembers
      <3> QED  BY <3>2, <3>4
    <2>8. g = [fields \in FieldTrees[m + 1] |-> g[fields]]
      OBVIOUS
    <2> HIDE DEF g
    <2>9. g = [fields \in FieldTrees[m + 1] |-> SerdesFrom(g, fields)]
      BY <2>7, <2>8
    <2> QED  BY <2>9 DEF SerdesUpTo
  <1> HIDE DEF T
  <1>3. d \in T /\ d <= MaxNesting
    BY <1>1, <1>2, NatSetInduction
  <1> QED  BY <1>3 DEF T

\* So SerdeFunctions is what its definition says.
LEMMA SerdeFunctionsDef ==
    \A fields \in MsgFieldSeqs : SerdeFunctions[fields] = SerdesFrom(SerdeFunctions, fields)
  <1> DEFINE g == CHOOSE g : SerdesUpTo(g, MaxNesting)
  <1>1. SerdeFunctions = g
    BY DEF SerdeFunctions, SerdesUpTo, SerdesFrom, InnerSerdes, SerdeBegun, MsgFieldSeqs
  <1>2. SerdesUpTo(g, MaxNesting)
    <2>1. MaxNesting \in 0 .. MaxNesting
      BY NestingAssumption
    <2> QED  BY <2>1, SerdeFunctionExists
  <1> HIDE DEF g
  <1>3. \A fields \in MsgFieldSeqs : g[fields] = SerdesFrom(g, fields)
    BY <1>2, Zenon DEF SerdesUpTo, MsgFieldSeqs
  <1> QED  BY <1>1, <1>3, Zenon

\* A name with "_t" behind it, and without.
LEMMA NamesOfTypes ==
    ASSUME NEW type \in Types
    PROVE  /\ StructName(type) \in Types
           /\ PrefixOf(StructName(type)) = type
           /\ \A t \in Types : StructName(t) = StructName(type) => t = type
  <1>1. "_t" \in STRING
    BY NamesAreStrings
  <1>2. StructName(type) \in Types
    BY <1>1, AppendProperties DEF StructName, Types
  <1>3. \A t \in Types : PrefixOf(StructName(t)) = t
    <2>1. ASSUME NEW t \in Types
          PROVE  PrefixOf(StructName(t)) = t
      <3>1. t \in Seq(STRING) /\ "_t" \in STRING
        BY <1>1 DEF Types
      <3>2. /\ Append(t, "_t") \in Seq(STRING) /\ Len(Append(t, "_t")) = Len(t) + 1
            /\ \A i \in 1 .. Len(t) : Append(t, "_t")[i] = t[i]
        BY <3>1, AppendProperties
      <3>3. Len(t) \in Nat
        BY <3>1, LenProperties
      <3>4. PrefixOf(StructName(t)) = SubSeq(Append(t, "_t"), 1, Len(Append(t, "_t")) - 1)
        BY DEF PrefixOf, StructName, Front
      <3>5. Len(Append(t, "_t")) - 1 = Len(t)
        BY <3>2, <3>3
      <3>6. SubSeq(Append(t, "_t"), 1, Len(t)) = t
        <4> DEFINE u == Append(t, "_t")
        <4>1. 1 \in 1 .. Len(u) + 1 /\ Len(t) \in 1 - 1 .. Len(u)
          BY <3>2, <3>3
        <4>2. u \in Seq(STRING) /\ Len(u) = Len(t) + 1 /\ \A i \in 1 .. Len(t) : u[i] = t[i]
          BY <3>2
        <4> HIDE DEF u
        <4>3. /\ SubSeq(u, 1, Len(t)) \in Seq(STRING)
              /\ Len(SubSeq(u, 1, Len(t))) = Len(t)
              /\ \A i \in 1 .. Len(t) : SubSeq(u, 1, Len(t))[i] = u[i]
          BY <4>2, <3>3
        <4>4. SubSeq(u, 1, Len(t)) = t
          BY <4>2, <4>3, <3>1, SeqEqual
        <4> QED  BY <4>4 DEF u
      <3> QED  BY <3>4, <3>5, <3>6
    <2> QED  BY <2>1
  <1> QED  BY <1>2, <1>3, Zenon

\* The field of a message.
LEMMA FieldOfMsg ==
    ASSUME NEW fields \in MsgFieldSeqs
    PROVE  /\ Len(fields) \in Nat /\ DOMAIN fields = 1 .. Len(fields)
           /\ \A i \in 1 .. Len(fields) :
                 /\ fields[i].name \in STRING /\ fields[i].type \in Types
                 /\ fields[i].prim \in Prims \cup {"nested"}
                 /\ fields[i].array \in Seq(Nat)
                 /\ IsNested(fields[i]) => fields[i].fields \in MsgFieldSeqs
  <1>1. MaxNesting \in Nat /\ MaxNesting \in 0 .. MaxNesting
    BY NestingAssumption
  <1>2. fields \in Seq(FieldsWith(FieldTrees[MaxNesting]))
    BY <1>1, TreeParts DEF MsgFieldSeqs
  <1>3. Len(fields) \in Nat /\ DOMAIN fields = 1 .. Len(fields)
    BY <1>2, LenProperties
  <1>4. \A i \in 1 .. Len(fields) : fields[i] \in FieldsWith(FieldTrees[MaxNesting])
    BY <1>2, ElementOfSeq
  <1> QED  BY <1>3, <1>4 DEF FieldsWith, MsgFieldSeqs

\* A struct has its type.
LEMMA CStructIsTyped ==
    ASSUME NEW type \in Types, NEW fields \in MsgFieldSeqs
    PROVE  CStruct(type, fields) \in CStructs
  <1> DEFINE Member(f) ==
                 IF IsNested(f)
                 THEN [ctype |-> StructName(f.type), name |-> f.name, array |-> f.array]
                 ELSE [ctype |-> <<CType(f.prim)>>, name |-> f.name,
                       array |-> IF f.prim = "string" /\ f.array = <<>>
                                 THEN <<StringMaxBytes>> ELSE f.array]
             Members == [ctype : Types, name : STRING, array : Seq(Nat)]
  <1>1. Len(fields) \in Nat /\ DOMAIN fields = 1 .. Len(fields)
    BY FieldOfMsg
  <1>2. ASSUME NEW f, f.name \in STRING, f.type \in Types, f.array \in Seq(Nat),
               f.prim \in Prims \cup {"nested"}
        PROVE  Member(f) \in Members
    <2>1. StructName(f.type) \in Types
      BY <1>2, NamesOfTypes
    <2>2. ~IsNested(f) => <<CType(f.prim)>> \in Types
      BY <1>2, NamesAreStrings DEF IsNested, Types
    <2>3. <<StringMaxBytes>> \in Seq(Nat)
      BY StringAssumption
    <2>4. CASE IsNested(f)
      BY <2>4, <1>2, <2>1
    <2>5. CASE ~IsNested(f)
      BY <2>5, <1>2, <2>2, <2>3
    <2> QED  BY <2>4, <2>5
  <1> HIDE DEF Members
  <1>3. CStruct(type, fields) = [name |-> StructName(type),
                                 members |-> [i \in 1 .. Len(fields) |-> Member(fields[i])]]
    BY <1>1 DEF CStruct
  <1> HIDE DEF Member
  <1>4. [i \in 1 .. Len(fields) |-> Member(fields[i])] \in [1 .. Len(fields) -> Members]
    BY <1>2, FieldOfMsg
  <1>5. [i \in 1 .. Len(fields) |-> Member(fields[i])] \in Seq(Members)
    BY <1>1, <1>4, SeqDef
  <1>6. StructName(type) \in Types
    BY NamesOfTypes
  <1> QED  BY <1>3, <1>5, <1>6 DEF CStructs, Members

\* And so is a serialiser.
LEMMA SerdeIsTyped ==
    ASSUME NEW prefix \in Types, NEW fields \in MsgFieldSeqs
    PROVE  Serde(prefix, fields) \in Serdes
  <1>1. Len(fields) \in Nat /\ DOMAIN fields = 1 .. Len(fields)
    BY FieldOfMsg
  <1>2. ASSUME NEW i \in 1 .. Len(fields)
        PROVE  SerializeCall(fields[i]) \in Calls /\ DeserializeCall(fields[i]) \in Calls
    <2> DEFINE f == fields[i]
    <2>1. /\ f.name \in STRING /\ f.type \in Types /\ f.array \in Seq(Nat)
          /\ f.prim \in Prims \cup {"nested"}
      BY FieldOfMsg
    <2> HIDE DEF f
    <2>2. PrefixOf(StructName(f.type)) \in Types
      BY <2>1, NamesOfTypes
    <2>3. ~IsNested(f) => <<f.prim>> \in Types
      BY <2>1, NamesAreStrings DEF IsNested, Types
    <2>4. Times(f) \in Nat
      BY <2>1 DEF Times
    <2>5. SerializeCall(f) \in Calls
      BY <2>2, <2>3, <2>4 DEF SerializeCall, Calls
    <2>6. DeserializeCall(f) \in Calls
      <3>1. CASE f.prim = "string" /\ f.array = <<>>
        <4>1. ~IsNested(f)
          BY <3>1 DEF IsNested
        <4>2. <<"string">> \in Types
          BY <2>3, <3>1, <4>1
        <4> QED  BY <3>1, <4>2, StringAssumption DEF DeserializeCall, Calls
      <3>2. CASE ~ (f.prim = "string" /\ f.array = <<>>)
        BY <2>5, <3>2 DEF DeserializeCall
      <3> QED  BY <3>1, <3>2
    <2> QED  BY <2>5, <2>6 DEF f
  <1>3. /\ [i \in 1 .. Len(fields) |-> SerializeCall(fields[i])] \in [1 .. Len(fields) -> Calls]
        /\ [i \in 1 .. Len(fields) |-> DeserializeCall(fields[i])] \in [1 .. Len(fields) -> Calls]
    BY <1>2
  <1>4. /\ [i \in 1 .. Len(fields) |-> SerializeCall(fields[i])] \in Seq(Calls)
        /\ [i \in 1 .. Len(fields) |-> DeserializeCall(fields[i])] \in Seq(Calls)
    BY <1>1, <1>3, SeqDef
  <1>5. Serde(prefix, fields)
            = [prefix |-> prefix,
               serialize |-> [i \in 1 .. Len(fields) |-> SerializeCall(fields[i])],
               deserialize |-> [i \in 1 .. Len(fields) |-> DeserializeCall(fields[i])]]
    BY <1>1 DEF Serde
  <1> QED  BY <1>4, <1>5 DEF Serdes

\* What it writes are structs.
LEMMA StructsStay ==
    \A fields \in MsgFieldSeqs :
        UserCStructs[fields] \in [Types -> [Outputs(CStructs) -> Outputs(CStructs)]]
  <1> DEFINE Passes1 == [Types -> [Outputs(CStructs) -> Outputs(CStructs)]]
             T == {d \in Nat : d <= MaxNesting =>
                        \A fields \in FieldTrees[d] : UserCStructs[fields] \in Passes1}
  <1> MaxNesting \in Nat
    BY NestingAssumption
  <1>1. ASSUME NEW d \in 0 .. MaxNesting, NEW fields \in FieldTrees[d],
               \A i \in DOMAIN fields : UserCStructs[fields[i].fields] \in Passes1
        PROVE  UserCStructs[fields] \in Passes1
    <2>1. fields \in MsgFieldSeqs
      BY TreesAreFields
    <2>2. /\ Len(fields) \in Nat /\ DOMAIN fields = 1 .. Len(fields)
          /\ \A i \in 1 .. Len(fields) : fields[i].type \in Types
      BY <2>1, FieldOfMsg
    <2>3. \A i \in 1 .. Len(fields) :
             InnerStructs(UserCStructs, fields)[i] \in [Outputs(CStructs) -> Outputs(CStructs)]
      <3>1. Same(Outputs(CStructs)) \in [Outputs(CStructs) -> Outputs(CStructs)]
        BY DEF Same
      <3>2. ASSUME NEW i \in 1 .. Len(fields)
            PROVE  InnerStructs(UserCStructs, fields)[i]
                       \in [Outputs(CStructs) -> Outputs(CStructs)]
        <4>1. UserCStructs[fields[i].fields] \in Passes1 /\ fields[i].type \in Types
          BY <1>1, <2>2
        <4>2. UserCStructs[fields[i].fields][fields[i].type]
                  \in [Outputs(CStructs) -> Outputs(CStructs)]
          BY <4>1
        <4>3. InnerStructs(UserCStructs, fields)[i]
                  = IF IsNested(fields[i])
                    THEN UserCStructs[fields[i].fields][fields[i].type]
                    ELSE Same(Outputs(CStructs))
          BY <2>2 DEF InnerStructs
        <4> QED  BY <3>1, <4>2, <4>3
      <3> QED  BY <3>2
    <2> DEFINE Step(type, out) ==
                   LET inside == Loop(InnerStructs(UserCStructs, fields),
                                      StructBegun(out, type), Len(fields))
                   IN  IF StructName(type) \in out.emitted THEN out
                       ELSE [emitted |-> inside.emitted,
                             text |-> Placed(out.text, inside.text, CStruct(type, fields))]
    <2>4. ASSUME NEW type \in Types, NEW out \in Outputs(CStructs)
          PROVE  Step(type, out) \in Outputs(CStructs)
      <3> DEFINE inside == Loop(InnerStructs(UserCStructs, fields),
                                StructBegun(out, type), Len(fields))
      <3>1. StructBegun(out, type) \in Outputs(CStructs)
        BY NamesOfTypes DEF StructBegun, Outputs
      <3>2. inside \in Outputs(CStructs)
        BY <2>2, <2>3, <3>1, LoopStays
      <3> HIDE DEF inside
      <3>3. CStruct(type, fields) \in CStructs
        BY <2>1, CStructIsTyped
      <3>4. Append(inside.text, CStruct(type, fields)) \in Seq(CStructs)
        BY <3>2, <3>3, AppendProperties DEF Outputs
      <3>5. [emitted |-> inside.emitted,
             text |-> Append(inside.text, CStruct(type, fields))] \in Outputs(CStructs)
        BY <3>2, <3>4 DEF Outputs
      <3>6. [emitted |-> inside.emitted,
             text |-> Placed(out.text, inside.text, CStruct(type, fields))] \in Outputs(CStructs)
        BY <3>5 DEF Placed
      <3> QED  BY <3>6 DEF inside
    <2>5. UserCStructs[fields]
              = [type \in Types |-> [out \in Outputs(CStructs) |-> Step(type, out)]]
      BY <2>1, UserCStructsDef, Zenon DEF StructsFrom
    <2> HIDE DEF Step
    <2> QED  BY <2>4, <2>5
  <1> HIDE DEF Passes1
  <1>2. 0 \in T
    <2>1. ASSUME NEW fields \in FieldTrees[0]
          PROVE  UserCStructs[fields] \in Passes1
      <3>1. 0 \in 0 .. MaxNesting
        OBVIOUS
      <3>2. fields = <<>>
        BY <3>1, TreeParts
      <3>3. \A i \in DOMAIN fields : UserCStructs[fields[i].fields] \in Passes1
        BY <3>2
      <3> QED  BY <1>1, <3>1, <3>3
    <2> QED  BY <2>1
  <1>3. ASSUME NEW d \in Nat, d \in T
        PROVE  d + 1 \in T
    <2>1. SUFFICES ASSUME d + 1 <= MaxNesting, NEW fields \in FieldTrees[d + 1]
                   PROVE  UserCStructs[fields] \in Passes1
      OBVIOUS
    <2>2. d + 1 \in 0 .. MaxNesting /\ d + 1 > 0 /\ (d + 1) - 1 = d /\ d <= MaxNesting
      BY <2>1
    <2>3. \A i \in DOMAIN fields : fields[i].fields \in FieldTrees[d]
      BY <2>1, <2>2, TreeParts
    <2>4. \A i \in DOMAIN fields : UserCStructs[fields[i].fields] \in Passes1
      BY <1>3, <2>2, <2>3
    <2> QED  BY <1>1, <2>1, <2>2, <2>4
  <1> HIDE DEF T
  <1>4. MaxNesting \in T
    BY <1>2, <1>3, NatSetInduction
  <1> QED  BY <1>4 DEF T, Passes1, MsgFieldSeqs

\* What it writes are functions.
LEMMA SerdesStay ==
    \A fields \in MsgFieldSeqs :
        SerdeFunctions[fields] \in [Types -> [Outputs(Serdes) -> Outputs(Serdes)]]
  <1> DEFINE Passes1 == [Types -> [Outputs(Serdes) -> Outputs(Serdes)]]
             T == {d \in Nat : d <= MaxNesting =>
                        \A fields \in FieldTrees[d] : SerdeFunctions[fields] \in Passes1}
  <1> MaxNesting \in Nat
    BY NestingAssumption
  <1>1. ASSUME NEW d \in 0 .. MaxNesting, NEW fields \in FieldTrees[d],
               \A i \in DOMAIN fields : SerdeFunctions[fields[i].fields] \in Passes1
        PROVE  SerdeFunctions[fields] \in Passes1
    <2>1. fields \in MsgFieldSeqs
      BY TreesAreFields
    <2>2. /\ Len(fields) \in Nat /\ DOMAIN fields = 1 .. Len(fields)
          /\ \A i \in 1 .. Len(fields) : fields[i].type \in Types
      BY <2>1, FieldOfMsg
    <2>3. \A i \in 1 .. Len(fields) :
             InnerSerdes(SerdeFunctions, fields)[i] \in [Outputs(Serdes) -> Outputs(Serdes)]
      <3>1. Same(Outputs(Serdes)) \in [Outputs(Serdes) -> Outputs(Serdes)]
        BY DEF Same
      <3>2. ASSUME NEW i \in 1 .. Len(fields)
            PROVE  InnerSerdes(SerdeFunctions, fields)[i]
                       \in [Outputs(Serdes) -> Outputs(Serdes)]
        <4>1. SerdeFunctions[fields[i].fields] \in Passes1 /\ fields[i].type \in Types
          BY <1>1, <2>2
        <4>0. PrefixOf(StructName(fields[i].type)) \in Types
          BY <4>1, NamesOfTypes
        <4>2. SerdeFunctions[fields[i].fields][PrefixOf(StructName(fields[i].type))]
                  \in [Outputs(Serdes) -> Outputs(Serdes)]
          BY <4>1, <4>0
        <4>3. InnerSerdes(SerdeFunctions, fields)[i]
                  = IF IsNested(fields[i])
                    THEN SerdeFunctions[fields[i].fields][PrefixOf(StructName(fields[i].type))]
                    ELSE Same(Outputs(Serdes))
          BY <2>2 DEF InnerSerdes
        <4> QED  BY <3>1, <4>2, <4>3
      <3> QED  BY <3>2
    <2> DEFINE Step(type, out) ==
                   LET inside == Loop(InnerSerdes(SerdeFunctions, fields),
                                      SerdeBegun(out, type), Len(fields))
                   IN  IF type \in out.emitted THEN out
                       ELSE [emitted |-> inside.emitted,
                             text |-> Append(inside.text, Serde(type, fields))]
    <2>4. ASSUME NEW type \in Types, NEW out \in Outputs(Serdes)
          PROVE  Step(type, out) \in Outputs(Serdes)
      <3> DEFINE inside == Loop(InnerSerdes(SerdeFunctions, fields),
                                SerdeBegun(out, type), Len(fields))
      <3>1. SerdeBegun(out, type) \in Outputs(Serdes)
        BY DEF SerdeBegun, Outputs
      <3>2. inside \in Outputs(Serdes)
        BY <2>2, <2>3, <3>1, LoopStays
      <3> HIDE DEF inside
      <3>3. Serde(type, fields) \in Serdes
        BY <2>1, SerdeIsTyped
      <3>4. Append(inside.text, Serde(type, fields)) \in Seq(Serdes)
        BY <3>2, <3>3, AppendProperties DEF Outputs
      <3>5. [emitted |-> inside.emitted,
             text |-> Append(inside.text, Serde(type, fields))] \in Outputs(Serdes)
        BY <3>2, <3>4 DEF Outputs
      <3>6. [emitted |-> inside.emitted,
             text |-> Append(inside.text, Serde(type, fields))] \in Outputs(Serdes)
        BY <3>5
      <3> QED  BY <3>6 DEF inside
    <2>5. SerdeFunctions[fields]
              = [type \in Types |-> [out \in Outputs(Serdes) |-> Step(type, out)]]
      BY <2>1, SerdeFunctionsDef, Zenon DEF SerdesFrom
    <2> HIDE DEF Step
    <2> QED  BY <2>4, <2>5
  <1> HIDE DEF Passes1
  <1>2. 0 \in T
    <2>1. ASSUME NEW fields \in FieldTrees[0]
          PROVE  SerdeFunctions[fields] \in Passes1
      <3>1. 0 \in 0 .. MaxNesting
        OBVIOUS
      <3>2. fields = <<>>
        BY <3>1, TreeParts
      <3>3. \A i \in DOMAIN fields : SerdeFunctions[fields[i].fields] \in Passes1
        BY <3>2
      <3> QED  BY <1>1, <3>1, <3>3
    <2> QED  BY <2>1
  <1>3. ASSUME NEW d \in Nat, d \in T
        PROVE  d + 1 \in T
    <2>1. SUFFICES ASSUME d + 1 <= MaxNesting, NEW fields \in FieldTrees[d + 1]
                   PROVE  SerdeFunctions[fields] \in Passes1
      OBVIOUS
    <2>2. d + 1 \in 0 .. MaxNesting /\ d + 1 > 0 /\ (d + 1) - 1 = d /\ d <= MaxNesting
      BY <2>1
    <2>3. \A i \in DOMAIN fields : fields[i].fields \in FieldTrees[d]
      BY <2>1, <2>2, TreeParts
    <2>4. \A i \in DOMAIN fields : SerdeFunctions[fields[i].fields] \in Passes1
      BY <1>3, <2>2, <2>3
    <2> QED  BY <1>1, <2>1, <2>2, <2>4
  <1> HIDE DEF T
  <1>4. MaxNesting \in T
    BY <1>2, <1>3, NatSetInduction
  <1> QED  BY <1>4 DEF T, Passes1, MsgFieldSeqs

-----------------------------------------------------------------------------
(* Every type once, and behind those inside it                             *)

\* K has the fields of each type of M, and those carry those of the types inside.
Closed(M, K) ==
    /\ M \subseteq Types
    /\ \A A \in M :
          /\ K[A] \in MsgFieldSeqs
          /\ \A i \in DOMAIN K[A] : IsNested(K[A][i]) =>
                K[A][i].type \in M /\ K[A][i].fields = K[K[A][i].type]

\* Types, each once and behind those inside it.
Ordered(ts, M, K) ==
    /\ ts \in Seq(M)
    /\ \A i, j \in DOMAIN ts : ts[i] = ts[j] => i = j
    /\ \A i \in DOMAIN ts : \A k \in DOMAIN K[ts[i]] :
          IsNested(K[ts[i]][k]) => \E j \in 1 .. (i - 1) : ts[j] = K[ts[i]][k].type

\* What is there when those of `ts' are written and those of `open' begun.
StructsOut(open, ts, K) ==
    [emitted |-> {StructName(t) : t \in open \cup Range(ts)},
     text |-> [i \in DOMAIN ts |-> CStruct(ts[i], K[ts[i]])]]

SerdeOut(open, ts, K) ==
    [emitted |-> open \cup Range(ts),
     text |-> [i \in DOMAIN ts |-> Serde(ts[i], K[ts[i]])]]

\* Coming to A takes the outputs from ts to us.
Emits(A, open, ts, us, M, K) ==
    /\ Ordered(us, M, K)
    /\ Range(ts) \cup {A} \subseteq Range(us) /\ Range(us) \cap open = {}
    /\ UserCStructs[K[A]][A][StructsOut(open, ts, K)] = StructsOut(open, us, K)
    /\ SerdeFunctions[K[A]][A][SerdeOut(open, ts, K)] = SerdeOut(open, us, K)

\* The outputs have their types.
LEMMA OutIsTyped ==
    ASSUME NEW M, NEW K, Closed(M, K), NEW ts, Ordered(ts, M, K), NEW open \in SUBSET M
    PROVE  /\ StructsOut(open, ts, K) \in Outputs(CStructs)
           /\ SerdeOut(open, ts, K) \in Outputs(Serdes)
           /\ Len(ts) \in Nat /\ DOMAIN ts = 1 .. Len(ts)
           /\ Range(ts) \subseteq M
  <1>1. ts \in Seq(M)
    BY DEF Ordered
  <1>2. Len(ts) \in Nat /\ DOMAIN ts = 1 .. Len(ts) /\ \A i \in 1 .. Len(ts) : ts[i] \in M
    BY <1>1, LenProperties, ElementOfSeq
  <1>3. Range(ts) \subseteq M
    BY <1>2 DEF Range
  <1>4. open \cup Range(ts) \subseteq Types
    BY <1>3 DEF Closed
  <1>5. \A i \in 1 .. Len(ts) : ts[i] \in Types /\ K[ts[i]] \in MsgFieldSeqs
    BY <1>2 DEF Closed
  <1>6. [i \in 1 .. Len(ts) |-> CStruct(ts[i], K[ts[i]])] \in [1 .. Len(ts) -> CStructs]
    BY <1>5, CStructIsTyped
  <1>7. [i \in 1 .. Len(ts) |-> Serde(ts[i], K[ts[i]])] \in [1 .. Len(ts) -> Serdes]
    BY <1>5, SerdeIsTyped
  <1>8. /\ [i \in 1 .. Len(ts) |-> CStruct(ts[i], K[ts[i]])] \in Seq(CStructs)
        /\ [i \in 1 .. Len(ts) |-> Serde(ts[i], K[ts[i]])] \in Seq(Serdes)
    BY <1>2, <1>6, <1>7, SeqDef
  <1>9. {StructName(t) : t \in open \cup Range(ts)} \subseteq Types
    BY <1>4, NamesOfTypes
  <1>10. StructsOut(open, ts, K) \in Outputs(CStructs)
    BY <1>2, <1>8, <1>9 DEF StructsOut, Outputs
  <1>11. SerdeOut(open, ts, K) \in Outputs(Serdes)
    BY <1>2, <1>4, <1>8 DEF SerdeOut, Outputs
  <1> QED  BY <1>2, <1>3, <1>10, <1>11

\* One more at the end.
LEMMA MappedAppend ==
    ASSUME NEW S, NEW s \in Seq(S), NEW x \in S, NEW f
    PROVE  /\ DOMAIN Append(s, x) = 1 .. Len(s) + 1 /\ DOMAIN s = 1 .. Len(s) /\ Len(s) \in Nat
           /\ Append(s, x) \in Seq(S)
           /\ \A i \in 1 .. Len(s) : Append(s, x)[i] = s[i]
           /\ Append(s, x)[Len(s) + 1] = x
           /\ Range(Append(s, x)) = Range(s) \cup {x}
           /\ [i \in DOMAIN Append(s, x) |-> f[Append(s, x)[i]]]
                  = Append([i \in DOMAIN s |-> f[s[i]]], f[x])
  <1> DEFINE t == Append(s, x)
             u == [i \in DOMAIN s |-> f[s[i]]]
  <1>1. /\ t \in Seq(S) /\ Len(t) = Len(s) + 1
        /\ \A i \in 1 .. Len(s) : t[i] = s[i]
        /\ t[Len(s) + 1] = x
    BY AppendProperties
  <1>2. Len(s) \in Nat /\ DOMAIN s = 1 .. Len(s)
    BY LenProperties
  <1>3. DOMAIN t = 1 .. Len(s) + 1
    BY <1>1, LenProperties
  <1> HIDE DEF t
  <1>4. Range(t) = Range(s) \cup {x}
    <2>1. ASSUME NEW y \in Range(t) PROVE y \in Range(s) \cup {x}
      <3>1. PICK i \in 1 .. Len(s) + 1 : y = t[i]
        BY <1>3 DEF Range
      <3>2. CASE i = Len(s) + 1
        BY <3>1, <3>2, <1>1
      <3>3. CASE i \in 1 .. Len(s)
        BY <3>1, <3>3, <1>1, <1>2 DEF Range
      <3> QED  BY <3>2, <3>3, <1>2
    <2>2. ASSUME NEW y \in Range(s) PROVE y \in Range(t)
      <3>1. PICK i \in 1 .. Len(s) : y = s[i]
        BY <1>2 DEF Range
      <3>2. t[i] = y /\ i \in 1 .. Len(s) + 1
        BY <3>1, <1>1, <1>2
      <3> QED  BY <3>2, <1>3 DEF Range
    <2>3. x \in Range(t)
      <3>1. Len(s) + 1 \in 1 .. Len(s) + 1
        BY <1>2
      <3> QED  BY <3>1, <1>1, <1>3 DEF Range
    <2> QED  BY <2>1, <2>2, <2>3
  <1>5. [i \in DOMAIN t |-> f[t[i]]] = Append(u, f[x])
    <2> DEFINE R == {f[s[i]] : i \in DOMAIN s} \cup {f[x]}
    <2>1. u \in [1 .. Len(s) -> R] /\ f[x] \in R
      BY <1>2
    <2>2. u \in Seq(R) /\ Len(u) = Len(s)
      BY <2>1, <1>2, SeqDef
    <2> HIDE DEF R
    <2>3. /\ Append(u, f[x]) \in Seq(R) /\ Len(Append(u, f[x])) = Len(s) + 1
          /\ \A i \in 1 .. Len(s) : Append(u, f[x])[i] = u[i]
          /\ Append(u, f[x])[Len(s) + 1] = f[x]
      BY <2>1, <2>2, AppendProperties
    <2>4. DOMAIN Append(u, f[x]) = 1 .. Len(s) + 1
      BY <2>3, LenProperties
    <2>5. \A i \in 1 .. Len(s) + 1 : i \in 1 .. Len(s) \/ i = Len(s) + 1
      BY <1>2
    <2>6. \A i \in 1 .. Len(s) : u[i] = f[s[i]]
      BY <1>2
    <2> HIDE DEF u
    <2>7. \A i \in 1 .. Len(s) + 1 : f[t[i]] = Append(u, f[x])[i]
      BY <1>1, <2>3, <2>5, <2>6
    <2>8. Append(u, f[x]) = [i \in 1 .. Len(s) + 1 |-> Append(u, f[x])[i]]
      BY <2>3, <2>4
    <2> QED  BY <1>3, <2>7, <2>8
  <1> QED  BY <1>1, <1>2, <1>3, <1>4, <1>5 DEF t

\* Behind all that are inside it, a type may come.
LEMMA OrderedAppend ==
    ASSUME NEW M, NEW K, Closed(M, K), NEW ts, Ordered(ts, M, K), NEW open,
           NEW A \in M \ Range(ts),
           \A k \in DOMAIN K[A] : IsNested(K[A][k]) => K[A][k].type \in Range(ts)
    PROVE  /\ Ordered(Append(ts, A), M, K)
           /\ Range(Append(ts, A)) = Range(ts) \cup {A}
           /\ StructsOut(open, Append(ts, A), K).text
                  = Append(StructsOut(open, ts, K).text, CStruct(A, K[A]))
           /\ SerdeOut(open, Append(ts, A), K).text
                  = Append(SerdeOut(open, ts, K).text, Serde(A, K[A]))
  <1> DEFINE us == Append(ts, A)
             n == Len(ts)
             F == [t \in M |-> CStruct(t, K[t])]
             G == [t \in M |-> Serde(t, K[t])]
  <1>1. ts \in Seq(M)
    BY DEF Ordered
  <1>2. /\ DOMAIN us = 1 .. n + 1 /\ DOMAIN ts = 1 .. n /\ n \in Nat
        /\ us \in Seq(M)
        /\ \A i \in 1 .. n : us[i] = ts[i]
        /\ us[n + 1] = A
        /\ Range(us) = Range(ts) \cup {A}
        /\ [i \in DOMAIN us |-> F[us[i]]] = Append([i \in DOMAIN ts |-> F[ts[i]]], F[A])
        /\ [i \in DOMAIN us |-> G[us[i]]] = Append([i \in DOMAIN ts |-> G[ts[i]]], G[A])
    <2>1. A \in M
      OBVIOUS
    <2> HIDE DEF F, G
    <2>2. \A f :
             /\ DOMAIN us = 1 .. n + 1 /\ DOMAIN ts = 1 .. n /\ n \in Nat
             /\ us \in Seq(M)
             /\ \A i \in 1 .. n : us[i] = ts[i]
             /\ us[n + 1] = A
             /\ Range(us) = Range(ts) \cup {A}
             /\ [i \in DOMAIN us |-> f[us[i]]] = Append([i \in DOMAIN ts |-> f[ts[i]]], f[A])
      BY <1>1, <2>1, MappedAppend
    <2> HIDE DEF us, n
    <2> QED  BY <2>2
  <1>3. \A i \in 1 .. n : ts[i] \in M
    BY <1>1, ElementOfSeq
  <1> HIDE DEF us, n
  <1>4. \A i \in 1 .. n + 1 : us[i] \in M
    BY <1>2, <1>3
  <1>5. /\ [i \in DOMAIN us |-> F[us[i]]] = [i \in DOMAIN us |-> CStruct(us[i], K[us[i]])]
        /\ [i \in DOMAIN ts |-> F[ts[i]]] = [i \in DOMAIN ts |-> CStruct(ts[i], K[ts[i]])]
        /\ F[A] = CStruct(A, K[A])
    BY <1>2, <1>3, <1>4
  <1>6. /\ [i \in DOMAIN us |-> G[us[i]]] = [i \in DOMAIN us |-> Serde(us[i], K[us[i]])]
        /\ [i \in DOMAIN ts |-> G[ts[i]]] = [i \in DOMAIN ts |-> Serde(ts[i], K[ts[i]])]
        /\ G[A] = Serde(A, K[A])
    BY <1>2, <1>3, <1>4
  <1> HIDE DEF F, G
  <1>7. /\ StructsOut(open, us, K).text = Append(StructsOut(open, ts, K).text, CStruct(A, K[A]))
        /\ SerdeOut(open, us, K).text = Append(SerdeOut(open, ts, K).text, Serde(A, K[A]))
    BY <1>2, <1>5, <1>6 DEF StructsOut, SerdeOut
  <1>8. \A t \in Range(ts) : \E j \in 1 .. n : ts[j] = t
    BY <1>2 DEF Range
  <1>9. \A i \in 1 .. n : ts[i] # A
    BY <1>2 DEF Range
  <1>10. \A i \in 1 .. n + 1 : i \in 1 .. n \/ i = n + 1
    BY <1>2
  <1>11. ASSUME NEW i \in 1 .. n + 1, NEW j \in 1 .. n + 1, us[i] = us[j]
         PROVE  i = j
    <2>1. \A a, b \in 1 .. n : ts[a] = ts[b] => a = b
      BY <1>2 DEF Ordered
    <2> QED  BY <1>2, <1>9, <1>10, <1>11, <2>1
  <1>12. ASSUME NEW i \in 1 .. n + 1, NEW k \in DOMAIN K[us[i]], IsNested(K[us[i]][k])
         PROVE  \E j \in 1 .. (i - 1) : us[j] = K[us[i]][k].type
    <2>1. CASE i = n + 1
      <3>1. us[i] = A /\ i - 1 = n
        BY <2>1, <1>2
      <3>2. K[A][k].type \in Range(ts)
        BY <1>12, <3>1
      <3>3. PICK j \in 1 .. n : ts[j] = K[A][k].type
        BY <3>2, <1>8
      <3> QED  BY <3>1, <3>3, <1>2
    <2>2. CASE i \in 1 .. n
      <3>1. us[i] = ts[i]
        BY <2>2, <1>2
      <3>2. PICK j \in 1 .. (i - 1) : ts[j] = K[ts[i]][k].type
        BY <2>2, <3>1, <1>2, <1>12 DEF Ordered
      <3>3. j \in 1 .. n
        BY <2>2, <1>2
      <3> QED  BY <3>1, <3>2, <3>3, <1>2
    <2> QED  BY <2>1, <2>2, <1>10
  <1>13. Ordered(us, M, K)
    BY <1>2, <1>11, <1>12 DEF Ordered
  <1> QED  BY <1>2, <1>7, <1>13 DEF us

\* What is begun counts as written already.
LEMMA OutBegun ==
    ASSUME NEW A, NEW open, NEW ts, NEW K
    PROVE  /\ StructBegun(StructsOut(open, ts, K), A) = StructsOut(open \cup {A}, ts, K)
           /\ SerdeBegun(SerdeOut(open, ts, K), A) = SerdeOut(open \cup {A}, ts, K)
  <1> DEFINE e == {StructName(t) : t \in open \cup Range(ts)}
             f == open \cup Range(ts)
             structs == [i \in DOMAIN ts |-> CStruct(ts[i], K[ts[i]])]
             serde == [i \in DOMAIN ts |-> Serde(ts[i], K[ts[i]])]
  <1>1. /\ StructsOut(open, ts, K) = [emitted |-> e, text |-> structs]
        /\ SerdeOut(open, ts, K) = [emitted |-> f, text |-> serde]
    BY DEF StructsOut, SerdeOut
  <1>2. /\ e \cup {StructName(A)} = {StructName(t) : t \in (open \cup {A}) \cup Range(ts)}
        /\ f \cup {A} = (open \cup {A}) \cup Range(ts)
    OBVIOUS
  <1>3. /\ StructsOut(open \cup {A}, ts, K)
               = [emitted |-> e \cup {StructName(A)}, text |-> structs]
        /\ SerdeOut(open \cup {A}, ts, K) = [emitted |-> f \cup {A}, text |-> serde]
    BY <1>2, Zenon DEF StructsOut, SerdeOut
  <1> HIDE DEF e, f, structs, serde
  <1>4. StructBegun(StructsOut(open, ts, K), A)
            = [emitted |-> e \cup {StructName(A)}, text |-> structs]
    BY <1>1 DEF StructBegun
  <1>5. SerdeBegun(SerdeOut(open, ts, K), A) = [emitted |-> f \cup {A}, text |-> serde]
    BY <1>1 DEF SerdeBegun
  <1> QED  BY <1>3, <1>4, <1>5

\* The names of what is there.
LEMMA OutHasName ==
    ASSUME NEW M, NEW K, Closed(M, K), NEW ts, Ordered(ts, M, K), NEW open \in SUBSET M,
           NEW A \in M
    PROVE  /\ StructName(A) \in StructsOut(open, ts, K).emitted <=> A \in open \cup Range(ts)
           /\ A \in SerdeOut(open, ts, K).emitted <=> A \in open \cup Range(ts)
  <1>1. A \in Types /\ open \cup Range(ts) \subseteq Types
    BY OutIsTyped DEF Closed
  <1>2. \A t \in open \cup Range(ts) : StructName(t) = StructName(A) => t = A
    BY <1>1, NamesOfTypes
  <1> QED  BY <1>2 DEF StructsOut, SerdeOut

\* What comes to be there while the fields of A are gone through.
Inside(A, open, ts, us, n, M, K) ==
    /\ Ordered(us, M, K)
    /\ Range(ts) \subseteq Range(us) /\ Range(us) \cap (open \cup {A}) = {}
    /\ \A k \in 1 .. n : IsNested(K[A][k]) => K[A][k].type \in Range(us)
    /\ Passes(InnerStructs(UserCStructs, K[A]), StructBegun(StructsOut(open, ts, K), A),
              Len(K[A]))[n] = StructsOut(open \cup {A}, us, K)
    /\ Passes(InnerSerdes(SerdeFunctions, K[A]), SerdeBegun(SerdeOut(open, ts, K), A),
              Len(K[A]))[n] = SerdeOut(open \cup {A}, us, K)

\* One field further.
LEMMA InsideGoesOn ==
    ASSUME NEW M, NEW K, Closed(M, K), NEW A \in M, NEW open \in SUBSET M, NEW ts, NEW us,
           NEW n \in Nat, n + 1 <= Len(K[A]), Inside(A, open, ts, us, n, M, K),
           IsNested(K[A][n + 1]) =>
               \E vs : Emits(K[A][n + 1].type, open \cup {A}, us, vs, M, K)
    PROVE  \E vs : Inside(A, open, ts, vs, n + 1, M, K)
  <1> DEFINE f == K[A][n + 1]
             ps == InnerStructs(UserCStructs, K[A])
             pd == InnerSerdes(SerdeFunctions, K[A])
             bs == StructBegun(StructsOut(open, ts, K), A)
             bd == SerdeBegun(SerdeOut(open, ts, K), A)
             all == open \cup {A}
  <1>1. /\ K[A] \in MsgFieldSeqs
        /\ IsNested(f) => f.type \in M /\ f.fields = K[f.type]
        /\ Len(K[A]) \in Nat /\ DOMAIN K[A] = 1 .. Len(K[A]) /\ n + 1 \in 1 .. Len(K[A])
    <2>1. K[A] \in MsgFieldSeqs
      BY DEF Closed
    <2>2. Len(K[A]) \in Nat /\ DOMAIN K[A] = 1 .. Len(K[A])
      BY <2>1, FieldOfMsg
    <2>3. n + 1 \in 1 .. Len(K[A])
      BY <2>2
    <2> QED  BY <2>1, <2>2, <2>3 DEF Closed
  <1>2. /\ ps[n + 1] = IF IsNested(f) THEN UserCStructs[f.fields][f.type]
                       ELSE Same(Outputs(CStructs))
        /\ pd[n + 1] = IF IsNested(f) THEN SerdeFunctions[f.fields][PrefixOf(StructName(f.type))]
                       ELSE Same(Outputs(Serdes))
    BY <1>1 DEF InnerStructs, InnerSerdes
  <1>3. /\ Passes(ps, bs, Len(K[A]))[n + 1] = ps[n + 1][Passes(ps, bs, Len(K[A]))[n]]
        /\ Passes(pd, bd, Len(K[A]))[n + 1] = pd[n + 1][Passes(pd, bd, Len(K[A]))[n]]
    <2>1. (n + 1) - 1 = n
      OBVIOUS
    <2> HIDE DEF ps, pd, bs, bd
    <2>2. /\ Passes(ps, bs, Len(K[A]))[n + 1] = ps[n + 1][Passes(ps, bs, Len(K[A]))[(n + 1) - 1]]
          /\ Passes(pd, bd, Len(K[A]))[n + 1] = pd[n + 1][Passes(pd, bd, Len(K[A]))[(n + 1) - 1]]
      BY <1>1, LoopDef
    <2> QED  BY <2>1, <2>2
  <1>4. /\ Passes(ps, bs, Len(K[A]))[n] = StructsOut(all, us, K)
        /\ Passes(pd, bd, Len(K[A]))[n] = SerdeOut(all, us, K)
        /\ Ordered(us, M, K) /\ Range(ts) \subseteq Range(us) /\ Range(us) \cap all = {}
        /\ \A k \in 1 .. n : IsNested(K[A][k]) => K[A][k].type \in Range(us)
    BY DEF Inside
  <1>5. \A k \in 1 .. n + 1 : k \in 1 .. n \/ k = n + 1
    OBVIOUS
  <1>6. all \in SUBSET M
    OBVIOUS
  <1>7. CASE IsNested(f)
    <2>1. PICK vs : Emits(f.type, all, us, vs, M, K)
      BY <1>7
    <2>2. /\ Ordered(vs, M, K)
          /\ Range(us) \cup {f.type} \subseteq Range(vs) /\ Range(vs) \cap all = {}
          /\ UserCStructs[K[f.type]][f.type][StructsOut(all, us, K)] = StructsOut(all, vs, K)
          /\ SerdeFunctions[K[f.type]][f.type][SerdeOut(all, us, K)] = SerdeOut(all, vs, K)
      BY <2>1 DEF Emits
    <2>3. f.type \in M /\ f.fields = K[f.type]
      BY <1>1, <1>7
    <2>4. PrefixOf(StructName(f.type)) = f.type
      BY <2>3, NamesOfTypes DEF Closed
    <2>5. /\ Passes(ps, bs, Len(K[A]))[n + 1] = StructsOut(all, vs, K)
          /\ Passes(pd, bd, Len(K[A]))[n + 1] = SerdeOut(all, vs, K)
      <3> HIDE DEF ps, pd, bs, bd, f, all
      <3> QED  BY <1>2, <1>3, <1>4, <1>7, <2>2, <2>3, <2>4
    <2>6. \A k \in 1 .. n + 1 : IsNested(K[A][k]) => K[A][k].type \in Range(vs)
      BY <1>4, <1>5, <2>2
    <2>7. Range(ts) \subseteq Range(vs)
      BY <1>4, <2>2
    <2> QED  BY <2>2, <2>5, <2>6, <2>7 DEF Inside
  <1>8. CASE ~IsNested(f)
    <2>1. /\ StructsOut(all, us, K) \in Outputs(CStructs)
          /\ SerdeOut(all, us, K) \in Outputs(Serdes)
      BY <1>4, <1>6, OutIsTyped
    <2>2. /\ Same(Outputs(CStructs))[StructsOut(all, us, K)] = StructsOut(all, us, K)
          /\ Same(Outputs(Serdes))[SerdeOut(all, us, K)] = SerdeOut(all, us, K)
      BY <2>1 DEF Same
    <2>3. /\ Passes(ps, bs, Len(K[A]))[n + 1] = StructsOut(all, us, K)
          /\ Passes(pd, bd, Len(K[A]))[n + 1] = SerdeOut(all, us, K)
      <3> HIDE DEF ps, pd, bs, bd, f, all
      <3> QED  BY <1>2, <1>3, <1>4, <1>8, <2>2
    <2>4. \A k \in 1 .. n + 1 : IsNested(K[A][k]) => K[A][k].type \in Range(us)
      BY <1>4, <1>5, <1>8
    <2> QED  BY <1>4, <2>3, <2>4 DEF Inside
  <1> QED  BY <1>7, <1>8

\* Coming to a type that is not there yet, if it goes well inside.
LEMMA EmitsNew ==
    ASSUME NEW M, NEW K, Closed(M, K), NEW A \in M, NEW open \in SUBSET M, NEW ts,
           Ordered(ts, M, K), Range(ts) \cap open = {}, A \notin open \cup Range(ts),
           \A i \in 1 .. Len(K[A]) : IsNested(K[A][i]) =>
               \A us : Ordered(us, M, K) /\ Range(us) \cap (open \cup {A}) = {} =>
                   \E vs : Emits(K[A][i].type, open \cup {A}, us, vs, M, K)
    PROVE  \E us : Emits(A, open, ts, us, M, K)
  <1> DEFINE n == Len(K[A])
             T == {i \in Nat : i <= n => \E us : Inside(A, open, ts, us, i, M, K)}
             ps == InnerStructs(UserCStructs, K[A])
             pd == InnerSerdes(SerdeFunctions, K[A])
             bs == StructBegun(StructsOut(open, ts, K), A)
             bd == SerdeBegun(SerdeOut(open, ts, K), A)
             all == open \cup {A}
  <1>1. K[A] \in MsgFieldSeqs /\ A \in Types
    BY DEF Closed
  <1>2. n \in Nat /\ DOMAIN K[A] = 1 .. n
    BY <1>1, FieldOfMsg
  <1>3. 0 \in T
    <2>1. Passes(ps, bs, n)[0] = bs /\ Passes(pd, bd, n)[0] = bd
      BY <1>2, LoopDef
    <2>2. bs = StructsOut(all, ts, K) /\ bd = SerdeOut(all, ts, K)
      BY OutBegun
    <2>3. Range(ts) \cap all = {}
      OBVIOUS
    <2>4. Inside(A, open, ts, ts, 0, M, K)
      BY <2>1, <2>2, <2>3 DEF Inside
    <2> QED  BY <2>4
  <1>4. ASSUME NEW i \in Nat, i \in T
        PROVE  i + 1 \in T
    <2>1. SUFFICES ASSUME i + 1 <= n PROVE \E us : Inside(A, open, ts, us, i + 1, M, K)
      OBVIOUS
    <2>2. PICK us : Inside(A, open, ts, us, i, M, K)
      BY <1>2, <1>4, <2>1
    <2>3. Ordered(us, M, K) /\ Range(us) \cap (open \cup {A}) = {}
      BY <2>2 DEF Inside
    <2>4. i + 1 \in 1 .. n
      BY <1>2, <2>1
    <2>5. IsNested(K[A][i + 1]) =>
              \E vs : Emits(K[A][i + 1].type, open \cup {A}, us, vs, M, K)
      BY <2>3, <2>4
    <2> QED  BY <2>1, <2>2, <2>5, InsideGoesOn
  <1> HIDE DEF T
  <1>5. n \in T
    BY <1>2, <1>3, <1>4, NatSetInduction
  <1>6. PICK us : Inside(A, open, ts, us, n, M, K)
    BY <1>2, <1>5 DEF T
  <1>7. /\ Ordered(us, M, K)
        /\ Range(ts) \subseteq Range(us) /\ Range(us) \cap all = {}
        /\ \A k \in DOMAIN K[A] : IsNested(K[A][k]) => K[A][k].type \in Range(us)
        /\ Passes(ps, bs, n)[n] = StructsOut(all, us, K)
        /\ Passes(pd, bd, n)[n] = SerdeOut(all, us, K)
    BY <1>2, <1>6 DEF Inside
  <1>8. /\ Loop(ps, bs, n) = StructsOut(all, us, K)
        /\ Loop(pd, bd, n) = SerdeOut(all, us, K)
    BY <1>2, <1>7, LoopDef
  <1> DEFINE vs == Append(us, A)
  <1>9. A \in M \ Range(us)
    BY <1>7
  <1>10. /\ Ordered(vs, M, K) /\ Range(vs) = Range(us) \cup {A}
         /\ StructsOut(open, vs, K).text = Append(StructsOut(open, us, K).text, CStruct(A, K[A]))
         /\ SerdeOut(open, vs, K).text = Append(SerdeOut(open, us, K).text, Serde(A, K[A]))
    BY <1>7, <1>9, OrderedAppend
  <1> HIDE DEF vs
  <1>11. /\ StructsOut(open, ts, K) \in Outputs(CStructs)
         /\ SerdeOut(open, ts, K) \in Outputs(Serdes)
         /\ StructName(A) \notin StructsOut(open, ts, K).emitted
         /\ A \notin SerdeOut(open, ts, K).emitted
    BY OutIsTyped, OutHasName
  <1>12. UserCStructs[K[A]][A][StructsOut(open, ts, K)]
             = [emitted |-> StructsOut(all, us, K).emitted,
                text |-> Append(StructsOut(all, us, K).text, CStruct(A, K[A]))]
    <2>1. UserCStructs[K[A]] = StructsFrom(UserCStructs, K[A])
      BY <1>1, UserCStructsDef
    <2>2. StructsFrom(UserCStructs, K[A])[A][StructsOut(open, ts, K)]
              = [emitted |-> Loop(ps, bs, n).emitted,
                 text |-> Placed(StructsOut(open, ts, K).text, Loop(ps, bs, n).text,
                                 CStruct(A, K[A]))]
      BY <1>1, <1>11, Zenon DEF StructsFrom
    <2> QED  BY <1>8, <2>1, <2>2, Zenon DEF Placed
  <1>13. SerdeFunctions[K[A]][A][SerdeOut(open, ts, K)]
             = [emitted |-> SerdeOut(all, us, K).emitted,
                text |-> Append(SerdeOut(all, us, K).text, Serde(A, K[A]))]
    <2>1. SerdeFunctions[K[A]] = SerdesFrom(SerdeFunctions, K[A])
      BY <1>1, SerdeFunctionsDef
    <2>2. SerdesFrom(SerdeFunctions, K[A])[A][SerdeOut(open, ts, K)]
              = [emitted |-> Loop(pd, bd, n).emitted,
                 text |-> Append(Loop(pd, bd, n).text, Serde(A, K[A]))]
      BY <1>1, <1>11, Zenon DEF SerdesFrom
    <2> QED  BY <1>8, <2>1, <2>2, Zenon
  <1>14. (all \cup Range(us)) = open \cup Range(vs)
    BY <1>10
  <1>15. [emitted |-> StructsOut(all, us, K).emitted,
                text |-> Append(StructsOut(all, us, K).text, CStruct(A, K[A]))]
             = StructsOut(open, vs, K)
    <2>1. StructsOut(all, us, K).text = StructsOut(open, us, K).text
      BY DEF StructsOut
    <2>2. StructsOut(all, us, K).emitted = {StructName(t) : t \in all \cup Range(us)}
      BY DEF StructsOut
    <2>3. StructsOut(open, vs, K) = [emitted |-> {StructName(t) : t \in open \cup Range(vs)},
                                     text |-> StructsOut(open, vs, K).text]
      BY DEF StructsOut
    <2> QED  BY <1>10, <1>14, <2>1, <2>2, <2>3, Zenon
  <1>16. [emitted |-> SerdeOut(all, us, K).emitted,
                text |-> Append(SerdeOut(all, us, K).text, Serde(A, K[A]))]
             = SerdeOut(open, vs, K)
    <2>1. SerdeOut(all, us, K).text = SerdeOut(open, us, K).text
      BY DEF SerdeOut
    <2>2. SerdeOut(all, us, K).emitted = all \cup Range(us)
      BY DEF SerdeOut
    <2>3. SerdeOut(open, vs, K) = [emitted |-> open \cup Range(vs),
                                   text |-> SerdeOut(open, vs, K).text]
      BY DEF SerdeOut
    <2> QED  BY <1>10, <1>14, <2>1, <2>2, <2>3, Zenon
  <1>17. Range(ts) \cup {A} \subseteq Range(vs) /\ Range(vs) \cap open = {}
    BY <1>7, <1>10
  <1>18. Emits(A, open, ts, vs, M, K)
    BY <1>10, <1>12, <1>13, <1>15, <1>16, <1>17 DEF Emits
  <1> QED  BY <1>18

\* And to one that is.
LEMMA EmitsOld ==
    ASSUME NEW M, NEW K, Closed(M, K), NEW A \in M, NEW open \in SUBSET M, NEW ts,
           Ordered(ts, M, K), Range(ts) \cap open = {}, A \in Range(ts)
    PROVE  Emits(A, open, ts, ts, M, K)
  <1>1. K[A] \in MsgFieldSeqs /\ A \in Types
    BY DEF Closed
  <1>2. /\ StructsOut(open, ts, K) \in Outputs(CStructs)
        /\ SerdeOut(open, ts, K) \in Outputs(Serdes)
        /\ StructName(A) \in StructsOut(open, ts, K).emitted
        /\ A \in SerdeOut(open, ts, K).emitted
    BY OutIsTyped, OutHasName
  <1>3. UserCStructs[K[A]][A][StructsOut(open, ts, K)] = StructsOut(open, ts, K)
    <2>1. UserCStructs[K[A]] = StructsFrom(UserCStructs, K[A])
      BY <1>1, UserCStructsDef
    <2>2. StructsFrom(UserCStructs, K[A])[A][StructsOut(open, ts, K)] = StructsOut(open, ts, K)
      BY <1>1, <1>2, Zenon DEF StructsFrom
    <2> QED  BY <2>1, <2>2
  <1>4. SerdeFunctions[K[A]][A][SerdeOut(open, ts, K)] = SerdeOut(open, ts, K)
    <2>1. SerdeFunctions[K[A]] = SerdesFrom(SerdeFunctions, K[A])
      BY <1>1, SerdeFunctionsDef
    <2>2. SerdesFrom(SerdeFunctions, K[A])[A][SerdeOut(open, ts, K)] = SerdeOut(open, ts, K)
      BY <1>1, <1>2, Zenon DEF SerdesFrom
    <2> QED  BY <2>1, <2>2
  <1> QED  BY <1>3, <1>4 DEF Emits

\* Coming to a type, the outputs stay in order and have it afterwards: what is
\* begun has more inside it than what is come to, so it is not met again.
LEMMA EmitsAll ==
    ASSUME NEW M, NEW K, Closed(M, K), NEW A \in M, NEW ts, Ordered(ts, M, K)
    PROVE  \E us : Emits(A, {}, ts, us, M, K)
  <1> DEFINE T == {d \in Nat : d <= MaxNesting =>
                       \A B \in M, open \in SUBSET M : \A us :
                           /\ K[B] \in FieldTrees[d]
                           /\ \A X \in open : K[X] \notin FieldTrees[d]
                           /\ Ordered(us, M, K) /\ Range(us) \cap open = {}
                           => \E vs : Emits(B, open, us, vs, M, K)}
  <1> MaxNesting \in Nat
    BY NestingAssumption
  <1>1. 0 \in T
    <2>1. SUFFICES ASSUME NEW B \in M, NEW open \in SUBSET M, NEW us,
                          K[B] \in FieldTrees[0], \A X \in open : K[X] \notin FieldTrees[0],
                          Ordered(us, M, K), Range(us) \cap open = {}
                   PROVE  \E vs : Emits(B, open, us, vs, M, K)
      OBVIOUS
    <2>2. 0 \in 0 .. MaxNesting
      OBVIOUS
    <2>3. K[B] = <<>>
      BY <2>1, <2>2, TreeParts
    <2>4. Len(K[B]) = 0
      BY <2>3
    <2>5. \A i \in 1 .. Len(K[B]) : FALSE
      BY <2>4
    <2>6. B \notin open
      BY <2>1
    <2>7. CASE B \in Range(us)
      BY <2>1, <2>7, EmitsOld
    <2>8. CASE B \notin Range(us)
      BY <2>1, <2>5, <2>6, <2>8, EmitsNew
    <2> QED  BY <2>7, <2>8
  <1>2. ASSUME NEW d \in Nat, d \in T
        PROVE  d + 1 \in T
    <2>1. SUFFICES ASSUME d + 1 <= MaxNesting, NEW B \in M, NEW open \in SUBSET M, NEW us,
                          K[B] \in FieldTrees[d + 1],
                          \A X \in open : K[X] \notin FieldTrees[d + 1],
                          Ordered(us, M, K), Range(us) \cap open = {}
                   PROVE  \E vs : Emits(B, open, us, vs, M, K)
      OBVIOUS
    <2>2. /\ d + 1 \in 0 .. MaxNesting /\ d + 1 \in 1 .. MaxNesting /\ d + 1 > 0
          /\ (d + 1) - 1 = d /\ d <= MaxNesting
      BY <2>1
    <2>3. FieldTrees[d] \subseteq FieldTrees[d + 1]
      BY <2>2, TreesGrow
    <2>4. \A X \in open : K[X] \notin FieldTrees[d]
      BY <2>1, <2>3
    <2>5. \A C \in M, op \in SUBSET M : \A vs :
             /\ K[C] \in FieldTrees[d]
             /\ \A X \in op : K[X] \notin FieldTrees[d]
             /\ Ordered(vs, M, K) /\ Range(vs) \cap op = {}
             => \E ws : Emits(C, op, vs, ws, M, K)
      BY <1>2, <2>2
    <2>6. CASE K[B] \in FieldTrees[d]
      BY <2>1, <2>4, <2>5, <2>6
    <2>7. CASE K[B] \notin FieldTrees[d]
      <3>1. B \notin open
        BY <2>1
      <3>2. CASE B \in Range(us)
        BY <2>1, <3>2, EmitsOld
      <3>3. CASE B \notin Range(us)
        <4>1. ASSUME NEW i \in 1 .. Len(K[B]), IsNested(K[B][i])
              PROVE  K[B][i].type \in M /\ K[K[B][i].type] \in FieldTrees[d]
          <5>1. K[B] \in MsgFieldSeqs
            BY DEF Closed
          <5>2. i \in DOMAIN K[B]
            BY <5>1, FieldOfMsg
          <5>3. K[B][i].type \in M /\ K[B][i].fields = K[K[B][i].type]
            BY <4>1, <5>2 DEF Closed
          <5>4. K[B][i].fields \in FieldTrees[d]
            BY <2>1, <2>2, <5>2, TreeParts
          <5> QED  BY <5>3, <5>4
        <4>2. \A X \in open \cup {B} : K[X] \notin FieldTrees[d]
          BY <2>4, <2>7
        <4>3. open \cup {B} \in SUBSET M
          OBVIOUS
        <4>4. \A i \in 1 .. Len(K[B]) : IsNested(K[B][i]) =>
                 \A vs : Ordered(vs, M, K) /\ Range(vs) \cap (open \cup {B}) = {} =>
                     \E ws : Emits(K[B][i].type, open \cup {B}, vs, ws, M, K)
          BY <4>1, <4>2, <4>3, <2>5
        <4> QED  BY <2>1, <3>1, <3>3, <4>4, EmitsNew
      <3> QED  BY <3>2, <3>3
    <2> QED  BY <2>6, <2>7
  <1> HIDE DEF T
  <1>3. MaxNesting \in T
    BY <1>1, <1>2, NatSetInduction
  <1>4. K[A] \in FieldTrees[MaxNesting]
    BY DEF Closed, MsgFieldSeqs
  <1>5. {} \in SUBSET M /\ Range(ts) \cap {} = {} /\ \A X \in {} : K[X] \notin FieldTrees[MaxNesting]
    OBVIOUS
  <1> QED  BY <1>3, <1>4, <1>5 DEF T

\* Nothing is written of no type.
LEMMA NothingIsOrdered ==
    ASSUME NEW M, NEW K
    PROVE  /\ Ordered(<<>>, M, K)
           /\ NothingEmitted = StructsOut({}, <<>>, K)
           /\ NothingEmitted = SerdeOut({}, <<>>, K)
  <1>1. <<>> \in Seq(M) /\ DOMAIN <<>> = {} /\ Range(<<>>) = {}
    BY EmptySeq DEF Range
  <1>2. \A f : [i \in {} |-> f[i]] = <<>>
    OBVIOUS
  <1>3. /\ [i \in DOMAIN <<>> |-> CStruct(<<>>[i], K[<<>>[i]])] = <<>>
        /\ [i \in DOMAIN <<>> |-> Serde(<<>>[i], K[<<>>[i]])] = <<>>
    BY <1>1
  <1>4. {StructName(t) : t \in {} \cup Range(<<>>)} = {} /\ {} \cup Range(<<>>) = {}
    BY <1>1
  <1> QED  BY <1>1, <1>3, <1>4, Zenon DEF Ordered, StructsOut, SerdeOut, NothingEmitted

\* A struct has its type's name, and its nested members that of theirs.
LEMMA StructParts ==
    ASSUME NEW type, NEW fields \in MsgFieldSeqs
    PROVE  /\ CStruct(type, fields).name = StructName(type)
           /\ \A m \in Range(CStruct(type, fields).members) : Len(m.ctype) > 1 =>
                 \E k \in DOMAIN fields :
                     IsNested(fields[k]) /\ m.ctype = StructName(fields[k].type)
  <1> DEFINE Member(f) ==
                 IF IsNested(f)
                 THEN [ctype |-> StructName(f.type), name |-> f.name, array |-> f.array]
                 ELSE [ctype |-> <<CType(f.prim)>>, name |-> f.name,
                       array |-> IF f.prim = "string" /\ f.array = <<>>
                                 THEN <<StringMaxBytes>> ELSE f.array]
             members == [i \in DOMAIN fields |-> Member(fields[i])]
  <1>1. CStruct(type, fields) = [name |-> StructName(type), members |-> members]
    BY DEF CStruct
  <1>2. \A f : /\ IsNested(f) => Member(f).ctype = StructName(f.type)
               /\ ~IsNested(f) => Member(f).ctype = <<CType(f.prim)>>
    OBVIOUS
  <1>3. \A x : Len(<<x>>) = 1
    OBVIOUS
  <1> HIDE DEF Member
  <1>4. ASSUME NEW m \in Range(members), Len(m.ctype) > 1
        PROVE  \E k \in DOMAIN fields :
                   IsNested(fields[k]) /\ m.ctype = StructName(fields[k].type)
    <2>1. PICK k \in DOMAIN fields : m = Member(fields[k])
      BY DEF Range
    <2>2. IsNested(fields[k])
      <3>1. SUFFICES ASSUME ~IsNested(fields[k]) PROVE FALSE
        OBVIOUS
      <3>2. m.ctype = <<CType(fields[k].prim)>>
        BY <1>2, <2>1, <3>1
      <3>3. Len(m.ctype) = 1
        BY <1>3, <3>2
      <3> QED  BY <1>4, <3>3
    <2> QED  BY <1>2, <2>1, <2>2
  <1> HIDE DEF members
  <1> QED  BY <1>1, <1>4

\* A serialiser has its type's prefix, calls those of the types inside, and is
\* read back call by call.
LEMMA SerdeParts ==
    ASSUME NEW type, NEW fields \in MsgFieldSeqs
    PROVE  /\ Serde(type, fields).prefix = type
           /\ \A c \in Range(Serde(type, fields).serialize) : c.how = "function" =>
                 \E k \in DOMAIN fields :
                     IsNested(fields[k]) /\ c.of = PrefixOf(StructName(fields[k].type))
           /\ DOMAIN Serde(type, fields).serialize = DOMAIN fields
           /\ DOMAIN Serde(type, fields).deserialize = DOMAIN fields
           /\ \A k \in DOMAIN fields :
                 /\ Serde(type, fields).serialize[k].of = Serde(type, fields).deserialize[k].of
                 /\ Serde(type, fields).serialize[k].how = Serde(type, fields).deserialize[k].how
  <1> DEFINE ser == [i \in DOMAIN fields |-> SerializeCall(fields[i])]
             des == [i \in DOMAIN fields |-> DeserializeCall(fields[i])]
  <1>1. Serde(type, fields) = [prefix |-> type, serialize |-> ser, deserialize |-> des]
    BY DEF Serde
  <1>2. ASSUME NEW f
        PROVE  /\ SerializeCall(f).how = "function" =>
                     IsNested(f) /\ SerializeCall(f).of = PrefixOf(StructName(f.type))
               /\ SerializeCall(f).of = DeserializeCall(f).of
               /\ SerializeCall(f).how = DeserializeCall(f).how
    <2>1. CASE IsNested(f)
      <3>1. SerializeCall(f) = [of |-> PrefixOf(StructName(f.type)), how |-> "function",
                                n |-> Times(f)]
        BY <2>1 DEF SerializeCall
      <3>2. DeserializeCall(f) = SerializeCall(f)
        BY <2>1 DEF DeserializeCall, IsNested
      <3> QED  BY <2>1, <3>1, <3>2
    <2>2. CASE ~IsNested(f)
      <3> DEFINE how == IF f.array # <<>> THEN "array"
                        ELSE IF f.prim = "string" THEN "string" ELSE "value"
      <3>1. SerializeCall(f) = [of |-> <<f.prim>>, n |-> Times(f), how |-> how]
        BY <2>2 DEF SerializeCall
      <3>2. how # "function"
        OBVIOUS
      <3>3. CASE f.prim = "string" /\ f.array = <<>>
        <4>1. DeserializeCall(f) = [of |-> <<"string">>, how |-> "string",
                                    n |-> StringMaxBytes]
          BY <3>3 DEF DeserializeCall
        <4>2. how = "string" /\ <<f.prim>> = <<"string">>
          BY <3>3
        <4> HIDE DEF how
        <4> QED  BY <3>1, <3>2, <4>1, <4>2
      <3>4. CASE ~(f.prim = "string" /\ f.array = <<>>)
        <4>1. DeserializeCall(f) = SerializeCall(f)
          BY <3>4 DEF DeserializeCall
        <4> HIDE DEF how
        <4> QED  BY <3>1, <3>2, <4>1
      <3> QED  BY <3>3, <3>4
    <2> QED  BY <2>1, <2>2
  <1>3. \A k \in DOMAIN fields : /\ ser[k] = SerializeCall(fields[k])
                                 /\ des[k] = DeserializeCall(fields[k])
    OBVIOUS
  <1>4. DOMAIN ser = DOMAIN fields /\ DOMAIN des = DOMAIN fields
    OBVIOUS
  <1> HIDE DEF ser, des
  <1>5. ASSUME NEW c \in Range(ser), c.how = "function"
        PROVE  \E k \in DOMAIN fields :
                   IsNested(fields[k]) /\ c.of = PrefixOf(StructName(fields[k].type))
    <2>1. PICK k \in DOMAIN fields : c = SerializeCall(fields[k])
      BY <1>3, <1>4 DEF Range
    <2> QED  BY <1>2, <1>5, <2>1
  <1>6. \A k \in DOMAIN fields : ser[k].of = des[k].of /\ ser[k].how = des[k].how
    BY <1>2, <1>3
  <1>7. /\ Serde(type, fields).prefix = type
        /\ Serde(type, fields).serialize = ser
        /\ Serde(type, fields).deserialize = des
    BY <1>1
  <1> QED  BY <1>4, <1>5, <1>6, <1>7

\* Structs and serialisers of these types are there once each and find what
\* they use.
Complete(structs, serde, types) ==
    /\ \A i, j \in DOMAIN structs : structs[i].name = structs[j].name => i = j
    /\ \A i \in DOMAIN structs : \A m \in Range(structs[i].members) :
          Len(m.ctype) > 1 => \E j \in 1 .. (i - 1) : structs[j].name = m.ctype
    /\ \A i, j \in DOMAIN serde : serde[i].prefix = serde[j].prefix => i = j
    /\ \A i \in DOMAIN serde :
          \E s \in Range(structs) : s.name = StructName(serde[i].prefix)
    /\ {serde[i].prefix : i \in DOMAIN serde} = types
    /\ \A i \in DOMAIN serde : \A c \in Range(serde[i].serialize) :
          c.how = "function" => c.of \in types
    /\ \A i \in DOMAIN serde :
          [k \in DOMAIN serde[i].serialize |->
               <<serde[i].serialize[k].of, serde[i].serialize[k].how>>]
          = [k \in DOMAIN serde[i].deserialize |->
               <<serde[i].deserialize[k].of, serde[i].deserialize[k].how>>]

\* What is written in order is complete.
LEMMA OrderedIsComplete ==
    ASSUME NEW M, NEW K, Closed(M, K), NEW ts, Ordered(ts, M, K)
    PROVE  Complete(StructsOut({}, ts, K).text, SerdeOut({}, ts, K).text, Range(ts))
  <1> DEFINE n == Len(ts)
             structs == StructsOut({}, ts, K).text
             serde == SerdeOut({}, ts, K).text
  <1>1. n \in Nat /\ DOMAIN ts = 1 .. n /\ Range(ts) \subseteq M
    BY OutIsTyped
  <1>2. /\ DOMAIN structs = 1 .. n /\ DOMAIN serde = 1 .. n
        /\ \A i \in 1 .. n : /\ structs[i] = CStruct(ts[i], K[ts[i]])
                             /\ serde[i] = Serde(ts[i], K[ts[i]])
    BY <1>1 DEF StructsOut, SerdeOut
  <1>3. \A i \in 1 .. n : /\ ts[i] \in Range(ts) /\ ts[i] \in M /\ ts[i] \in Types
                          /\ K[ts[i]] \in MsgFieldSeqs
    BY <1>1 DEF Closed, Range
  <1> HIDE DEF n, structs, serde
  <1>4. \A i \in 1 .. n : structs[i].name = StructName(ts[i]) /\ serde[i].prefix = ts[i]
    BY <1>2, <1>3, StructParts, SerdeParts
  <1>5. \A i, j \in 1 .. n : ts[i] = ts[j] => i = j
    BY <1>1 DEF Ordered
  <1>6. \A i, j \in 1 .. n : StructName(ts[i]) = StructName(ts[j]) => i = j
    BY <1>3, <1>5, NamesOfTypes
  <1>7. ASSUME NEW i \in 1 .. n, NEW k \in DOMAIN K[ts[i]], IsNested(K[ts[i]][k])
        PROVE  \E j \in 1 .. (i - 1) : j \in 1 .. n /\ ts[j] = K[ts[i]][k].type
    <2>1. PICK j \in 1 .. (i - 1) : ts[j] = K[ts[i]][k].type
      BY <1>1, <1>7 DEF Ordered
    <2>2. j \in 1 .. n
      BY <1>1
    <2> QED  BY <2>1, <2>2
  <1>8. ASSUME NEW i \in 1 .. n, NEW m \in Range(structs[i].members), Len(m.ctype) > 1
        PROVE  \E j \in 1 .. (i - 1) : structs[j].name = m.ctype
    <2>1. PICK k \in DOMAIN K[ts[i]] :
              IsNested(K[ts[i]][k]) /\ m.ctype = StructName(K[ts[i]][k].type)
      BY <1>2, <1>3, <1>8, StructParts
    <2>2. PICK j \in 1 .. (i - 1) : j \in 1 .. n /\ ts[j] = K[ts[i]][k].type
      BY <1>7, <2>1
    <2> QED  BY <1>4, <2>1, <2>2
  <1>9. ASSUME NEW i \in 1 .. n
        PROVE  \E s \in Range(structs) : s.name = StructName(serde[i].prefix)
    <2>1. structs[i] \in Range(structs)
      BY <1>2 DEF Range
    <2> QED  BY <1>4, <2>1
  <1>10. {serde[i].prefix : i \in DOMAIN serde} = Range(ts)
    BY <1>1, <1>2, <1>4 DEF Range
  <1>11. ASSUME NEW i \in 1 .. n, NEW c \in Range(serde[i].serialize), c.how = "function"
         PROVE  c.of \in Range(ts)
    <2>1. PICK k \in DOMAIN K[ts[i]] :
              IsNested(K[ts[i]][k]) /\ c.of = PrefixOf(StructName(K[ts[i]][k].type))
      BY <1>2, <1>3, <1>11, SerdeParts
    <2>2. PICK j \in 1 .. (i - 1) : j \in 1 .. n /\ ts[j] = K[ts[i]][k].type
      BY <1>7, <2>1
    <2>3. PrefixOf(StructName(ts[j])) = ts[j]
      BY <1>3, <2>2, NamesOfTypes
    <2> QED  BY <1>3, <2>1, <2>2, <2>3
  <1>12. ASSUME NEW i \in 1 .. n
         PROVE  [k \in DOMAIN serde[i].serialize |->
                      <<serde[i].serialize[k].of, serde[i].serialize[k].how>>]
                 = [k \in DOMAIN serde[i].deserialize |->
                      <<serde[i].deserialize[k].of, serde[i].deserialize[k].how>>]
    <2> DEFINE fields == K[ts[i]]
               ser == serde[i].serialize
               des == serde[i].deserialize
    <2>1. /\ DOMAIN ser = DOMAIN fields /\ DOMAIN des = DOMAIN fields
          /\ \A k \in DOMAIN fields : ser[k].of = des[k].of /\ ser[k].how = des[k].how
      BY <1>2, <1>3, SerdeParts
    <2> HIDE DEF fields, ser, des
    <2>2. [k \in DOMAIN ser |-> <<ser[k].of, ser[k].how>>]
              = [k \in DOMAIN des |-> <<des[k].of, des[k].how>>]
      BY <2>1
    <2> QED  BY <2>2 DEF ser, des
  <1>13. ASSUME NEW i \in 1 .. n, NEW j \in 1 .. n, structs[i].name = structs[j].name
         PROVE  i = j
    <2>1. StructName(ts[i]) = StructName(ts[j])
      BY <1>4, <1>13
    <2> QED  BY <1>6, <2>1
  <1>14. ASSUME NEW i \in 1 .. n, NEW j \in 1 .. n, serde[i].prefix = serde[j].prefix
         PROVE  i = j
    <2>1. ts[i] = ts[j]
      BY <1>4, <1>14
    <2> QED  BY <1>5, <2>1
  <1>15. DOMAIN structs = 1 .. n /\ DOMAIN serde = 1 .. n
    BY <1>2
  <1>16. /\ \A i, j \in DOMAIN structs : structs[i].name = structs[j].name => i = j
         /\ \A i \in DOMAIN structs : \A m \in Range(structs[i].members) :
               Len(m.ctype) > 1 => \E j \in 1 .. (i - 1) : structs[j].name = m.ctype
    BY <1>8, <1>13, <1>15
  <1>17. /\ \A i, j \in DOMAIN serde : serde[i].prefix = serde[j].prefix => i = j
         /\ \A i \in DOMAIN serde :
               \E s \in Range(structs) : s.name = StructName(serde[i].prefix)
         /\ \A i \in DOMAIN serde : \A c \in Range(serde[i].serialize) :
               c.how = "function" => c.of \in Range(ts)
    BY <1>9, <1>11, <1>14, <1>15
  <1>18. \A i \in DOMAIN serde :
            [k \in DOMAIN serde[i].serialize |->
                 <<serde[i].serialize[k].of, serde[i].serialize[k].how>>]
            = [k \in DOMAIN serde[i].deserialize |->
                 <<serde[i].deserialize[k].of, serde[i].deserialize[k].how>>]
    BY <1>12, <1>15, Zenon
  <1>19. Complete(structs, serde, Range(ts))
    BY <1>10, <1>16, <1>17, <1>18, Zenon DEF Complete
  <1> QED  BY <1>19 DEF structs, serde

-----------------------------------------------------------------------------
(* The calls of a serialiser                                               *)

\* The calls of Micro-CDR that a board makes.
BoardCalls ==
    {c \in [of : Prims, how : {"array", "string", "value"}] :
        c.how = "string" => c.of = "string"}

\* What max_cdr_size would make of them, each by itself and all.
CallPasses(calls) == [k \in DOMAIN calls |-> AddPrim[calls[k].of]]
Analysed(calls) == [acc \in Sums |-> Loop(CallPasses(calls), acc, Len(calls))]

\* Any passes that are such as these.
PrimPasses(pass, n) == \A k \in 1 .. n : \E prim \in Prims : pass[k] = AddPrim[prim]

\* The alignments are alignments.
LEMMA PrimsAreAligned ==
    ASSUME NEW prim \in Prims
    PROVE  /\ Align(prim) \in Alignments /\ Align(prim) \in Nat
           /\ prim # "string" => Size(prim) = Align(prim)
  <1>1. Align(prim) \in {1, 2, 4, 8}
    BY DEF Prims, Align
  <1> QED  BY <1>1 DEF Alignments, Size

\* A field takes some more bytes.
LEMMA AddPrimIsTyped ==
    ASSUME NEW prim \in Prims, NEW acc \in Sums
    PROVE  /\ AddPrim[prim][acc] = [pos |-> AfterPrim(acc.pos, prim),
                                    total |-> acc.total + PrimBytes(acc.pos, prim)]
           /\ AddPrim[prim][acc] \in Sums
           /\ AddPrim[prim][acc].total >= acc.total
  <1> DEFINE p == acc.pos
  <1>1. p \in Positions /\ acc.total \in Nat
    BY DEF Sums
  <1>2. p.r \in Nat /\ p.r % p.m = p.r
    <2>1. p.r \in 0 .. 7 /\ p.m \in {1, 2, 4, 8} /\ p.r < p.m
      BY <1>1 DEF Positions, Alignments
    <2> HIDE DEF p
    <2>2. \A r \in 0 .. 7 : \A m \in {1, 2, 4, 8} : r < m => r % m = r
      OBVIOUS
    <2> QED  BY <2>1, <2>2
  <1>3. AddPrim[prim][acc] = [pos |-> AfterPrim(p, prim), total |-> acc.total + PrimBytes(p, prim)]
    BY DEF AddPrim
  <1>4. PrimBytes(p, prim) \in Nat /\ AfterPrim(p, prim) \in Positions
    <2>1. CASE prim = "string"
      <3>1. 4 \in Alignments
        BY DEF Alignments
      <3>2. Pad(p, 4) \in 0 .. 7
        BY <1>1, <1>2, <3>1, PadCoversGap
      <3>3. PrimBytes(p, prim) \in Nat
        BY <2>1, <3>2, StringAssumption DEF PrimBytes
      <3>4. [r |-> 0, m |-> 1] \in Positions
        BY DEF Positions, Alignments
      <3> QED  BY <2>1, <3>3, <3>4 DEF AfterPrim
    <2>2. CASE prim # "string"
      <3>1. /\ Align(prim) \in Alignments /\ Align(prim) \in Nat
            /\ Size(prim) = Align(prim)
        BY <2>2, PrimsAreAligned
      <3>2. Pad(p, Align(prim)) \in 0 .. 7
        BY <1>1, <1>2, <3>1, PadCoversGap
      <3>3. Moved(p, Align(prim), Align(prim)) \in Positions
        BY <1>1, <1>2, <3>1, MovedIsKnown
      <3> HIDE DEF p
      <3>4. PrimBytes(p, prim) \in Nat
        BY <2>2, <3>1, <3>2 DEF PrimBytes
      <3> QED  BY <2>2, <3>1, <3>3, <3>4 DEF AfterPrim
    <2> QED  BY <2>1, <2>2
  <1> HIDE DEF p
  <1>5. [pos |-> AfterPrim(p, prim), total |-> acc.total + PrimBytes(p, prim)] \in Sums
    BY <1>1, <1>4 DEF Sums
  <1> QED  BY <1>1, <1>3, <1>4, <1>5 DEF p

\* So do calls.
LEMMA AnalysedIsTyped ==
    ASSUME NEW calls \in Seq(BoardCalls), NEW acc \in Sums
    PROVE  Analysed(calls)[acc] \in Sums /\ Analysed(calls)[acc].total >= acc.total
  <1> DEFINE pass == CallPasses(calls)
             S == {s \in Sums : s.total >= acc.total}
             n == Len(calls)
  <1>1. /\ n \in Nat /\ DOMAIN calls = 1 .. n
        /\ \A k \in 1 .. n : calls[k].of \in Prims /\ pass[k] = AddPrim[calls[k].of]
    BY LenProperties, ElementOfSeq DEF BoardCalls, CallPasses
  <1>2. Analysed(calls)[acc] = Loop(pass, acc, n)
    BY DEF Analysed
  <1>3. acc \in S
    BY DEF Sums
  <1> HIDE DEF pass, n
  <1>4. ASSUME NEW k \in 1 .. n, NEW s \in S
        PROVE  pass[k][s] \in S
    <2>1. /\ AddPrim[calls[k].of][s] \in Sums
          /\ AddPrim[calls[k].of][s].total >= s.total
      BY <1>1, AddPrimIsTyped
    <2>2. s.total \in Nat /\ acc.total \in Nat /\ s.total >= acc.total
      BY DEF Sums
    <2>3. AddPrim[calls[k].of][s].total \in Nat
      BY <2>1 DEF Sums
    <2> QED  BY <1>1, <2>1, <2>2, <2>3
  <1> HIDE DEF S
  <1>5. Agree(S, pass, pass, n)
    BY <1>4 DEF Agree
  <1>6. Loop(pass, acc, n) \in S
    BY <1>1, <1>3, <1>5, LoopsAgree
  <1> QED  BY <1>2, <1>6 DEF S

\* No calls take nothing.
LEMMA AnalysedEmpty ==
    ASSUME NEW acc \in Sums
    PROVE  Analysed(<<>>)[acc] = acc
  <1>1. Len(<<>>) = 0
    OBVIOUS
  <1>2. Analysed(<<>>)[acc] = Loop(CallPasses(<<>>), acc, 0)
    BY <1>1 DEF Analysed
  <1>3. 0 \in Nat
    OBVIOUS
  <1> QED  BY <1>2, <1>3, LoopNext

\* The same passes come to the same.
LEMMA SamePassesAgree ==
    ASSUME NEW n \in Nat, NEW pass, NEW other, NEW acc \in Sums, PrimPasses(pass, n),
           \A k \in 1 .. n : other[k] = pass[k]
    PROVE  Loop(other, acc, n) = Loop(pass, acc, n)
  <1>1. Agree(Sums, pass, other, n)
    BY AddPrimIsTyped DEF Agree, PrimPasses
  <1> QED  BY <1>1, LoopsAgree

\* Calls one after the other.
LEMMA AnalysedConcat ==
    ASSUME NEW s \in Seq(BoardCalls), NEW t \in Seq(BoardCalls), NEW acc \in Sums
    PROVE  Analysed(s \o t)[acc] = Analysed(t)[Analysed(s)[acc]]
  <1> DEFINE n == Len(s)
             m == Len(t)
             w == CallPasses(s \o t)
             rest == [k \in 1 .. m |-> w[n + k]]
  <1>1. /\ n \in Nat /\ DOMAIN s = 1 .. n
        /\ m \in Nat /\ DOMAIN t = 1 .. m
    BY LenProperties
  <1>2. /\ s \o t \in Seq(BoardCalls) /\ Len(s \o t) = n + m /\ DOMAIN (s \o t) = 1 .. n + m
        /\ \A k \in 1 .. n : (s \o t)[k] = s[k]
        /\ \A k \in 1 .. m : (s \o t)[n + k] = t[k]
    BY <1>1
  <1>3. /\ \A k \in 1 .. n + m : w[k] = AddPrim[(s \o t)[k].of]
        /\ \A k \in 1 .. n : CallPasses(s)[k] = AddPrim[s[k].of]
        /\ \A k \in 1 .. m : CallPasses(t)[k] = AddPrim[t[k].of]
    BY <1>1, <1>2 DEF CallPasses
  <1>4. /\ \A k \in 1 .. n : w[k] = CallPasses(s)[k]
        /\ \A k \in 1 .. m : rest[k] = CallPasses(t)[k]
    <2>1. /\ \A k \in 1 .. n : k \in 1 .. n + m
          /\ \A k \in 1 .. m : n + k \in 1 .. n + m /\ rest[k] = w[n + k]
      BY <1>1
    <2> HIDE DEF w, rest, n, m
    <2>2. \A k \in 1 .. n : w[k] = CallPasses(s)[k]
      BY <1>2, <1>3, <2>1
    <2>3. ASSUME NEW k \in 1 .. m PROVE rest[k] = CallPasses(t)[k]
      <3>1. rest[k] = w[n + k] /\ n + k \in 1 .. n + m
        BY <2>1
      <3>2. w[n + k] = AddPrim[(s \o t)[n + k].of]
        BY <1>3, <3>1
      <3>3. (s \o t)[n + k] = t[k] /\ CallPasses(t)[k] = AddPrim[t[k].of]
        BY <1>2, <1>3
      <3> QED  BY <3>1, <3>2, <3>3
    <2> QED  BY <2>2, <2>3
  <1>5. PrimPasses(CallPasses(s), n) /\ PrimPasses(CallPasses(t), m)
    <2>1. /\ \A k \in 1 .. n : s[k] \in BoardCalls
          /\ \A k \in 1 .. m : t[k] \in BoardCalls
      BY <1>1, ElementOfSeq
    <2> QED  BY <1>3, <2>1 DEF BoardCalls, PrimPasses
  <1>6. /\ Analysed(s \o t)[acc] = Loop(w, acc, n + m)
        /\ Analysed(s)[acc] = Loop(CallPasses(s), acc, n)
        /\ \A a \in Sums : Analysed(t)[a] = Loop(CallPasses(t), a, m)
    BY <1>2 DEF Analysed
  <1>7. Analysed(s)[acc] \in Sums
    BY AnalysedIsTyped
  <1> HIDE DEF w, n, m
  <1>8. Loop(w, acc, n + m) = Loop(rest, Loop(w, acc, n), m)
    BY <1>1, LoopSplit
  <1> HIDE DEF rest
  <1>9. Loop(w, acc, n) = Loop(CallPasses(s), acc, n)
    BY <1>1, <1>4, <1>5, SamePassesAgree
  <1>10. \A a \in Sums : Loop(rest, a, m) = Loop(CallPasses(t), a, m)
    BY <1>1, <1>4, <1>5, SamePassesAgree
  <1> QED  BY <1>6, <1>7, <1>8, <1>9, <1>10

\* One call.
LEMMA AnalysedOne ==
    ASSUME NEW c \in BoardCalls, NEW acc \in Sums
    PROVE  Analysed(<<c>>)[acc] = AddPrim[c.of][acc]
  <1> DEFINE pass == CallPasses(<<c>>)
  <1>1. pass[1] = AddPrim[c.of]
    BY DEF CallPasses
  <1>2. Analysed(<<c>>)[acc] = Loop(pass, acc, 1)
    BY DEF Analysed
  <1> HIDE DEF pass
  <1>3. 0 \in Nat /\ 0 + 1 = 1
    OBVIOUS
  <1>4. Loop(pass, acc, 0) = acc /\ Loop(pass, acc, 0 + 1) = pass[0 + 1][Loop(pass, acc, 0)]
    BY <1>3, LoopNext
  <1> QED  BY <1>1, <1>2, <1>3, <1>4

\* The first call, then the others.
LEMMA AnalysedHead ==
    ASSUME NEW calls \in Seq(BoardCalls), calls # <<>>, NEW acc \in Sums
    PROVE  /\ Head(calls) \in BoardCalls /\ Tail(calls) \in Seq(BoardCalls)
           /\ Analysed(calls)[acc] = Analysed(Tail(calls))[AddPrim[Head(calls).of][acc]]
  <1>1. /\ Head(calls) \in BoardCalls /\ Tail(calls) \in Seq(BoardCalls)
        /\ <<Head(calls)>> \in Seq(BoardCalls)
        /\ calls = <<Head(calls)>> \o Tail(calls)
    OBVIOUS
  <1>2. Analysed(<<Head(calls)>> \o Tail(calls))[acc]
            = Analysed(Tail(calls))[Analysed(<<Head(calls)>>)[acc]]
    BY <1>1, AnalysedConcat
  <1>3. Analysed(<<Head(calls)>>)[acc] = AddPrim[Head(calls).of][acc]
    BY <1>1, AnalysedOne
  <1> QED  BY <1>1, <1>2, <1>3

\* The sequences up to the n-th, one after the other.
FlatUpTo(seqs, g, n) ==
    g = [i \in 1 .. n |-> IF i = 1 THEN seqs[i] ELSE g[i - 1] \o seqs[i]]

\* There is a function that has them.
LEMMA FlatExists ==
    ASSUME NEW C, NEW seqs \in Seq(Seq(C))
    PROVE  \E g : FlatUpTo(seqs, g, Len(seqs))
  <1> DEFINE n == Len(seqs)
             S == Seq(C)
             pass == [i \in 1 .. n |-> [s \in S |-> s \o seqs[i]]]
             h == Passes(pass, <<>>, n)
             g == [i \in 1 .. n |-> h[i]]
  <1>1. n \in Nat /\ \A i \in 1 .. n : seqs[i] \in S
    BY LenProperties, ElementOfSeq
  <1>2. \A i \in 1 .. n : pass[i] \in [S -> S]
    BY <1>1
  <1>3. <<>> \in S
    OBVIOUS
  <1>4. \A i \in 1 .. n : \A s \in S : pass[i][s] = s \o seqs[i]
    OBVIOUS
  <1> HIDE DEF pass, n, S
  <1>5. \A i \in 0 .. n : h[i] \in S
    BY <1>1, <1>2, <1>3, LoopStays
  <1>6. h[0] = <<>> /\ \A i \in 1 .. n : h[i] = pass[i][h[i - 1]]
    BY <1>1, LoopDef
  <1> HIDE DEF h
  <1>7. ASSUME NEW i \in 1 .. n
        PROVE  g[i] = IF i = 1 THEN seqs[i] ELSE g[i - 1] \o seqs[i]
    <2>0. i - 1 \in 0 .. n /\ i \in Nat
      BY <1>1
    <2>1. h[i - 1] \in S /\ h[i] = h[i - 1] \o seqs[i] /\ g[i] = h[i]
      <3>1. h[i - 1] \in S
        BY <1>5, <2>0
      <3>2. h[i] = pass[i][h[i - 1]]
        BY <1>6
      <3> QED  BY <1>4, <3>1, <3>2, Zenon
    <2>2. CASE i = 1
      <3>1. <<>> \o seqs[i] = seqs[i]
        BY <1>1 DEF S
      <3>2. i - 1 = 0
        BY <2>2
      <3> HIDE DEF g
      <3> QED  BY <1>6, <2>1, <2>2, <3>1, <3>2
    <2>3. CASE i # 1
      <3>1. i - 1 \in 1 .. n
        BY <1>1, <2>3
      <3>2. g[i - 1] = h[i - 1]
        BY <3>1
      <3> HIDE DEF g
      <3> QED  BY <2>1, <2>3, <3>2
    <2> QED  BY <2>2, <2>3
  <1>8. g = [i \in 1 .. n |-> g[i]]
    OBVIOUS
  <1> HIDE DEF g
  <1>9. FlatUpTo(seqs, g, n)
    BY <1>7, <1>8 DEF FlatUpTo
  <1> QED  BY <1>9 DEF n

\* Calls in several parts are what comes of the parts.
LEMMA AnalysedFlat ==
    ASSUME NEW seqs \in Seq(Seq(BoardCalls))
    PROVE  /\ FlattenSeq(seqs) \in Seq(BoardCalls)
           /\ \A acc \in Sums :
                 Analysed(FlattenSeq(seqs))[acc]
                   = Loop([i \in DOMAIN seqs |-> Analysed(seqs[i])], acc, Len(seqs))
  <1> DEFINE n == Len(seqs)
             pass == [i \in DOMAIN seqs |-> Analysed(seqs[i])]
             S == Seq(BoardCalls)
  <1>1. /\ n \in Nat /\ DOMAIN seqs = 1 .. n
        /\ \A i \in 1 .. n : seqs[i] \in S /\ pass[i] = Analysed(seqs[i])
    BY LenProperties, ElementOfSeq
  <1>2. CASE n = 0
    <2>1. seqs = <<>> /\ FlattenSeq(seqs) = seqs
      BY <1>2 DEF FlattenSeq
    <2>2. \A acc \in Sums : Analysed(<<>>)[acc] = acc
      BY AnalysedEmpty
    <2> HIDE DEF pass
    <2>3. \A acc \in Sums : Loop(pass, acc, n) = acc
      BY <1>1, <1>2, LoopNext
    <2>4. \A acc \in Sums : Analysed(FlattenSeq(seqs))[acc] = Loop(pass, acc, n)
      BY <2>1, <2>2, <2>3
    <2>5. FlattenSeq(seqs) \in Seq(BoardCalls)
      <3>1. <<>> \in Seq(BoardCalls)
        OBVIOUS
      <3> QED  BY <2>1, <3>1
    <2> QED  BY <2>4, <2>5 DEF pass
  <1>3. CASE n # 0
    <2> DEFINE g == CHOOSE f : f = [i \in 1 .. n |->
                        IF i = 1 THEN seqs[i] ELSE f[i - 1] \o seqs[i]]
    <2>1. FlattenSeq(seqs) = g[n]
      BY <1>3 DEF FlattenSeq
    <2>2. \E f : f = [i \in 1 .. n |-> IF i = 1 THEN seqs[i] ELSE f[i - 1] \o seqs[i]]
      BY FlatExists DEF FlatUpTo
    <2>3. g = [i \in 1 .. n |-> IF i = 1 THEN seqs[i] ELSE g[i - 1] \o seqs[i]]
      BY <2>2
    <2> HIDE DEF g, n
    <2>4. \A i \in 1 .. n : g[i] = IF i = 1 THEN seqs[i] ELSE g[i - 1] \o seqs[i]
      BY <2>3, Zenon
    <2> DEFINE T == {i \in Nat : i + 1 <= n =>
                        /\ g[i + 1] \in S
                        /\ \A acc \in Sums : Analysed(g[i + 1])[acc] = Loop(pass, acc, i + 1)}
    <2> HIDE DEF pass, S
    <2>5. 0 \in T
      <3>1. 0 \in Nat /\ 0 + 1 = 1 /\ 1 \in 1 .. n
        BY <1>1, <1>3
      <3>2. g[1] = seqs[1] /\ seqs[1] \in S /\ pass[1] = Analysed(seqs[1])
        BY <1>1, <2>4, <3>1
      <3>3. \A acc \in Sums :
                Loop(pass, acc, 0) = acc
                /\ Loop(pass, acc, 0 + 1) = pass[0 + 1][Loop(pass, acc, 0)]
        BY <3>1, LoopNext
      <3>4. \A acc \in Sums : Analysed(g[1])[acc] = Loop(pass, acc, 1)
        BY <3>1, <3>2, <3>3
      <3> QED  BY <3>1, <3>2, <3>4
    <2>6. ASSUME NEW i \in Nat, i \in T
          PROVE  i + 1 \in T
      <3>1. SUFFICES ASSUME (i + 1) + 1 <= n
                     PROVE  /\ g[(i + 1) + 1] \in S
                            /\ \A acc \in Sums : Analysed(g[(i + 1) + 1])[acc]
                                                   = Loop(pass, acc, (i + 1) + 1)
        OBVIOUS
      <3> DEFINE k == i + 1
      <3>2. /\ k \in Nat /\ k + 1 \in 1 .. n /\ k + 1 # 1 /\ (k + 1) - 1 = k /\ k <= n
        BY <1>1, <3>1
      <3>3. g[k] \in S /\ \A acc \in Sums : Analysed(g[k])[acc] = Loop(pass, acc, k)
        BY <2>6, <3>2
      <3> HIDE DEF k, T
      <3>4. g[k + 1] = g[k] \o seqs[k + 1]
        BY <2>4, <3>2
      <3>5. seqs[k + 1] \in S /\ pass[k + 1] = Analysed(seqs[k + 1])
        BY <1>1, <3>2
      <3>6. g[k + 1] \in S
        BY <3>3, <3>4, <3>5 DEF S
      <3>7. ASSUME NEW acc \in Sums
            PROVE  Analysed(g[k + 1])[acc] = Loop(pass, acc, k + 1)
        <4>1. Analysed(g[k] \o seqs[k + 1])[acc] = Analysed(seqs[k + 1])[Analysed(g[k])[acc]]
          BY <3>3, <3>5, AnalysedConcat DEF S
        <4>2. Loop(pass, acc, k + 1) = pass[k + 1][Loop(pass, acc, k)]
          BY <3>2, LoopNext
        <4> QED  BY <3>3, <3>4, <3>5, <4>1, <4>2
      <3> QED  BY <3>6, <3>7 DEF k
    <2> HIDE DEF T
    <2>7. n - 1 \in Nat /\ (n - 1) + 1 = n
      BY <1>1, <1>3
    <2>8. n - 1 \in T
      BY <2>5, <2>6, <2>7, NatSetInduction
    <2>9. g[n] \in S /\ \A acc \in Sums : Analysed(g[n])[acc] = Loop(pass, acc, n)
      <3>1. n \in Nat /\ n <= n
        BY <1>1
      <3> QED  BY <2>7, <2>8, <3>1 DEF T
    <2> QED  BY <2>1, <2>9 DEF pass, S, n
  <1> QED  BY <1>2, <1>3

\* What MaxCdrSize does with a field and with all its elements, by the function
\* itself.
ElementOf(g, f) == IF IsNested(f) THEN g[f.fields] ELSE AddPrim[f.prim]

ElementsOf(g, f) == [a \in Sums |->
    Loop([j \in 1 .. Times(f) |-> ElementOf(g, f)], a, Times(f))]

FieldPasses(g, fields) == [i \in DOMAIN fields |-> ElementsOf(g, fields[i])]

SizeFrom(g, fields) == [acc \in Sums |-> Loop(FieldPasses(g, fields), acc, Len(fields))]

\* The sizes of fields of a depth.
SizesUpTo(g, d) == g = [fields \in FieldTrees[d] |-> SizeFrom(g, fields)]

\* It depends on what the function is for the members only.
LEMMA SizeByMembers ==
    ASSUME NEW g, NEW h, NEW fields,
           \A i \in DOMAIN fields : g[fields[i].fields] = h[fields[i].fields]
    PROVE  SizeFrom(g, fields) = SizeFrom(h, fields)
  <1>1. FieldPasses(g, fields) = FieldPasses(h, fields)
    BY DEF FieldPasses, ElementsOf, ElementOf
  <1> QED  BY <1>1, Zenon DEF SizeFrom

\* There is a function that has them.
LEMMA SizeFunctionExists ==
    ASSUME NEW d \in 0 .. MaxNesting
    PROVE  \E g : SizesUpTo(g, d)
  <1> DEFINE T == {m \in Nat : m <= MaxNesting => \E g : SizesUpTo(g, m)}
  <1> MaxNesting \in Nat
    BY NestingAssumption
  <1>1. 0 \in T
    <2> DEFINE g == [fields \in FieldTrees[0] |-> SizeFrom(<<>>, fields)]
    <2>1. ASSUME NEW fields \in FieldTrees[0]
          PROVE  g[fields] = SizeFrom(g, fields)
      <3>1. 0 \in 0 .. MaxNesting
        OBVIOUS
      <3>2. fields = <<>>
        BY <3>1, TreeParts
      <3>3. \A i \in DOMAIN fields : <<>>[fields[i].fields] = g[fields[i].fields]
        BY <3>2
      <3>4. g[fields] = SizeFrom(<<>>, fields)
        OBVIOUS
      <3> HIDE DEF g
      <3>5. SizeFrom(<<>>, fields) = SizeFrom(g, fields)
        BY <3>3, SizeByMembers
      <3> QED  BY <3>4, <3>5
    <2>2. g = [fields \in FieldTrees[0] |-> g[fields]]
      OBVIOUS
    <2> HIDE DEF g
    <2>3. g = [fields \in FieldTrees[0] |-> SizeFrom(g, fields)]
      BY <2>1, <2>2
    <2> QED  BY <2>3 DEF SizesUpTo
  <1>2. ASSUME NEW m \in Nat, m \in T
        PROVE  m + 1 \in T
    <2>1. SUFFICES ASSUME m + 1 <= MaxNesting PROVE \E g : SizesUpTo(g, m + 1)
      OBVIOUS
    <2>2. PICK h : SizesUpTo(h, m)
      BY <1>2, <2>1
    <2> DEFINE g == [fields \in FieldTrees[m + 1] |-> SizeFrom(h, fields)]
    <2>3. m + 1 \in 1 .. MaxNesting /\ (m + 1) - 1 = m /\ m + 1 \in 0 .. MaxNesting /\ m + 1 > 0
      BY <2>1
    <2>4. \A fields \in FieldTrees[m] : h[fields] = SizeFrom(h, fields)
      BY <2>2, Zenon DEF SizesUpTo
    <2>5. FieldTrees[m] \subseteq FieldTrees[m + 1]
      BY <2>3, TreesGrow
    <2>6. \A fields \in FieldTrees[m] : g[fields] = h[fields]
      BY <2>4, <2>5
    <2>7. ASSUME NEW fields \in FieldTrees[m + 1]
          PROVE  g[fields] = SizeFrom(g, fields)
      <3>1. \A i \in DOMAIN fields : fields[i].fields \in FieldTrees[m]
        BY <2>3, TreeParts
      <3>2. g[fields] = SizeFrom(h, fields)
        OBVIOUS
      <3> HIDE DEF g
      <3>3. \A i \in DOMAIN fields : h[fields[i].fields] = g[fields[i].fields]
        BY <2>6, <3>1
      <3>4. SizeFrom(h, fields) = SizeFrom(g, fields)
        BY <3>3, SizeByMembers
      <3> QED  BY <3>2, <3>4
    <2>8. g = [fields \in FieldTrees[m + 1] |-> g[fields]]
      OBVIOUS
    <2> HIDE DEF g
    <2>9. g = [fields \in FieldTrees[m + 1] |-> SizeFrom(g, fields)]
      BY <2>7, <2>8
    <2> QED  BY <2>9 DEF SizesUpTo
  <1> HIDE DEF T
  <1>3. d \in T /\ d <= MaxNesting
    BY <1>1, <1>2, NatSetInduction
  <1> QED  BY <1>3 DEF T

\* So MaxCdrSize is what its definition says.
LEMMA MaxCdrSizeDef ==
    \A fields \in MsgFieldSeqs : MaxCdrSize[fields] = SizeFrom(MaxCdrSize, fields)
  <1> DEFINE g == CHOOSE g : SizesUpTo(g, MaxNesting)
  <1>1. MaxCdrSize = g
    BY DEF MaxCdrSize, SizesUpTo, SizeFrom, FieldPasses, ElementsOf, ElementOf, MsgFieldSeqs
  <1>2. SizesUpTo(g, MaxNesting)
    <2>1. MaxNesting \in 0 .. MaxNesting
      BY NestingAssumption
    <2> QED  BY <2>1, SizeFunctionExists
  <1> HIDE DEF g
  <1>3. \A fields \in MsgFieldSeqs : g[fields] = SizeFrom(g, fields)
    BY <1>2, Zenon DEF SizesUpTo, MsgFieldSeqs
  <1> QED  BY <1>1, <1>3, Zenon

\* The calls do to what is known of a message what the pass does.
Means(calls, pass) ==
    /\ calls \in Seq(BoardCalls)
    /\ \A acc \in Sums : Analysed(calls)[acc] = pass[acc]

\* Loops over what is known of a message, when their passes agree.
LEMMA SumsAgree ==
    ASSUME NEW n \in Nat, NEW pass, NEW other, Agree(Sums, pass, other, n)
    PROVE  \A acc \in Sums : Loop(other, acc, n) = Loop(pass, acc, n)
  BY LoopsAgree

\* Calls in several parts do what their passes do one after the other.
LEMMA FlatMeans ==
    ASSUME NEW n \in Nat, NEW seqs, NEW pass, seqs = [i \in 1 .. n |-> seqs[i]],
           \A i \in 1 .. n : Means(seqs[i], pass[i])
    PROVE  Means(FlattenSeq(seqs), [acc \in Sums |-> Loop(pass, acc, n)])
  <1> DEFINE other == [i \in DOMAIN seqs |-> Analysed(seqs[i])]
             S == Seq(BoardCalls)
  <1>1. \A i \in 1 .. n : seqs[i] \in S
    BY DEF Means
  <1>2. seqs \in Seq(S) /\ Len(seqs) = n /\ DOMAIN seqs = 1 .. n
    <2> HIDE DEF S
    <2>1. seqs \in [1 .. n -> S]
      BY <1>1, Zenon
    <2>2. seqs \in Seq(S)
      BY <2>1, SeqDef
    <2>3. DOMAIN seqs = 1 .. n
      BY <2>1
    <2>4. Len(seqs) \in Nat /\ DOMAIN seqs = 1 .. Len(seqs)
      BY <2>2, LenProperties
    <2> QED  BY <2>2, <2>3, <2>4
  <1>3. /\ FlattenSeq(seqs) \in S
        /\ \A acc \in Sums : Analysed(FlattenSeq(seqs))[acc] = Loop(other, acc, n)
    BY <1>2, AnalysedFlat
  <1>4. \A i \in 1 .. n : other[i] = Analysed(seqs[i])
    BY <1>2
  <1> HIDE DEF other
  <1>5. Agree(Sums, other, pass, n)
    BY <1>4, AnalysedIsTyped DEF Agree, Means
  <1>6. \A acc \in Sums : Loop(pass, acc, n) = Loop(other, acc, n)
    BY <1>5, SumsAgree, Zenon
  <1>7. \A acc \in Sums : Analysed(FlattenSeq(seqs))[acc]
                              = [a \in Sums |-> Loop(pass, a, n)][acc]
    BY <1>3, <1>6
  <1> QED  BY <1>3, <1>7 DEF Means

-----------------------------------------------------------------------------
(* What the calls of a serialiser come to                                  *)

\* The serialiser of a prefix, among those of a text.
Named(text, p) == text[SelectInSeq(text, LAMBDA s : s.prefix = p)]

\* What CallsOf does with a call and with the calls of a body, by the function
\* itself.
OneCall(g, call) ==
    IF call.how = "function" THEN g[call.of] ELSE <<[of |-> call.of[1], how |-> call.how]>>

TimesCall(g, call) == FlattenSeq([j \in 1 .. call.n |-> OneCall(g, call)])

BodyCalls(g, body) == FlattenSeq([i \in DOMAIN body |-> TimesCall(g, body[i])])

\* The calls of the serialisers of the first n types.
Before(ts, n) == {ts[j] : j \in 1 .. n}

CallsUpTo(text, ts, g, n) ==
    g = [p \in Before(ts, n) |-> BodyCalls(g, Named(text, p).serialize)]

\* They depend on what the function is for the functions called only.
LEMMA CallsByInner ==
    ASSUME NEW g, NEW h, NEW body,
           \A i \in DOMAIN body : body[i].how = "function" => g[body[i].of] = h[body[i].of]
    PROVE  BodyCalls(g, body) = BodyCalls(h, body)
  <1>1. \A i \in DOMAIN body : OneCall(g, body[i]) = OneCall(h, body[i])
    BY DEF OneCall
  <1>2. \A i \in DOMAIN body : TimesCall(g, body[i]) = TimesCall(h, body[i])
    BY <1>1 DEF TimesCall
  <1>3. [i \in DOMAIN body |-> TimesCall(g, body[i])]
            = [i \in DOMAIN body |-> TimesCall(h, body[i])]
    BY <1>2, Zenon
  <1> QED  BY <1>3, Zenon DEF BodyCalls

\* Each type's serialiser is found by its prefix, and calls those before it.
LEMMA SerialiserIsFound ==
    ASSUME NEW M, NEW K, Closed(M, K), NEW ts, Ordered(ts, M, K), NEW i \in 1 .. Len(ts),
           NEW text, text = [j \in DOMAIN ts |-> Serde(ts[j], K[ts[j]])]
    PROVE  /\ Named(text, ts[i]) = Serde(ts[i], K[ts[i]])
           /\ \A k \in DOMAIN K[ts[i]] :
                 IsNested(K[ts[i]][k]) => K[ts[i]][k].type \in Before(ts, i - 1)
  <1>1. ts \in Seq(M) /\ Len(ts) \in Nat /\ DOMAIN ts = 1 .. Len(ts)
    BY LenProperties DEF Ordered
  <1>2. \A j \in 1 .. Len(ts) : ts[j] = ts[i] => j = i
    BY <1>1 DEF Ordered
  <1>3. /\ \A j \in 1 .. Len(ts) : text[j] = Serde(ts[j], K[ts[j]])
        /\ \A j \in 1 .. Len(ts) : text[j].prefix = ts[j]
    BY <1>1 DEF Serde
  <1>4. Len(text) = Len(ts)
    BY <1>1
  <1> DEFINE I == {j \in 1 .. Len(text) : text[j].prefix = ts[i]}
  <1>5. I = {i}
    <2>1. i \in 1 .. Len(text) /\ text[i].prefix = ts[i]
      BY <1>3, <1>4
    <2>2. \A j \in 1 .. Len(text) : text[j].prefix = ts[i] => j = i
      BY <1>2, <1>3, <1>4
    <2> QED  BY <2>1, <2>2, Zenon
  <1>6. SelectInSeq(text, LAMBDA s : s.prefix = ts[i]) = IF I # {} THEN Min(I) ELSE 0
    BY DEF SelectInSeq
  <1> HIDE DEF I
  <1>7. Min(I) = i
    BY <1>5 DEF Min
  <1>8. Named(text, ts[i]) = text[i]
    BY <1>5, <1>6, <1>7 DEF Named
  <1>9. \A k \in DOMAIN K[ts[i]] :
            IsNested(K[ts[i]][k]) => \E j \in 1 .. (i - 1) : ts[j] = K[ts[i]][k].type
    BY <1>1 DEF Ordered
  <1> QED  BY <1>3, <1>8, <1>9 DEF Before

\* A call as it is made for a field.
CallFits(call, f) ==
    /\ call.n = Times(f) /\ Times(f) \in Nat
    /\ IsNested(f) => call.how = "function" /\ call.of = f.type
    /\ ~IsNested(f) => /\ call.how # "function" /\ call.of = <<f.prim>>
                       /\ [of |-> f.prim, how |-> call.how] \in BoardCalls

\* Such are the calls of a serialiser.
LEMMA CallsOfFields ==
    ASSUME NEW M, NEW K, Closed(M, K), NEW A \in M, NEW k \in DOMAIN K[A]
    PROVE  CallFits(Serde(A, K[A]).serialize[k], K[A][k])
  <1> DEFINE f == K[A][k]
             call == Serde(A, K[A]).serialize[k]
  <1>1. call = SerializeCall(f)
    BY DEF Serde
  <1>2. K[A] \in MsgFieldSeqs
    BY DEF Closed
  <1>3. f.prim \in Prims \cup {"nested"} /\ f.type \in Types /\ f.array \in Seq(Nat)
    BY <1>2, FieldOfMsg
  <1> HIDE DEF f, call
  <1>4. Times(f) \in Nat
    <2>1. f.array # <<>> => f.array[1] \in Nat
      BY <1>3
    <2> QED  BY <2>1 DEF Times
  <1>5. call.n = Times(f)
    BY <1>1 DEF SerializeCall
  <1>6. IsNested(f) => call.how = "function" /\ call.of = f.type
    BY <1>1, <1>3, NamesOfTypes DEF SerializeCall
  <1>7. ~IsNested(f) =>
            /\ call.how # "function" /\ call.of = <<f.prim>>
            /\ [of |-> f.prim, how |-> call.how] \in BoardCalls
    <2>1. SUFFICES ASSUME ~IsNested(f)
                   PROVE  /\ call.how # "function" /\ call.of = <<f.prim>>
                          /\ [of |-> f.prim, how |-> call.how] \in BoardCalls
      OBVIOUS
    <2>2. f.prim \in Prims
      BY <1>3, <2>1 DEF IsNested
    <2>3. /\ call.of = <<f.prim>> /\ call.how \in {"array", "string", "value"}
          /\ call.how = "string" => f.prim = "string"
      BY <1>1, <2>1 DEF SerializeCall
    <2> QED  BY <2>2, <2>3 DEF BoardCalls
  <1>8. CallFits(call, f)
    BY <1>4, <1>5, <1>6, <1>7 DEF CallFits
  <1> QED  BY <1>8 DEF f, call

\* So they depend on what it is for the types before.
LEMMA CallsByBefore ==
    ASSUME NEW M, NEW K, Closed(M, K), NEW ts, Ordered(ts, M, K), NEW i \in 1 .. Len(ts),
           NEW text, text = [j \in DOMAIN ts |-> Serde(ts[j], K[ts[j]])],
           NEW g, NEW h, \A p \in Before(ts, i - 1) : g[p] = h[p]
    PROVE  BodyCalls(g, Named(text, ts[i]).serialize)
               = BodyCalls(h, Named(text, ts[i]).serialize)
  <1> DEFINE body == Serde(ts[i], K[ts[i]]).serialize
  <1>1. Named(text, ts[i]) = Serde(ts[i], K[ts[i]])
    BY SerialiserIsFound
  <1>2. ts[i] \in M
    BY ElementOfSeq, LenProperties DEF Ordered
  <1>3. DOMAIN body = DOMAIN K[ts[i]]
    BY DEF Serde
  <1>4. ASSUME NEW k \in DOMAIN body, body[k].how = "function"
        PROVE  g[body[k].of] = h[body[k].of]
    <2>1. k \in DOMAIN K[ts[i]]
      BY <1>3
    <2> DEFINE f == K[ts[i]][k]
    <2>4. CallFits(body[k], f)
      BY <1>2, <2>1, CallsOfFields
    <2>2. IsNested(f) /\ body[k].of = f.type
      <3> HIDE DEF f, body
      <3> QED  BY <1>4, <2>4 DEF CallFits
    <2>3. K[ts[i]][k].type \in Before(ts, i - 1)
      BY <2>1, <2>2, SerialiserIsFound
    <2> QED  BY <2>2, <2>3
  <1>5. \A k \in DOMAIN body : body[k].how = "function" => g[body[k].of] = h[body[k].of]
    BY <1>4
  <1> HIDE DEF body
  <1>6. BodyCalls(g, body) = BodyCalls(h, body)
    BY <1>5, CallsByInner
  <1> QED  BY <1>1, <1>6 DEF body

\* There is a function that has them.
LEMMA CallsExist ==
    ASSUME NEW M, NEW K, Closed(M, K), NEW ts, Ordered(ts, M, K),
           NEW text, text = [j \in DOMAIN ts |-> Serde(ts[j], K[ts[j]])],
           NEW n \in 0 .. Len(ts)
    PROVE  \E g : CallsUpTo(text, ts, g, n)
  <1> DEFINE C(g, p) == BodyCalls(g, Named(text, p).serialize)
             T == {m \in Nat : m <= Len(ts) => \E g : CallsUpTo(text, ts, g, m)}
  <1>0. Len(ts) \in Nat /\ \A i, j \in 1 .. Len(ts) : ts[i] = ts[j] => i = j
    BY LenProperties DEF Ordered
  <1>1. \A g, h : \A i \in 1 .. Len(ts) :
            (\A p \in Before(ts, i - 1) : g[p] = h[p]) => C(g, ts[i]) = C(h, ts[i])
    BY CallsByBefore
  <1>2. \A g, m : CallsUpTo(text, ts, g, m) <=> g = [p \in Before(ts, m) |-> C(g, p)]
    BY Zenon DEF CallsUpTo
  <1> HIDE DEF C
  <1>3. 0 \in T
    <2> DEFINE g == [p \in Before(ts, 0) |-> C(<<>>, p)]
    <2>1. Before(ts, 0) = {}
      BY DEF Before
    <2>2. g = [p \in Before(ts, 0) |-> C(g, p)]
      BY <2>1
    <2> HIDE DEF g
    <2>3. CallsUpTo(text, ts, g, 0)
      BY <1>2, <2>2
    <2> QED  BY <2>3
  <1>4. ASSUME NEW m \in Nat, m \in T
        PROVE  m + 1 \in T
    <2>1. SUFFICES ASSUME m + 1 <= Len(ts) PROVE \E g : CallsUpTo(text, ts, g, m + 1)
      OBVIOUS
    <2>0. m <= Len(ts)
      BY <1>0, <2>1
    <2>2. PICK h : CallsUpTo(text, ts, h, m)
      BY <1>4, <2>0
    <2> DEFINE g == [p \in Before(ts, m + 1) |-> C(h, p)]
    <2>3. \A p \in Before(ts, m) : h[p] = C(h, p)
      BY <1>2, <2>2, Zenon
    <2>4. \A i \in 1 .. m + 1 : i \in 1 .. Len(ts) /\ Before(ts, i - 1) \subseteq Before(ts, m)
      <3>1. ASSUME NEW i \in 1 .. m + 1
            PROVE  i \in 1 .. Len(ts) /\ 1 .. i - 1 \subseteq 1 .. m
        BY <1>0, <2>1
      <3> QED  BY <3>1 DEF Before
    <2>5. Before(ts, m) \subseteq Before(ts, m + 1)
      <3>1. 1 .. m \subseteq 1 .. m + 1
        OBVIOUS
      <3> QED  BY <3>1 DEF Before
    <2>6. \A p \in Before(ts, m) : g[p] = h[p]
      BY <2>3, <2>5
    <2>7. \A p \in Before(ts, m + 1) : g[p] = C(h, p)
      OBVIOUS
    <2>8. g = [p \in Before(ts, m + 1) |-> g[p]]
      OBVIOUS
    <2> HIDE DEF g
    <2>9. ASSUME NEW p \in Before(ts, m + 1)
          PROVE  g[p] = C(g, p)
      <3>1. PICK i \in 1 .. m + 1 : p = ts[i]
        BY DEF Before
      <3>2. \A q \in Before(ts, i - 1) : g[q] = h[q]
        BY <2>4, <2>6
      <3>3. C(g, p) = C(h, p)
        BY <1>1, <2>4, <3>1, <3>2
      <3> QED  BY <2>7, <3>3
    <2>10. g = [p \in Before(ts, m + 1) |-> C(g, p)]
      BY <2>8, <2>9
    <2>11. CallsUpTo(text, ts, g, m + 1)
      BY <1>2, <2>10
    <2> QED  BY <2>11
  <1> HIDE DEF T
  <1>5. n \in Nat /\ n <= Len(ts)
    BY <1>0
  <1>6. n \in T
    BY <1>3, <1>4, <1>5, NatSetInduction
  <1> QED  BY <1>5, <1>6 DEF T

\* A call of a field, as often as there are elements, does what MaxCdrSize makes
\* of the field.
LEMMA CallMeans ==
    ASSUME NEW M, NEW K, Closed(M, K), NEW A \in M, NEW k \in DOMAIN K[A], NEW g,
           IsNested(K[A][k]) => Means(g[K[A][k].type], MaxCdrSize[K[K[A][k].type]])
    PROVE  Means(TimesCall(g, Serde(A, K[A]).serialize[k]), ElementsOf(MaxCdrSize, K[A][k]))
  <1> DEFINE f == K[A][k]
             call == Serde(A, K[A]).serialize[k]
             n == Times(f)
             one == OneCall(g, call)
             pass == ElementOf(MaxCdrSize, f)
             seqs == [j \in 1 .. n |-> one]
             passes == [j \in 1 .. n |-> pass]
  <1>1. /\ call.n = n /\ n \in Nat
        /\ IsNested(f) => call.how = "function" /\ call.of = f.type
        /\ ~IsNested(f) => /\ call.how # "function" /\ call.of = <<f.prim>>
                           /\ [of |-> f.prim, how |-> call.how] \in BoardCalls
    <2>1. CallFits(call, f)
      BY CallsOfFields
    <2> QED  BY <2>1 DEF CallFits
  <1>2. Means(one, pass)
    <2>1. CASE IsNested(f)
      <3>1. f.fields = K[f.type]
        BY <2>1 DEF Closed
      <3>2. one = g[f.type] /\ pass = MaxCdrSize[f.fields]
        BY <1>1, <2>1 DEF OneCall, ElementOf
      <3> QED  BY <2>1, <3>1, <3>2
    <2>2. CASE ~IsNested(f)
      <3> DEFINE c == [of |-> f.prim, how |-> call.how]
      <3>1. c \in BoardCalls /\ call.of[1] = f.prim
        BY <1>1, <2>2
      <3>2. one = <<c>> /\ pass = AddPrim[c.of]
        BY <1>1, <2>2, <3>1 DEF OneCall, ElementOf
      <3> HIDE DEF c, one, pass
      <3>3. \A acc \in Sums : Analysed(<<c>>)[acc] = AddPrim[c.of][acc]
        BY <3>1, AnalysedOne
      <3>4. <<c>> \in Seq(BoardCalls)
        BY <3>1
      <3> QED  BY <3>2, <3>3, <3>4 DEF Means
    <2> QED  BY <2>1, <2>2
  <1>3. /\ TimesCall(g, call) = FlattenSeq(seqs)
        /\ ElementsOf(MaxCdrSize, f) = [acc \in Sums |-> Loop(passes, acc, n)]
    BY <1>1 DEF TimesCall, ElementsOf
  <1> HIDE DEF f, call, n, one, pass
  <1>4. /\ seqs = [i \in 1 .. n |-> seqs[i]]
        /\ \A i \in 1 .. n : Means(seqs[i], passes[i])
    BY <1>2
  <1> HIDE DEF seqs, passes
  <1>5. Means(FlattenSeq(seqs), [acc \in Sums |-> Loop(passes, acc, n)])
    BY <1>1, <1>4, FlatMeans
  <1>6. Means(TimesCall(g, call), ElementsOf(MaxCdrSize, f))
    BY <1>3, <1>5
  <1> QED  BY <1>6 DEF f, call

\* And those of a type what it makes of its fields, if those before do.
LEMMA BodyMeans ==
    ASSUME NEW M, NEW K, Closed(M, K), NEW ts, Ordered(ts, M, K), NEW i \in 1 .. Len(ts),
           NEW text, text = [j \in DOMAIN ts |-> Serde(ts[j], K[ts[j]])],
           NEW g, \A p \in Before(ts, i - 1) : Means(g[p], MaxCdrSize[K[p]])
    PROVE  Means(BodyCalls(g, Named(text, ts[i]).serialize), MaxCdrSize[K[ts[i]]])
  <1> DEFINE A == ts[i]
             body == Serde(A, K[A]).serialize
             n == Len(K[A])
             seqs == [k \in DOMAIN body |-> TimesCall(g, body[k])]
             passes == FieldPasses(MaxCdrSize, K[A])
  <1>1. Named(text, A) = Serde(A, K[A])
    BY SerialiserIsFound
  <1>2. A \in M
    BY ElementOfSeq, LenProperties DEF Ordered
  <1>3. K[A] \in MsgFieldSeqs
    BY <1>2 DEF Closed
  <1>4. n \in Nat /\ DOMAIN K[A] = 1 .. n /\ DOMAIN body = 1 .. n
    BY <1>3, FieldOfMsg DEF Serde
  <1>5. MaxCdrSize[K[A]] = [acc \in Sums |-> Loop(passes, acc, n)]
    BY <1>3, MaxCdrSizeDef, Zenon DEF SizeFrom
  <1>6. \A k \in 1 .. n : seqs[k] = TimesCall(g, body[k])
                          /\ passes[k] = ElementsOf(MaxCdrSize, K[A][k])
    BY <1>4 DEF FieldPasses
  <1>7. seqs = [k \in 1 .. n |-> seqs[k]]
    BY <1>4
  <1>8. BodyCalls(g, body) = FlattenSeq(seqs)
    BY DEF BodyCalls
  <1> HIDE DEF seqs, passes
  <1>9. ASSUME NEW k \in 1 .. n
        PROVE  Means(seqs[k], passes[k])
    <2>1. k \in DOMAIN K[A]
      BY <1>4
    <2>2. IsNested(K[A][k]) => K[A][k].type \in Before(ts, i - 1)
      BY <2>1, SerialiserIsFound
    <2>3. IsNested(K[A][k]) => Means(g[K[A][k].type], MaxCdrSize[K[K[A][k].type]])
      BY <2>2
    <2>4. Means(TimesCall(g, body[k]), ElementsOf(MaxCdrSize, K[A][k]))
      BY <1>2, <2>1, <2>3, CallMeans
    <2> QED  BY <1>6, <2>4
  <1> HIDE DEF n, body, A
  <1>10. Means(FlattenSeq(seqs), [acc \in Sums |-> Loop(passes, acc, n)])
    BY <1>4, <1>7, <1>9, FlatMeans
  <1>11. Means(BodyCalls(g, body), MaxCdrSize[K[A]])
    BY <1>5, <1>8, <1>10
  <1> QED  BY <1>1, <1>11 DEF body, A

\* So all of them do.
LEMMA CallsMean ==
    ASSUME NEW M, NEW K, Closed(M, K), NEW ts, Ordered(ts, M, K),
           NEW text, text = [j \in DOMAIN ts |-> Serde(ts[j], K[ts[j]])],
           NEW g, CallsUpTo(text, ts, g, Len(ts)), NEW A \in Range(ts)
    PROVE  Means(g[A], MaxCdrSize[K[A]])
  <1> DEFINE N == Len(ts)
             R(p) == Means(g[p], MaxCdrSize[K[p]])
             T == {m \in Nat : m <= N => \A p \in Before(ts, m) : R(p)}
  <1>1. N \in Nat /\ DOMAIN ts = 1 .. N
    BY LenProperties DEF Ordered
  <1>2. \A i \in 1 .. N : g[ts[i]] = BodyCalls(g, Named(text, ts[i]).serialize)
    <2>1. \A i \in 1 .. N : ts[i] \in Before(ts, N)
      BY DEF Before
    <2>2. \A p \in Before(ts, N) : g[p] = BodyCalls(g, Named(text, p).serialize)
      BY Zenon DEF CallsUpTo
    <2> QED  BY <2>1, <2>2
  <1>3. \A i \in 1 .. N :
            (\A p \in Before(ts, i - 1) : R(p)) =>
                Means(BodyCalls(g, Named(text, ts[i]).serialize), MaxCdrSize[K[ts[i]]])
    BY BodyMeans
  <1>4. \A i \in 1 .. N : (\A p \in Before(ts, i - 1) : R(p)) => R(ts[i])
    BY <1>2, <1>3
  <1> HIDE DEF R, N
  <1>5. 0 \in T
    <2>1. Before(ts, 0) = {}
      BY DEF Before
    <2> QED  BY <2>1
  <1>6. ASSUME NEW m \in Nat, m \in T
        PROVE  m + 1 \in T
    <2>1. SUFFICES ASSUME m + 1 <= N, NEW p \in Before(ts, m + 1) PROVE R(p)
      OBVIOUS
    <2>2. PICK j \in 1 .. m + 1 : p = ts[j]
      BY DEF Before
    <2>3. m <= N /\ m + 1 \in 1 .. N /\ (m + 1) - 1 = m
      BY <1>1, <2>1
    <2>4. \A q \in Before(ts, m) : R(q)
      BY <1>6, <2>3
    <2>5. CASE j \in 1 .. m
      BY <2>2, <2>4, <2>5 DEF Before
    <2>6. CASE j = m + 1
      <3>1. R(ts[m + 1])
        BY <1>4, <2>3, <2>4
      <3> QED  BY <2>2, <2>6, <3>1
    <2>7. j \in 1 .. m \/ j = m + 1
      OBVIOUS
    <2> QED  BY <2>5, <2>6, <2>7
  <1> HIDE DEF T
  <1>7. N \in T
    BY <1>1, <1>5, <1>6, NatSetInduction
  <1>8. A \in Before(ts, N)
    BY <1>1 DEF Range, Before
  <1> QED  BY <1>1, <1>7, <1>8 DEF T, R
=============================================================================
