-------------------------- MODULE StreamLine_proofs -------------------------
(***************************************************************************)
(* What the stream parser does with every sequence of bytes: its buffers   *)
(* hold, and a frame it delivers is spelt out by the bytes it has just     *)
(* heard.  The invariant IInv says how full each buffer is in each state,  *)
(* and that the part of a frame in hand is the end of what was heard.      *)
(*                                                                         *)
(* And what it makes of the frames of its sender: a line without a fault   *)
(* delivers them all, and Recovery plain frames after a fault the parser   *)
(* is in step again.  The invariant TrackInv says where the parser is in   *)
(* the frame written last; that the CRC it computes byte by byte is the    *)
(* one crc16_buf gives takes an induction over the bytes.                  *)
(***************************************************************************)
EXTENDS StreamLine, NatInduction, SequenceTheorems, TLAPS

\* The parser is fed a byte of the line.
Hears(b) == b \in Byte /\ heard' = Append(heard, b)

-----------------------------------------------------------------------------
(* Lemmas about sequences                                                  *)

\* What ends a sequence still does when both grow by the same element.
LEMMA EndsWithAppend ==
    ASSUME NEW s \in Seq(Byte), NEW t \in Seq(Byte), NEW b \in Byte,
           EndsWith(s, t)
    PROVE  EndsWith(Append(s, b), Append(t, b))
  <1>1. /\ Len(s) \in Nat /\ Len(t) \in Nat
        /\ Len(Append(s, b)) = Len(s) + 1
        /\ Len(Append(t, b)) = Len(t) + 1
    BY LenProperties, AppendProperties
  <1>2. Len(t) <= Len(s) /\ \A i \in 1 .. Len(t) : s[Len(s) - Len(t) + i] = t[i]
    BY DEF EndsWith
  <1>3. ASSUME NEW i \in 1 .. Len(t) + 1
        PROVE  Append(s, b)[Len(s) - Len(t) + i] = Append(t, b)[i]
    <2>0. i \in 1 .. Len(t) + 1
      BY <1>3
    <2>1. CASE i = Len(t) + 1
      BY <2>1, <1>1, <1>2, AppendProperties
    <2>2. CASE i \in 1 .. Len(t)
      <3>1. Append(t, b)[i] = t[i]
        BY <2>2, AppendProperties
      <3>2. Len(s) - Len(t) + i \in 1 .. Len(s)
        BY <2>2, <1>1, <1>2
      <3>3. Append(s, b)[Len(s) - Len(t) + i] = s[Len(s) - Len(t) + i]
        BY <3>2, AppendProperties
      <3> QED  BY <3>1, <3>3, <2>2, <1>2
    <2>3. i = Len(t) + 1 \/ i \in 1 .. Len(t)
      BY <2>0, <1>1
    <2> QED  BY <2>1, <2>2, <2>3
  <1>4. Len(Append(s, b)) - Len(Append(t, b)) = Len(s) - Len(t)
    BY <1>1
  <1>5. Len(Append(t, b)) <= Len(Append(s, b))
    BY <1>1, <1>2
  <1>6. \A i \in 1 .. Len(Append(t, b)) :
           Append(s, b)[Len(Append(s, b)) - Len(Append(t, b)) + i] = Append(t, b)[i]
    BY <1>1, <1>3, <1>4
  <1> QED  BY <1>5, <1>6 DEF EndsWith

\* Appending to the second of two sequences appends to both together.
LEMMA ConcatAppend ==
    ASSUME NEW s \in Seq(Byte), NEW t \in Seq(Byte), NEW b \in Byte
    PROVE  s \o Append(t, b) = Append(s \o t, b)
  <1>1. /\ Append(t, b) \in Seq(Byte) /\ s \o t \in Seq(Byte)
        /\ s \o Append(t, b) \in Seq(Byte) /\ Append(s \o t, b) \in Seq(Byte)
    BY AppendProperties, ConcatProperties
  <1>2. /\ Len(s) \in Nat /\ Len(t) \in Nat
        /\ Len(Append(t, b)) = Len(t) + 1
        /\ Len(s \o t) = Len(s) + Len(t)
        /\ Len(s \o Append(t, b)) = Len(s) + Len(t) + 1
        /\ Len(Append(s \o t, b)) = Len(s) + Len(t) + 1
    BY <1>1, LenProperties, AppendProperties, ConcatProperties
  <1>3. ASSUME NEW i \in 1 .. Len(s) + Len(t) + 1
        PROVE  (s \o Append(t, b))[i] = Append(s \o t, b)[i]
    <2>0. i \in 1 .. Len(s) + Len(t) + 1
      BY <1>3
    <2>1. (s \o Append(t, b))[i] =
             IF i <= Len(s) THEN s[i] ELSE Append(t, b)[i - Len(s)]
      <3>1. i \in 1 .. Len(s) + Len(Append(t, b))
        BY <2>0, <1>2
      <3> QED  BY <3>1, <1>1, ConcatProperties
    <2>2. CASE i = Len(s) + Len(t) + 1
      BY <2>1, <2>2, <1>1, <1>2, AppendProperties
    <2>3. CASE i <= Len(s) + Len(t)
      <3>1. Append(s \o t, b)[i] = (s \o t)[i]
        BY <2>3, <1>1, <1>2, AppendProperties
      <3>2. (s \o t)[i] = IF i <= Len(s) THEN s[i] ELSE t[i - Len(s)]
        BY <2>3, <1>2, ConcatProperties
      <3>3. i > Len(s) => Append(t, b)[i - Len(s)] = t[i - Len(s)]
        BY <2>3, <1>2, AppendProperties
      <3> QED  BY <2>1, <3>1, <3>2, <3>3, <1>2
    <2> QED  BY <2>0, <2>2, <2>3, <1>2
  <1> QED  BY <1>1, <1>2, <1>3, SeqEqual

\* Three pairs put together.
LEMMA PairsMakeHeader ==
    ASSUME NEW a \in Byte, NEW b \in Byte, NEW c \in Byte,
           NEW d \in Byte, NEW e \in Byte, NEW f \in Byte
    PROVE  <<a, b>> \o <<c, d>> \o <<e, f>> = <<a, b, c, d, e, f>>
  <1>1. /\ <<a, b>> \in Seq(Byte) /\ <<c, d>> \in Seq(Byte)
        /\ <<e, f>> \in Seq(Byte) /\ <<a, b, c, d, e, f>> \in Seq(Byte)
        /\ Len(<<a, b>>) = 2 /\ Len(<<c, d>>) = 2 /\ Len(<<e, f>>) = 2
        /\ Len(<<a, b, c, d, e, f>>) = 6
    OBVIOUS
  <1> DEFINE four == <<a, b>> \o <<c, d>>
  <1>2. /\ four \in Seq(Byte) /\ Len(four) = 4
        /\ \A i \in 1 .. 4 : four[i] = IF i <= 2 THEN <<a, b>>[i] ELSE <<c, d>>[i - 2]
    BY <1>1, ConcatProperties
  <1>3. four[1] = a /\ four[2] = b /\ four[3] = c /\ four[4] = d
    BY <1>2
  <1> DEFINE two == <<e, f>>
  <1>4. two \in Seq(Byte) /\ Len(two) = 2 /\ two[1] = e /\ two[2] = f
    BY <1>1
  <1> HIDE DEF four, two
  <1>5. /\ four \o two \in Seq(Byte) /\ Len(four \o two) = 6
        /\ \A i \in 1 .. 6 : (four \o two)[i] = IF i <= 4 THEN four[i] ELSE two[i - 4]
    <2>0. Len(four) = 4 /\ Len(two) = 2 /\ four \in Seq(Byte) /\ two \in Seq(Byte)
      BY <1>4, <1>2
    <2>1. /\ four \o two \in Seq(Byte) /\ Len(four \o two) = Len(four) + Len(two)
          /\ \A i \in 1 .. Len(four) + Len(two) : (four \o two)[i]
               = IF i <= Len(four) THEN four[i] ELSE two[i - Len(four)]
      BY <2>0, ConcatProperties
    <2> QED  BY <2>0, <2>1
  <1>6. ASSUME NEW i \in 1 .. 6
        PROVE  (four \o two)[i] = <<a, b, c, d, e, f>>[i]
    <2>1. i = 1 \/ i = 2 \/ i = 3 \/ i = 4 \/ i = 5 \/ i = 6
      OBVIOUS
    <2> DEFINE six == <<a, b, c, d, e, f>>
    <2>2. /\ six[1] = a /\ six[2] = b /\ six[3] = c
          /\ six[4] = d /\ six[5] = e /\ six[6] = f
      OBVIOUS
    <2> HIDE DEF six
    <2>3. (four \o two)[i] = six[i]
      <3>1. (four \o two)[1] = a /\ (four \o two)[2] = b
        BY <1>3, <1>5
      <3>2. (four \o two)[3] = c /\ (four \o two)[4] = d
        BY <1>3, <1>5
      <3>3. (four \o two)[5] = e /\ (four \o two)[6] = f
        BY <1>4, <1>5
      <3> QED  BY <2>1, <2>2, <3>1, <3>2, <3>3
    <2> QED  BY <2>3 DEF six
  <1>7. four \o two = <<a, b, c, d, e, f>>
    BY <1>1, <1>5, <1>6, SeqEqual
  <1> QED  BY <1>7 DEF four, two

\* A length read from two bytes is a natural number.
LEMMA LengthIsNat ==
    ASSUME NEW lo \in 0 .. 255, NEW hi \in 0 .. 255
    PROVE  U16(lo, hi) \in Nat
  BY DEF U16

\* Put back into bytes it gives them again.
LEMMA LengthBytes ==
    ASSUME NEW lo \in 0 .. 255, NEW hi \in 0 .. 255
    PROVE  U16Bytes(U16(lo, hi)) = <<lo, hi>>
  <1>1. (lo + 256 * hi) % 256 = lo
    OBVIOUS
  <1>2. (lo + 256 * hi) \div 256 = hi
    OBVIOUS
  <1>3. hi % 256 = hi
    OBVIOUS
  <1> QED  BY <1>1, <1>2, <1>3 DEF U16, U16Bytes

\* The length field of a whole header is a natural number.
LEMMA LengthOfIsNat ==
    ASSUME NEW h \in Seq(Byte), Len(h) = HeaderSize
    PROVE  LengthOf(h) \in Nat
  <1>1. h[5] \in Byte /\ h[6] \in Byte
    <2>1. 5 \in 1 .. Len(h) /\ 6 \in 1 .. Len(h)
      BY DEF HeaderSize
    <2> QED  BY <2>1, ElementOfSeq
  <1>2. h[5] \in 0 .. 255 /\ h[6] \in 0 .. 255
    BY <1>1, ParserAssumption
  <1>3. U16(h[5], h[6]) \in Nat
    BY <1>2, LengthIsNat, Zenon
  <1> QED  BY <1>3 DEF LengthOf

-----------------------------------------------------------------------------
(* The invariant, one lemma per action of the parser                       *)

\* Hunting for the magic number.
LEMMA HuntSyncKeeps ==
    ASSUME ParserInv, NEW b, Hears(b), HuntSync(b)
    PROVE  ParserInv'
  <1> USE DEF ParserInv, Hears
  <1>0. headerBuf[2] \in Byte
    <2>1. state = "HUNT_SYNC"
      BY DEF HuntSync
    <2>2. headerBuf \in Seq(Byte) /\ Len(headerBuf) = 2
      BY <2>1 DEF ParserTypeOK, Fill
    <2>3. 2 \in 1 .. Len(headerBuf)
      BY <2>2
    <2> QED  BY <2>2, <2>3, ElementOfSeq
  <1>1. /\ headerBuf' = <<headerBuf[2], b>> /\ headerBuf[2] \in Byte
        /\ state' = IF headerBuf' = Magic THEN "WAIT_HEADER" ELSE "HUNT_SYNC"
    BY <1>0 DEF HuntSync, Slide
  <1>2. headerBuf' \in Seq(Byte) /\ Len(headerBuf') = 2
        /\ headerBuf'[1] = headerBuf[2] /\ headerBuf'[2] = b
    BY <1>1
  <1>3. heard' \in Seq(Byte) /\ Len(heard') = Len(heard) + 1
        /\ heard'[Len(heard')] = b /\ Len(heard) \in Nat
    BY AppendProperties, LenProperties
  <1>4. ParserTypeOK'
    BY <1>1, <1>2 DEF HuntSync, ParserTypeOK
  <1>5. Fill'
    BY <1>1, <1>2 DEF HuntSync, Fill, HeaderSize
  <1>6. CASE headerBuf' = Magic
    <2>1. headerBuf[2] = Magic0 /\ b = Magic1 /\ state' = "WAIT_HEADER"
      BY <1>1, <1>2, <1>6 DEF Magic
    <2>2. Len(heard) > 0 /\ heard[Len(heard)] = Magic0
      BY <2>1 DEF HuntSync, HeldWasHeard
    <2>3. heard'[Len(heard)] = Magic0
      BY <2>2, <1>3, AppendProperties
    <2>4. EndsWith(heard', headerBuf')
      <3>1. Len(headerBuf') <= Len(heard')
        BY <1>2, <1>3, <2>2
      <3>2. ASSUME NEW i \in 1 .. Len(headerBuf')
            PROVE  heard'[Len(heard') - Len(headerBuf') + i] = headerBuf'[i]
        <4>1. i = 1 \/ i = 2
          BY <3>2, <1>2
        <4>2. Len(heard') - 2 + 1 = Len(heard) /\ Len(heard') - 2 + 2 = Len(heard')
          BY <1>3
        <4>3. CASE i = 1
          <5>1. Len(heard') - Len(headerBuf') + i = Len(heard)
            BY <4>2, <4>3, <1>2
          <5>2. headerBuf'[i] = Magic0
            BY <4>3, <1>2, <2>1
          <5> QED  BY <5>1, <5>2, <2>3
        <4>4. CASE i = 2
          BY <4>2, <4>4, <1>2, <1>3
        <4> QED  BY <4>1, <4>3, <4>4
      <3> QED  BY <3>1, <3>2 DEF EndsWith
    <2> QED  BY <2>1, <2>4, <1>2, <1>3, <1>4, <1>5 DEF HeldWasHeard, Held
  <1>7. CASE headerBuf' # Magic
    BY <1>1, <1>2, <1>3, <1>4, <1>5, <1>7 DEF HeldWasHeard
  <1> QED  BY <1>6, <1>7

\* One more byte of the header.
LEMMA CollectHeaderKeeps ==
    ASSUME ParserInv, NEW b, Hears(b), CollectHeader(b)
    PROVE  ParserInv'
  <1> USE DEF ParserInv, Hears
  <1>1. headerBuf' = Append(headerBuf, b) /\ state = "WAIT_HEADER" /\ state' = state
    BY DEF CollectHeader
  <1>2. headerBuf' \in Seq(Byte) /\ Len(headerBuf') = Len(headerBuf) + 1
        /\ headerBuf'[1] = headerBuf[1] /\ headerBuf'[2] = headerBuf[2]
    BY <1>1, AppendProperties DEF ParserTypeOK, Fill
  <1>3. heard' \in Seq(Byte) /\ EndsWith(heard', headerBuf')
    BY <1>1, EndsWithAppend, AppendProperties DEF HeldWasHeard, Held, ParserTypeOK
  <1>4. ParserTypeOK'
    BY <1>2 DEF CollectHeader, ParserTypeOK
  <1>5. Fill'
    <2>1. Len(headerBuf) \in 2 .. (HeaderSize - 1) /\ Len(headerBuf') < HeaderSize
      BY <1>1, <1>2 DEF CollectHeader, Fill
    <2>2. Len(headerBuf') \in 2 .. (HeaderSize - 1)
      BY <1>2, <2>1 DEF HeaderSize
    <2> QED  BY <1>1, <2>2 DEF CollectHeader, Fill
  <1>6. HeldWasHeard'
    BY <1>1, <1>2, <1>3 DEF HeldWasHeard, Held
  <1> QED  BY <1>3, <1>4, <1>5, <1>6

\* The last byte of a header that is taken.
LEMMA HeaderCompleteKeeps ==
    ASSUME ParserInv, NEW b, Hears(b), HeaderComplete(b)
    PROVE  ParserInv'
  <1> USE DEF ParserInv, Hears
  <1>1. /\ headerBuf' = Append(headerBuf, b) /\ state = "WAIT_HEADER"
        /\ state' = IF LengthOf(headerBuf') = 0 THEN "WAIT_CRC" ELSE "WAIT_PAYLOAD"
        /\ payloadBuf' = <<>> /\ crcBuf' = <<>>
        /\ LengthOf(headerBuf') <= BufferSize
    BY DEF HeaderComplete, LengthFits
  <1>2. headerBuf' \in Seq(Byte) /\ Len(headerBuf') = HeaderSize
        /\ headerBuf'[1] = headerBuf[1] /\ headerBuf'[2] = headerBuf[2]
    BY <1>1, AppendProperties DEF HeaderComplete, ParserTypeOK, Fill
  <1>3. LengthOf(headerBuf') \in Nat
    BY <1>2, LengthOfIsNat
  <1>4. heard' \in Seq(Byte) /\ EndsWith(heard', headerBuf')
    BY <1>1, EndsWithAppend, AppendProperties DEF HeldWasHeard, Held, ParserTypeOK
  <1>5. payloadBuf' \in Seq(Byte) /\ crcBuf' \in Seq(Byte)
        /\ Len(payloadBuf') = 0 /\ Len(crcBuf') = 0
    BY <1>1
  <1>6. headerBuf' \o payloadBuf' \o crcBuf' = headerBuf'
    BY <1>1, <1>2, ConcatEmptySeq
  <1>7. ParserTypeOK'
    BY <1>1, <1>2, <1>5 DEF HeaderComplete, ParserTypeOK
  <1>8. Fill'
    <2>1. CASE LengthOf(headerBuf') = 0
      BY <2>1, <1>1, <1>2, <1>5, ParserAssumption DEF Fill, CrcSize
    <2>2. CASE LengthOf(headerBuf') # 0
      BY <2>2, <1>1, <1>2, <1>3, <1>5, ParserAssumption DEF Fill, CrcSize
    <2> QED  BY <2>1, <2>2
  <1>9. HeldWasHeard'
    BY <1>1, <1>2, <1>4, <1>6 DEF HeldWasHeard, Held
  <1> QED  BY <1>4, <1>7, <1>8, <1>9

\* The last byte of a header whose length is trash.
LEMMA HeaderRejectedKeeps ==
    ASSUME ParserInv, NEW b, Hears(b), HeaderRejected(b)
    PROVE  ParserInv'
  <1> USE DEF ParserInv, Hears
  <1>1. headerBuf' = <<b, b>> /\ state' = "HUNT_SYNC"
    BY DEF HeaderRejected
  <1>2. heard' \in Seq(Byte) /\ Len(heard') = Len(heard) + 1
        /\ heard'[Len(heard')] = b /\ Len(heard) \in Nat
    BY AppendProperties, LenProperties
  <1>3. ParserTypeOK'
    BY <1>1 DEF HeaderRejected, ParserTypeOK
  <1>4. Fill'
    BY <1>1 DEF HeaderRejected, Fill
  <1>5. HeldWasHeard'
    BY <1>1, <1>2 DEF HeldWasHeard
  <1> QED  BY <1>2, <1>3, <1>4, <1>5

\* One more byte of the payload.
LEMMA CollectPayloadKeeps ==
    ASSUME ParserInv, NEW b, Hears(b), CollectPayload(b)
    PROVE  ParserInv'
  <1> USE DEF ParserInv, Hears
  <1>1. /\ state = "WAIT_PAYLOAD" /\ payloadBuf' = Append(payloadBuf, b)
        /\ state' = IF Len(payloadBuf') < LengthOf(headerBuf)
                    THEN "WAIT_PAYLOAD" ELSE "WAIT_CRC"
        /\ UNCHANGED <<headerBuf, crcBuf, delivered>>
    BY DEF CollectPayload
  <1>2. payloadBuf' \in Seq(Byte) /\ Len(payloadBuf') = Len(payloadBuf) + 1
        /\ Len(payloadBuf) \in Nat
    BY <1>1, AppendProperties, LenProperties DEF ParserTypeOK
  <1>3. /\ LengthOf(headerBuf) \in Nat /\ Len(headerBuf) = HeaderSize
        /\ LengthOf(headerBuf) <= BufferSize /\ Len(payloadBuf) < LengthOf(headerBuf)
        /\ crcBuf = <<>>
    BY <1>1, LengthOfIsNat, EmptySeq DEF Fill, ParserTypeOK
  <1>4. headerBuf \o payloadBuf' \o crcBuf'
          = Append(headerBuf \o payloadBuf \o crcBuf, b)
    <2>1. headerBuf \o payloadBuf \in Seq(Byte) /\ headerBuf \o payloadBuf' \in Seq(Byte)
      BY <1>2, ConcatProperties DEF ParserTypeOK
    <2>2. headerBuf \o payloadBuf' = Append(headerBuf \o payloadBuf, b)
      BY <1>1, ConcatAppend DEF ParserTypeOK
    <2> QED  BY <2>1, <2>2, <1>1, <1>3, ConcatEmptySeq
  <1>5. headerBuf \o payloadBuf \o crcBuf \in Seq(Byte)
    BY ConcatProperties DEF ParserTypeOK
  <1>6. heard' \in Seq(Byte)
        /\ EndsWith(heard', headerBuf' \o payloadBuf' \o crcBuf')
    <2>1. EndsWith(heard, headerBuf \o payloadBuf \o crcBuf)
      BY <1>1 DEF HeldWasHeard, Held
    <2>2. EndsWith(heard', Append(headerBuf \o payloadBuf \o crcBuf, b))
      BY <1>5, <2>1, EndsWithAppend
    <2>3. heard' \in Seq(Byte)
      BY AppendProperties
    <2> QED  BY <1>1, <1>4, <2>2, <2>3
  <1>7. ParserTypeOK'
    BY <1>1, <1>2 DEF ParserTypeOK
  <1>8. Fill'
    <2>1. CASE Len(payloadBuf') < LengthOf(headerBuf)
      BY <2>1, <1>1, <1>2, <1>3, ParserAssumption DEF Fill, CrcSize
    <2>2. CASE ~(Len(payloadBuf') < LengthOf(headerBuf))
      BY <2>2, <1>1, <1>2, <1>3, ParserAssumption DEF Fill, CrcSize
    <2> QED  BY <2>1, <2>2
  <1>9. HeldWasHeard'
    BY <1>1, <1>6 DEF HeldWasHeard, Held
  <1> QED  BY <1>6, <1>7, <1>8, <1>9

\* The first byte of the CRC.
LEMMA CollectCrcKeeps ==
    ASSUME ParserInv, NEW b, Hears(b), CollectCrc(b)
    PROVE  ParserInv'
  <1> USE DEF ParserInv, Hears
  <1>1. /\ state = "WAIT_CRC" /\ state' = state /\ crcBuf' = Append(crcBuf, b)
        /\ Len(crcBuf) + 1 < CrcSize
        /\ UNCHANGED <<headerBuf, payloadBuf, delivered>>
    BY DEF CollectCrc
  <1>2. crcBuf' \in Seq(Byte) /\ Len(crcBuf') = Len(crcBuf) + 1
    BY <1>1, AppendProperties DEF ParserTypeOK
  <1>3. headerBuf \o payloadBuf \in Seq(Byte)
        /\ headerBuf \o payloadBuf \o crcBuf \in Seq(Byte)
    BY ConcatProperties DEF ParserTypeOK
  <1>4. headerBuf' \o payloadBuf' \o crcBuf'
          = Append(headerBuf \o payloadBuf \o crcBuf, b)
    BY <1>1, <1>3, ConcatAppend DEF ParserTypeOK
  <1>5. heard' \in Seq(Byte)
        /\ EndsWith(heard', headerBuf' \o payloadBuf' \o crcBuf')
    <2>1. EndsWith(heard, headerBuf \o payloadBuf \o crcBuf)
      BY <1>1 DEF HeldWasHeard, Held
    <2>2. EndsWith(heard', Append(headerBuf \o payloadBuf \o crcBuf, b))
      BY <1>3, <2>1, EndsWithAppend
    <2>3. heard' \in Seq(Byte)
      BY AppendProperties
    <2> QED  BY <1>4, <2>2, <2>3
  <1>6. ParserTypeOK'
    BY <1>1, <1>2 DEF ParserTypeOK
  <1>7. Fill'
    BY <1>1, <1>2 DEF Fill, CrcSize
  <1>8. HeldWasHeard'
    BY <1>1, <1>5 DEF HeldWasHeard, Held
  <1> QED  BY <1>5, <1>6, <1>7, <1>8

\* The last byte of a frame, be its CRC right or wrong.
LEMMA CrcCompleteKeeps ==
    ASSUME ParserInv, NEW b, Hears(b), CrcComplete(b)
    PROVE  ParserInv'
  <1> USE DEF ParserInv, Hears
  <1>1. /\ state = "WAIT_CRC" /\ state' = "HUNT_SYNC" /\ headerBuf' = Magic
        /\ crcBuf' = Append(crcBuf, b) /\ Len(crcBuf) + 1 = CrcSize
        /\ payloadBuf' = payloadBuf
    BY DEF CrcComplete
  <1>2. crcBuf' \in Seq(Byte) /\ Len(crcBuf') = CrcSize
    BY <1>1, AppendProperties DEF ParserTypeOK
  <1>3. /\ headerBuf' \in Seq(Byte) /\ Len(headerBuf') = 2
        /\ headerBuf'[2] # Magic0
    BY <1>1, ParserAssumption DEF Magic
  <1>4. heard' \in Seq(Byte)
    BY AppendProperties
  <1>5. Frame(headerBuf, payloadBuf) \in
           [type : Byte, topic : Byte, payload : Seq(Byte)]
    <2>1. /\ headerBuf \in Seq(Byte) /\ payloadBuf \in Seq(Byte)
          /\ Len(headerBuf) = HeaderSize
      BY <1>1 DEF ParserTypeOK, Fill
    <2>2. 3 \in 1 .. Len(headerBuf) /\ 4 \in 1 .. Len(headerBuf)
      BY <2>1 DEF HeaderSize
    <2>3. headerBuf[3] \in Byte /\ headerBuf[4] \in Byte
      BY <2>1, <2>2, ElementOfSeq
    <2> QED  BY <2>1, <2>3 DEF Frame
  <1>6. delivered' \in Seq([type : Byte, topic : Byte, payload : Seq(Byte)])
    BY <1>5, AppendProperties DEF CrcComplete, ParserTypeOK
  <1>7. ParserTypeOK'
    BY <1>1, <1>2, <1>3, <1>6 DEF ParserTypeOK
  <1>8. Fill'
    BY <1>1, <1>2, <1>3 DEF Fill, CrcSize
  <1>9. HeldWasHeard'
    BY <1>1, <1>3 DEF HeldWasHeard
  <1> QED  BY <1>4, <1>7, <1>8, <1>9

\* Any byte the parser is fed.
LEMMA FeedKeeps ==
    ASSUME ParserInv, NEW b, Hears(b), Feed(b)
    PROVE  ParserInv'
  BY HuntSyncKeeps, CollectHeaderKeeps, HeaderCompleteKeeps, HeaderRejectedKeeps,
     CollectPayloadKeeps, CollectCrcKeeps, CrcCompleteKeeps DEF Feed

\* Steps of the line alone leave the parser as it is.
LEMMA ParserUntouched ==
    ASSUME ParserInv, UNCHANGED <<parserVars, heard>>
    PROVE  ParserInv'
  BY DEF ParserInv, ParserTypeOK, Fill, HeldWasHeard, Held, EndsWith, LengthOf,
         parserVars

-----------------------------------------------------------------------------
(* The invariant of the line                                               *)

\* What the line does to the bytes on it leaves bytes.
LEMMA DisturbedWire ==
    ASSUME wire \in Seq(Byte), Disturb
    PROVE  wire' \in Seq(Byte)
  <1> USE DEF Disturb
  <1>1. Tail(wire) \in Seq(Byte)
    BY HeadTailProperties
  <1>2. \A b \in NoiseBytes : <<b>> \in Seq(Byte)
    BY LineAssumption
  <1>3. CASE Lose
    BY <1>1, <1>3 DEF Lose
  <1>4. CASE Alter
    BY <1>1, <1>2, <1>4, ConcatProperties DEF Alter
  <1>5. CASE Insert
    BY <1>2, <1>5, ConcatProperties DEF Insert
  <1>6. CASE CutShort
    BY <1>6 DEF CutShort
  <1> QED  BY <1>3, <1>4, <1>5, <1>6

\* A frame written is one of the numbered ones, and its bytes are bytes.
LEMMA WriteKeeps ==
    ASSUME LineTypeOK, Write
    PROVE  LineTypeOK'
  <1>1. frames \in Seq(Frames) /\ Len(frames) \in Nat /\ Len(frames) < MaxFrames
    BY LenProperties DEF LineTypeOK, Write
  <1>2. Len(frames) + 1 \in 1 .. MaxFrames
    BY <1>1, LineAssumption
  <1>3. PICK f \in Traffic :
           /\ wire' = Written(f, Len(frames) + 1)
           /\ frames' = Append(frames, [type |-> f.type,
                                        topic |-> Len(frames) + 1,
                                        payload |-> f.payload])
    BY DEF Write
  <1>4. wire' \in Seq(Byte)
    BY <1>2, <1>3, LineAssumption
  <1>5. [type |-> f.type, topic |-> Len(frames) + 1, payload |-> f.payload] \in Frames
    BY <1>2 DEF Frames
  <1>6. frames' \in Seq(Frames)
    BY <1>1, <1>3, <1>5, AppendProperties
  <1> QED  BY <1>4, <1>6 DEF LineTypeOK

\* The invariant holds when the parser has just been initialised.
LEMMA InitIInv == Init => IInv
  <1> SUFFICES ASSUME Init PROVE IInv
    OBVIOUS
  <1> USE DEF Init, ParserInit
  <1>1. headerBuf = <<0, 0>> /\ headerBuf \in Seq(Byte) /\ Len(headerBuf) = 2
    BY ParserAssumption
  <1>2. LineTypeOK
    BY DEF LineTypeOK
  <1>3. ParserTypeOK
    BY <1>1 DEF ParserTypeOK
  <1>4. Fill
    BY <1>1, ParserAssumption DEF Fill, CrcSize
  <1>5. HeldWasHeard
    BY <1>1, ParserAssumption DEF HeldWasHeard
  <1>6. heard \in Seq(Byte)
    OBVIOUS
  <1> QED  BY <1>2, <1>3, <1>4, <1>5, <1>6 DEF IInv, ParserInv

\* Reading a byte is feeding it to the parser.
LEMMA ReadHears ==
    ASSUME wire \in Seq(Byte), Read
    PROVE  Hears(Head(wire)) /\ Feed(Head(wire)) /\ wire' \in Seq(Byte)
  <1>1. Head(wire) \in Byte /\ Tail(wire) \in Seq(Byte)
    BY HeadTailProperties DEF Read
  <1> QED  BY <1>1 DEF Read, Hears

\* Every step of the line keeps the invariant.
LEMMA StepKeepsIInv == IInv /\ [Next]_vars => IInv'
  <1> SUFFICES ASSUME IInv, [Next]_vars PROVE IInv'
    OBVIOUS
  <1>0. ParserInv /\ LineTypeOK
    BY DEF IInv
  <1>1. CASE Write
    <2>1. ParserInv'
      BY <1>0, <1>1, ParserUntouched DEF Write
    <2> QED  BY <1>0, <1>1, <2>1, WriteKeeps DEF IInv
  <1>2. CASE Read
    <2>1. ParserInv'
      BY <1>0, <1>2, ReadHears, FeedKeeps DEF LineTypeOK
    <2>2. LineTypeOK'
      BY <1>0, <1>2, ReadHears DEF LineTypeOK, Read
    <2> QED  BY <2>1, <2>2 DEF IInv
  <1>3. CASE Disturb
    <2>1. ParserInv'
      BY <1>0, <1>3, ParserUntouched DEF Disturb
    <2>2. LineTypeOK'
      BY <1>0, <1>3, DisturbedWire DEF LineTypeOK, Disturb
    <2> QED  BY <2>1, <2>2 DEF IInv
  <1>4. CASE UNCHANGED vars
    <2>1. ParserInv'
      BY <1>0, <1>4, ParserUntouched DEF vars
    <2>2. LineTypeOK'
      BY <1>0, <1>4 DEF LineTypeOK, vars
    <2> QED  BY <2>1, <2>2 DEF IInv
  <1> QED  BY <1>1, <1>2, <1>3, <1>4 DEF Next

\* The invariant holds throughout.
THEOREM ParserInvariance == Spec => []IInv
  BY InitIInv, StepKeepsIInv, PTL DEF Spec

\* BuffersHold, for every stream of bytes: nros_stream_parser_feed writes
\* within its three buffers.
THEOREM BuffersAlwaysHold == Spec => []BuffersHold
  <1>1. IInv => BuffersHold
    <2> SUFFICES ASSUME IInv PROVE BuffersHold
      OBVIOUS
    <2>1. ParserTypeOK /\ Fill
      BY DEF IInv, ParserInv
    <2>2. \/ Len(headerBuf) = 2
          \/ Len(headerBuf) \in 2 .. (HeaderSize - 1)
          \/ Len(headerBuf) = HeaderSize
      BY <2>1 DEF Fill, ParserTypeOK
    <2>3. Len(headerBuf) <= HeaderSize
      <3>1. CASE Len(headerBuf) = 2
        BY <3>1 DEF HeaderSize
      <3>2. CASE Len(headerBuf) \in 2 .. (HeaderSize - 1)
        <4>1. \A k \in 2 .. (HeaderSize - 1) : k <= HeaderSize
          BY DEF HeaderSize
        <4> QED  BY <3>2, <4>1
      <3>3. CASE Len(headerBuf) = HeaderSize
        BY <3>3 DEF HeaderSize
      <3> QED  BY <2>2, <3>1, <3>2, <3>3
    <2> QED  BY <2>1, <2>3 DEF Fill, BuffersHold
  <1> QED  BY <1>1, ParserInvariance, PTL

-----------------------------------------------------------------------------
(* What is delivered was heard                                             *)

\* A frame in hand, with its CRC, is the body of a frame and the two bytes.
LEMMA HeldIsBody ==
    ASSUME NEW h \in Seq(Byte), NEW p \in Seq(Byte),
           Len(h) = HeaderSize, h[1] = Magic0, h[2] = Magic1,
           Len(p) = LengthOf(h)
    PROVE  h \o p = FrameBody(Frame(h, p))
  <1>1. /\ 1 \in 1 .. Len(h) /\ 2 \in 1 .. Len(h) /\ 3 \in 1 .. Len(h)
        /\ 4 \in 1 .. Len(h) /\ 5 \in 1 .. Len(h) /\ 6 \in 1 .. Len(h)
    BY DEF HeaderSize
  <1>2. /\ h[3] \in Byte /\ h[4] \in Byte /\ h[5] \in Byte /\ h[6] \in Byte
    BY <1>1, ElementOfSeq
  <1>3. U16Bytes(Len(p)) = <<h[5], h[6]>>
    <2>1. h[5] \in 0 .. 255 /\ h[6] \in 0 .. 255
      BY <1>2, ParserAssumption
    <2>2. U16Bytes(U16(h[5], h[6])) = <<h[5], h[6]>>
      BY <2>1, LengthBytes, Zenon
    <2>3. Len(p) = U16(h[5], h[6])
      BY DEF LengthOf
    <2> QED  BY <2>2, <2>3
  <1>4. h = <<Magic0, Magic1, h[3], h[4], h[5], h[6]>>
    <2>1. <<Magic0, Magic1, h[3], h[4], h[5], h[6]>> \in Seq(Byte)
      BY <1>2, ParserAssumption
    <2>2. ASSUME NEW i \in 1 .. Len(h)
          PROVE  h[i] = <<Magic0, Magic1, h[3], h[4], h[5], h[6]>>[i]
      <3>1. i = 1 \/ i = 2 \/ i = 3 \/ i = 4 \/ i = 5 \/ i = 6
        BY DEF HeaderSize
      <3> QED  BY <3>1
    <2>3. Len(<<Magic0, Magic1, h[3], h[4], h[5], h[6]>>) = Len(h)
      BY DEF HeaderSize
    <2> QED  BY <2>1, <2>2, <2>3, SeqEqual
  <1>5. Magic \o <<h[3], h[4]>> \o <<h[5], h[6]>>
          = <<Magic0, Magic1, h[3], h[4], h[5], h[6]>>
    <2>1. Magic0 \in Byte /\ Magic1 \in Byte
      BY ParserAssumption
    <2>2. <<Magic0, Magic1>> \o <<h[3], h[4]>> \o <<h[5], h[6]>>
            = <<Magic0, Magic1, h[3], h[4], h[5], h[6]>>
      BY <2>1, <1>2, PairsMakeHeader
    <2> QED  BY <2>2 DEF Magic
  <1> QED  BY <1>3, <1>4, <1>5 DEF FrameBody, Frame

\* What a sequence ends with, but for the last c of its elements, is a slice.
LEMMA EndIsSlice ==
    ASSUME NEW s \in Seq(Byte), NEW t \in Seq(Byte), NEW c \in Seq(Byte),
           EndsWith(s, t \o c)
    PROVE  /\ Len(s) - Len(c) - Len(t) \in Nat
           /\ SubSeq(s, Len(s) - Len(c) - Len(t) + 1, Len(s) - Len(c)) = t
  <1> DEFINE n == Len(s) - Len(c) - Len(t)
             m == Len(s) - Len(c)
             cut == SubSeq(s, n + 1, m)
  <1>1. /\ Len(s) \in Nat /\ Len(t) \in Nat /\ Len(c) \in Nat
        /\ t \o c \in Seq(Byte) /\ Len(t \o c) = Len(t) + Len(c)
        /\ \A i \in 1 .. Len(t) + Len(c) :
              (t \o c)[i] = IF i <= Len(t) THEN t[i] ELSE c[i - Len(t)]
    BY LenProperties, ConcatProperties
  <1>2. Len(t) + Len(c) <= Len(s)
    BY <1>1 DEF EndsWith
  <1>3. n \in Nat /\ m \in Nat /\ m <= Len(s) /\ m = n + Len(t)
    BY <1>1, <1>2
  <1>4. /\ cut \in Seq(Byte) /\ Len(cut) = Len(t)
        /\ \A i \in 1 .. Len(t) : cut[i] = s[n + i]
    <2>1. n + 1 \in Int /\ m \in Int
      BY <1>1, <1>3
    <2> HIDE DEF n, m
    <2>2. ASSUME NEW i \in (n + 1) .. m
          PROVE  s[i] \in Byte
      <3>1. i \in 1 .. Len(s)
        BY <2>1, <2>2, <1>1, <1>3
      <3> QED  BY <3>1, ElementOfSeq
    <2>3. /\ cut \in Seq(Byte)
          /\ Len(cut) = IF n + 1 <= m THEN m - (n + 1) + 1 ELSE 0
          /\ \A i \in 1 .. m - (n + 1) + 1 : cut[i] = s[(n + 1) + i - 1]
      BY <2>1, <2>2, SubSeqProperties
    <2> HIDE DEF cut
    <2>4. Len(cut) = Len(t) /\ m - (n + 1) + 1 = Len(t)
      BY <2>3, <1>1, <1>3
    <2>5. ASSUME NEW i \in 1 .. Len(t)
          PROVE  cut[i] = s[n + i]
      <3>1. (n + 1) + i - 1 = n + i
        BY <1>1, <1>3
      <3> QED  BY <2>3, <2>4, <3>1
    <2> QED  BY <2>3, <2>4, <2>5
  <1>5. ASSUME NEW i \in 1 .. Len(t)
        PROVE  cut[i] = t[i]
    <2>0. i \in 1 .. Len(t) + Len(c)
      BY <1>1
    <2>1. s[Len(s) - Len(t \o c) + i] = (t \o c)[i]
      BY <2>0, <1>1 DEF EndsWith
    <2>2. Len(s) - Len(t \o c) + i = n + i
      BY <1>1
    <2>3. (t \o c)[i] = t[i]
      BY <2>0, <1>1
    <2> QED  BY <2>1, <2>2, <2>3, <1>4
  <1>6. cut = t
    BY <1>4, <1>5, SeqEqual
  <1> QED  BY <1>3, <1>6

\* DeliveredWasHeard, for every stream of bytes: nros_stream_parser_feed
\* passes on no frame that was not spelt out, whole and in one piece, just
\* before.  That its CRC was the right one is the guard of CrcComplete.
THEOREM DeliveredIsHeard == Spec => DeliveredWasHeard
  <1>1. IInv /\ IInv' /\ [Next]_vars =>
          (delivered' # delivered =>
             \E n \in 0 .. Len(heard) :
                SubSeq(heard', n + 1, Len(heard') - CrcSize)
                    = FrameBody(Last(delivered')))
    <2> SUFFICES ASSUME IInv, IInv', [Next]_vars, delivered' # delivered
                 PROVE  \E n \in 0 .. Len(heard) :
                           SubSeq(heard', n + 1, Len(heard') - CrcSize)
                               = FrameBody(Last(delivered'))
      OBVIOUS
    <2>1. PICK b \in Byte : heard' = Append(heard, b) /\ CrcComplete(b)
      <3>1. Read
        BY DEF Next, vars, Write, Disturb, parserVars
      <3>2. Hears(Head(wire)) /\ Feed(Head(wire))
        BY <3>1, ReadHears DEF IInv, LineTypeOK
      <3>3. CrcComplete(Head(wire))
        BY <3>2 DEF Feed, HuntSync, CollectHeader, HeaderComplete,
                    HeaderRejected, CollectPayload, CollectCrc
      <3> QED  BY <3>2, <3>3 DEF Hears
    <2>2. /\ ParserTypeOK /\ Fill /\ HeldWasHeard /\ heard \in Seq(Byte)
          /\ heard' \in Seq(Byte)
      BY DEF IInv, ParserInv
    <2>3. /\ state = "WAIT_CRC" /\ Len(crcBuf) + 1 = CrcSize
          /\ crcBuf' = Append(crcBuf, b)
          /\ delivered' = Append(delivered, Frame(headerBuf, payloadBuf))
      BY <2>1 DEF CrcComplete
    <2>4. /\ headerBuf \in Seq(Byte) /\ payloadBuf \in Seq(Byte)
          /\ crcBuf \in Seq(Byte) /\ Len(headerBuf) = HeaderSize
          /\ Len(payloadBuf) = LengthOf(headerBuf)
      BY <2>2, <2>3 DEF ParserTypeOK, Fill
    <2>5. /\ headerBuf[1] = Magic0 /\ headerBuf[2] = Magic1
          /\ EndsWith(heard, (headerBuf \o payloadBuf) \o crcBuf)
      BY <2>2, <2>3 DEF HeldWasHeard, Held
    <2> DEFINE body == headerBuf \o payloadBuf
    <2>6. body \in Seq(Byte) /\ body = FrameBody(Frame(headerBuf, payloadBuf))
      BY <2>4, <2>5, HeldIsBody, ConcatProperties
    <2>7. crcBuf' \in Seq(Byte) /\ Len(crcBuf') = CrcSize
      BY <2>3, <2>4, AppendProperties
    <2>8. EndsWith(heard', body \o crcBuf')
      <3>1. body \o crcBuf \in Seq(Byte)
        BY <2>4, <2>6, ConcatProperties
      <3>2. EndsWith(heard', Append(body \o crcBuf, b))
        BY <3>1, <2>1, <2>2, <2>5, EndsWithAppend
      <3>3. body \o crcBuf' = Append(body \o crcBuf, b)
        BY <2>3, <2>4, <2>6, ConcatAppend
      <3> QED  BY <3>2, <3>3
    <2> DEFINE n == Len(heard') - CrcSize - Len(body)
    <2>9. n \in Nat /\ SubSeq(heard', n + 1, Len(heard') - CrcSize) = body
      BY <2>2, <2>6, <2>7, <2>8, EndIsSlice
    <2>10. n \in 0 .. Len(heard)
      <3>1. Len(heard') = Len(heard) + 1 /\ Len(heard) \in Nat
        BY <2>1, <2>2, AppendProperties, LenProperties
      <3>2. Len(body) \in Nat
        BY <2>6, LenProperties
      <3> QED  BY <3>1, <3>2, <2>9 DEF CrcSize
    <2>11. Last(delivered') = Frame(headerBuf, payloadBuf)
      BY <2>2, <2>3, AppendProperties DEF ParserTypeOK, Last
    <2> QED  BY <2>6, <2>9, <2>10, <2>11
  <1>2. IInv /\ IInv' /\ [Next]_vars =>
          [delivered' # delivered =>
             \E n \in 0 .. Len(heard) :
                SubSeq(heard', n + 1, Len(heard') - CrcSize)
                    = FrameBody(Last(delivered'))]_vars
    BY <1>1
  <1> QED  BY <1>2, ParserInvariance, PTL DEF Spec, DeliveredWasHeard

-----------------------------------------------------------------------------
(* No magic number is missed                                               *)

\* A byte that is heard becomes the last one.
LEMMA HeardGrows ==
    ASSUME heard \in Seq(Byte), NEW b, Hears(b)
    PROVE  /\ Len(heard) \in Nat /\ Len(heard') = Len(heard) + 1
           /\ Last(heard') = b /\ heard'[Len(heard) + 1] = b
           /\ \A i \in 1 .. Len(heard) : heard'[i] = heard[i]
  BY AppendProperties, LenProperties DEF Hears, Last

\* What a sequence that grows by a byte has to end with, to end with the magic
\* number.
LEMMA MagicAtTheEnd ==
    ASSUME heard \in Seq(Byte), NEW b, Hears(b)
    PROVE  EndsWith(heard', Magic)
             <=> heard # <<>> /\ Last(heard) = Magic0 /\ b = Magic1
  <1>1. /\ Len(heard) \in Nat /\ Len(heard') = Len(heard) + 1
        /\ heard'[Len(heard) + 1] = b
        /\ \A i \in 1 .. Len(heard) : heard'[i] = heard[i]
    BY HeardGrows
  <1>2. Len(Magic) = 2 /\ Magic[1] = Magic0 /\ Magic[2] = Magic1
    BY ParserAssumption DEF Magic
  <1>3. heard = <<>> <=> Len(heard) = 0
    BY EmptySeq
  <1>4. CASE Len(heard) = 0
    BY <1>1, <1>2, <1>3, <1>4 DEF EndsWith
  <1>5. CASE Len(heard) > 0
    <2>1. /\ Len(heard') - Len(Magic) + 1 = Len(heard)
          /\ Len(heard') - Len(Magic) + 2 = Len(heard) + 1
          /\ Len(Magic) <= Len(heard') /\ Len(heard) \in 1 .. Len(heard)
      BY <1>1, <1>2, <1>5
    <2>2. 1 .. Len(Magic) = {1, 2}
      BY <1>2
    <2>3. EndsWith(heard', Magic)
            <=> heard'[Len(heard)] = Magic0 /\ heard'[Len(heard) + 1] = Magic1
      BY <1>2, <2>1, <2>2 DEF EndsWith
    <2>4. heard'[Len(heard)] = Last(heard)
      BY <1>1, <2>1 DEF Last
    <2> QED  BY <1>1, <1>3, <1>5, <2>3, <2>4
  <1> QED  BY <1>1, <1>4, <1>5

\* The window after each byte: only behind a frame is it not on the last one.
LEMMA FeedKeepsWindow ==
    ASSUME ParserInv, NEW b, Hears(b), Feed(b)
    PROVE  WindowIsLastHeard'
  <1>1. Last(heard') = b
    BY HeardGrows DEF ParserInv
  <1>2. CASE HuntSync(b)
    <2>1. headerBuf' = <<headerBuf[2], b>>
      BY <1>2 DEF HuntSync, Slide
    <2>2. headerBuf'[2] = b
      BY <2>1
    <2> QED  BY <1>1, <2>2 DEF WindowIsLastHeard
  <1>3. CASE HeaderRejected(b)
    <2>1. headerBuf' = <<b, b>>
      BY <1>3 DEF HeaderRejected
    <2>2. headerBuf'[2] = b
      BY <2>1
    <2> QED  BY <1>1, <2>2 DEF WindowIsLastHeard
  <1>4. CASE CrcComplete(b)
    <2>1. headerBuf' = Magic /\ Magic' = Magic
      BY <1>4 DEF CrcComplete, Magic
    <2> QED  BY <2>1 DEF WindowIsLastHeard
  <1>5. CASE CollectHeader(b) \/ HeaderComplete(b) \/ CollectPayload(b) \/ CollectCrc(b)
    <2>1. state' # "HUNT_SYNC"
      BY <1>5 DEF CollectHeader, HeaderComplete, CollectPayload, CollectCrc
    <2> QED  BY <2>1 DEF WindowIsLastHeard
  <1> QED  BY <1>2, <1>3, <1>4, <1>5 DEF Feed

\* Every step of the line keeps the window there.
LEMMA StepKeepsWindow == IInv /\ WindowIsLastHeard /\ [Next]_vars => WindowIsLastHeard'
  <1> SUFFICES ASSUME IInv, WindowIsLastHeard, [Next]_vars PROVE WindowIsLastHeard'
    OBVIOUS
  <1>1. CASE Read
    BY <1>1, ReadHears, FeedKeepsWindow DEF IInv, LineTypeOK
  <1>2. CASE Write \/ Disturb \/ UNCHANGED vars
    <2>1. UNCHANGED <<state, headerBuf, heard>>
      BY <1>2 DEF Write, Disturb, vars, parserVars
    <2> QED  BY <2>1 DEF WindowIsLastHeard, Magic
  <1> QED  BY <1>1, <1>2 DEF Next

\* MagicIsNeverMissed, for every stream of bytes: however header_buf has been
\* left by the headers and frames before, nros_stream_parser_feed begins a header
\* exactly at the magic numbers.
THEOREM NoMagicIsMissed == Spec => MagicIsNeverMissed
  <1>1. IInv /\ WindowIsLastHeard /\ [Next]_vars =>
          (state = "HUNT_SYNC" /\ heard' # heard =>
             (state' = "WAIT_HEADER" <=> headerBuf # Magic /\ EndsWith(heard', Magic)))
    <2> SUFFICES ASSUME IInv, WindowIsLastHeard, [Next]_vars,
                        state = "HUNT_SYNC", heard' # heard
                 PROVE  state' = "WAIT_HEADER"
                          <=> headerBuf # Magic /\ EndsWith(heard', Magic)
      OBVIOUS
    <2> DEFINE b == Head(wire)
    <2>1. Hears(b) /\ HuntSync(b)
      <3>1. Read
        BY DEF Next, vars, Write, Disturb
      <3>2. Hears(b) /\ Feed(b)
        BY <3>1, ReadHears DEF IInv, LineTypeOK
      <3> QED  BY <3>2 DEF Feed, CollectHeader, HeaderComplete, HeaderRejected,
                           CollectPayload, CollectCrc, CrcComplete
    <2> HIDE DEF b
    <2>2. ParserInv /\ heard \in Seq(Byte)
      BY DEF IInv, ParserInv
    <2>3. EndsWith(heard', Magic) <=> heard # <<>> /\ Last(heard) = Magic0 /\ b = Magic1
      BY <2>1, <2>2, MagicAtTheEnd
    <2>4. state' = "WAIT_HEADER" <=> headerBuf[2] = Magic0 /\ b = Magic1
      BY <2>1 DEF HuntSync, Slide, Magic
    <2>5. headerBuf = Magic => headerBuf[2] # Magic0
      BY ParserAssumption DEF Magic
    <2>6. headerBuf[2] = Magic0 => heard # <<>>
      BY <2>1, <2>2 DEF HuntSync, ParserInv, HeldWasHeard
    <2> QED  BY <2>1, <2>3, <2>4, <2>5, <2>6 DEF WindowIsLastHeard
  <1>2. IInv /\ WindowIsLastHeard /\ [Next]_vars =>
          [state = "HUNT_SYNC" /\ heard' # heard =>
             (state' = "WAIT_HEADER"
                <=> headerBuf # Magic /\ EndsWith(heard', Magic))]_vars
    BY <1>1
  <1>3. Init => WindowIsLastHeard
    BY DEF Init, WindowIsLastHeard
  <1> QED  BY <1>2, <1>3, StepKeepsWindow, ParserInvariance, PTL
           DEF Spec, MagicIsNeverMissed

-----------------------------------------------------------------------------
(* The CRC of a growing frame                                              *)

\* The CRCs of the prefixes of s, up to its first n bytes.
PrefixCrcs(g, s, n) ==
    g = [i \in 0 .. n |-> IF i = 0 THEN CrcInit ELSE CrcUpdate(g[i - 1], s[i])]

\* They can be had for every sequence: crc16_buf's loop goes through all of it.
LEMMA PrefixCrcsExist ==
    ASSUME NEW s, NEW n \in Nat
    PROVE  \E g : PrefixCrcs(g, s, n)
  <1> DEFINE T == {m \in Nat : \E g : PrefixCrcs(g, s, m)}
  <1>1. 0 \in T
    <2> DEFINE g == [i \in 0 .. 0 |-> CrcInit]
    <2>1. g = [i \in 0 .. 0 |-> IF i = 0 THEN CrcInit ELSE CrcUpdate(g[i - 1], s[i])]
      OBVIOUS
    <2> QED  BY <2>1 DEF PrefixCrcs
  <1>2. ASSUME NEW m \in Nat, m \in T
        PROVE  m + 1 \in T
    <2>1. PICK g : PrefixCrcs(g, s, m)
      BY <1>2
    <2> DEFINE h == [i \in 0 .. m + 1 |-> IF i <= m THEN g[i]
                                                    ELSE CrcUpdate(g[m], s[m + 1])]
    <2>2. /\ g[0] = CrcInit
          /\ \A i \in 1 .. m : g[i] = CrcUpdate(g[i - 1], s[i])
      BY <2>1 DEF PrefixCrcs
    <2>3. ASSUME NEW i \in 0 .. m + 1
          PROVE  h[i] = IF i = 0 THEN CrcInit ELSE CrcUpdate(h[i - 1], s[i])
      <3>1. CASE i = 0
        BY <2>2, <3>1
      <3>2. CASE i \in 1 .. m
        <4>1. h[i] = g[i] /\ h[i - 1] = g[i - 1]
          BY <3>2
        <4> QED  BY <4>1, <2>2, <3>2
      <3>3. CASE i = m + 1
        <4>1. h[i] = CrcUpdate(g[m], s[m + 1]) /\ h[i - 1] = g[m] /\ i # 0
          BY <3>3
        <4> QED  BY <4>1, <3>3
      <3> QED  BY <3>1, <3>2, <3>3
    <2> HIDE DEF h
    <2>4. h = [i \in 0 .. m + 1 |-> h[i]]
      BY DEF h
    <2>5. PrefixCrcs(h, s, m + 1)
      BY <2>3, <2>4 DEF PrefixCrcs
    <2> QED  BY <2>5
  <1> HIDE DEF T
  <1>3. n \in T
    BY <1>1, <1>2, NatSetInduction
  <1> QED  BY <1>3 DEF T

\* CrcOf is the last of them.
LEMMA CrcOfIsPrefixCrc ==
    ASSUME NEW s \in Seq(Nat)
    PROVE  \E g : /\ CrcOf(s) = g[Len(s)]
                  /\ g[0] = CrcInit
                  /\ \A i \in 1 .. Len(s) : g[i] = CrcUpdate(g[i - 1], s[i])
  <1> DEFINE crc == CHOOSE g : g = [n \in 0 .. Len(s) |->
                        IF n = 0 THEN CrcInit ELSE CrcUpdate(g[n - 1], s[n])]
  <1>1. CrcOf(s) = crc[Len(s)]
    BY DEF CrcOf
  <1>2. \E g : g = [n \in 0 .. Len(s) |->
                        IF n = 0 THEN CrcInit ELSE CrcUpdate(g[n - 1], s[n])]
    BY PrefixCrcsExist, LenProperties DEF PrefixCrcs
  <1>3. crc = [n \in 0 .. Len(s) |->
                        IF n = 0 THEN CrcInit ELSE CrcUpdate(crc[n - 1], s[n])]
    BY <1>2
  <1> HIDE DEF crc
  <1>4. Len(s) \in Nat
    BY LenProperties
  <1>5. crc[0] = CrcInit /\ \A i \in 1 .. Len(s) : crc[i] = CrcUpdate(crc[i - 1], s[i])
    BY <1>3, <1>4
  <1> QED  BY <1>1, <1>5

\* crc16_update byte by byte, as the parser does, is crc16_buf of it all.
LEMMA CrcOfAppend ==
    ASSUME NEW s \in Seq(Nat), NEW b \in Nat
    PROVE  CrcOf(Append(s, b)) = CrcUpdate(CrcOf(s), b)
  <1> DEFINE t == Append(s, b)
  <1>1. /\ t \in Seq(Nat) /\ Len(s) \in Nat /\ Len(t) = Len(s) + 1
        /\ t[Len(s) + 1] = b /\ \A i \in 1 .. Len(s) : s[i] = t[i]
    BY AppendProperties, LenProperties
  <1> HIDE DEF t
  <1>2. PICK g : /\ CrcOf(s) = g[Len(s)]
                 /\ g[0] = CrcInit
                 /\ \A i \in 1 .. Len(s) : g[i] = CrcUpdate(g[i - 1], s[i])
    BY CrcOfIsPrefixCrc
  <1>3. PICK h : /\ CrcOf(t) = h[Len(t)]
                 /\ h[0] = CrcInit
                 /\ \A i \in 1 .. Len(t) : h[i] = CrcUpdate(h[i - 1], t[i])
    BY <1>1, CrcOfIsPrefixCrc
  <1> DEFINE T == {i \in Nat : i <= Len(s) => g[i] = h[i]}
  <1>4. 0 \in T
    BY <1>2, <1>3
  <1>5. ASSUME NEW i \in Nat, i \in T
        PROVE  i + 1 \in T
    <2> SUFFICES ASSUME i + 1 <= Len(s) PROVE g[i + 1] = h[i + 1]
      OBVIOUS
    <2>1. i + 1 \in 1 .. Len(s) /\ i + 1 \in 1 .. Len(t) /\ (i + 1) - 1 = i
      BY <1>1
    <2>2. g[i + 1] = CrcUpdate(g[i], s[i + 1])
      BY <1>2, <2>1
    <2>3. h[i + 1] = CrcUpdate(h[i], t[i + 1])
      BY <1>3, <2>1
    <2>4. g[i] = h[i]
      BY <1>1, <1>5
    <2> QED  BY <1>1, <2>1, <2>2, <2>3, <2>4
  <1> HIDE DEF T
  <1>6. Len(s) \in T
    BY <1>1, <1>4, <1>5, NatSetInduction
  <1>7. g[Len(s)] = h[Len(s)]
    BY <1>1, <1>6 DEF T
  <1>8. Len(t) \in 1 .. Len(t) /\ Len(t) - 1 = Len(s)
    BY <1>1
  <1>9. h[Len(t)] = CrcUpdate(h[Len(t) - 1], t[Len(t)])
    BY <1>3, <1>8
  <1>10. CrcOf(t) = CrcUpdate(CrcOf(s), b)
    BY <1>1, <1>2, <1>3, <1>7, <1>8, <1>9
  <1> QED  BY <1>10 DEF t

-----------------------------------------------------------------------------
(* What a frame is on the line                                             *)

\* put_u16 and get_u16 of what a uint16_t can hold.
LEMMA BytesOfLength ==
    ASSUME NEW v \in Nat, v < 256 * 256
    PROVE  /\ v % 256 \in Nat /\ (v \div 256) % 256 \in Nat
           /\ U16(v % 256, (v \div 256) % 256) = v
  <1>1. v \div 256 \in Nat /\ v \div 256 < 256
    OBVIOUS
  <1>2. (v \div 256) % 256 = v \div 256
    BY <1>1
  <1>3. v % 256 \in Nat /\ v = 256 * (v \div 256) + (v % 256)
    OBVIOUS
  <1> QED  BY <1>1, <1>2, <1>3 DEF U16

\* Where the elements of two sequences are in their concatenation.
LEMMA ConcatParts ==
    ASSUME NEW s \in Seq(Nat), NEW t \in Seq(Nat)
    PROVE  /\ s \o t \in Seq(Nat) /\ Len(s \o t) = Len(s) + Len(t)
           /\ \A i \in 1 .. Len(s) : (s \o t)[i] = s[i]
           /\ \A i \in 1 .. Len(t) : (s \o t)[Len(s) + i] = t[i]
  <1>1. /\ s \o t \in Seq(Nat) /\ Len(s \o t) = Len(s) + Len(t)
        /\ Len(s) \in Nat /\ Len(t) \in Nat
        /\ \A i \in 1 .. Len(s) + Len(t) :
              (s \o t)[i] = IF i <= Len(s) THEN s[i] ELSE t[i - Len(s)]
    BY ConcatProperties, LenProperties
  <1>2. \A i \in 1 .. Len(s) : (s \o t)[i] = s[i]
    BY <1>1
  <1>3. ASSUME NEW i \in 1 .. Len(t)
        PROVE  (s \o t)[Len(s) + i] = t[i]
    <2>1. /\ Len(s) + i \in 1 .. Len(s) + Len(t) /\ ~ (Len(s) + i <= Len(s))
          /\ (Len(s) + i) - Len(s) = i
      BY <1>1
    <2>2. (s \o t)[Len(s) + i] = t[(Len(s) + i) - Len(s)]
      BY <1>1, <2>1
    <2> QED  BY <2>1, <2>2
  <1> QED  BY <1>1, <1>2, <1>3

\* The header of a frame, byte by byte.
LEMMA SixBytes ==
    ASSUME NEW a \in Nat, NEW b \in Nat, NEW c \in Nat,
           NEW d \in Nat, NEW e \in Nat, NEW f \in Nat
    PROVE  /\ <<a, b>> \o <<c, d>> \o <<e, f>> \in Seq(Nat)
           /\ Len(<<a, b>> \o <<c, d>> \o <<e, f>>) = 6
           /\ (<<a, b>> \o <<c, d>> \o <<e, f>>)[1] = a
           /\ (<<a, b>> \o <<c, d>> \o <<e, f>>)[2] = b
           /\ (<<a, b>> \o <<c, d>> \o <<e, f>>)[3] = c
           /\ (<<a, b>> \o <<c, d>> \o <<e, f>>)[4] = d
           /\ (<<a, b>> \o <<c, d>> \o <<e, f>>)[5] = e
           /\ (<<a, b>> \o <<c, d>> \o <<e, f>>)[6] = f
  <1> DEFINE x == <<a, b>>
             y == <<c, d>>
             z == <<e, f>>
             four == x \o y
             six == four \o z
  <1>1. /\ x \in Seq(Nat) /\ y \in Seq(Nat) /\ z \in Seq(Nat)
        /\ Len(x) = 2 /\ Len(y) = 2 /\ Len(z) = 2
        /\ x[1] = a /\ x[2] = b /\ y[1] = c /\ y[2] = d /\ z[1] = e /\ z[2] = f
    OBVIOUS
  <1> HIDE DEF x, y, z
  <1>2. /\ four \in Seq(Nat) /\ Len(four) = Len(x) + Len(y)
        /\ \A i \in 1 .. Len(x) : four[i] = x[i]
        /\ \A i \in 1 .. Len(y) : four[Len(x) + i] = y[i]
    BY <1>1, ConcatParts
  <1>3. /\ four[1] = a /\ four[2] = b /\ four[2 + 1] = c /\ four[2 + 2] = d
        /\ Len(four) = 4
    BY <1>1, <1>2
  <1> HIDE DEF four
  <1>4. /\ six \in Seq(Nat) /\ Len(six) = Len(four) + Len(z)
        /\ \A i \in 1 .. Len(four) : six[i] = four[i]
        /\ \A i \in 1 .. Len(z) : six[Len(four) + i] = z[i]
    BY <1>1, <1>2, ConcatParts
  <1>5. six[4 + 1] = e /\ six[4 + 2] = f /\ Len(six) = 6
    <2>1. 1 \in 1 .. Len(z) /\ 2 \in 1 .. Len(z)
      BY <1>1
    <2>2. six[Len(four) + 1] = z[1] /\ six[Len(four) + 2] = z[2]
      BY <1>4, <2>1
    <2>3. Len(six) = 6
      BY <1>1, <1>3, <1>4
    <2> QED  BY <2>2, <2>3, <1>1, <1>3
  <1>6. six[1] = a /\ six[2] = b /\ six[3] = c /\ six[4] = d
    BY <1>3, <1>4, <1>5
  <1> QED  BY <1>4, <1>5, <1>6 DEF six, four, x, y, z

\* Where the encoder puts what.
LEMMA OnLineBytes ==
    ASSUME NEW f \in Frames, OnLine(f) # <<>>
    PROVE  /\ Len(f.payload) \in Nat
           /\ 6 + Len(f.payload) + 2 <= BufferSize
           /\ OnLine(f) \in Seq(Nat)
           /\ Len(OnLine(f)) = 6 + Len(f.payload) + 2
           /\ OnLine(f)[1] = Magic0 /\ OnLine(f)[2] = Magic1
           /\ OnLine(f)[3] = f.type /\ OnLine(f)[4] = f.topic
           /\ U16(OnLine(f)[5], OnLine(f)[6]) = Len(f.payload)
           /\ f.payload \in Seq(Nat)
           /\ \A i \in 1 .. Len(f.payload) : OnLine(f)[6 + i] = f.payload[i]
           /\ FrameBody(f) \in Seq(Nat)
           /\ Len(FrameBody(f)) = 6 + Len(f.payload)
           /\ \A i \in 1 .. 6 + Len(f.payload) : FrameBody(f)[i] = OnLine(f)[i]
           /\ U16(OnLine(f)[6 + Len(f.payload) + 1],
                  OnLine(f)[6 + Len(f.payload) + 2]) = CrcOf(FrameBody(f))
  <1> DEFINE p == f.payload
             n == Len(p)
             lo == n % 256
             hi == (n \div 256) % 256
             crc == CrcOf(FrameBody(f))
             clo == crc % 256
             chi == (crc \div 256) % 256
             head == Magic \o <<f.type, f.topic>> \o U16Bytes(n)
             body == FrameBody(f)
             last == <<clo, chi>>
             B == OnLine(f)
  <1>1. \A b \in Byte : b \in Nat
    BY ParserAssumption
  <1>2. f.type \in Byte /\ f.topic \in Byte /\ p \in Seq(Byte)
    <2>1. PICK g \in Traffic, m \in 1 .. MaxFrames :
             f = [type |-> g.type, topic |-> m, payload |-> g.payload]
      BY DEF Frames
    <2>2. g \in [type : Byte, length : Nat, payload : Seq(Byte)] /\ m \in Byte
      BY LineAssumption
    <2>3. g.type \in Byte /\ g.payload \in Seq(Byte)
      BY <2>2
    <2> QED  BY <2>1, <2>2, <2>3
  <1>3. /\ f.type \in Nat /\ f.topic \in Nat /\ p \in Seq(Nat)
        /\ Magic0 \in Nat /\ Magic1 \in Nat /\ BufferSize \in Nat
    <2>1. p \in Seq(Nat)
      BY <1>1, <1>2, SeqMonotonic
    <2> QED  BY <1>1, <1>2, <2>1, ParserAssumption
  <1>4. n \in Nat
    BY <1>3, LenProperties
  <1>5. body = head \o p
    BY DEF FrameBody
  <1>6. B = IF Len(body) + CrcSize > BufferSize THEN <<>> ELSE body \o U16Bytes(crc)
    BY DEF OnLine, EncodeFrame, FrameBody
  <1>7. ~ (Len(body) + CrcSize > BufferSize) /\ B = body \o U16Bytes(crc)
    BY <1>6
  <1>8. /\ head \in Seq(Nat) /\ Len(head) = 6
        /\ head[1] = Magic0 /\ head[2] = Magic1 /\ head[3] = f.type
        /\ head[4] = f.topic /\ head[5] = lo /\ head[6] = hi
        /\ lo \in Nat /\ hi \in Nat
    <2>1. head = <<Magic0, Magic1>> \o <<f.type, f.topic>> \o <<lo, hi>>
      BY DEF Magic, U16Bytes
    <2> HIDE DEF n
    <2>2. lo \in Nat /\ hi \in Nat
      BY <1>4
    <2> HIDE DEF head, lo, hi
    <2> QED  BY <2>1, <2>2, <1>3, SixBytes
  <1> HIDE DEF head
  <1>9. crc \in Nat /\ crc < 256 * 256
    BY CrcAssumption
  <1>10. clo \in Nat /\ chi \in Nat /\ U16(clo, chi) = crc
    <2> HIDE DEF crc
    <2> QED  BY <1>9, BytesOfLength
  <1>11. last \in Seq(Nat) /\ Len(last) = 2 /\ last[1] = clo /\ last[2] = chi
    <2> HIDE DEF clo, chi
    <2> QED  BY <1>10
  <1>12. B = body \o last
    BY <1>7 DEF U16Bytes
  <1> HIDE DEF p, last, n, clo, chi, lo, hi, body, B, crc
  <1>13. /\ body \in Seq(Nat) /\ Len(body) = 6 + n
         /\ \A i \in 1 .. 6 : body[i] = head[i]
         /\ \A i \in 1 .. n : body[6 + i] = p[i]
    <2>1. /\ head \o p \in Seq(Nat) /\ Len(head \o p) = Len(head) + Len(p)
          /\ \A i \in 1 .. Len(head) : (head \o p)[i] = head[i]
          /\ \A i \in 1 .. Len(p) : (head \o p)[Len(head) + i] = p[i]
      BY <1>3, <1>8, ConcatParts
    <2>2. Len(p) = n
      BY DEF n
    <2> QED  BY <2>1, <2>2, <1>4, <1>5, <1>8
  <1>14. 6 + n + 2 <= BufferSize
    BY <1>3, <1>4, <1>7, <1>13 DEF CrcSize
  <1>15. U16(lo, hi) = n
    <2>1. n < 256 * 256
      BY <1>3, <1>4, <1>14, LengthAssumption
    <2> QED  BY <1>4, <2>1, BytesOfLength DEF lo, hi
  <1>16. /\ B \in Seq(Nat) /\ Len(B) = 6 + n + 2
         /\ \A i \in 1 .. 6 + n : B[i] = body[i]
         /\ \A i \in 1 .. 2 : B[6 + n + i] = last[i]
    <2>1. /\ body \o last \in Seq(Nat) /\ Len(body \o last) = Len(body) + Len(last)
          /\ \A i \in 1 .. Len(body) : (body \o last)[i] = body[i]
          /\ \A i \in 1 .. Len(last) : (body \o last)[Len(body) + i] = last[i]
      BY <1>11, <1>13, ConcatParts
    <2>2. /\ B \in Seq(Nat) /\ Len(B) = Len(body) + Len(last)
          /\ \A i \in 1 .. Len(body) : B[i] = body[i]
          /\ \A i \in 1 .. Len(last) : B[Len(body) + i] = last[i]
      BY <2>1, <1>12, Zenon
    <2>3. Len(body) = 6 + n /\ Len(last) = 2
      BY <1>11, <1>13, Zenon
    <2>4. Len(B) = 6 + n + 2
      BY <2>2, <2>3, Zenon
    <2>5. \A i \in 1 .. 6 + n : B[i] = body[i]
      BY <2>2, <2>3, Zenon
    <2>6. \A i \in 1 .. 2 : B[6 + n + i] = last[i]
      BY <2>2, <2>3, Zenon
    <2> QED  BY <2>2, <2>4, <2>5, <2>6, Zenon
  <1>17. /\ B[1] = Magic0 /\ B[2] = Magic1 /\ B[3] = f.type /\ B[4] = f.topic
         /\ B[5] = lo /\ B[6] = hi
    <2>1. 1 .. 6 \subseteq 1 .. 6 + n
      BY <1>4
    <2>2. \A i \in 1 .. 6 : B[i] = head[i]
      BY <2>1, <1>13, <1>16, Zenon
    <2>3. {1, 2, 3, 4, 5, 6} \subseteq 1 .. 6
      OBVIOUS
    <2> QED  BY <2>2, <2>3, <1>8, Zenon
  <1>18. ASSUME NEW i \in 1 .. n
         PROVE  B[6 + i] = p[i]
    <2>1. 6 + i \in 1 .. 6 + n
      BY <1>4
    <2>2. B[6 + i] = body[6 + i]
      BY <2>1, <1>16
    <2> QED  BY <2>2, <1>13
  <1>19. B[6 + n + 1] = clo /\ B[6 + n + 2] = chi
    BY <1>11, <1>16
  <1>20. \A i \in 1 .. 6 + n : body[i] = B[i]
    BY <1>16
  <1>21. U16(B[5], B[6]) = n /\ U16(B[6 + n + 1], B[6 + n + 2]) = crc
    BY <1>10, <1>15, <1>17, <1>19
  <1> QED  BY <1>3, <1>4, <1>13, <1>14, <1>16, <1>17, <1>18, <1>20, <1>21
           DEF n, body, B, crc, p

-----------------------------------------------------------------------------
(* The beginning and the end of a frame                                    *)

\* The first k of a sequence of bytes.
LEMMA PrefixParts ==
    ASSUME NEW B \in Seq(Nat), NEW k \in 0 .. Len(B)
    PROVE  /\ SubSeq(B, 1, k) \in Seq(Nat) /\ Len(SubSeq(B, 1, k)) = k
           /\ \A i \in 1 .. k : SubSeq(B, 1, k)[i] = B[i]
  <1>1. Len(B) \in Nat /\ k \in Nat /\ k <= Len(B)
    BY LenProperties
  <1>2. \A i \in 1 .. k : B[i] \in Nat
    BY <1>1, ElementOfSeq
  <1>3. /\ SubSeq(B, 1, k) \in Seq(Nat)
        /\ Len(SubSeq(B, 1, k)) = IF 1 <= k THEN k - 1 + 1 ELSE 0
        /\ \A i \in 1 .. k - 1 + 1 : SubSeq(B, 1, k)[i] = B[1 + i - 1]
    BY <1>1, <1>2, SubSeqProperties
  <1>4. Len(SubSeq(B, 1, k)) = k
    BY <1>1, <1>3
  <1>5. ASSUME NEW i \in 1 .. k
        PROVE  SubSeq(B, 1, k)[i] = B[i]
    <2>1. i \in 1 .. k - 1 + 1 /\ 1 + i - 1 = i
      BY <1>1
    <2> QED  BY <1>3, <2>1
  <1> QED  BY <1>3, <1>4, <1>5

\* With the next byte they are the first k + 1.
LEMMA PrefixGrows ==
    ASSUME NEW B \in Seq(Nat), NEW k \in 0 .. Len(B) - 1
    PROVE  Append(SubSeq(B, 1, k), B[k + 1]) = SubSeq(B, 1, k + 1)
  <1> DEFINE s == SubSeq(B, 1, k)
             t == SubSeq(B, 1, k + 1)
             b == B[k + 1]
  <1>1. /\ Len(B) \in Nat /\ k \in 0 .. Len(B) /\ k + 1 \in 0 .. Len(B)
        /\ k + 1 \in 1 .. Len(B) /\ k \in Nat
    BY LenProperties
  <1>2. s \in Seq(Nat) /\ Len(s) = k /\ \A i \in 1 .. k : s[i] = B[i]
    BY <1>1, PrefixParts
  <1>3. t \in Seq(Nat) /\ Len(t) = k + 1 /\ \A i \in 1 .. k + 1 : t[i] = B[i]
    BY <1>1, PrefixParts
  <1>4. b \in Nat
    BY <1>1, ElementOfSeq
  <1> HIDE DEF s, t
  <1>5. /\ Append(s, b) \in Seq(Nat) /\ Len(Append(s, b)) = Len(s) + 1
        /\ \A i \in 1 .. Len(s) : Append(s, b)[i] = s[i]
        /\ Append(s, b)[Len(s) + 1] = b
    BY <1>2, <1>4, AppendProperties
  <1>6. ASSUME NEW i \in 1 .. k + 1
        PROVE  Append(s, b)[i] = t[i]
    <2>0. k \in Nat /\ i \in Nat /\ 1 <= i /\ i <= k + 1
      BY <1>1
    <2>1. CASE i \in 1 .. k
      BY <2>1, <1>2, <1>3, <1>5
    <2>2. CASE i = k + 1
      BY <2>2, <1>1, <1>2, <1>3, <1>5
    <2>3. i \in 1 .. k \/ i = k + 1
      BY <2>0
    <2> QED  BY <2>1, <2>2, <2>3
  <1>7. Len(Append(s, b)) = Len(t) /\ \A i \in 1 .. Len(Append(s, b)) : Append(s, b)[i] = t[i]
    BY <1>2, <1>3, <1>5, <1>6
  <1>8. Append(s, b) = t
    BY <1>3, <1>5, <1>7, SeqEqual
  <1> QED  BY <1>8 DEF s, t

\* What is left after the first k bytes, and after one more.
LEMMA SuffixShrinks ==
    ASSUME NEW B \in Seq(Nat), NEW m \in 1 .. Len(B)
    PROVE  /\ Head(SubSeq(B, m, Len(B))) = B[m]
           /\ Tail(SubSeq(B, m, Len(B))) = SubSeq(B, m + 1, Len(B))
           /\ Len(Tail(SubSeq(B, m, Len(B)))) = Len(B) - m
           /\ SubSeq(B, m, Len(B)) # <<>>
  <1> DEFINE n == Len(B)
             s == SubSeq(B, m, n)
  <1>1. n \in Nat /\ m \in Nat /\ m >= 1 /\ m <= n /\ n \in m .. n
    BY LenProperties
  <1>2. \A i \in m .. n : B[i] \in Nat
    BY <1>1, ElementOfSeq
  <1>3. s \in Seq(Nat) /\ Len(s) = n - m + 1
    <2> HIDE DEF n
    <2>1. s \in Seq(Nat) /\ Len(s) = IF m <= n THEN n - m + 1 ELSE 0
      BY <1>1, <1>2, SubSeqProperties
    <2> QED  BY <2>1, <1>1
  <1>4. Head(s) = B[m] /\ Tail(s) = SubSeq(B, m + 1, n)
    <2>1. n \in m .. Len(B)
      BY <1>1
    <2> HIDE DEF n
    <2> QED  BY <2>1, HeadTailOfSubSeq
  <1> HIDE DEF s, n
  <1>5. s # <<>>
    BY <1>1, <1>3
  <1>6. Len(Tail(s)) = n - m
    BY <1>1, <1>3, <1>5, HeadTailProperties
  <1> QED  BY <1>4, <1>5, <1>6 DEF s, n

-----------------------------------------------------------------------------
(* What the parser has in hand                                             *)

\* The buffers, as sequences of numbers.
LEMMA BuffersAreBytes ==
    ASSUME ParserInv
    PROVE  /\ headerBuf \in Seq(Nat) /\ payloadBuf \in Seq(Nat) /\ crcBuf \in Seq(Nat)
           /\ Len(headerBuf) \in Nat /\ Len(payloadBuf) \in Nat /\ Len(crcBuf) \in Nat
  <1>1. \A b \in Byte : b \in Nat
    BY ParserAssumption
  <1>2. headerBuf \in Seq(Byte) /\ payloadBuf \in Seq(Byte) /\ crcBuf \in Seq(Byte)
    BY DEF ParserInv, ParserTypeOK
  <1>3. headerBuf \in Seq(Nat) /\ payloadBuf \in Seq(Nat) /\ crcBuf \in Seq(Nat)
    BY <1>1, <1>2, SeqMonotonic
  <1> QED  BY <1>3, LenProperties

\* Where the buffers are in what is in hand, after the header.
LEMMA HeldParts ==
    ASSUME ParserInv, state \in {"WAIT_PAYLOAD", "WAIT_CRC"}
    PROVE  /\ Held \in Seq(Nat) /\ headerBuf \o payloadBuf \in Seq(Nat)
           /\ Len(headerBuf) = 6 /\ Len(headerBuf \o payloadBuf) = 6 + Len(payloadBuf)
           /\ Len(Held) = 6 + Len(payloadBuf) + Len(crcBuf)
           /\ \A i \in 1 .. 6 : headerBuf[i] = Held[i]
           /\ \A i \in 1 .. Len(payloadBuf) : payloadBuf[i] = Held[6 + i]
           /\ \A i \in 1 .. 6 + Len(payloadBuf) : (headerBuf \o payloadBuf)[i] = Held[i]
           /\ \A i \in 1 .. Len(crcBuf) : crcBuf[i] = Held[6 + Len(payloadBuf) + i]
  <1> DEFINE body == headerBuf \o payloadBuf
             all == body \o crcBuf
  <1>1. /\ headerBuf \in Seq(Nat) /\ payloadBuf \in Seq(Nat) /\ crcBuf \in Seq(Nat)
        /\ Len(headerBuf) \in Nat /\ Len(payloadBuf) \in Nat /\ Len(crcBuf) \in Nat
    BY BuffersAreBytes
  <1>2. Held = all
    BY DEF Held
  <1>3. Len(headerBuf) = 6
    BY DEF ParserInv, Fill, HeaderSize
  <1>4. /\ body \in Seq(Nat) /\ Len(body) = Len(headerBuf) + Len(payloadBuf)
        /\ \A i \in 1 .. Len(headerBuf) : body[i] = headerBuf[i]
        /\ \A i \in 1 .. Len(payloadBuf) : body[Len(headerBuf) + i] = payloadBuf[i]
    BY <1>1, ConcatParts
  <1> HIDE DEF body
  <1>5. /\ all \in Seq(Nat) /\ Len(all) = Len(body) + Len(crcBuf)
        /\ \A i \in 1 .. Len(body) : all[i] = body[i]
        /\ \A i \in 1 .. Len(crcBuf) : all[Len(body) + i] = crcBuf[i]
    BY <1>1, <1>4, ConcatParts
  <1> HIDE DEF all
  <1>6. Len(body) = 6 + Len(payloadBuf) /\ Len(all) = 6 + Len(payloadBuf) + Len(crcBuf)
    BY <1>1, <1>3, <1>4, <1>5
  <1>7. ASSUME NEW i \in 1 .. 6
        PROVE  headerBuf[i] = all[i]
    <2>1. i \in 1 .. Len(headerBuf) /\ i \in 1 .. Len(body)
      BY <1>1, <1>3, <1>6
    <2> QED  BY <2>1, <1>4, <1>5
  <1>8. ASSUME NEW i \in 1 .. Len(payloadBuf)
        PROVE  payloadBuf[i] = all[6 + i]
    <2>1. body[Len(headerBuf) + i] = payloadBuf[i]
      BY <1>4
    <2>2. Len(headerBuf) + i \in 1 .. Len(body)
      <3>1. 6 + i \in 1 .. 6 + Len(payloadBuf)
        BY <1>1
      <3> QED  BY <3>1, <1>3, <1>6
    <2>3. all[Len(headerBuf) + i] = payloadBuf[i]
      BY <2>1, <2>2, <1>5
    <2> QED  BY <2>3, <1>3
  <1>9. \A i \in 1 .. 6 + Len(payloadBuf) : body[i] = all[i]
    BY <1>5, <1>6
  <1>10. ASSUME NEW i \in 1 .. Len(crcBuf)
         PROVE  crcBuf[i] = all[6 + Len(payloadBuf) + i]
    <2>1. all[Len(body) + i] = crcBuf[i]
      BY <1>5
    <2> QED  BY <2>1, <1>6
  <1> QED  BY <1>2, <1>3, <1>4, <1>5, <1>6, <1>7, <1>8, <1>9, <1>10 DEF body

\* A byte that ends neither a header that is refused nor a frame is added to it.
LEMMA HeldGrows ==
    ASSUME ParserInv, NEW b \in Byte, Feed(b), state # "HUNT_SYNC",
           state' # "HUNT_SYNC"
    PROVE  Held' = Append(Held, b) /\ delivered' = delivered
  <1>1. headerBuf \in Seq(Byte) /\ payloadBuf \in Seq(Byte) /\ crcBuf \in Seq(Byte)
    BY DEF ParserInv, ParserTypeOK
  <1>2. CASE CollectHeader(b)
    BY <1>2 DEF CollectHeader, Held
  <1>3. CASE HeaderComplete(b)
    <2>1. /\ headerBuf' = Append(headerBuf, b) /\ payloadBuf' = <<>> /\ crcBuf' = <<>>
          /\ state = "WAIT_HEADER" /\ state' # "WAIT_HEADER" /\ delivered' = delivered
      BY <1>3 DEF HeaderComplete
    <2>2. headerBuf' \in Seq(Byte)
      BY <1>1, <2>1, AppendProperties
    <2>3. headerBuf' \o <<>> = headerBuf'
      BY <2>2, ConcatEmptySeq
    <2>4. (headerBuf' \o <<>>) \o <<>> = headerBuf'
      BY <2>2, <2>3, ConcatEmptySeq
    <2> QED  BY <2>1, <2>4 DEF Held
  <1>4. CASE CollectPayload(b)
    <2>1. /\ headerBuf' = headerBuf /\ crcBuf' = crcBuf
          /\ payloadBuf' = Append(payloadBuf, b)
          /\ state = "WAIT_PAYLOAD" /\ state' # "WAIT_HEADER" /\ delivered' = delivered
      BY <1>4 DEF CollectPayload
    <2>2. Len(crcBuf) = 0
      BY <2>1 DEF ParserInv, Fill
    <2>3. crcBuf = <<>>
      BY <1>1, <2>2, EmptySeq
    <2>4. headerBuf \o payloadBuf' = Append(headerBuf \o payloadBuf, b)
      BY <1>1, <2>1, ConcatAppend
    <2>5. headerBuf \o payloadBuf \in Seq(Byte) /\ headerBuf \o payloadBuf' \in Seq(Byte)
      BY <1>1, <2>1, ConcatProperties, AppendProperties
    <2>6. /\ (headerBuf \o payloadBuf) \o crcBuf = headerBuf \o payloadBuf
          /\ (headerBuf \o payloadBuf') \o crcBuf = headerBuf \o payloadBuf'
      BY <2>3, <2>5, ConcatEmptySeq
    <2> QED  BY <2>1, <2>4, <2>6 DEF Held
  <1>5. CASE CollectCrc(b)
    <2>1. /\ headerBuf' = headerBuf /\ payloadBuf' = payloadBuf
          /\ crcBuf' = Append(crcBuf, b)
          /\ state = "WAIT_CRC" /\ state' = state /\ delivered' = delivered
      BY <1>5 DEF CollectCrc
    <2>2. headerBuf \o payloadBuf \in Seq(Byte)
      BY <1>1, ConcatProperties
    <2>3. (headerBuf \o payloadBuf) \o crcBuf' = Append((headerBuf \o payloadBuf) \o crcBuf, b)
      BY <1>1, <2>1, <2>2, ConcatAppend
    <2> QED  BY <2>1, <2>3 DEF Held
  <1> QED  BY <1>2, <1>3, <1>4, <1>5
           DEF Feed, HuntSync, HeaderRejected, CrcComplete

-----------------------------------------------------------------------------
(* A parser that is in step reads the frame                                *)

\* The length it has read is that of the frame.
LEMMA LengthInHand ==
    ASSUME NEW f \in Frames, OnLine(f) # <<>>,
           NEW h \in Seq(Nat), Len(h) = 6, \A i \in 1 .. 6 : h[i] = OnLine(f)[i]
    PROVE  LengthOf(h) = Len(f.payload) /\ LengthFits(h)
  <1>1. /\ U16(OnLine(f)[5], OnLine(f)[6]) = Len(f.payload)
        /\ Len(f.payload) \in Nat /\ 6 + Len(f.payload) + 2 <= BufferSize
    BY OnLineBytes
  <1>2. h[5] = OnLine(f)[5] /\ h[6] = OnLine(f)[6]
    OBVIOUS
  <1>3. LengthOf(h) = Len(f.payload)
    BY <1>1, <1>2 DEF LengthOf
  <1>4. Len(f.payload) <= BufferSize
    BY <1>1, ParserAssumption
  <1> QED  BY <1>3, <1>4 DEF LengthFits

\* So are the header and what follows it, as far as it has come.
LEMMA InHand ==
    ASSUME NEW f \in Frames, OnLine(f) # <<>>, NEW k \in 2 .. Len(OnLine(f)),
           ParserInv, HasRead(f, k), state \in {"WAIT_PAYLOAD", "WAIT_CRC"}
    PROVE  /\ k = 6 + Len(payloadBuf) + Len(crcBuf)
           /\ LengthOf(headerBuf) = Len(f.payload)
           /\ \A i \in 1 .. 6 : headerBuf[i] = OnLine(f)[i]
           /\ \A i \in 1 .. Len(payloadBuf) : payloadBuf[i] = OnLine(f)[6 + i]
           /\ \A i \in 1 .. 6 + Len(payloadBuf) :
                 (headerBuf \o payloadBuf)[i] = OnLine(f)[i]
           /\ \A i \in 1 .. Len(crcBuf) :
                 crcBuf[i] = OnLine(f)[6 + Len(payloadBuf) + i]
  <1> DEFINE B == OnLine(f)
  <1>1. B \in Seq(Nat) /\ Len(B) \in Nat
    BY OnLineBytes, LenProperties
  <1>2. k \in Nat /\ k >= 2 /\ k <= Len(B) /\ k \in 0 .. Len(B)
    BY <1>1
  <1>3. Held = SubSeq(B, 1, k)
    BY <1>2 DEF HasRead
  <1> HIDE DEF B
  <1>4. Len(Held) = k /\ \A i \in 1 .. k : Held[i] = B[i]
    BY <1>1, <1>2, <1>3, PrefixParts
  <1>5. /\ headerBuf \in Seq(Nat) /\ Len(headerBuf) = 6
        /\ Len(payloadBuf) \in Nat /\ Len(crcBuf) \in Nat
        /\ k = 6 + Len(payloadBuf) + Len(crcBuf)
    BY <1>4, HeldParts, BuffersAreBytes
  <1>6. ASSUME NEW i \in 1 .. 6
        PROVE  headerBuf[i] = B[i]
    <2>1. i \in 1 .. k
      BY <1>5
    <2> QED  BY <2>1, <1>4, HeldParts
  <1>7. LengthOf(headerBuf) = Len(f.payload)
    BY <1>5, <1>6, LengthInHand DEF B
  <1>8. ASSUME NEW i \in 1 .. Len(payloadBuf)
        PROVE  payloadBuf[i] = B[6 + i]
    <2>1. 6 + i \in 1 .. k
      BY <1>5
    <2>2. Held[6 + i] = B[6 + i]
      BY <2>1, <1>4
    <2> QED  BY <2>2, HeldParts
  <1>9. ASSUME NEW i \in 1 .. 6 + Len(payloadBuf)
        PROVE  (headerBuf \o payloadBuf)[i] = B[i]
    <2>1. i \in 1 .. k
      BY <1>5
    <2> QED  BY <2>1, <1>4, HeldParts
  <1>10. ASSUME NEW i \in 1 .. Len(crcBuf)
         PROVE  crcBuf[i] = B[6 + Len(payloadBuf) + i]
    <2>1. 6 + Len(payloadBuf) + i \in 1 .. k
      BY <1>5
    <2>2. Held[6 + Len(payloadBuf) + i] = B[6 + Len(payloadBuf) + i]
      BY <2>1, <1>4
    <2> QED  BY <2>2, HeldParts
  <1> QED  BY <1>5, <1>6, <1>7, <1>8, <1>9, <1>10 DEF B

\* The magic number puts it in WAIT_HEADER.
LEMMA MagicInStep ==
    ASSUME NEW f \in Frames, OnLine(f) # <<>>, NEW k \in 0 .. 1,
           ParserInv, HasRead(f, k), NEW b, b = OnLine(f)[k + 1], Feed(b)
    PROVE  HasRead(f, k + 1)' /\ delivered' = delivered
  <1>1. state = "HUNT_SYNC"
    BY DEF HasRead
  <1>2. HuntSync(b)
    BY <1>1 DEF Feed, CollectHeader, HeaderComplete, HeaderRejected,
                CollectPayload, CollectCrc, CrcComplete
  <1>3. /\ headerBuf' = <<headerBuf[2], b>> /\ delivered' = delivered
        /\ state' = IF headerBuf' = Magic THEN "WAIT_HEADER" ELSE "HUNT_SYNC"
    BY <1>2 DEF HuntSync, Slide
  <1>4. /\ OnLine(f) \in Seq(Nat) /\ Len(OnLine(f)) \in Nat /\ Len(OnLine(f)) >= 8
        /\ OnLine(f)[1] = Magic0 /\ OnLine(f)[2] = Magic1
    <2>1. /\ Len(f.payload) \in Nat /\ Len(OnLine(f)) = 6 + Len(f.payload) + 2
          /\ OnLine(f) \in Seq(Nat)
          /\ OnLine(f)[1] = Magic0 /\ OnLine(f)[2] = Magic1
      BY OnLineBytes
    <2> QED  BY <2>1
  <1>5. CASE k = 0
    <2>1. b = Magic0
      BY <1>4, <1>5
    <2>2. headerBuf'[2] = Magic0 /\ headerBuf' # Magic
      BY <1>3, <2>1, ParserAssumption DEF Magic
    <2> QED  BY <1>3, <1>5, <2>2 DEF HasRead
  <1>6. CASE k = 1
    <2>1. b = Magic1 /\ headerBuf[2] = Magic0
      BY <1>4, <1>6 DEF HasRead
    <2>2. headerBuf' = Magic /\ state' = "WAIT_HEADER"
      BY <1>3, <2>1 DEF Magic
    <2>3. SubSeq(OnLine(f), 1, 2) = Magic
      <3> DEFINE s == SubSeq(OnLine(f), 1, 2)
      <3>1. 2 \in 0 .. Len(OnLine(f))
        BY <1>4
      <3>2. s \in Seq(Nat) /\ Len(s) = 2 /\ \A i \in 1 .. 2 : s[i] = OnLine(f)[i]
        BY <3>1, <1>4, PrefixParts
      <3> HIDE DEF s
      <3>3. s[1] = Magic0 /\ s[2] = Magic1
        BY <3>2, <1>4
      <3>4. s = <<s[1], s[2]>>
        BY <3>2
      <3> QED  BY <3>3, <3>4 DEF s, Magic
    <2>4. Held' = SubSeq(OnLine(f), 1, 2)
      BY <2>2, <2>3 DEF Held
    <2>5. k + 1 = 2
      BY <1>6
    <2>6. (OnLine(f))' = OnLine(f)
      OBVIOUS
    <2> QED  BY <1>3, <2>2, <2>4, <2>5, <2>6 DEF HasRead
  <1> QED  BY <1>5, <1>6

\* Up to the last byte of the frame it goes on.
LEMMA MiddleInStep ==
    ASSUME NEW f \in Frames, OnLine(f) # <<>>, NEW k \in 2 .. Len(OnLine(f)) - 2,
           ParserInv, HasRead(f, k), NEW b \in Byte, b = OnLine(f)[k + 1], Feed(b)
    PROVE  HasRead(f, k + 1)' /\ delivered' = delivered
  <1> DEFINE B == OnLine(f)
             n == Len(f.payload)
  <1>1. B \in Seq(Nat) /\ n \in Nat /\ Len(B) = 6 + n + 2
    BY OnLineBytes
  <1>2. k \in Nat /\ k >= 2 /\ k <= 6 + n /\ k \in 2 .. Len(B) /\ k \in 0 .. Len(B) - 1
    BY <1>1
  <1>3. state # "HUNT_SYNC" /\ Held = SubSeq(B, 1, k)
    BY <1>2 DEF HasRead
  <1>4. ~ HeaderRejected(b)
    <2> SUFFICES ASSUME HeaderRejected(b) PROVE FALSE
      OBVIOUS
    <2>1. /\ state = "WAIT_HEADER" /\ Len(headerBuf) + 1 = 6
          /\ ~ LengthFits(Append(headerBuf, b))
      BY DEF HeaderRejected, HeaderSize
    <2>2. headerBuf \in Seq(Nat) /\ Len(headerBuf) \in Nat
      BY BuffersAreBytes
    <2>3. headerBuf = SubSeq(B, 1, k)
      BY <1>3, <2>1 DEF Held
    <2>4. k = 5
      <3> HIDE DEF B
      <3>1. k \in 0 .. Len(B)
        BY <1>1, <1>2
      <3>2. Len(headerBuf) = k
        BY <1>1, <3>1, <2>3, PrefixParts
      <3> QED  BY <2>1, <2>2, <3>2, <1>2
    <2> DEFINE h == SubSeq(B, 1, k + 1)
    <2>5. Append(headerBuf, b) = h
      <3> HIDE DEF B
      <3>1. b = B[k + 1]
        BY DEF B
      <3> QED  BY <1>1, <1>2, <2>3, <3>1, PrefixGrows
    <2>6. h \in Seq(Nat) /\ Len(h) = 6 /\ \A i \in 1 .. 6 : h[i] = B[i]
      <3> HIDE DEF B
      <3>1. 6 \in 0 .. Len(B) /\ k + 1 = 6
        BY <1>1, <2>4
      <3> QED  BY <1>1, <3>1, PrefixParts
    <2> HIDE DEF h
    <2>7. LengthFits(h)
      BY <2>6, LengthInHand
    <2> QED  BY <2>1, <2>5, <2>7
  <1>5. ~ CrcComplete(b)
    <2> SUFFICES ASSUME CrcComplete(b) PROVE FALSE
      OBVIOUS
    <2>1. state = "WAIT_CRC" /\ Len(crcBuf) + 1 = 2
      BY DEF CrcComplete, CrcSize
    <2>2. k = 6 + Len(payloadBuf) + Len(crcBuf) /\ LengthOf(headerBuf) = n
      BY <1>2, <2>1, InHand
    <2>3. Len(payloadBuf) = LengthOf(headerBuf)
      BY <2>1 DEF ParserInv, Fill
    <2>4. Len(payloadBuf) \in Nat /\ Len(crcBuf) \in Nat
      BY BuffersAreBytes
    <2> HIDE DEF n
    <2> QED  BY <1>1, <1>2, <2>1, <2>2, <2>3, <2>4
  <1>6. state' # "HUNT_SYNC"
    BY <1>3, <1>4, <1>5 DEF Feed, HuntSync, CollectHeader, HeaderComplete,
                            CollectPayload, CollectCrc
  <1>7. Held' = Append(Held, b) /\ delivered' = delivered
    BY <1>3, <1>6, HeldGrows
  <1>8. Held' = SubSeq(B, 1, k + 1)
    <2> HIDE DEF B
    <2>1. b = B[k + 1]
      BY DEF B
    <2> QED  BY <1>1, <1>2, <1>3, <1>7, <2>1, PrefixGrows
  <1>9. k + 1 >= 2 /\ ~ (k + 1 < 2) /\ ~ (k + 1 = 1)
    BY <1>2
  <1> QED  BY <1>6, <1>7, <1>8, <1>9 DEF HasRead

\* Of a frame read to the end, the last byte completes a CRC that matches.
LEMMA LastInStep ==
    ASSUME NEW f \in Frames, OnLine(f) # <<>>, NEW k \in 2 .. Len(OnLine(f)) - 1,
           k = Len(OnLine(f)) - 1, RunningCrcCovers,
           ParserInv, HasRead(f, k), NEW b \in Byte, b = OnLine(f)[k + 1], Feed(b)
    PROVE  state' = "HUNT_SYNC" /\ delivered' = Append(delivered, f)
  <1> DEFINE B == OnLine(f)
             n == Len(f.payload)
             body == headerBuf \o payloadBuf
  <1>1. /\ B \in Seq(Nat) /\ n \in Nat /\ Len(B) = 6 + n + 2
        /\ B[3] = f.type /\ B[4] = f.topic /\ f.payload \in Seq(Nat)
        /\ \A i \in 1 .. n : B[6 + i] = f.payload[i]
        /\ FrameBody(f) \in Seq(Nat) /\ Len(FrameBody(f)) = 6 + n
        /\ \A i \in 1 .. 6 + n : FrameBody(f)[i] = B[i]
        /\ U16(B[6 + n + 1], B[6 + n + 2]) = CrcOf(FrameBody(f))
    BY OnLineBytes
  <1>2. k \in Nat /\ k = 7 + n /\ k \in 2 .. Len(B) /\ k \in 0 .. Len(B)
    BY <1>1
  <1>3. state # "HUNT_SYNC" /\ Held = SubSeq(B, 1, k)
    BY <1>2 DEF HasRead
  <1>4. /\ headerBuf \in Seq(Nat) /\ payloadBuf \in Seq(Nat) /\ crcBuf \in Seq(Nat)
        /\ Len(headerBuf) \in Nat /\ Len(payloadBuf) \in Nat /\ Len(crcBuf) \in Nat
    BY BuffersAreBytes
  <1>5. state # "WAIT_HEADER"
    <2> SUFFICES ASSUME state = "WAIT_HEADER" PROVE FALSE
      OBVIOUS
    <2>1. Held = headerBuf
      BY DEF Held
    <2>2. Len(SubSeq(B, 1, k)) = k
      <3> HIDE DEF B
      <3> QED  BY <1>1, <1>2, PrefixParts
    <2>3. Len(headerBuf) \in 2 .. 5
      BY DEF ParserInv, Fill, HeaderSize
    <2>4. Len(headerBuf) = k
      BY <1>3, <2>1, <2>2
    <2> HIDE DEF n
    <2> QED  BY <1>1, <1>2, <2>3, <2>4
  <1>6. state \in {"WAIT_PAYLOAD", "WAIT_CRC"}
    BY <1>3, <1>5 DEF ParserInv, ParserTypeOK
  <1>7. /\ k = 6 + Len(payloadBuf) + Len(crcBuf)
        /\ LengthOf(headerBuf) = n
        /\ \A i \in 1 .. 6 : headerBuf[i] = B[i]
        /\ \A i \in 1 .. Len(payloadBuf) : payloadBuf[i] = B[6 + i]
        /\ \A i \in 1 .. 6 + Len(payloadBuf) : body[i] = B[i]
        /\ \A i \in 1 .. Len(crcBuf) : crcBuf[i] = B[6 + Len(payloadBuf) + i]
    BY <1>2, <1>6, InHand
  <1>8. body \in Seq(Nat) /\ Len(body) = 6 + Len(payloadBuf)
    BY <1>6, HeldParts
  <1> HIDE DEF B, n, body
  <1>9. state = "WAIT_CRC" /\ Len(payloadBuf) = n /\ Len(crcBuf) = 1
    <2>1. CASE state = "WAIT_PAYLOAD"
      <3>1. Len(payloadBuf) < LengthOf(headerBuf) /\ Len(crcBuf) = 0
        BY <2>1 DEF ParserInv, Fill
      <3> QED  BY <3>1, <1>1, <1>2, <1>4, <1>7
    <2>2. CASE state = "WAIT_CRC"
      <3>1. Len(payloadBuf) = LengthOf(headerBuf)
        BY <2>2 DEF ParserInv, Fill
      <3>2. Len(payloadBuf) = n
        BY <3>1, <1>7
      <3>3. Len(crcBuf) = 1
        <4>1. k = 6 + Len(payloadBuf) + Len(crcBuf) /\ k = 7 + n
          BY <1>2, <1>7
        <4>2. n \in Nat /\ Len(crcBuf) \in Nat
          BY <1>1, <1>4
        <4>3. 6 + n + Len(crcBuf) = 7 + n
          BY <3>2, <4>1
        <4>4. \A x \in Nat : 6 + n + x = 7 + n => x = 1
          BY <4>2
        <4> QED  BY <4>2, <4>3, <4>4, Zenon
      <3> QED  BY <2>2, <3>2, <3>3
    <2> QED  BY <1>6, <2>1, <2>2
  <1>10. CrcComplete(b)
    <2>1. ~ CollectCrc(b)
      BY <1>9 DEF CollectCrc, CrcSize
    <2> QED  BY <1>9, <2>1 DEF Feed, HuntSync, CollectHeader, HeaderComplete,
                               HeaderRejected, CollectPayload
  <1>11. body = FrameBody(f)
    <2>1. Len(body) = Len(FrameBody(f))
      BY <1>1, <1>8, <1>9
    <2>2. ASSUME NEW i \in 1 .. Len(body)
          PROVE  body[i] = FrameBody(f)[i]
      <3>1. i \in 1 .. 6 + Len(payloadBuf) /\ i \in 1 .. 6 + n
        BY <1>8, <1>9
      <3> QED  BY <3>1, <1>1, <1>7
    <2> QED  BY <2>1, <2>2, <1>1, <1>8, SeqEqual
  <1>12. payloadBuf = f.payload
    <2>1. Len(payloadBuf) = Len(f.payload)
      BY <1>9 DEF n
    <2>2. ASSUME NEW i \in 1 .. Len(payloadBuf)
          PROVE  payloadBuf[i] = f.payload[i]
      <3>1. i \in 1 .. n
        BY <1>9
      <3> QED  BY <3>1, <1>1, <1>7
    <2> QED  BY <2>1, <2>2, <1>1, <1>4, SeqEqual
  <1>13. CrcMatches(crcBuf')
    <2>1. runningCrc = CrcOf(FrameBody(f))
      BY <1>9, <1>11 DEF RunningCrcCovers, body
    <2>2. crcBuf' = Append(crcBuf, b) /\ b \in Nat
      <3>1. b \in Nat
        BY ParserAssumption
      <3> QED  BY <1>10, <3>1 DEF CrcComplete
    <2>3. crcBuf'[1] = crcBuf[1] /\ crcBuf'[2] = b
      <3>1. /\ crcBuf'[Len(crcBuf) + 1] = b
            /\ \A i \in 1 .. Len(crcBuf) : crcBuf'[i] = crcBuf[i]
        BY <2>2, <1>4, AppendProperties
      <3>2. 1 \in 1 .. Len(crcBuf) /\ Len(crcBuf) + 1 = 2
        BY <1>9
      <3> QED  BY <3>1, <3>2
    <2>4. crcBuf[1] = B[6 + Len(payloadBuf) + 1]
      <3>1. \A i \in 1 .. Len(crcBuf) : crcBuf[i] = B[6 + Len(payloadBuf) + i]
        BY <1>7
      <3>2. 1 \in 1 .. Len(crcBuf)
        BY <1>9
      <3> QED  BY <3>1, <3>2
    <2>5. crcBuf'[1] = B[6 + n + 1]
      BY <2>3, <2>4, <1>9
    <2>6. k + 1 = 6 + n + 2
      BY <1>1, <1>2
    <2>7. crcBuf'[2] = B[6 + n + 2]
      BY <2>3, <2>6 DEF B
    <2> QED  BY <2>1, <2>5, <2>7, <1>1 DEF CrcMatches
  <1>14. Frame(headerBuf, payloadBuf) = f
    <2>1. headerBuf[3] = f.type /\ headerBuf[4] = f.topic
      BY <1>1, <1>7
    <2>2. f = [type |-> f.type, topic |-> f.topic, payload |-> f.payload]
      BY DEF Frames
    <2> QED  BY <2>1, <2>2, <1>12 DEF Frame
  <1> QED  BY <1>10, <1>13, <1>14 DEF CrcComplete

-----------------------------------------------------------------------------
(* The running CRC                                                         *)

\* It covers what has come of a frame, whatever the frame is.
LEMMA CrcKeepsCovering ==
    ASSUME ParserInv, RunningCrcCovers, NEW b \in Byte, Feed(b)
    PROVE  RunningCrcCovers'
  <1>1. headerBuf \in Seq(Byte) /\ payloadBuf \in Seq(Byte) /\ b \in Nat
    BY ParserAssumption DEF ParserInv, ParserTypeOK
  <1>2. CASE HeaderComplete(b)
    <2>1. headerBuf' \in Seq(Byte)
      BY <1>1, <1>2, AppendProperties DEF HeaderComplete
    <2>2. headerBuf' \o <<>> = headerBuf'
      BY <2>1, ConcatEmptySeq
    <2> QED  BY <1>2, <2>2 DEF HeaderComplete, RunningCrcCovers
  <1>3. CASE CollectPayload(b)
    <2>1. /\ state = "WAIT_PAYLOAD" /\ headerBuf' = headerBuf
          /\ payloadBuf' = Append(payloadBuf, b)
          /\ runningCrc' = CrcUpdate(runningCrc, b)
      BY <1>3 DEF CollectPayload
    <2>2. headerBuf \o payloadBuf' = Append(headerBuf \o payloadBuf, b)
      BY <1>1, <2>1, ConcatAppend
    <2>3. headerBuf \o payloadBuf \in Seq(Nat)
      BY <2>1, HeldParts
    <2>4. CrcOf(Append(headerBuf \o payloadBuf, b))
            = CrcUpdate(CrcOf(headerBuf \o payloadBuf), b)
      BY <1>1, <2>3, CrcOfAppend
    <2> QED  BY <2>1, <2>2, <2>4 DEF RunningCrcCovers
  <1>4. CASE CollectCrc(b)
    BY <1>4 DEF CollectCrc, RunningCrcCovers
  <1>5. CASE HuntSync(b) \/ CollectHeader(b) \/ HeaderRejected(b) \/ CrcComplete(b)
    BY <1>5 DEF HuntSync, CollectHeader, HeaderRejected, CrcComplete, RunningCrcCovers
  <1> QED  BY <1>2, <1>3, <1>4, <1>5 DEF Feed

-----------------------------------------------------------------------------
(* A parser that is astray, or hunting                                     *)

\* What a parser may still take for a frame never ends by itself, and is never
\* more than the frame the header can announce.
LEMMA RemainingBounds ==
    ASSUME ParserInv, state # "HUNT_SYNC"
    PROVE  /\ Remaining \in Nat /\ Remaining >= 1
           /\ Remaining <= HeaderSize - 2 + BufferSize + CrcSize
  <1>1. /\ Len(headerBuf) \in Nat /\ Len(payloadBuf) \in Nat /\ Len(crcBuf) \in Nat
        /\ BufferSize \in Nat
    BY BuffersAreBytes, ParserAssumption
  <1>2. CASE state = "WAIT_HEADER"
    <2>1. Remaining = 6 - Len(headerBuf) + BufferSize + 2
      BY <1>2 DEF Remaining, HeaderSize, CrcSize
    <2>2. Len(headerBuf) \in 2 .. 5
      BY <1>2 DEF ParserInv, Fill, HeaderSize
    <2>3. \A x \in 2 .. 5, c \in Nat :
             /\ 6 - x + c + 2 \in Nat /\ 6 - x + c + 2 >= 1
             /\ 6 - x + c + 2 <= 6 - 2 + c + 2
      OBVIOUS
    <2> QED  BY <1>1, <2>1, <2>2, <2>3 DEF HeaderSize, CrcSize
  <1>3. CASE state \in {"WAIT_PAYLOAD", "WAIT_CRC"}
    <2>1. Remaining = LengthOf(headerBuf) - Len(payloadBuf) + 2 - Len(crcBuf)
      BY <1>3 DEF Remaining, CrcSize
    <2>2. /\ LengthOf(headerBuf) <= BufferSize
          /\ \/ Len(payloadBuf) < LengthOf(headerBuf) /\ Len(crcBuf) = 0
             \/ Len(payloadBuf) = LengthOf(headerBuf) /\ Len(crcBuf) < 2
      BY <1>3 DEF ParserInv, Fill, CrcSize
    <2>3. LengthOf(headerBuf) \in Nat
      <3>1. headerBuf \in Seq(Byte) /\ Len(headerBuf) = HeaderSize
        BY <1>3 DEF ParserInv, ParserTypeOK, Fill
      <3> QED  BY <3>1, LengthOfIsNat
    <2> QED  BY <1>1, <2>1, <2>2, <2>3 DEF HeaderSize, CrcSize
  <1> QED  BY <1>2, <1>3 DEF ParserInv, ParserTypeOK

\* Each byte brings it closer to the end, where it goes back to hunting; the
\* window is then on a magic number's first byte only if that has just come.
LEMMA AstrayStep ==
    ASSUME ParserInv, state # "HUNT_SYNC", NEW b \in Byte, Feed(b)
    PROVE  \/ state' = "HUNT_SYNC" /\ (headerBuf'[2] = Magic0 => b = Magic0)
           \/ /\ state' # "HUNT_SYNC"
              /\ Remaining' \in Nat /\ Remaining' + 1 <= Remaining
  <1>1. /\ headerBuf \in Seq(Nat) /\ payloadBuf \in Seq(Nat) /\ crcBuf \in Seq(Nat)
        /\ Len(headerBuf) \in Nat /\ Len(payloadBuf) \in Nat /\ Len(crcBuf) \in Nat
        /\ BufferSize \in Nat /\ b \in Nat
        /\ Remaining \in Nat /\ Remaining >= 1
    <2>1. b \in Nat /\ BufferSize \in Nat
      BY ParserAssumption
    <2> QED  BY <2>1, BuffersAreBytes, RemainingBounds
  <1>2. CASE CollectHeader(b)
    <2>1. /\ state = "WAIT_HEADER" /\ state' = "WAIT_HEADER"
          /\ headerBuf' = Append(headerBuf, b)
      BY <1>2 DEF CollectHeader
    <2>2. Len(headerBuf') = Len(headerBuf) + 1
      BY <1>1, <2>1, AppendProperties
    <2> QED  BY <1>1, <2>1, <2>2 DEF Remaining, HeaderSize, CrcSize
  <1>3. CASE HeaderComplete(b)
    <2>1. /\ state = "WAIT_HEADER" /\ Len(headerBuf) + 1 = 6
          /\ headerBuf' = Append(headerBuf, b)
          /\ state' \in {"WAIT_PAYLOAD", "WAIT_CRC"}
          /\ LengthOf(headerBuf') <= BufferSize
          /\ payloadBuf' = <<>> /\ crcBuf' = <<>>
      BY <1>3 DEF HeaderComplete, LengthFits, HeaderSize
    <2>2. LengthOf(headerBuf') \in Nat
      <3>1. headerBuf' \in Seq(Nat) /\ Len(headerBuf') = Len(headerBuf) + 1
        BY <1>1, <2>1, AppendProperties
      <3>2. 5 \in 1 .. Len(headerBuf') /\ 6 \in 1 .. Len(headerBuf')
        BY <3>1, <2>1, <1>1
      <3>3. headerBuf'[5] \in Nat /\ headerBuf'[6] \in Nat
        BY <3>1, <3>2, ElementOfSeq
      <3> QED  BY <3>3 DEF LengthOf, U16
    <2>3. Len(payloadBuf') = 0 /\ Len(crcBuf') = 0
      BY <2>1
    <2>4. Remaining = 6 - Len(headerBuf) + BufferSize + 2
      BY <2>1 DEF Remaining, HeaderSize, CrcSize
    <2>5. Remaining' = LengthOf(headerBuf') - 0 + 2 - 0
      BY <2>1, <2>3 DEF Remaining, CrcSize
    <2>6. \A h, l, c \in Nat : h + 1 = 6 /\ l <= c =>
             /\ l - 0 + 2 - 0 \in Nat
             /\ l - 0 + 2 - 0 + 1 <= 6 - h + c + 2
      OBVIOUS
    <2>7. Remaining' \in Nat /\ Remaining' + 1 <= Remaining
      BY <1>1, <2>1, <2>2, <2>4, <2>5, <2>6
    <2> QED  BY <2>1, <2>7
  <1>4. CASE HeaderRejected(b)
    BY <1>4 DEF HeaderRejected
  <1>5. CASE CollectPayload(b)
    <2>1. /\ state = "WAIT_PAYLOAD" /\ state' \in {"WAIT_PAYLOAD", "WAIT_CRC"}
          /\ payloadBuf' = Append(payloadBuf, b)
          /\ headerBuf' = headerBuf /\ crcBuf' = crcBuf
      BY <1>5 DEF CollectPayload
    <2>2. Len(payloadBuf') = Len(payloadBuf) + 1
      BY <1>1, <2>1, AppendProperties
    <2>3. LengthOf(headerBuf) \in Nat
      <3>1. headerBuf \in Seq(Byte) /\ Len(headerBuf) = HeaderSize
        BY <2>1 DEF ParserInv, ParserTypeOK, Fill
      <3> QED  BY <3>1, LengthOfIsNat
    <2>4. LengthOf(headerBuf') = LengthOf(headerBuf)
      BY <2>1
    <2> QED  BY <1>1, <2>1, <2>2, <2>3, <2>4 DEF Remaining, CrcSize
  <1>6. CASE CollectCrc(b)
    <2>1. /\ state = "WAIT_CRC" /\ state' = state
          /\ crcBuf' = Append(crcBuf, b)
          /\ headerBuf' = headerBuf /\ payloadBuf' = payloadBuf
      BY <1>6 DEF CollectCrc
    <2>2. Len(crcBuf') = Len(crcBuf) + 1
      BY <1>1, <2>1, AppendProperties
    <2>3. LengthOf(headerBuf) \in Nat
      <3>1. headerBuf \in Seq(Byte) /\ Len(headerBuf) = HeaderSize
        BY <2>1 DEF ParserInv, ParserTypeOK, Fill
      <3> QED  BY <3>1, LengthOfIsNat
    <2>4. LengthOf(headerBuf') = LengthOf(headerBuf)
      BY <2>1
    <2> QED  BY <1>1, <2>1, <2>2, <2>3, <2>4 DEF Remaining, CrcSize
  <1>7. CASE CrcComplete(b)
    BY <1>7, ParserAssumption DEF CrcComplete, Magic
  <1> QED  BY <1>2, <1>3, <1>4, <1>5, <1>6, <1>7 DEF Feed, HuntSync

\* Hunting, the window slides on until it is on the magic number.
LEMMA HuntStep ==
    ASSUME state = "HUNT_SYNC", NEW b, Feed(b)
    PROVE  /\ headerBuf'[2] = b
           /\ state' # "HUNT_SYNC" => headerBuf[2] = Magic0 /\ b = Magic1
  <1>1. HuntSync(b)
    BY DEF Feed, CollectHeader, HeaderComplete, HeaderRejected,
           CollectPayload, CollectCrc, CrcComplete
  <1>2. /\ headerBuf' = <<headerBuf[2], b>>
        /\ state' = IF headerBuf' = Magic THEN "WAIT_HEADER" ELSE "HUNT_SYNC"
    BY <1>1 DEF HuntSync, Slide
  <1> QED  BY <1>2 DEF Magic

\* Two bytes in a row are a magic number, if they look so.
LEMMA MagicAt ==
    ASSUME NEW B \in Seq(Nat), NEW i \in 1 .. Len(B) - 1,
           B[i] = Magic0, B[i + 1] = Magic1
    PROVE  SubSeq(B, i, i + 1) = Magic
  <1> DEFINE s == SubSeq(B, i, i + 1)
  <1>1. Len(B) \in Nat /\ i \in Nat /\ i + 1 \in Nat /\ i >= 1 /\ i + 1 <= Len(B)
    BY LenProperties
  <1>2. \A j \in i .. i + 1 : B[j] \in Nat
    BY <1>1, ElementOfSeq
  <1>3. /\ s \in Seq(Nat)
        /\ Len(s) = IF i <= i + 1 THEN i + 1 - i + 1 ELSE 0
        /\ \A j \in 1 .. i + 1 - i + 1 : s[j] = B[i + j - 1]
    BY <1>1, <1>2, SubSeqProperties
  <1>4. Len(s) = 2
    BY <1>1, <1>3
  <1>5. s[1] = B[i] /\ s[2] = B[i + 1]
    <2>1. /\ 1 \in 1 .. i + 1 - i + 1 /\ 2 \in 1 .. i + 1 - i + 1
          /\ i + 1 - 1 = i /\ i + 2 - 1 = i + 1
      BY <1>1
    <2>2. s[1] = B[i + 1 - 1] /\ s[2] = B[i + 2 - 1]
      BY <1>3, <2>1
    <2> QED  BY <2>1, <2>2
  <1> HIDE DEF s
  <1>6. s = <<s[1], s[2]>>
    BY <1>3, <1>4
  <1> QED  BY <1>5, <1>6 DEF s, Magic

-----------------------------------------------------------------------------
(* The tracking invariant, one lemma per action                            *)

\* A byte is read from the end of the last frame.
LEMMA ReadShrinks ==
    ASSUME IInv, Undisturbed, Read
    PROVE  /\ Last(frames) \in Frames /\ OnLine(Last(frames)) # <<>>
           /\ Len(OnLine(Last(frames))) \in Nat /\ Len(OnLine(Last(frames))) >= 8
           /\ OnLine(Last(frames)) \in Seq(Nat)
           /\ BytesGone \in 0 .. Len(OnLine(Last(frames))) - 1
           /\ BytesGone' = BytesGone + 1 /\ frames' = frames
           /\ Undisturbed'
           /\ wire' = <<>> <=> BytesGone + 1 = Len(OnLine(Last(frames)))
           /\ Feed(OnLine(Last(frames))[BytesGone + 1])
           /\ OnLine(Last(frames))[BytesGone + 1] \in Byte
  <1> DEFINE f == Last(frames)
             B == OnLine(f)
             n == Len(B)
             g == BytesGone
  <1>1. frames \in Seq(Frames) /\ wire \in Seq(Byte) /\ frames # <<>> /\ wire # <<>>
    BY DEF IInv, LineTypeOK, Undisturbed, Read
  <1>2. f \in Frames
    <2>1. frames[Len(frames)] \in Frames
      <3>1. Len(frames) \in 1 .. Len(frames)
        BY <1>1, EmptySeq, LenProperties
      <3> QED  BY <1>1, <3>1, ElementOfSeq
    <2> QED  BY <2>1 DEF Last
  <1>3. B # <<>> /\ Len(wire) <= n /\ wire = SubSeq(B, g + 1, n) /\ g = n - Len(wire)
    BY DEF Undisturbed, BytesGone
  <1>4. B \in Seq(Nat) /\ n \in Nat /\ n >= 8
    <2> HIDE DEF f
    <2>1. B \in Seq(Nat) /\ n = 6 + Len(f.payload) + 2 /\ Len(f.payload) \in Nat
      BY <1>2, <1>3, OnLineBytes
    <2> HIDE DEF B, n
    <2> QED  BY <2>1
  <1>5. Len(wire) \in Nat /\ Len(wire) > 0
    BY <1>1, EmptySeq, LenProperties
  <1>6. /\ frames' = frames /\ wire' = Tail(wire) /\ Feed(Head(wire))
        /\ Head(wire) \in Byte
    BY <1>1, HeadTailProperties DEF Read
  <1> HIDE DEF f, B
  <1>7. g \in 0 .. n - 1 /\ g + 1 \in 1 .. n
    <2> HIDE DEF n, g
    <2> QED  BY <1>3, <1>4, <1>5
  <1>8. /\ Head(wire) = B[g + 1] /\ wire' = SubSeq(B, (g + 1) + 1, n)
        /\ Len(wire') = n - (g + 1)
    <2> HIDE DEF g
    <2> QED  BY <1>3, <1>4, <1>6, <1>7, SuffixShrinks
  <1>9. f' = f /\ B' = B /\ n' = n
    BY <1>6 DEF f, B
  <1>10. g' = n - Len(wire')
    BY <1>9 DEF BytesGone, B, f
  <1> HIDE DEF n, g
  <1>11. g' = g + 1 /\ Len(wire') <= n
    BY <1>4, <1>7, <1>8, <1>10
  <1>12. wire' = <<>> <=> g + 1 = n
    <2>1. wire' \in Seq(Byte)
      BY <1>1, <1>6, HeadTailProperties
    <2>2. wire' = <<>> <=> Len(wire') = 0
      BY <2>1, EmptySeq
    <2> QED  BY <1>4, <1>7, <1>8, <2>2
  <1>13. Undisturbed'
    BY <1>1, <1>3, <1>6, <1>8, <1>9, <1>11 DEF Undisturbed, f, B, n, g
  <1> QED  BY <1>2, <1>3, <1>4, <1>6, <1>7, <1>8, <1>11, <1>12, <1>13 DEF f, B, n, g

\* In step, it is read by a parser that takes it for what it is.
LEMMA ReadInStep ==
    ASSUME IInv, RunningCrcCovers, Undisturbed, InStep, Read
    PROVE  \/ wire' # <<>> /\ InStep' /\ delivered' = delivered
           \/ /\ wire' = <<>> /\ state' = "HUNT_SYNC"
              /\ delivered' = Append(delivered, Last(frames))
  <1>1. PICK f \in Frames : f = Last(frames)
    BY ReadShrinks
  <1> DEFINE g == BytesGone
             n == Len(OnLine(f))
  <1>2. /\ OnLine(f) # <<>> /\ n \in Nat /\ n >= 8 /\ g \in 0 .. n - 1
        /\ g' = g + 1 /\ frames' = frames
        /\ wire' = <<>> <=> g + 1 = n
        /\ Feed(OnLine(f)[g + 1]) /\ OnLine(f)[g + 1] \in Byte
    BY <1>1, ReadShrinks
  <1>3. PICK k \in 0 .. n - 1 : k = g
    BY <1>2
  <1>4. PICK b \in Byte : b = OnLine(f)[k + 1]
    BY <1>2, <1>3
  <1>5. HasRead(f, k) /\ ParserInv /\ Feed(b)
    BY <1>1, <1>2, <1>3, <1>4 DEF InStep, IInv
  <1>6. (wire' # <<>> /\ HasRead(f, k + 1)') => InStep'
    <2>1. Last(frames') = f /\ BytesGone' = k + 1
      BY <1>1, <1>2, <1>3
    <2> QED  BY <2>1 DEF InStep, HasRead
  <1> HIDE DEF g, n
  <1>7. CASE k \in 0 .. 1
    <2>1. HasRead(f, k + 1)' /\ delivered' = delivered
      BY <1>2, <1>4, <1>5, <1>7, MagicInStep
    <2>2. wire' # <<>>
      BY <1>2, <1>3, <1>7
    <2> QED  BY <2>1, <2>2, <1>6
  <1>8. CASE k \in 2 .. n - 2
    <2>1. HasRead(f, k + 1)' /\ delivered' = delivered
      BY <1>2, <1>4, <1>5, <1>8, MiddleInStep DEF n
    <2>2. wire' # <<>>
      BY <1>2, <1>3, <1>8
    <2> QED  BY <2>1, <2>2, <1>6
  <1>9. CASE k = n - 1
    <2>1. k \in 2 .. n - 1
      BY <1>2, <1>9
    <2>2. state' = "HUNT_SYNC" /\ delivered' = Append(delivered, f)
      BY <1>2, <1>4, <1>5, <1>9, <2>1, LastInStep DEF n
    <2>3. wire' = <<>>
      BY <1>2, <1>3, <1>9
    <2> QED  BY <2>2, <2>3, <1>1
  <1>10. k \in 0 .. 1 \/ k \in 2 .. n - 2 \/ k = n - 1
    BY <1>2, <1>3
  <1> QED  BY <1>7, <1>8, <1>9, <1>10

\* The last of a sequence that has just grown.
LEMMA LastOfAppend ==
    ASSUME NEW S, NEW s \in Seq(S), NEW e \in S
    PROVE  Append(s, e) # <<>> /\ Last(Append(s, e)) = e
  <1>1. /\ Append(s, e) \in Seq(S) /\ Len(Append(s, e)) = Len(s) + 1
        /\ Append(s, e)[Len(s) + 1] = e /\ Len(s) \in Nat
    BY AppendProperties, LenProperties
  <1>2. Append(s, e) # <<>>
    BY <1>1, EmptySeq
  <1>3. Append(s, e)[Len(Append(s, e))] = e
    BY <1>1
  <1> QED  BY <1>2, <1>3 DEF Last

\* After a fault the parser gets back in step at the latest at the end of what
\* it has taken for a frame.
LEMMA ReadKeepsAfterNoise ==
    ASSUME IInv, {noise, quiet} \subseteq Nat, RunningCrcCovers, AfterNoise, Read
    PROVE  AfterNoise'
  <1> SUFFICES ASSUME quiet' > 0 PROVE AfterNoise'
    BY DEF AfterNoise
  <1>1. quiet' = quiet /\ frames' = frames /\ quiet \in Nat /\ quiet > 0 /\ wire # <<>>
    BY DEF Read
  <1>2. Undisturbed /\ Plain(OnLine(Last(frames)))
        /\ (InStep \/ Astray \/ Hunting \/ LastDelivered)
    BY <1>1 DEF AfterNoise
  <1>3. PICK f \in Frames : f = Last(frames)
    BY <1>2, ReadShrinks
  <1> DEFINE B == OnLine(f)
             g == BytesGone
             n == Len(B)
  <1>4. /\ B # <<>> /\ B \in Seq(Nat) /\ n \in Nat /\ n >= 8 /\ g \in 0 .. n - 1
        /\ g' = g + 1 /\ Undisturbed'
        /\ wire' = <<>> <=> g + 1 = n
        /\ Feed(B[g + 1]) /\ B[g + 1] \in Byte
    BY <1>2, <1>3, ReadShrinks
  <1>5. Last(frames') = f /\ Plain(B)
    BY <1>1, <1>2, <1>3
  <1>6. SUFFICES InStep' \/ Astray' \/ Hunting' \/ LastDelivered'
    BY <1>4, <1>5 DEF AfterNoise
  <1>7. PICK b \in Byte : b = B[g + 1]
    BY <1>4
  <1>8. Feed(b) /\ ParserInv
    BY <1>4, <1>7 DEF IInv
  <1>9. CASE InStep
    <2>1. CASE wire' # <<>> /\ InStep'
      BY <2>1
    <2>2. CASE /\ wire' = <<>> /\ state' = "HUNT_SYNC"
               /\ delivered' = Append(delivered, Last(frames))
      <3> DEFINE S == [type : Byte, topic : Byte, payload : Seq(Byte)]
      <3>1. delivered \in Seq(S)
        BY <1>8 DEF ParserInv, ParserTypeOK
      <3>2. f \in S
        BY LineAssumption DEF Frames
      <3> HIDE DEF S
      <3>3. Append(delivered, f) # <<>> /\ Last(Append(delivered, f)) = f
        BY <3>1, <3>2, LastOfAppend
      <3>4. delivered' = Append(delivered, f)
        BY <1>3, <2>2
      <3> QED  BY <1>5, <2>2, <3>3, <3>4 DEF LastDelivered
    <2> QED  BY <1>2, <1>9, <2>1, <2>2, ReadInStep
  <1>10. CASE Astray
    <2>1. state # "HUNT_SYNC"
          /\ Remaining + (HeaderSize + CrcSize) * (quiet - 1) + g
               <= HeaderSize - 2 + BufferSize + CrcSize
      BY <1>10 DEF Astray
    <2>2. Remaining \in Nat /\ Remaining >= 1
      BY <1>8, <2>1, RemainingBounds
    <2>3. CASE state' = "HUNT_SYNC" /\ (headerBuf'[2] = Magic0 => b = Magic0)
      <3>1. quiet <= Recovery
        <4>1. 8 * Recovery >= 6 - 2 + BufferSize + 2
          BY RecoveryAssumption DEF HeaderSize, CrcSize
        <4>2. Remaining + 8 * (quiet - 1) + g <= 6 - 2 + BufferSize + 2
          BY <2>1 DEF HeaderSize, CrcSize
        <4>3. Recovery \in Nat /\ BufferSize \in Nat
          BY LineAssumption, ParserAssumption
        <4>4. \A r, q, t \in Nat : \A m \in 0 .. n - 1 : \A c \in Nat :
                 r >= 1 /\ 8 * t >= 6 - 2 + c + 2 /\ r + 8 * (q - 1) + m <= 6 - 2 + c + 2
                   => q <= t
          BY <1>4
        <4> HIDE DEF g, n, B
        <4> QED  BY <1>1, <1>4, <2>2, <4>1, <4>2, <4>3, <4>4
      <3>2. g' > 0 /\ OnLine(Last(frames'))[g'] = b
        BY <1>4, <1>5, <1>7
      <3>3. headerBuf'[2] = Magic0 => OnLine(Last(frames'))[BytesGone'] = Magic0
        BY <2>3, <3>2
      <3> QED  BY <1>1, <2>3, <3>1, <3>2, <3>3 DEF Hunting
    <2>4. CASE /\ state' # "HUNT_SYNC"
               /\ Remaining' \in Nat /\ Remaining' + 1 <= Remaining
      <3>1. /\ Remaining + 8 * (quiet - 1) + g <= 6 - 2 + BufferSize + 2
            /\ BufferSize \in Nat
        BY <2>1, ParserAssumption DEF HeaderSize, CrcSize
      <3>2. \A r, s, q, c \in Nat : \A m \in 0 .. n - 1 :
               r + 8 * (q - 1) + m <= 6 - 2 + c + 2 /\ s + 1 <= r
                 => s + 8 * (q - 1) + (m + 1) <= 6 - 2 + c + 2
        BY <1>4
      <3>3. Remaining' + 8 * (quiet - 1) + (g + 1) <= 6 - 2 + BufferSize + 2
        <4> HIDE DEF g, n, B
        <4> QED  BY <1>1, <1>4, <2>2, <2>4, <3>1, <3>2
      <3>4. /\ quiet' = quiet /\ g' = g + 1
        BY <1>1, <1>4
      <3> QED  BY <2>4, <3>3, <3>4 DEF Astray, HeaderSize, CrcSize
    <2> QED  BY <1>8, <2>1, <2>3, <2>4, AstrayStep
  <1>11. CASE Hunting
    <2>1. /\ state = "HUNT_SYNC" /\ g > 0 /\ quiet <= Recovery
          /\ headerBuf[2] = Magic0 => B[g] = Magic0
      BY <1>3, <1>11 DEF Hunting
    <2>2. headerBuf'[2] = b /\ (state' # "HUNT_SYNC" => headerBuf[2] = Magic0 /\ b = Magic1)
      BY <1>8, <2>1, HuntStep
    <2>3. CASE state' = "HUNT_SYNC"
      <3>1. g' > 0 /\ OnLine(Last(frames'))[g'] = b
        BY <1>4, <1>5, <1>7
      <3>2. headerBuf'[2] = Magic0 => OnLine(Last(frames'))[BytesGone'] = Magic0
        BY <2>2, <3>1
      <3> QED  BY <1>1, <2>1, <2>3, <3>1, <3>2 DEF Hunting
    <2>4. CASE state' # "HUNT_SYNC"
      <3>1. B[g] = Magic0 /\ B[g + 1] = Magic1
        BY <1>7, <2>1, <2>2, <2>4
      <3>2. g \in 1 .. n - 1
        BY <1>4, <2>1
      <3>3. SubSeq(B, g, g + 1) = Magic
        <4> HIDE DEF B, g
        <4> QED  BY <1>4, <3>1, <3>2, MagicAt
      <3>4. ~ (g \in 2 .. n - 1)
        <4> HIDE DEF B, g, n
        <4>1. \A i \in 2 .. n - 1 : SubSeq(B, i, i + 1) # Magic
          BY <1>5 DEF Plain, n
        <4> QED  BY <3>3, <4>1
      <3>5. g = 1
        <4> HIDE DEF g, n
        <4> QED  BY <1>4, <3>2, <3>4
      <3>6. HasRead(f, 1)
        BY <2>1, <2>2, <2>4 DEF HasRead
      <3>7. HasRead(f, 1 + 1)'
        <4>1. b = OnLine(f)[1 + 1]
          BY <1>7, <3>5
        <4>2. 1 \in 0 .. 1
          OBVIOUS
        <4> QED  BY <1>4, <1>8, <3>6, <4>1, <4>2, MagicInStep
      <3>8. wire' # <<>> /\ g' = 1 + 1
        <4> HIDE DEF g, n, B
        <4> QED  BY <1>4, <3>5
      <3> QED  BY <1>5, <3>7, <3>8 DEF InStep, HasRead
    <2> QED  BY <2>3, <2>4
  <1> QED  BY <1>1, <1>2, <1>9, <1>10, <1>11 DEF LastDelivered

\* Without a fault the parser is in step with the frame on the line, and has
\* delivered all that came before it.
LEMMA ReadKeepsWithoutNoise ==
    ASSUME IInv, RunningCrcCovers, WithoutNoise, Read
    PROVE  WithoutNoise'
  <1> SUFFICES ASSUME noise' = 0 PROVE WithoutNoise'
    BY DEF WithoutNoise
  <1>1. noise = 0 /\ wire # <<>> /\ frames' = frames
    BY DEF Read
  <1>2. Undisturbed /\ InStep /\ frames = Append(delivered, Last(frames))
    BY <1>1 DEF WithoutNoise
  <1>3. Undisturbed'
    BY <1>2, ReadShrinks
  <1>4. \/ wire' # <<>> /\ InStep' /\ delivered' = delivered
        \/ wire' = <<>> /\ state' = "HUNT_SYNC" /\ delivered' = Append(delivered, Last(frames))
    BY <1>2, ReadInStep
  <1> QED  BY <1>1, <1>2, <1>3, <1>4 DEF WithoutNoise

\* A frame whose length is that of its payload is on the line as a whole when it
\* has been written.
LEMMA WholeFrameOnLine ==
    ASSUME IInv, {noise, quiet} \subseteq Nat, Write, quiet' > 0 \/ noise' = 0
    PROVE  /\ frames' = Append(frames, Last(frames')) /\ frames' # <<>>
           /\ Undisturbed' /\ BytesGone' = 0 /\ wire' # <<>>
           /\ noise' = noise
           /\ quiet' > 0 => quiet' = quiet + 1 /\ Plain(OnLine(Last(frames')))
           /\ state' = "HUNT_SYNC" => InStep'
  <1>1. PICK f \in Traffic :
           /\ wire' = Written(f, Len(frames) + 1)
           /\ wire' # <<>>
           /\ frames' = Append(frames, [type |-> f.type,
                                        topic |-> Len(frames) + 1,
                                        payload |-> f.payload])
           /\ quiet' = IF f.length = Len(f.payload) /\ Plain(wire') THEN quiet + 1 ELSE 0
           /\ noise' = IF f.length = Len(f.payload) THEN noise ELSE noise + 1
    BY Zenon DEF Write
  <1>2. f.length = Len(f.payload) /\ noise' = noise
        /\ (quiet' > 0 => quiet' = quiet + 1 /\ Plain(wire'))
    <2>1. noise \in Nat /\ quiet \in Nat
      OBVIOUS
    <2>2. ~ (quiet' > 0) \/ (f.length = Len(f.payload) /\ Plain(wire'))
      BY <1>1
    <2>3. f.length = Len(f.payload)
      BY <1>1, <2>1, <2>2
    <2> QED  BY <1>1, <2>2, <2>3
  <1> DEFINE e == [type |-> f.type, topic |-> Len(frames) + 1, payload |-> f.payload]
  <1>3. /\ frames \in Seq(Frames) /\ Len(frames) \in Nat /\ Len(frames) < MaxFrames
    BY LenProperties DEF IInv, LineTypeOK, Write
  <1>4. Len(frames) + 1 \in 1 .. MaxFrames
    BY <1>3, LineAssumption
  <1>5. e \in Frames
    BY <1>4 DEF Frames
  <1>6. wire' = OnLine(e)
    BY <1>1, <1>2 DEF OnLine, Written
  <1> HIDE DEF e
  <1>7. frames' = Append(frames, e)
    BY <1>1 DEF e
  <1>8. frames' # <<>> /\ Last(frames') = e
    <2>1. Append(frames, e) # <<>> /\ Last(Append(frames, e)) = e
      BY <1>3, <1>5, LastOfAppend
    <2> QED  BY <1>7, <2>1
  <1> DEFINE B == OnLine(e)
             n == Len(B)
  <1>9. B \in Seq(Nat) /\ n \in Nat /\ B # <<>>
    <2>1. B # <<>>
      BY <1>1, <1>6
    <2> QED  BY <1>5, <2>1, OnLineBytes, LenProperties
  <1>10. BytesGone' = n - n
    BY <1>6, <1>8 DEF BytesGone
  <1> HIDE DEF n, B
  <1>11. BytesGone' = 0
    BY <1>9, <1>10
  <1>12. wire' = SubSeq(B, 1, n)
    <2>1. n \in 0 .. Len(B)
      BY <1>9 DEF n
    <2>2. /\ SubSeq(B, 1, n) \in Seq(Nat) /\ Len(SubSeq(B, 1, n)) = n
          /\ \A i \in 1 .. n : SubSeq(B, 1, n)[i] = B[i]
      BY <1>9, <2>1, PrefixParts
    <2>3. SubSeq(B, 1, n) = B
      BY <1>9, <2>2, SeqEqual DEF n
    <2> QED  BY <1>6, <2>3 DEF B
  <1>13. Undisturbed'
    <2>1. wire' = SubSeq(B, 0 + 1, n) /\ Len(wire') = n
      BY <1>6, <1>12 DEF B, n
    <2>2. OnLine(Last(frames')) = B /\ Len(B) = n
      BY <1>8 DEF B, n
    <2>3. n <= n
      BY <1>9
    <2> QED  BY <1>8, <1>9, <1>11, <2>1, <2>2, <2>3 DEF Undisturbed
  <1>14. state' = "HUNT_SYNC" => InStep'
    BY <1>1, <1>11 DEF InStep, HasRead
  <1> QED  BY <1>1, <1>2, <1>6, <1>7, <1>8, <1>11, <1>13, <1>14

\* When the line is empty all the bytes of the last frame have left it, those of
\* a header and a CRC at least.
LEMMA AllGone ==
    ASSUME IInv, Undisturbed, wire = <<>>
    PROVE  BytesGone \in Nat /\ BytesGone >= 8
  <1>1. /\ frames \in Seq(Frames) /\ frames # <<>>
        /\ OnLine(Last(frames)) # <<>>
    BY DEF IInv, LineTypeOK, Undisturbed
  <1>2. PICK f \in Frames : f = Last(frames)
    <2>1. Len(frames) \in 1 .. Len(frames)
      BY <1>1, EmptySeq, LenProperties
    <2>2. frames[Len(frames)] \in Frames
      BY <1>1, <2>1, ElementOfSeq
    <2> QED  BY <2>2 DEF Last
  <1>3. Len(OnLine(f)) = 6 + Len(f.payload) + 2 /\ Len(f.payload) \in Nat
    BY <1>1, <1>2, OnLineBytes
  <1>4. BytesGone = 6 + Len(f.payload) + 2 - 0
    BY <1>2, <1>3 DEF BytesGone
  <1> QED  BY <1>3, <1>4

\* A frame is written when the one before has been read: the parser then is
\* hunting, or that frame brought it closer to the end of what it has in hand.
LEMMA WriteKeepsAfterNoise ==
    ASSUME IInv, {noise, quiet} \subseteq Nat, AfterNoise, Write
    PROVE  AfterNoise'
  <1> SUFFICES ASSUME quiet' > 0 PROVE AfterNoise'
    BY DEF AfterNoise
  <1>1. /\ Undisturbed' /\ BytesGone' = 0 /\ quiet' = quiet + 1
        /\ Plain(OnLine(Last(frames'))) /\ (state' = "HUNT_SYNC" => InStep')
    BY WholeFrameOnLine
  <1>2. /\ wire = <<>> /\ quiet \in Nat /\ ParserInv
        /\ state' = state /\ Remaining' = Remaining
    BY DEF Write, parserVars, IInv, Remaining
  <1>3. SUFFICES ASSUME state # "HUNT_SYNC" PROVE Astray'
    BY <1>1, <1>2 DEF AfterNoise
  <1>4. /\ Remaining \in Nat
        /\ Remaining <= HeaderSize - 2 + BufferSize + CrcSize
    BY <1>2, <1>3, RemainingBounds
  <1>5. Remaining + 8 * quiet + 0 <= 6 - 2 + BufferSize + 2
    <2>1. CASE quiet = 0
      <3>1. Remaining <= 6 - 2 + BufferSize + 2 /\ BufferSize \in Nat
        BY <1>4, ParserAssumption DEF HeaderSize, CrcSize
      <3> QED  BY <1>4, <2>1, <3>1
    <2>2. CASE quiet > 0
      <3>1. Undisturbed /\ Astray
        BY <1>2, <1>3, <2>2 DEF AfterNoise, InStep, Hunting, LastDelivered
      <3>2. BytesGone \in Nat /\ BytesGone >= 8
        BY <1>2, <3>1, AllGone
      <3>3. /\ Remaining + 8 * (quiet - 1) + BytesGone <= 6 - 2 + BufferSize + 2
            /\ BufferSize \in Nat
        BY <3>1, ParserAssumption DEF Astray, HeaderSize, CrcSize
      <3>4. \A r, q, c, m \in Nat :
               r + 8 * (q - 1) + m <= 6 - 2 + c + 2 /\ m >= 8
                 => r + 8 * q + 0 <= 6 - 2 + c + 2
        OBVIOUS
      <3> QED  BY <1>2, <1>4, <3>2, <3>3, <3>4
    <2> QED  BY <1>2, <2>1, <2>2
  <1>6. quiet' - 1 = quiet
    BY <1>1, <1>2
  <1>7. Remaining' + 8 * (quiet' - 1) + BytesGone' <= 6 - 2 + BufferSize + 2
    BY <1>1, <1>2, <1>5, <1>6
  <1> QED  BY <1>2, <1>3, <1>7 DEF Astray, HeaderSize, CrcSize

\* Without a fault it is hunting then, and has delivered them all.
LEMMA WriteKeepsWithoutNoise ==
    ASSUME IInv, {noise, quiet} \subseteq Nat, WithoutNoise, Write
    PROVE  WithoutNoise'
  <1> SUFFICES ASSUME noise' = 0 PROVE WithoutNoise'
    BY DEF WithoutNoise
  <1>1. /\ Undisturbed' /\ wire' # <<>> /\ noise' = noise
        /\ (state' = "HUNT_SYNC" => InStep')
        /\ frames' = Append(frames, Last(frames'))
    BY WholeFrameOnLine
  <1>2. wire = <<>> /\ state' = state /\ delivered' = delivered
    BY DEF Write, parserVars
  <1>3. state = "HUNT_SYNC" /\ delivered = frames
    BY <1>1, <1>2 DEF WithoutNoise
  <1> QED  BY <1>1, <1>2, <1>3 DEF WithoutNoise

-----------------------------------------------------------------------------
(* The theorems                                                            *)

\* Nothing is on the line at first.
LEMMA InitTrackInv == Init => TrackInv
  <1> SUFFICES ASSUME Init PROVE TrackInv
    OBVIOUS
  <1>1. IInv
    BY InitIInv
  <1>2. /\ noise = 0 /\ quiet = 0 /\ wire = <<>> /\ frames = <<>>
        /\ state = "HUNT_SYNC" /\ delivered = <<>>
    BY DEF Init, ParserInit
  <1> QED  BY <1>1, <1>2 DEF TrackInv, RunningCrcCovers, AfterNoise, WithoutNoise

\* No step breaks the tracking invariant.
LEMMA StepKeepsTrackInv == TrackInv /\ [Next]_vars => TrackInv'
  <1> SUFFICES ASSUME TrackInv, [Next]_vars PROVE TrackInv'
    OBVIOUS
  <1>1. IInv /\ {noise, quiet} \subseteq Nat
        /\ RunningCrcCovers /\ AfterNoise /\ WithoutNoise
    BY DEF TrackInv
  <1>2. IInv'
    BY <1>1, StepKeepsIInv
  <1>3. noise \in Nat /\ quiet \in Nat
    BY <1>1
  <1>4. CASE Write
    <2>1. noise' \in Nat /\ quiet' \in Nat
      BY <1>3, <1>4 DEF Write
    <2>2. RunningCrcCovers'
      BY <1>1, <1>4 DEF Write, RunningCrcCovers, parserVars
    <2> QED  BY <1>1, <1>2, <1>4, <2>1, <2>2,
                WriteKeepsAfterNoise, WriteKeepsWithoutNoise DEF TrackInv
  <1>5. CASE Read
    <2>1. noise' \in Nat /\ quiet' \in Nat
      BY <1>3, <1>5 DEF Read
    <2>2. RunningCrcCovers'
      <3>1. Head(wire) \in Byte
        BY <1>1, <1>5, HeadTailProperties DEF Read, IInv, LineTypeOK
      <3> QED  BY <1>1, <1>5, <3>1, CrcKeepsCovering DEF Read, IInv
    <2> QED  BY <1>1, <1>2, <1>5, <2>1, <2>2,
                ReadKeepsAfterNoise, ReadKeepsWithoutNoise DEF TrackInv
  <1>6. CASE Disturb
    <2>1. noise' \in Nat /\ noise' # 0 /\ quiet' = 0
      BY <1>3, <1>6 DEF Disturb
    <2>2. RunningCrcCovers'
      BY <1>1, <1>6 DEF Disturb, RunningCrcCovers, parserVars
    <2> QED  BY <1>2, <2>1, <2>2 DEF TrackInv, AfterNoise, WithoutNoise
  <1>7. CASE UNCHANGED vars
    <2>1. UNCHANGED <<state, headerBuf, payloadBuf, crcBuf, runningCrc, delivered,
                      wire, frames, noise, quiet>>
      BY <1>7 DEF vars, parserVars
    <2>2. RunningCrcCovers' /\ Undisturbed' = Undisturbed /\ InStep' = InStep
          /\ Astray' = Astray /\ Hunting' = Hunting /\ LastDelivered' = LastDelivered
      BY <1>1, <2>1 DEF RunningCrcCovers, Undisturbed, InStep, HasRead, Held,
                        BytesGone, Astray, Remaining, Hunting, LastDelivered
    <2>3. AfterNoise' /\ WithoutNoise'
      BY <1>1, <2>1, <2>2 DEF AfterNoise, WithoutNoise
    <2> QED  BY <1>1, <1>2, <2>1, <2>2, <2>3 DEF TrackInv
  <1> QED  BY <1>4, <1>5, <1>6, <1>7 DEF Next

\* On any line, for any frames and any faults, the parser is where the tracking
\* invariant says in the frame written last.
THEOREM TrackInvariance == Spec => []TrackInv
  <1> QED  BY InitTrackInv, StepKeepsTrackInv, PTL DEF Spec

\* As long as no fault has occurred, all that was written has been delivered
\* when the line is empty.
THEOREM QuietLineAlwaysDelivers == Spec => []QuietLineDelivers
  <1>1. TrackInv => QuietLineDelivers
    BY DEF TrackInv, WithoutNoise, QuietLineDelivers
  <1> QED  BY <1>1, TrackInvariance, PTL

\* With any number of faults behind it, after Recovery plain frames more the
\* parser delivers the next.
THEOREM ParserAlwaysResyncs == Spec => []ParserResyncs
  <1>1. TrackInv => ParserResyncs
    <2> SUFFICES ASSUME TrackInv, wire = <<>>, quiet > Recovery
                 PROVE  delivered # <<>> /\ Last(delivered) = Last(frames)
      BY DEF ParserResyncs
    <2>1. /\ Recovery \in Nat /\ BufferSize \in Nat /\ quiet \in Nat
      BY LineAssumption, ParserAssumption DEF TrackInv
    <2>2. Undisturbed /\ (InStep \/ Astray \/ Hunting \/ LastDelivered)
      BY <2>1 DEF TrackInv, AfterNoise
    <2>3. ~ InStep /\ ~ Hunting
      BY <2>1 DEF InStep, Hunting
    <2>4. ~ Astray
      <3> SUFFICES ASSUME Astray PROVE FALSE
        OBVIOUS
      <3>1. Remaining \in Nat
        BY RemainingBounds DEF Astray, TrackInv, IInv
      <3>2. Remaining + 8 * (quiet - 1) + BytesGone <= 6 - 2 + BufferSize + 2
        BY DEF Astray, HeaderSize, CrcSize
      <3>3. 8 * Recovery >= 6 - 2 + BufferSize + 2
        BY RecoveryAssumption DEF HeaderSize, CrcSize
      <3>4. BytesGone \in Nat /\ BytesGone >= 8
        BY <2>2, AllGone DEF TrackInv
      <3>5. \A r, q, t, c, m \in Nat :
               r + 8 * (q - 1) + m <= 6 - 2 + c + 2 /\ m >= 8
                 /\ 8 * t >= 6 - 2 + c + 2 => q <= t
        OBVIOUS
      <3> QED  BY <2>1, <3>1, <3>2, <3>3, <3>4, <3>5
    <2> QED  BY <2>2, <2>3, <2>4 DEF LastDelivered
  <1> QED  BY <1>1, TrackInvariance, PTL
=============================================================================
