--------------------------- MODULE NanoRos_proofs ---------------------------
(***************************************************************************)
(* Lemmas about the steps of the client library, for the theorems about    *)
(* the two systems it is part of: NanoRosOpen and Session.                 *)
(***************************************************************************)
EXTENDS NanoRos, SequenceTheorems, TLAPS

\* Every frame a board can write is a frame.
LEMMA FramesAreFrames ==
    /\ Torn \in Frames /\ RegisterDone \in Frames
    /\ \A i \in TopicIdx : RegisterFrame(i) \in Frames
    /\ \A id \in Ids, n \in Nat : DataFrame(id, n) \in Frames
  <1>1. Torn \in Frames /\ RegisterDone \in Frames
    BY DEF Frames
  <1>2. ASSUME NEW i \in TopicIdx PROVE RegisterFrame(i) \in Frames
    <2>1. TopicId[i] \in WireTopicIds /\ TopicQos[i] \in 0 .. 255
      BY TopicTableAssumption
    <2> QED  BY <2>1 DEF RegisterFrame, Frames
  <1>3. ASSUME NEW id \in Ids, NEW n \in Nat PROVE DataFrame(id, n) \in Frames
    <2>1. id \in WireTopicIds
      BY TopicTableAssumption DEF Ids
    <2> QED  BY <2>1 DEF DataFrame, Frames
  <1> QED  BY <1>1, <1>2, <1>3

\* What the parser makes of a wire that starts with a Torn is again a wire, of
\* the same frames.
LEMMA ResyncsAreWires ==
    ASSUME NEW S, NEW w \in Seq(S), NEW v \in Resyncs(w)
    PROVE  v \in Seq(S)
  <1>1. w # <<>>
    BY DEF Resyncs, Arrives
  <1>2. Tail(w) \in Seq(S)
    BY <1>1, HeadTailProperties
  <1>3. CASE v = Tail(w)
    BY <1>2, <1>3
  <1>4. CASE Len(w) > 1 /\ v = RemoveAt(w, 2)
    <2>1. SubSeq(w, 1, 1) \in Seq(S) /\ SubSeq(w, 3, Len(w)) \in Seq(S)
      BY <1>4, SubSeqProperties
    <2>2. v = SubSeq(w, 1, 1) \o SubSeq(w, 3, Len(w))
      BY <1>4 DEF RemoveAt
    <2> QED  BY <2>1, <2>2, ConcatProperties
  <1> QED  BY <1>3, <1>4 DEF Resyncs

-----------------------------------------------------------------------------
(* Type correctness                                                        *)

\* Starting a frame keeps the transmitter and the line well typed.
LEMMA StartFrameType ==
    ASSUME ClientTypeOK, NEW f \in Frames, StartFrame(f)
    PROVE  /\ txState' \in {"IDLE", "SENDING_FRAME"}
           /\ txFrame' \in Frames
           /\ bytesSent' \in 0 .. FrameLen
           /\ toAgent' \in Seq(Frames)
  BY FramesAreFrames, AppendProperties, ClientAssumption
     DEF StartFrame, ClientTypeOK

\* So does load_next_registration_frame.
LEMMA LoadNextType ==
    ASSUME ClientTypeOK,
           NEW idx \in Nat, NEW done \in BOOLEAN, NEW waiting \in BOOLEAN,
           done \/ idx \in TopicIdx,
           LoadNextRegistrationFrame(idx, done, waiting)
    PROVE  /\ txState' \in {"IDLE", "SENDING_FRAME"}
           /\ txFrame' \in Frames
           /\ bytesSent' \in 0 .. FrameLen
           /\ toAgent' \in Seq(Frames)
           /\ awaitingAck' \in BOOLEAN
  <1>1. CASE StartFrame(RegisterDone) /\ awaitingAck' = waiting
    BY <1>1, StartFrameType, FramesAreFrames
  <1>2. CASE UNCHANGED <<tx, toAgent>> /\ awaitingAck' = waiting
    BY <1>2 DEF ClientTypeOK, tx
  <1>3. CASE ~done /\ StartFrame(RegisterFrame(idx)) /\ awaitingAck' = TRUE
    <2>1. RegisterFrame(idx) \in Frames
      BY <1>3, FramesAreFrames
    <2> QED  BY <1>3, <2>1, StartFrameType
  <1> QED  BY <1>1, <1>2, <1>3 DEF LoadNextRegistrationFrame

\* Taking a frame off the line leaves a line.
LEMMA ReceivesType ==
    ASSUME ClientTypeOK, NEW type, Receives(type)
    PROVE  /\ Head(toClient) \in Frames
           /\ Head(toClient).type = type
           /\ toClient' \in Seq(Frames)
  BY HeadTailProperties DEF ClientTypeOK, Receives, Arrives

\* The board starts in a well-typed state.
LEMMA ClientInitType == LinkInit /\ ClientInit => ClientTypeOK
  <1> SUFFICES ASSUME LinkInit, ClientInit PROVE ClientTypeOK
    OBVIOUS
  <1>1. txFrame \in Frames
    BY FramesAreFrames DEF ClientInit, ClientStart
  <1>2. bytesSent \in 0 .. FrameLen
    BY ClientAssumption DEF ClientInit, ClientStart
  <1>3. /\ toAgent \in Seq(Frames) /\ toClient \in Seq(Frames)
        /\ accepted \in Seq(Messages) /\ received \in Seq(Messages)
    BY DEF LinkInit, ClientInit
  <1>4. /\ txState \in {"IDLE", "SENDING_FRAME"}
        /\ regIdx \in 0 .. 255
    BY DEF ClientInit, ClientStart
  <1>5. /\ isRegistration \in BOOLEAN /\ sendingRegDone \in BOOLEAN
        /\ awaitingAck \in BOOLEAN /\ registrationComplete \in BOOLEAN
        /\ clientFault \in BOOLEAN
    BY DEF ClientInit, ClientStart
  <1> QED  BY <1>1, <1>2, <1>3, <1>4, <1>5 DEF ClientTypeOK

\* Every step of the client library keeps its types.
LEMMA ClientStepType ==
    ASSUME ClientTypeOK,
           \/ RxPoll \/ RxTorn \/ TxPoll
           \/ \E id \in PublisherIds : Publish(id)
    PROVE  ClientTypeOK'
  <1>1. CASE RxData
    <2>1. ASSUME Head(toClient).topic \in SubscriberIds
          PROVE  Msg(Head(toClient)) \in Messages
      <3>1. Head(toClient) \in Frames /\ Head(toClient).type = "DATA"
        BY <1>1, ReceivesType DEF RxData
      <3> QED  BY <3>1 DEF Frames, Msg, Messages, RegisterDone, Discover, Torn
    <2>2. received' \in Seq(Messages) /\ clientFault' \in BOOLEAN
      <3>1. CASE Head(toClient).topic \in SubscriberIds
        <4>1. received' = Append(received, Msg(Head(toClient)))
          BY <1>1, <3>1 DEF RxData
        <4>2. UNCHANGED clientFault
          BY <1>1, <3>1 DEF RxData
        <4> QED  BY <2>1, <3>1, <4>1, <4>2, AppendProperties DEF ClientTypeOK
      <3>2. CASE Head(toClient).topic \notin SubscriberIds
        BY <1>1, <3>2 DEF RxData, ClientTypeOK
      <3> QED  BY <3>1, <3>2
    <2>3. toClient' \in Seq(Frames)
      BY <1>1, ReceivesType DEF RxData
    <2>4. ClientTypeOK'
      BY <1>1, <2>2, <2>3 DEF RxData, ClientTypeOK, tx, registration
    <2> QED  BY <1>1, <2>4
  <1>2. CASE RxAckIgnored
    BY <1>2, ReceivesType DEF RxAckIgnored, ClientTypeOK, tx
  <1>3. CASE RxAckAdvances
    <2>1. regIdx' \in 0 .. 255 /\ sendingRegDone' \in BOOLEAN
      BY <1>3 DEF RxAckAdvances, ClientTypeOK
    <2>2. sendingRegDone' \/ regIdx' \in TopicIdx
      <3>1. CASE regIdx' >= TopicCount
        BY <1>3, <3>1 DEF RxAckAdvances, RegistersUpTo
      <3>2. CASE ~(regIdx' >= TopicCount)
        BY <2>1, <3>2, TopicTableAssumption DEF TopicIdx
      <3> QED  BY <3>1, <3>2
    <2>3. /\ txState' \in {"IDLE", "SENDING_FRAME"}
          /\ txFrame' \in Frames
          /\ bytesSent' \in 0 .. FrameLen
          /\ toAgent' \in Seq(Frames)
          /\ awaitingAck' \in BOOLEAN
      <3>1. LoadNextRegistrationFrame(regIdx', sendingRegDone', FALSE)
        BY <1>3 DEF RxAckAdvances
      <3>2. regIdx' \in Nat
        BY <2>1
      <3> QED  BY <2>1, <2>2, <3>1, <3>2, LoadNextType
    <2>4. toClient' \in Seq(Frames)
      BY <1>3, ReceivesType DEF RxAckAdvances
    <2> QED  BY <1>3, <2>1, <2>3, <2>4 DEF RxAckAdvances, ClientTypeOK
  <1>4. CASE RxDiscover
    <2>1. toClient' \in Seq(Frames)
      BY <1>4, ReceivesType DEF RxDiscover
    <2>2. CASE txState = "IDLE"
      <3>1. LoadNextRegistrationFrame(0, FALSE, awaitingAck)
        BY <1>4, <2>2 DEF RxDiscover
      <3>2. 0 \in TopicIdx
        BY TopicTableAssumption DEF TopicIdx
      <3>3. /\ txState' \in {"IDLE", "SENDING_FRAME"}
            /\ txFrame' \in Frames
            /\ bytesSent' \in 0 .. FrameLen
            /\ toAgent' \in Seq(Frames)
            /\ awaitingAck' \in BOOLEAN
        BY <3>1, <3>2, LoadNextType DEF ClientTypeOK
      <3>4. isRegistration' \in BOOLEAN /\ sendingRegDone' \in BOOLEAN
        <4>1. isRegistration' = TRUE /\ sendingRegDone' = FALSE
          BY <1>4, <2>2 DEF RxDiscover
        <4> QED  BY <4>1
      <3>5. regIdx' \in 0 .. 255
        BY <1>4, <2>2 DEF RxDiscover
      <3>6. UNCHANGED <<registrationComplete, clientFault, accepted, received>>
        BY <1>4 DEF RxDiscover
      <3> QED  BY <1>4, <2>1, <3>3, <3>4, <3>5, <3>6 DEF ClientTypeOK
    <2>3. CASE txState # "IDLE"
      BY <1>4, <2>1, <2>3 DEF RxDiscover, ClientTypeOK, tx, registration
    <2> QED  BY <2>2, <2>3
  <1>5. CASE RxIgnored
    BY <1>5, ReceivesType
       DEF RxIgnored, ClientTypeOK, clientVars, tx, registration
  <1>6. CASE RxTorn
    BY <1>6, ResyncsAreWires
       DEF RxTorn, ClientTypeOK, clientVars, tx, registration
  <1>7. CASE TxPoll
    <2>1. bytesSent' \in 0 .. FrameLen
      BY <1>7, ClientAssumption DEF TxPoll, Accepts, ClientTypeOK
    <2>2. toAgent' \in Seq(Frames)
      <3>1. txFrame \in Frames /\ toAgent \in Seq(Frames)
        BY DEF ClientTypeOK
      <3>2. toAgent' = toAgent \/ toAgent' = Append(toAgent, txFrame)
        <4>1. CASE bytesSent' < FrameLen
          BY <1>7, <4>1 DEF TxPoll
        <4>2. CASE ~(bytesSent' < FrameLen)
          BY <1>7, <4>2 DEF TxPoll
        <4> QED  BY <4>1, <4>2
      <3> QED  BY <3>1, <3>2, AppendProperties
    <2> QED
      BY <1>7, <2>1, <2>2
         DEF TxPoll, TxFrameComplete, ClientTypeOK, registration
  <1>8. CASE \E id \in PublisherIds : Publish(id)
    <2>1. PICK id \in PublisherIds : Publish(id)
      BY <1>8
    <2>2. id \in Ids /\ id \in WireTopicIds
      BY TopicTableAssumption DEF PublisherIds, Ids
    <2> DEFINE f == DataFrame(id, Len(accepted) + 1)
    <2>3. Len(accepted) + 1 \in Nat
      BY DEF ClientTypeOK
    <2>4. f \in Frames
      BY <2>2, <2>3, FramesAreFrames
    <2>5. Msg(f) \in Messages
      BY <2>2, <2>3 DEF Msg, Messages, DataFrame
    <2>6. accepted' \in Seq(Messages)
      BY <2>1, <2>5, AppendProperties DEF Publish, ClientTypeOK
    <2>7. StartFrame(f) /\ isRegistration' = FALSE
      BY <2>1 DEF Publish, LoadData
    <2>8. /\ txState' \in {"IDLE", "SENDING_FRAME"}
          /\ txFrame' \in Frames
          /\ bytesSent' \in 0 .. FrameLen
          /\ toAgent' \in Seq(Frames)
      BY <2>4, <2>7, StartFrameType
    <2> QED  BY <1>8, <2>1, <2>6, <2>7, <2>8 DEF Publish, ClientTypeOK
  <1> QED
    BY <1>1, <1>2, <1>3, <1>4, <1>5, <1>6, <1>7, <1>8 DEF RxPoll
=============================================================================
