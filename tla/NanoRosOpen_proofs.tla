------------------------- MODULE NanoRosOpen_proofs -------------------------
(***************************************************************************)
(* Theorems about the client library against an arbitrary host.            *)
(***************************************************************************)
EXTENDS NanoRosOpen, NanoRos_proofs, SequenceTheorems, TLAPS

-----------------------------------------------------------------------------
(* Type correctness                                                        *)

\* The program starts in a well-typed state.
LEMMA InitType == Init => TypeOK
  BY ClientInitType, OpenAssumption DEF Init, TypeOK

\* Every step of the board and of the host preserves the types.
LEMMA NextType == TypeOK /\ [Next]_vars => TypeOK'
  <1> SUFFICES ASSUME TypeOK, [Next]_vars PROVE TypeOK'
    OBVIOUS
  <1> USE DEF TypeOK
  <1>1. CASE Client
    BY <1>1, ClientStepType DEF Client
  <1>2. CASE HostSends
    <2>1. MaxHost \in Nat /\ HostFrames \subseteq Frames
      BY OpenAssumption
    <2>2. hostSent' \in 0 .. MaxHost
      BY <1>2, <2>1 DEF HostSends
    <2>3. toClient' \in Seq(Frames)
      BY <1>2, <2>1, AppendProperties DEF HostSends, ClientTypeOK
    <2> QED
      BY <1>2, <2>2, <2>3
         DEF HostSends, ClientTypeOK, clientVars, tx, registration
  <1>3. CASE HostReads
    BY <1>3, HeadTailProperties
       DEF HostReads, ClientTypeOK, clientVars, tx, registration
  <1>4. CASE UNCHANGED vars
    BY <1>4 DEF vars, link, ClientTypeOK, clientVars, tx, registration
  <1> QED  BY <1>1, <1>2, <1>3, <1>4 DEF Next

\* The state of the client library keeps its types whatever the host sends.
THEOREM TypeCorrect == Spec => []TypeOK
  BY InitType, NextType, PTL DEF Spec
-----------------------------------------------------------------------------
(* What the flags say about tx.buffer, and the bound of the index          *)

\* The rest of the invariant holds at the start.
LEMMA InitInv == Init => IInv
  <1> SUFFICES ASSUME Init PROVE IInv
    OBVIOUS
  <1>1. TypeOK
    BY InitType
  <1>2. IndexInBounds
    BY TopicTableAssumption DEF Init, ClientInit, ClientStart, IndexInBounds
  <1> QED
    BY <1>1, <1>2
       DEF Init, ClientInit, ClientStart, IInv, AwaitedTopicExists,
           FlagsNameTheFrame, OversizedIsNeverPassed

\* Steps that leave the registration and tx.buffer alone preserve it.
LEMMA QuietStep ==
    ASSUME IInv, TypeOK',
           UNCHANGED <<registration, registrationComplete>>,
           UNCHANGED tx
    PROVE  IInv'
  BY DEF IInv, IndexInBounds, AwaitedTopicExists, FlagsNameTheFrame,
         OversizedIsNeverPassed, registration, tx

\* One more sendable topic.
LEMMA SendableUpTo ==
    ASSUME NEW m \in Nat, m \notin Oversized,
           \A i \in 0 .. (m - 1) : i \notin Oversized
    PROVE  \A i \in 0 .. m : i \notin Oversized
  <1>1. \A i \in 0 .. m : i = m \/ i \in 0 .. (m - 1)
    OBVIOUS
  <1> QED  BY <1>1

\* Loading the next frame of a registration, from RxAckAdvances (a topic was
\* acknowledged) or from RxDiscover (index 0), re-establishes it.
LEMMA LoadNextInv ==
    ASSUME IInv, TypeOK', UNCHANGED registrationComplete,
           isRegistration',
           regIdx' <= TopicCount,
           sendingRegDone' <=> regIdx' = TopicCount,
           \A i \in 0 .. (regIdx' - 1) : i \notin Oversized,
           NEW waiting \in BOOLEAN,
           LoadNextRegistrationFrame(regIdx', sendingRegDone', waiting),
           waiting => ~sendingRegDone' /\ regIdx' \notin Oversized,
           txState = "SENDING_FRAME" =>
               isRegistration /\ (~sendingRegDone' => ~sendingRegDone)
    PROVE  IInv'
  <1> USE DEF IInv, TypeOK, ClientTypeOK
  <1>1. IndexInBounds'
    BY DEF IndexInBounds
  <1>2. regIdx' \in 0 .. 255 /\ TopicCount \in 1 .. 255
    BY TopicTableAssumption
  <1>3. awaitingAck' => ~sendingRegDone' /\ regIdx' \notin Oversized
    BY DEF LoadNextRegistrationFrame
  <1>4. AwaitedTopicExists'
    BY <1>2, <1>3 DEF AwaitedTopicExists, TopicIdx
  <1>5. FlagsNameTheFrame'
    <2>1. CASE sendingRegDone'
      BY <2>1 DEF LoadNextRegistrationFrame, StartFrame, FlagsNameTheFrame
    <2>2. CASE ~sendingRegDone' /\ regIdx' \notin Oversized
      <3>1. txFrame' = RegisterFrame(regIdx')
        BY <2>2 DEF LoadNextRegistrationFrame, StartFrame
      <3> QED  BY <2>2, <3>1 DEF FlagsNameTheFrame, RegisterFrame
    <2>3. CASE ~sendingRegDone' /\ regIdx' \in Oversized
      <3>1. UNCHANGED tx
        BY <2>3 DEF LoadNextRegistrationFrame
      <3> QED  BY <2>3, <3>1 DEF FlagsNameTheFrame, tx
    <2> QED  BY <2>1, <2>2, <2>3
  <1>6. OversizedIsNeverPassed'
    <2>1. awaitingAck' => \A i \in 0 .. regIdx' : i \notin Oversized
      <3>1. regIdx' \in Nat
        BY <1>2
      <3>2. regIdx' \notin Oversized => \A i \in 0 .. regIdx' : i \notin Oversized
        BY <3>1, SendableUpTo
      <3> QED  BY <1>3, <3>2
    <2>2. sendingRegDone' => Oversized = {}
      BY <1>2, ClientAssumption DEF TopicIdx
    <2> QED  BY <2>1, <2>2 DEF OversizedIsNeverPassed
  <1> QED  BY <1>1, <1>4, <1>5, <1>6

\* Every step of the board and of the host preserves the invariant.
LEMMA NextInv == IInv /\ [Next]_vars => IInv'
  <1> SUFFICES ASSUME IInv, [Next]_vars PROVE IInv'
    OBVIOUS
  <1>1. TypeOK'
    BY NextType DEF IInv
  <1>2. TopicCount \in 1 .. 255 /\ Oversized \subseteq TopicIdx
    BY TopicTableAssumption, ClientAssumption
  <1>3. CASE RxData
    BY <1>1, <1>3, QuietStep DEF RxData, registration
  <1>4. CASE RxAckIgnored
    <2>1. ~awaitingAck'
      BY <1>4 DEF RxAckIgnored
    <2>2. UNCHANGED <<txState, txFrame, isRegistration, sendingRegDone, regIdx,
                      registrationComplete>>
      BY <1>4 DEF RxAckIgnored, tx
    <2> QED
      BY <1>1, <2>1, <2>2
         DEF IInv, IndexInBounds, AwaitedTopicExists, FlagsNameTheFrame,
             OversizedIsNeverPassed
  <1>5. CASE RxAckAdvances
    <2>1. /\ awaitingAck /\ isRegistration
          /\ UNCHANGED <<isRegistration, registrationComplete>>
          /\ LoadNextRegistrationFrame(regIdx', sendingRegDone', FALSE)
      BY <1>5 DEF RxAckAdvances, AckExpected
    <2>2. regIdx \in TopicIdx /\ ~sendingRegDone
      BY <1>2, <2>1 DEF IInv, AwaitedTopicExists, IndexInBounds, TopicIdx
    <2>3. regIdx' = regIdx + 1 /\ regIdx' <= TopicCount
      BY <1>2, <1>5, <2>2 DEF RxAckAdvances, TopicIdx
    <2>4. sendingRegDone' <=> regIdx' = TopicCount
      <3>1. sendingRegDone' <=> regIdx' >= TopicCount
        BY <1>5, <2>2 DEF RxAckAdvances, RegistersUpTo
      <3>2. regIdx' \in Int /\ TopicCount \in Int
        BY <1>2, <2>2, <2>3 DEF TopicIdx
      <3>3. regIdx' >= TopicCount <=> regIdx' = TopicCount
        BY <2>3, <3>2
      <3> QED  BY <3>1, <3>3
    <2>5. \A i \in 0 .. (regIdx' - 1) : i \notin Oversized
      <3>1. \A i \in 0 .. regIdx : i \notin Oversized
        BY <2>1 DEF IInv, OversizedIsNeverPassed
      <3>2. regIdx' - 1 = regIdx
        BY <1>2, <2>2, <2>3 DEF TopicIdx
      <3> QED  BY <3>1, <3>2
    <2> QED  BY <1>1, <2>1, <2>2, <2>3, <2>4, <2>5, LoadNextInv
  <1>6. CASE RxDiscover
    <2>1. CASE txState = "IDLE"
      <3>1. /\ isRegistration' = TRUE /\ sendingRegDone' = FALSE
            /\ UNCHANGED registrationComplete
            /\ LoadNextRegistrationFrame(0, FALSE, awaitingAck)
        BY <1>6, <2>1 DEF RxDiscover
      <3>2. regIdx' = 0
        BY <1>6, <2>1 DEF RxDiscover
      <3>3. LoadNextRegistrationFrame(regIdx', sendingRegDone', awaitingAck)
        BY <3>1, <3>2
      <3>4. regIdx' <= TopicCount /\ regIdx' # TopicCount
        BY <1>2, <3>2
      <3>5. \A i \in 0 .. (regIdx' - 1) : i \notin Oversized
        BY <3>2
      <3>6. awaitingAck => 0 \notin Oversized
        <4>1. regIdx \in 0 .. 255
          BY DEF IInv, TypeOK, ClientTypeOK
        <4>2. 0 \in 0 .. regIdx
          BY <4>1
        <4> QED  BY <4>2 DEF IInv, OversizedIsNeverPassed
      <3>7. awaitingAck \in BOOLEAN
        BY DEF IInv, TypeOK, ClientTypeOK
      <3>8. awaitingAck => ~sendingRegDone' /\ regIdx' \notin Oversized
        BY <3>1, <3>2, <3>6
      <3>9. txState # "SENDING_FRAME" /\ isRegistration'
        BY <2>1, <3>1
      <3>10. sendingRegDone' <=> regIdx' = TopicCount
        BY <3>1, <3>4
      <3> QED
        BY <1>1, <3>1, <3>3, <3>4, <3>5, <3>7, <3>8, <3>9, <3>10, LoadNextInv
    <2>2. CASE txState # "IDLE"
      BY <1>1, <1>6, <2>2, QuietStep DEF RxDiscover
    <2> QED  BY <2>1, <2>2
  <1>7. CASE RxIgnored
    BY <1>1, <1>7, QuietStep DEF RxIgnored, clientVars, registration
  <1>8. CASE RxTorn
    BY <1>1, <1>8, QuietStep DEF RxTorn, clientVars, registration
  <1>9. CASE TxPoll
    <2>1. UNCHANGED <<txFrame, isRegistration, sendingRegDone, regIdx,
                      awaitingAck>>
      BY <1>9 DEF TxPoll, registration
    <2>2. txState' = "SENDING_FRAME" => txState = "SENDING_FRAME"
      BY <1>9 DEF TxPoll
    <2>3. registrationComplete' =>
            registrationComplete \/ (isRegistration /\ sendingRegDone)
      BY <1>9 DEF TxPoll, TxFrameComplete
    <2>4. IndexInBounds' /\ AwaitedTopicExists'
      BY <2>1 DEF IInv, IndexInBounds, AwaitedTopicExists
    <2>5. FlagsNameTheFrame'
      BY <2>1, <2>2 DEF IInv, FlagsNameTheFrame
    <2>6. OversizedIsNeverPassed'
      BY <2>1, <2>3 DEF IInv, OversizedIsNeverPassed
    <2> QED  BY <1>1, <2>4, <2>5, <2>6 DEF IInv
  <1>10. CASE \E id \in PublisherIds : Publish(id)
    <2>1. PICK id \in PublisherIds : Publish(id)
      BY <1>10
    <2>2. txFrame'.type = "DATA" /\ isRegistration' = FALSE
      BY <2>1 DEF Publish, LoadData, StartFrame, DataFrame
    <2>3. UNCHANGED <<sendingRegDone, regIdx, awaitingAck,
                      registrationComplete>>
      BY <2>1 DEF Publish
    <2> QED
      BY <1>1, <2>2, <2>3
         DEF IInv, IndexInBounds, AwaitedTopicExists, FlagsNameTheFrame,
             OversizedIsNeverPassed
  <1>11. CASE HostSends \/ HostReads
    BY <1>1, <1>11, QuietStep
       DEF HostSends, HostReads, clientVars, registration
  <1>12. CASE UNCHANGED vars
    BY <1>1, <1>12, QuietStep DEF vars, clientVars, registration
  <1> QED
    BY <1>3, <1>4, <1>5, <1>6, <1>7, <1>8, <1>9, <1>10, <1>11, <1>12
       DEF Next, Client, RxPoll

\* The invariant holds in every reachable state.
THEOREM Invariance == Spec => []IInv
  BY InitInv, NextInv, PTL DEF Spec

\* nros_topics[] is never indexed past its end, the uint8_t index never wraps,
\* and REGISTER_DONE waits for the last topic.
THEOREM IndexStaysInBounds == Spec => []IndexInBounds
  BY Invariance, PTL DEF IInv

\* No ACK is awaited for a topic that does not exist.
THEOREM AwaitedTopicsExist == Spec => []AwaitedTopicExists
  BY Invariance, PTL DEF IInv

\* A board with a topic that cannot be registered never publishes.
THEOREM OversizedNeverPublishes == Spec => []OversizedBlocksPublishing
  <1>1. IInv => OversizedBlocksPublishing
    BY DEF IInv, OversizedIsNeverPassed, OversizedBlocksPublishing
  <1> QED  BY <1>1, Invariance, PTL

-----------------------------------------------------------------------------
(* What a step may not do                                                  *)

\* A DATA or REGISTER_DONE frame that has begun goes out whole.
LEMMA OverwriteStep ==
    IInv /\ [Next]_vars =>
        (MidFrame /\ bytesSent' < bytesSent => txFrame.type = "REGISTER")
  <1> SUFFICES ASSUME IInv, [Next]_vars, MidFrame, bytesSent' < bytesSent
               PROVE  txFrame.type = "REGISTER"
    OBVIOUS
  <1>1. bytesSent \in 0 .. FrameLen /\ FrameLen \in Nat
    BY ClientAssumption DEF IInv, TypeOK, ClientTypeOK
  <1>2. bytesSent' # bytesSent
    BY <1>1
  <1>3. txState = "SENDING_FRAME"
    BY DEF MidFrame
  <1>4. CASE RxAckAdvances
    <2>1. awaitingAck /\ isRegistration
      BY <1>4 DEF RxAckAdvances, AckExpected
    <2>2. ~sendingRegDone
      BY <2>1, TopicTableAssumption
         DEF IInv, AwaitedTopicExists, IndexInBounds, TopicIdx
    <2> QED  BY <1>3, <2>1, <2>2 DEF IInv, FlagsNameTheFrame
  <1>5. CASE RxDiscover
    BY <1>2, <1>3, <1>5 DEF RxDiscover, tx
  <1>6. CASE TxPoll
    <2>1. PICK k \in 1 .. FrameLen : bytesSent' = bytesSent + k
      BY <1>6 DEF TxPoll
    <2> QED  BY <1>1, <2>1
  <1>7. CASE \E id \in PublisherIds : Publish(id)
    BY <1>3, <1>7 DEF Publish, MayPublish
  <1>8. CASE UNCHANGED tx
    BY <1>2, <1>8 DEF tx
  <1> QED
    BY <1>4, <1>5, <1>6, <1>7, <1>8
       DEF Next, Client, RxPoll, RxData, RxAckIgnored, RxIgnored, RxTorn,
           HostSends, HostReads, vars, clientVars

\* Only a REGISTER is ever overwritten while part of it is on the wire.
THEOREM OnlyRegistersAreOverwritten == Spec => OnlyRegisterIsOverwritten
  BY Invariance, OverwriteStep, PTL DEF Spec, OnlyRegisterIsOverwritten

\* The publish gate opens with the last byte of a REGISTER_DONE.
LEMMA GateStep ==
    IInv /\ [Next]_vars =>
        (~registrationComplete /\ registrationComplete'
            => toAgent' = Append(toAgent, RegisterDone))
  <1> SUFFICES ASSUME IInv, [Next]_vars,
                      ~registrationComplete, registrationComplete'
               PROVE  toAgent' = Append(toAgent, RegisterDone)
    OBVIOUS
  <1>1. CASE TxPoll
    <2>1. ~(bytesSent' < FrameLen)
      BY <1>1 DEF TxPoll
    <2>2. isRegistration /\ sendingRegDone
      BY <1>1, <2>1 DEF TxPoll, TxFrameComplete
    <2>3. txFrame = RegisterDone
      BY <1>1, <2>2 DEF TxPoll, IInv, FlagsNameTheFrame
    <2> QED  BY <1>1, <2>1, <2>3 DEF TxPoll
  <1>2. CASE UNCHANGED registrationComplete
    BY <1>2
  <1> QED
    BY <1>1, <1>2
       DEF Next, Client, RxPoll, RxData, RxAckIgnored, RxAckAdvances,
           RxDiscover, RxIgnored, RxTorn, Publish, HostSends, HostReads, vars,
           clientVars

\* nros_publish is refused until a REGISTER_DONE has been written.
THEOREM GateOpensOnlyWithDone == Spec => GateOpensWithDone
  BY Invariance, GateStep, PTL DEF Spec, GateOpensWithDone

=============================================================================
