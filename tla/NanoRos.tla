------------------------------- MODULE NanoRos ------------------------------
(***************************************************************************)
(* libnanoros/src/nano_ros.c: the client library that runs on the board.   *)
(* The state is its static variables rx, tx and registration_complete.     *)
(*                                                                         *)
(* nros_spin polls receive then transmit; the firmware calls it and        *)
(* nros_publish from one loop.  One action handles one received frame or   *)
(* one write.  A read of 64 bytes may complete several frames and a write  *)
(* may accept no byte at all, so between two of these actions any number   *)
(* of the others can happen, in any order.                                 *)
(***************************************************************************)
EXTENDS Link

CONSTANTS FrameLen,     \* pieces a frame is written in (tx.frame_len)
          Oversized     \* indexes of topics whose names are too long to send

ASSUME ClientAssumption ==
    /\ FrameLen \in Nat \ {0}
    /\ Oversized \subseteq TopicIdx

VARIABLES txState,              \* tx.state
          txFrame,              \* the frame in tx.buffer
          bytesSent,            \* tx.bytes_sent
          isRegistration,       \* tx.is_registration
          sendingRegDone,       \* tx.sending_reg_done_frame
          regIdx,               \* tx.topic_registration_idx
          awaitingAck,          \* rx.awaiting_ack
          registrationComplete, \* registration_complete
          clientFault,          \* a NULL callback was called
          accepted,             \* history: messages nros_publish accepted
          received              \* history: messages given to callbacks

tx == <<txState, txFrame, bytesSent>>
registration == <<isRegistration, sendingRegDone, regIdx, awaitingAck>>
clientVars == <<tx, registration, registrationComplete, clientFault,
                accepted, received>>

ClientStart ==
    /\ txState = "IDLE"
    /\ txFrame = Torn           \* an empty buffer
    /\ bytesSent = 0
    /\ isRegistration = FALSE
    /\ sendingRegDone = FALSE
    /\ regIdx = 0
    /\ awaitingAck = FALSE
    /\ registrationComplete = FALSE
    /\ clientFault = FALSE

ClientInit == ClientStart /\ accepted = <<>> /\ received = <<>>

-----------------------------------------------------------------------------
(* A definition whose name ends in an underscore and a remark is a mutated *)
(* form of the one after it, with a bug of the kind that remark names.     *)
(* Nothing uses it: it shows that a property would notice.                 *)

\* Part of the frame in tx.buffer is already on the wire.
MidFrame == txState = "SENDING_FRAME" /\ bytesSent > 0

\* f replaces what tx.buffer held, without looking at tx.state.
StartFrame(f) ==
    /\ txState' = "SENDING_FRAME"
    /\ txFrame' = f
    /\ bytesSent' = 0
    /\ toAgent' = IF MidFrame THEN Append(toAgent, Torn) ELSE toAgent

LoadNextRegistrationFrame_NoAwait(idx, done, waiting) ==
    /\ StartFrame(IF done THEN RegisterDone ELSE RegisterFrame(idx))
    /\ awaitingAck' = waiting

LoadNextRegistrationFrame_AlwaysAwaits(idx, done, waiting) ==
    /\ IF done THEN StartFrame(RegisterDone)
       ELSE IF idx \in Oversized THEN UNCHANGED <<tx, toAgent>>
       ELSE StartFrame(RegisterFrame(idx))
    /\ awaitingAck' = TRUE

\* load_next_registration_frame, once idx and done are set and awaiting_ack
\* is known to be waiting.
LoadNextRegistrationFrame(idx, done, waiting) ==
    \/ /\ done
       /\ StartFrame(RegisterDone)
       /\ awaitingAck' = waiting
    \/ /\ ~done /\ idx \in Oversized
       /\ awaitingAck' = waiting
       /\ UNCHANGED <<tx, toAgent>>
    \/ /\ ~done /\ idx \notin Oversized
       /\ StartFrame(RegisterFrame(idx))
       /\ awaitingAck' = TRUE

\* rx_poll hands the next frame of this type to nros_dispatch.
Receives(type) ==
    /\ ~clientFault
    /\ Arrives(toClient, type)
    /\ toClient' = Tail(toClient)

RxData ==
    /\ Receives("DATA")
    /\ LET f == Head(toClient)
       IN IF f.topic \in SubscriberIds
          THEN received' = Append(received, Msg(f)) /\ UNCHANGED clientFault
          ELSE clientFault' = TRUE /\ UNCHANGED received
    /\ UNCHANGED <<tx, registration, registrationComplete, accepted, toAgent>>

AckExpected_Unawaited == isRegistration

AckExpected == awaitingAck /\ isRegistration

RegistersUpTo_OffByOne(idx) == idx >= TopicCount - 1

\* Every topic before idx is registered, and there are no more.
RegistersUpTo(idx) == idx >= TopicCount

\* An ACK nobody waits for, or one that is not about a registration.
RxAckIgnored ==
    /\ Receives("ACK")
    /\ ~AckExpected
    /\ awaitingAck' = FALSE
    /\ UNCHANGED <<tx, isRegistration, sendingRegDone, regIdx, toAgent,
                   registrationComplete, clientFault, accepted, received>>

\* Neither the topic the ACK names nor its status is looked at.
RxAckAdvances ==
    /\ Receives("ACK")
    /\ AckExpected
    /\ regIdx' = (regIdx + 1) % 256
    /\ sendingRegDone' = (sendingRegDone \/ RegistersUpTo(regIdx'))
    /\ LoadNextRegistrationFrame(regIdx', sendingRegDone', FALSE)
    /\ UNCHANGED <<isRegistration, registrationComplete, clientFault,
                   accepted, received>>

\* register_topics_start: refused while a frame is being sent.
RxDiscover ==
    /\ Receives("DISCOVER")
    /\ IF txState = "IDLE"
       THEN /\ isRegistration' = TRUE
            /\ regIdx' = 0
            /\ sendingRegDone' = FALSE
            /\ LoadNextRegistrationFrame(0, FALSE, awaitingAck)
       ELSE UNCHANGED <<tx, registration, toAgent>>
    /\ UNCHANGED <<registrationComplete, clientFault, accepted, received>>

\* REGISTER and REGISTER_DONE from the host fall through the switch.
RxIgnored ==
    /\ Receives("REGISTER") \/ Receives("REGISTER_DONE")
    /\ UNCHANGED <<clientVars, toAgent>>

RxTorn ==
    /\ ~clientFault
    /\ toClient' \in Resyncs(toClient)
    /\ UNCHANGED <<clientVars, toAgent>>

RxPoll == RxData \/ RxAckIgnored \/ RxAckAdvances \/ RxDiscover \/ RxIgnored

-----------------------------------------------------------------------------
TxFrameComplete_AnyFrame ==
    /\ txState' = "IDLE"
    /\ registrationComplete' = (registrationComplete \/ isRegistration)

TxFrameComplete_NotIdle ==
    /\ txState' = IF sendingRegDone THEN txState ELSE "IDLE"
    /\ registrationComplete' =
         (registrationComplete \/ (isRegistration /\ sendingRegDone))

\* tx_frame_complete
TxFrameComplete ==
    /\ txState' = "IDLE"
    /\ registrationComplete' =
         (registrationComplete \/ (isRegistration /\ sendingRegDone))

Accepts_FromOffsetZero(k) == k \in 1 .. FrameLen

\* The transport may take k of the remaining pieces.
Accepts(k) == k \in 1 .. (FrameLen - bytesSent)

\* tx_poll: the transport takes k more pieces of the frame.  (Taking none
\* changes nothing and is a stuttering step.)
TxPoll ==
    /\ ~clientFault
    /\ txState = "SENDING_FRAME"
    /\ \E k \in 1 .. FrameLen : Accepts(k) /\ bytesSent' = bytesSent + k
    /\ IF bytesSent' < FrameLen
       THEN UNCHANGED <<txState, registrationComplete, toAgent>>
       ELSE TxFrameComplete /\ toAgent' = Append(toAgent, txFrame)
    /\ UNCHANGED <<txFrame, registration, clientFault, accepted, received,
                   toClient>>

MayPublish_WhileBusy == registrationComplete

MayPublish == txState = "IDLE" /\ registrationComplete

\* A buffer that still holds the message before.
LoadData_KeepsBuffer(f) ==
    /\ StartFrame(IF txFrame.type = "DATA" THEN txFrame ELSE f)
    /\ isRegistration' = FALSE

LoadData_KeepsRegistration(f) == StartFrame(f) /\ UNCHANGED isRegistration

LoadData(f) == StartFrame(f) /\ isRegistration' = FALSE

\* nros_publish, when it returns true.  A refused call changes nothing.
Publish(id) ==
    /\ ~clientFault
    /\ MayPublish
    /\ LoadData(DataFrame(id, Len(accepted) + 1))
    /\ accepted' = Append(accepted, Msg(DataFrame(id, Len(accepted) + 1)))
    /\ UNCHANGED <<sendingRegDone, regIdx, awaitingAck, registrationComplete,
                   clientFault, received, toClient>>

\* The board reboots; what it had half written stays on the wire, what was
\* sent to it while it was down is lost.
ClientReset ==
    /\ txState' = "IDLE" /\ txFrame' = Torn /\ bytesSent' = 0
    /\ isRegistration' = FALSE /\ sendingRegDone' = FALSE /\ regIdx' = 0
    /\ awaitingAck' = FALSE
    /\ registrationComplete' = FALSE
    /\ clientFault' = FALSE
    /\ toAgent' = IF MidFrame THEN Append(toAgent, Torn) ELSE toAgent
    /\ toClient' \in Suffixes(toClient)
    /\ UNCHANGED <<accepted, received>>

-----------------------------------------------------------------------------
ClientTypeOK ==
    /\ txState \in {"IDLE", "SENDING_FRAME"}
    /\ txFrame \in Frames
    /\ bytesSent \in 0 .. FrameLen
    /\ isRegistration \in BOOLEAN
    /\ sendingRegDone \in BOOLEAN
    /\ regIdx \in 0 .. 255
    /\ awaitingAck \in BOOLEAN
    /\ registrationComplete \in BOOLEAN
    /\ clientFault \in BOOLEAN
    /\ accepted \in Seq(Messages)
    /\ received \in Seq(Messages)
    /\ toAgent \in Seq(Frames)
    /\ toClient \in Seq(Frames)
=============================================================================
