---------------------------- MODULE NanoRosOpen -----------------------------
(***************************************************************************)
(* The client library against a host that may send anything at any time:   *)
(* frames of every type and content, repeated, out of turn, or cut short.  *)
(* What holds here holds for every agent, whatever its version or state.   *)
(***************************************************************************)
EXTENDS NanoRos

CONSTANTS HostFrames,   \* the frames the host sends
          MaxHost,      \* how many of them
          MaxPub,       \* messages the firmware publishes
          WireMax       \* frames the line to the host holds

ASSUME OpenAssumption ==
    /\ HostFrames \subseteq Frames
    /\ {MaxHost, MaxPub, WireMax} \subseteq Nat

VARIABLE hostSent       \* frames the host has sent

vars == <<link, clientVars, hostSent>>

Init == LinkInit /\ ClientInit /\ hostSent = 0

Client ==
    /\ Len(toAgent) < WireMax
    /\ \/ RxPoll \/ RxTorn \/ TxPoll
       \/ Len(accepted) < MaxPub /\ \E id \in PublisherIds : Publish(id)
    /\ UNCHANGED hostSent

HostSends ==
    /\ hostSent < MaxHost /\ hostSent' = hostSent + 1
    /\ \E f \in HostFrames : toClient' = Append(toClient, f)
    /\ UNCHANGED <<clientVars, toAgent>>

HostReads ==
    /\ toAgent # <<>>
    /\ toAgent' = Tail(toAgent)
    /\ UNCHANGED <<clientVars, toClient, hostSent>>

Next == Client \/ HostSends \/ HostReads

Spec == Init /\ [][Next]_vars

\* The firmware keeps calling nros_spin, the transport keeps taking bytes.
FairSpec ==
    /\ Spec
    /\ WF_vars(TxPoll /\ Len(toAgent) < WireMax /\ UNCHANGED hostSent)
    /\ WF_vars(HostReads)

-----------------------------------------------------------------------------
TypeOK == ClientTypeOK /\ hostSent \in 0 .. MaxHost

\* topic_registration_idx is a uint8_t that every awaited ACK increments and
\* nros_topics[] is indexed with it: no sequence of ACK and DISCOVER frames
\* moves it past the end, or lets REGISTER_DONE be sent before the end.
IndexInBounds ==
    /\ regIdx <= TopicCount
    /\ sendingRegDone <=> regIdx = TopicCount

\* An ACK is only awaited for a topic that exists.
AwaitedTopicExists == awaitingAck => regIdx \in TopicIdx

\* A topic whose names do not fit ends the registration without a word to the
\* host: no later ACK or DISCOVER gets past it, and the board never publishes.
OversizedBlocksPublishing == Oversized # {} => ~registrationComplete

\* nros_dispatch loads the next frame without a look at tx.state.  Only a
\* REGISTER can be overwritten half sent; a DATA or REGISTER_DONE frame, once
\* started, goes out whole.
OnlyRegisterIsOverwritten ==
    [][MidFrame /\ bytesSent' < bytesSent => txFrame.type = "REGISTER"]_vars

\* tx_frame_complete infers from two flags which frame has just gone out: the
\* gate of nros_publish opens by writing a REGISTER_DONE and by nothing else.
GateOpensWithDone ==
    [][~registrationComplete /\ registrationComplete'
        => toAgent' = Append(toAgent, RegisterDone)]_vars

\* However often the host restarts the frame being sent, the transmitter is
\* free again for nros_publish in the end (or the board has faulted).
TransmitterIsReleased ==
    txState = "SENDING_FRAME" ~> (txState = "IDLE" \/ clientFault)

-----------------------------------------------------------------------------
\* The invariant the proofs use: the properties above and why they last.

\* tx_frame_complete and nros_dispatch know what tx.buffer holds by the flags.
FlagsNameTheFrame ==
    txState = "SENDING_FRAME" =>
        IF ~isRegistration THEN txFrame.type = "DATA"
        ELSE IF sendingRegDone THEN txFrame = RegisterDone
        ELSE txFrame.type = "REGISTER"

\* An ACK is awaited only with every topic up to this one sendable.
OversizedIsNeverPassed ==
    /\ awaitingAck => \A i \in 0 .. regIdx : i \notin Oversized
    /\ sendingRegDone \/ registrationComplete => Oversized = {}

IInv ==
    /\ TypeOK
    /\ IndexInBounds
    /\ AwaitedTopicExists
    /\ FlagsNameTheFrame
    /\ OversizedIsNeverPassed

=============================================================================
