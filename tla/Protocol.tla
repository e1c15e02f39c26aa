------------------------------ MODULE Protocol ------------------------------
(***************************************************************************)
(* The vocabulary client and agent share: common/include/protocol.h and    *)
(* the topic table nros_topics[] that the code generator emits.            *)
(*                                                                         *)
(* A frame is its type, its topic id and the one thing about its payload   *)
(* that the properties tell apart: the QoS byte of a REGISTER, the status  *)
(* of an ACK, the number of the message in a DATA frame, 0 otherwise.      *)
(***************************************************************************)
EXTENDS Integers, Sequences

CONSTANTS TopicCount,   \* nros_topic_count
          TopicId,      \* nros_topics[i].topic_id
          TopicQos      \* nros_topics[i].qos, any byte

\* QoS values are 0 .. QosCount - 1 (NROS_QOS_COUNT is not a QoS).
QosCount == 6

\* nros_ack_status_t
AckOk == 0
AckUnsupportedQos == 1
AckMalformed == 2
AckStatus == {AckOk, AckUnsupportedQos, AckMalformed}

\* Indexes into nros_topics[]; topic_registration_idx runs over them.
TopicIdx == 0 .. (TopicCount - 1)

\* Ids the generator hands out: subscribers 0..126, publishers 127..254.
PublisherTopicIdStart == 127
WireTopicIds == 0 .. 254

ASSUME TopicTableAssumption ==
    /\ TopicCount \in 1 .. 255
    /\ TopicId \in [TopicIdx -> WireTopicIds]
    /\ \A i, j \in TopicIdx : TopicId[i] = TopicId[j] => i = j
    /\ TopicQos \in [TopicIdx -> 0 .. 255]

IsPublisher(id) == id >= PublisherTopicIdStart

Ids           == {TopicId[i] : i \in TopicIdx}
PublisherIds  == {id \in Ids : IsPublisher(id)}
SubscriberIds == {id \in Ids : ~IsPublisher(id)}

RegisterFrame(i) ==
    [type |-> "REGISTER", topic |-> TopicId[i], body |-> TopicQos[i]]

DataFrame(id, n) == [type |-> "DATA", topic |-> id, body |-> n]

\* The message a DATA frame carries.
Messages == [topic : WireTopicIds, n : Nat]
Msg(f) == [topic |-> f.topic, n |-> f.body]

AckFrame(id, status) == [type |-> "ACK", topic |-> id, body |-> status]

RegisterDone == [type |-> "REGISTER_DONE", topic |-> 0, body |-> 0]

Discover == [type |-> "DISCOVER", topic |-> 0, body |-> 0]

\* What is left on the wire of a frame that was cut short, overwritten or
\* corrupted: bytes that can only fail the receiver's CRC check.
Torn == [type |-> "TORN", topic |-> 0, body |-> 0]

Frames == [type : {"REGISTER"}, topic : WireTopicIds, body : 0 .. 255]
            \cup [type : {"DATA"}, topic : WireTopicIds, body : Nat]
            \cup [type : {"ACK"}, topic : WireTopicIds, body : AckStatus]
            \cup {RegisterDone, Discover, Torn}
=============================================================================
