-------------------------------- MODULE Agent -------------------------------
(***************************************************************************)
(* nano_ros_agent: Agent::run and frame_dispatch (agent.cpp) with the      *)
(* ClientHandlerNode they own (client_handler.cpp).                        *)
(*                                                                         *)
(* Two threads.  The main thread goes round the loop of Agent::run; agentPc *)
(* says which of its four parts is next.  The executor thread of the node  *)
(* runs subscription callbacks and pushes onto to_client_msg_queue_; each  *)
(* operation on the queue holds its mutex throughout and is one step here  *)
(* (ThreadSafeQueue.tla takes them apart).  Every transport call has       *)
(* timeout 0: recv_frame returns what has already arrived and send_frame   *)
(* gives up when the port does not take all of the frame.                  *)
(***************************************************************************)
EXTENDS Link, FiniteSets

CONSTANTS QueueMax,     \* max_queue_size_, 100 in the code
          CreateMayThrow, \* whether create_generic_* may throw
          SendsMayFail  \* whether send_frame may time out

ASSUME AgentAssumption ==
    /\ QueueMax \in Nat \ {0}
    /\ {CreateMayThrow, SendsMayFail} \subseteq BOOLEAN

VARIABLES agentPc,          \* recv, discover, queue, ack: the parts of the
                            \* loop; crashed, aborted: the process died
                            \* of a fault or of an exception
          needRegistration, \* need_registration
          frameHasPayload,  \* run's frame holds the payload of a past frame
          needAck,          \* ack_.need_ack
          ack,              \* ack_.topic_to_ack_id and ack_.status
          newTopics,        \* ids in new_topics_
          spawned,          \* client_ is not null
          handles,          \* ids whose topics_[id].handle is not null
          queue,            \* to_client_msg_queue_
          rosOut,           \* history: messages published to ROS
          rosIn             \* history: messages ROS delivered to the node

ackSlot == <<needAck, ack>>
node == <<newTopics, spawned, handles>>
agentVars == <<agentPc, needRegistration, frameHasPayload, ackSlot, node,
               queue, rosOut, rosIn>>

NoAck == AckFrame(0, AckOk)

AgentInit ==
    /\ agentPc = "recv"
    /\ needRegistration = TRUE
    /\ frameHasPayload = FALSE
    /\ needAck = FALSE
    /\ ack = NoAck
    /\ newTopics = {}
    /\ spawned = FALSE
    /\ handles = {}
    /\ queue = <<>>
    /\ rosOut = <<>>
    /\ rosIn = <<>>

-----------------------------------------------------------------------------
(* As in NanoRos, a name that ends in an underscore and a remark is a      *)
(* mutated form of the definition after it, and unused.                    *)

(* recv_frame and frame_dispatch                                           *)

\* No complete frame has arrived yet.
RecvNothing ==
    /\ agentPc = "recv"
    /\ agentPc' = "discover"
    /\ UNCHANGED <<needRegistration, frameHasPayload, ackSlot, node, queue,
                   rosOut, rosIn, link>>

\* recv_frame keeps reading past what does not parse.
RecvTorn ==
    /\ agentPc = "recv"
    /\ toAgent' \in Resyncs(toAgent)
    /\ UNCHANGED <<agentVars, toClient>>

Recv(type, hasPayload) ==
    /\ agentPc = "recv"
    /\ Arrives(toAgent, type)
    /\ toAgent' = Tail(toAgent)
    /\ frameHasPayload' = hasPayload
    /\ UNCHANGED toClient

\* client_->client_publish: a null client_ or a null publisher is a fault,
\* and the handle of a subscription ignores the message.
RecvData ==
    /\ Recv("DATA", TRUE)
    /\ LET f == Head(toAgent)
           null == ~spawned \/ f.topic \notin handles
       IN /\ agentPc' = IF null THEN "crashed" ELSE "discover"
          /\ rosOut' = IF ~null /\ IsPublisher(f.topic)
                       THEN Append(rosOut, Msg(f))
                       ELSE rosOut
    /\ UNCHANGED <<needRegistration, ackSlot, node, queue, rosIn>>

\* decode_registration_frame; a frame with a good CRC is long enough for the
\* names it announces, so it is never MALFORMED.
RegistrationStatus(qos) == IF qos >= QosCount THEN AckUnsupportedQos ELSE AckOk

Registers_Rejected(f) == {f.topic}

\* What a REGISTER adds to new_topics_.
Registers(f) == IF RegistrationStatus(f.body) = AckOk THEN {f.topic} ELSE {}

\* on_client_connect spawns the node before REGISTER_DONE, topic by topic.
RecvRegister_Eager ==
    /\ Recv("REGISTER", TRUE)
    /\ LET f == Head(toAgent)
       IN /\ needAck' = TRUE
          /\ ack' = AckFrame(f.topic, RegistrationStatus(f.body))
          /\ newTopics' = newTopics \cup Registers(f)
          /\ spawned' = TRUE /\ handles' = newTopics'
    /\ agentPc' = "discover"
    /\ UNCHANGED <<needRegistration, queue, rosOut, rosIn>>

RecvRegister ==
    /\ Recv("REGISTER", TRUE)
    /\ LET f == Head(toAgent)
       IN /\ needAck' = TRUE
          /\ ack' = AckFrame(f.topic, RegistrationStatus(f.body))
          /\ newTopics' = newTopics \cup Registers(f)
    /\ agentPc' = "discover"
    /\ UNCHANGED <<needRegistration, spawned, handles, queue, rosOut, rosIn>>

\* spawn_client: a new node, all of whose handles are null, replaces client_
\* and on_client_connect opens every topic registered so far.  Nobody catches
\* what create_generic_* throws, of a type that is not installed for instance.
RecvRegisterDone ==
    /\ Recv("REGISTER_DONE", FALSE)
    /\ spawned' = TRUE
    /\ handles' = newTopics
    /\ \/ agentPc' = "discover"
       \/ CreateMayThrow /\ newTopics # {} /\ agentPc' = "aborted"
    /\ UNCHANGED <<needRegistration, ackSlot, newTopics, queue, rosOut, rosIn>>

RecvFrame == RecvData \/ RecvRegister \/ RecvRegisterDone

-----------------------------------------------------------------------------
(* The sending half of the loop                                            *)

\* send_frame with timeout 0; its result is not looked at.
Send(f) ==
    \/ toClient' = Append(toClient, f)
    \/ SendsMayFail /\ toClient' \in {toClient, Append(toClient, Torn)}

\* DISCOVER goes out in the frame that was just received: header.length is
\* set to 0 but the payload stays, and the bytes no longer check.
SendDiscover ==
    /\ agentPc = "discover"
    /\ agentPc' = "queue"
    /\ IF needRegistration
       THEN Send(IF frameHasPayload THEN Torn ELSE Discover)
       ELSE UNCHANGED toClient
    /\ needRegistration' = FALSE
    /\ UNCHANGED <<frameHasPayload, ackSlot, node, queue, rosOut, rosIn,
                   toAgent>>

Popped_NotRemoved(q) == q

\* What wait_and_pop leaves of the queue.
Popped(q) == Tail(q)

SendQueued ==
    /\ agentPc = "queue"
    /\ agentPc' = "ack"
    /\ IF queue = <<>> THEN UNCHANGED <<queue, toClient>>
                       ELSE Send(Head(queue)) /\ queue' = Popped(queue)
    /\ UNCHANGED <<needRegistration, frameHasPayload, ackSlot, node, rosOut,
                   rosIn, toAgent>>

AckedLeaves_Set == needAck

AckedLeaves == FALSE

\* ack_client; need_ack is cleared whether the ACK was sent or not.
SendAck ==
    /\ agentPc = "ack"
    /\ agentPc' = "recv"
    /\ IF needAck THEN Send(ack) ELSE UNCHANGED toClient
    /\ needAck' = AckedLeaves
    /\ UNCHANGED <<needRegistration, frameHasPayload, ack, node, queue, rosOut,
                   rosIn, toAgent>>

AgentLoop == RecvNothing \/ RecvFrame \/ SendDiscover \/ SendQueued \/ SendAck

-----------------------------------------------------------------------------
(* The executor thread                                                     *)

Push_Unbounded(item) == queue' = Append(queue, item)

\* ThreadSafeQueue::push: a full queue drops its oldest item.
Push(item) ==
    queue' = Append(IF Len(queue) >= QueueMax THEN Tail(queue) ELSE queue, item)

\* ROS delivers what is published on topic id to the node.
Subscribed(id) == spawned /\ id \in handles /\ ~IsPublisher(id)

\* client_subscription_callback
SubscriptionCallback(id) ==
    /\ agentPc \notin {"crashed", "aborted"}
    /\ Subscribed(id)
    /\ Push(DataFrame(id, Len(rosIn) + 1))
    /\ rosIn' = Append(rosIn, Msg(DataFrame(id, Len(rosIn) + 1)))
    /\ UNCHANGED <<agentPc, needRegistration, frameHasPayload, ackSlot, node,
                   rosOut, link>>

-----------------------------------------------------------------------------
\* The process dies, by a fault or by a signal, and is started again.  Of what
\* was under way in either direction the new process, or the board, may only
\* see one end.
AgentRestart ==
    /\ agentPc' = "recv"
    /\ needRegistration' = TRUE
    /\ frameHasPayload' = FALSE
    /\ needAck' = FALSE /\ ack' = NoAck
    /\ newTopics' = {} /\ spawned' = FALSE /\ handles' = {}
    /\ queue' = <<>>
    /\ toAgent' \in Suffixes(toAgent)
    /\ toClient' \in Prefixes(toClient)
    /\ UNCHANGED <<rosOut, rosIn>>

AgentTypeOK ==
    /\ agentPc \in {"recv", "discover", "queue", "ack", "crashed", "aborted"}
    /\ needRegistration \in BOOLEAN
    /\ frameHasPayload \in BOOLEAN
    /\ needAck \in BOOLEAN
    /\ ack \in Frames /\ ack.type = "ACK"
    /\ newTopics \subseteq WireTopicIds
    /\ spawned \in BOOLEAN
    /\ handles \subseteq WireTopicIds
    /\ queue \in Seq(Frames) /\ Len(queue) <= QueueMax
    /\ rosOut \in Seq(Messages)
    /\ rosIn \in Seq(Messages)
=============================================================================
