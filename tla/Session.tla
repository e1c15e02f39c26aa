------------------------------- MODULE Session ------------------------------
(***************************************************************************)
(* One board and one agent on one serial line: NanoRos and Agent composed, *)
(* with the faults such a session meets.  The bounds MaxPub and MaxRos     *)
(* limit what the application and ROS send; the others limit the faults,   *)
(* and 0 for all of them (and sends that succeed) is the clean session.    *)
(***************************************************************************)
EXTENDS NanoRos, Agent

CONSTANTS MaxPub,       \* messages the firmware publishes
          MaxRos,       \* messages ROS publishes for the board
          MaxRestarts,  \* restarts of the agent
          MaxResets,    \* reboots of the board
          MaxCorrupt    \* frames corrupted on the line

ASSUME BoundsAssumption ==
    {MaxPub, MaxRos, MaxRestarts, MaxResets, MaxCorrupt} \subseteq Nat

VARIABLES restarts, resets, corruptions   \* faults so far

faultVars == <<restarts, resets, corruptions>>
vars == <<link, clientVars, agentVars, faultVars>>

Init ==
    /\ LinkInit /\ ClientInit /\ AgentInit
    /\ restarts = 0 /\ resets = 0 /\ corruptions = 0

\* The board: nros_spin, and the generated nros_publish_<topic> functions.
Client ==
    /\ \/ RxPoll \/ RxTorn \/ TxPoll
       \/ Len(accepted) < MaxPub /\ \E id \in PublisherIds : Publish(id)
    /\ UNCHANGED <<agentVars, faultVars>>

AgentThreads ==
    /\ \/ AgentLoop \/ RecvTorn
       \/ /\ Len(rosIn) < MaxRos
          /\ \E id \in Ids : SubscriptionCallback(id)
    /\ UNCHANGED <<clientVars, faultVars>>

Restart ==
    /\ restarts < MaxRestarts /\ restarts' = restarts + 1
    /\ AgentRestart
    /\ UNCHANGED <<clientVars, resets, corruptions>>

Reset ==
    /\ resets < MaxResets /\ resets' = resets + 1
    /\ ClientReset
    /\ UNCHANGED <<agentVars, restarts, corruptions>>

Corrupt ==
    /\ corruptions < MaxCorrupt /\ corruptions' = corruptions + 1
    /\ \/ \E i \in DOMAIN toAgent :
             toAgent' = Corrupted(toAgent, i) /\ UNCHANGED toClient
       \/ \E i \in DOMAIN toClient :
             toClient' = Corrupted(toClient, i) /\ UNCHANGED toAgent
    /\ UNCHANGED <<clientVars, agentVars, restarts, resets>>

Faults == Restart \/ Reset \/ Corrupt

Next == Client \/ AgentThreads \/ Faults

Spec == Init /\ [][Next]_vars

\* The firmware keeps calling nros_spin and its port keeps draining; Agent::run
\* never blocks; bytes that were written arrive, though not by any given poll.
Fairness ==
    /\ WF_vars(RxPoll /\ UNCHANGED <<agentVars, faultVars>>)
    /\ WF_vars(TxPoll /\ UNCHANGED <<agentVars, faultVars>>)
    /\ WF_vars(AgentLoop /\ UNCHANGED <<clientVars, faultVars>>)
    /\ SF_vars(RecvFrame /\ UNCHANGED <<clientVars, faultVars>>)

FairSpec == Spec /\ Fairness

-----------------------------------------------------------------------------
TypeOK ==
    /\ ClientTypeOK
    /\ AgentTypeOK
    /\ restarts \in 0 .. MaxRestarts
    /\ resets \in 0 .. MaxResets
    /\ corruptions \in 0 .. MaxCorrupt

\* The ids the agent accepts: their QoS is one it knows.
AcceptableIds == {TopicId[i] : i \in {j \in TopicIdx : TopicQos[j] < QosCount}}

Increasing(s) == \A i, j \in DOMAIN s : i < j => s[i].n < s[j].n

\* Each message of s is one of t, unaltered, and none comes twice or late.
OrderedPartOf(s, t) ==
    /\ Increasing(s)
    /\ \A i \in DOMAIN s : \E j \in DOMAIN t : s[i] = t[j]

\* What the agent publishes to ROS is part of what nros_publish accepted, in
\* order, on the topic it was published on: whatever restarts, is lost or is
\* overwritten in tx.buffer, no message is altered, repeated or reordered.
RosOutIsOrdered == OrderedPartOf(rosOut, accepted)

\* nros_dispatch calls topic_map[id]->cb unchecked: no DATA frame meets a topic
\* without a callback.
NoNullCallback == ~clientFault

\* The same as above for the way from ROS, through the queue that drops its oldest
\* item, to the callbacks of the board; and none of it calls a null callback.
ReceivedIsOrdered == NoNullCallback /\ OrderedPartOf(received, rosIn)

\* client_publish uses client_ and the handle unchecked, and create_generic_*
\* may throw: the agent must never meet DATA it has no publisher for, nor a
\* topic it cannot open.
AgentKeepsRunning == agentPc \notin {"crashed", "aborted"}

\* A board that reboots, and sends that time out, can stall a session but not
\* make the agent use a null pointer: that takes a restart of the agent itself,
\* or a frame lost on the line.
CrashNeedsLoss ==
    agentPc = "crashed" => restarts > 0 \/ corruptions > 0

\* tx.buffer is not overwritten while part of it is on the wire, DISCOVER
\* does not carry an old payload: nothing fails its CRC check.
NothingTorn ==
    \A w \in {toAgent, toClient} : \A i \in DOMAIN w : w[i].type # "TORN"

\* nros_dispatch does not compare the topic of an ACK with the topic being
\* registered: the ACK that advances the index is the answer to this very
\* REGISTER.
AckAnswersRegister ==
    \A i \in DOMAIN toClient :
        toClient[i].type = "ACK" =>
            /\ awaitingAck /\ isRegistration
            /\ regIdx \in TopicIdx
            /\ toClient[i] = AckFrame(TopicId[regIdx],
                                      RegistrationStatus(TopicQos[regIdx]))

\* "marks registration as done": when REGISTER_DONE reaches the agent, it has
\* taken note of every topic of the board it can accept.
DoneMeansAllRegistered ==
    \A i \in DOMAIN toAgent :
        toAgent[i].type = "REGISTER_DONE" => newTopics = AcceptableIds

\* REGISTER, ACK and DISCOVER are sent once and never again: a frame that is lost,
\* a send that times out or a board that reboots can stall the registration, but
\* never shortens it.  That takes a restart of the agent.
LossOnlyStalls == restarts = 0 => DoneMeansAllRegistered

\* "marks registration as done", whatever restarts: an agent that has been told the
\* first topic and then gets a REGISTER_DONE has been told them all.
RegistrationIsWhole ==
    \A i \in DOMAIN toAgent :
        toAgent[i].type = "REGISTER_DONE" /\ TopicId[0] \in newTopics
            => newTopics = AcceptableIds

\* The board may publish once REGISTER_DONE is on its way.  Until the agent
\* has read it there is no node, so nothing may overtake it: each DATA frame
\* is behind it or finds the publisher of its topic open.
DataFindsPublisher ==
    \A i \in DOMAIN toAgent :
        toAgent[i].type = "DATA" =>
            \/ spawned /\ toAgent[i].topic \in handles
            \/ \E j \in DOMAIN toAgent :
                 j < i /\ toAgent[j].type = "REGISTER_DONE"

\* Registration is a conversation: exactly one of these holds the next move
\* while it lasts, so it can neither stall nor run twice.
RegistrationTurns ==
    << needRegistration,
       \E i \in DOMAIN toClient : toClient[i].type = "DISCOVER",
       txState = "SENDING_FRAME" /\ isRegistration,
       \E i \in DOMAIN toAgent : toAgent[i].type = "REGISTER",
       needAck,
       \E i \in DOMAIN toClient : toClient[i].type = "ACK",
       registrationComplete >>

OneTurn == Cardinality({k \in DOMAIN RegistrationTurns : RegistrationTurns[k]}) = 1

-----------------------------------------------------------------------------
\* The registration DISCOVER asks for ends with a node that has a handle for
\* every topic the agent can accept.
RegistrationCompletes ==
    <>(registrationComplete /\ spawned /\ handles = AcceptableIds)

\* protocol.h: DISCOVER is "from agent to tell mcu to give up its topics": a
\* board that reads one starts to register.
DiscoverIsObeyed ==
    [][ /\ Arrives(toClient, "DISCOVER") /\ ~clientFault
        /\ toClient' = Tail(toClient) /\ UNCHANGED <<agentVars, faultVars>>
        => isRegistration' /\ ~sendingRegDone' /\ regIdx' = 0 ]_vars

\* In the clean session the way from nros_publish to ROS is a reliable pipe.
PubPipe == INSTANCE Pipe WITH Message <- Messages, sent <- accepted,
                              delivered <- rosOut
PublishIsReliable == PubPipe!PipeSpec

\* From here on nothing registers again: the handles of the node are final.
HandlesAreFinal == [][spawned => spawned' /\ handles' = handles]_vars
=============================================================================
