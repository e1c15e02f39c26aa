------------------------------ MODULE TopicIds ------------------------------
(***************************************************************************)
(* generate_topic_ids: one id per topic, in the order of ros.toml, from 0  *)
(* for subscribers and from PubIdStart for publishers.  The agent tells    *)
(* the two apart by the id alone.                                          *)
(***************************************************************************)
EXTENDS Integers, Sequences

CONSTANTS TopicNames,
          SubIdLimit,       \* 127 in the code: the first id no subscriber gets
          PubIdStart,       \* 127 in the code
          PubIdLimit        \* 255 in the code

ASSUME IdAssumption ==
    /\ {SubIdLimit, PubIdStart, PubIdLimit} \subseteq 0 .. 255
    /\ SubIdLimit <= PubIdStart /\ PubIdStart <= PubIdLimit

VARIABLES subId, pubId,     \* the ids to be given out next, both uint8_t
          idLines           \* the #define <NAME>_ID lines written so far

idVars == <<subId, pubId, idLines>>

TopicTypes == {"publisher", "subscriber"}

IdsInit == subId = 0 /\ pubId = PubIdStart /\ idLines = <<>>

\* A run of the generator begins with these, whatever came before.
IdsStart == subId' = 0 /\ pubId' = PubIdStart /\ idLines' = <<>>

Define(name, type, id) ==
    idLines' = Append(idLines, [name |-> name, type |-> type, id |-> id])

AssignPublisher(name) ==
    /\ pubId < PubIdLimit
    /\ Define(name, "publisher", pubId)
    /\ pubId' = (pubId + 1) % 256
    /\ UNCHANGED subId

\* Fault: subscribers go on to the first id of the publishers.
AssignSubscriber_OffByOne(name) ==
    /\ subId <= SubIdLimit
    /\ Define(name, "subscriber", subId)
    /\ subId' = (subId + 1) % 256
    /\ UNCHANGED pubId

AssignSubscriber(name) ==
    /\ subId < SubIdLimit
    /\ Define(name, "subscriber", subId)
    /\ subId' = (subId + 1) % 256
    /\ UNCHANGED pubId

\* "publisher id out of range", "subscriber id out of range"
OutOfIds(type) ==
    IF type = "publisher" THEN pubId >= PubIdLimit ELSE subId >= SubIdLimit

AssignId(name, type) ==
    IF type = "publisher" THEN AssignPublisher(name) ELSE AssignSubscriber(name)

IdsNext == \E name \in TopicNames, type \in TopicTypes : AssignId(name, type)

IdsSpec == IdsInit /\ [][IdsNext]_idVars

-----------------------------------------------------------------------------
\* The agent finds a topic by its id, and its direction by the side of
\* PubIdStart the id is on: no two topics share an id, every id is on its
\* side, and none is 255, however many topics of either kind come in whatever
\* order.
IdsTellTopicsApart ==
    \A i \in DOMAIN idLines :
        /\ idLines[i].type = "publisher" <=> idLines[i].id >= PubIdStart
        /\ idLines[i].id \in 0 .. 254
        /\ \A j \in DOMAIN idLines : idLines[i].id = idLines[j].id => i = j

-----------------------------------------------------------------------------
\* The invariant of the proof.
IdsTypeOK ==
    /\ subId \in 0 .. SubIdLimit
    /\ pubId \in PubIdStart .. PubIdLimit
    /\ idLines \in Seq([name : TopicNames, type : TopicTypes, id : 0 .. 254])

\* What has been given out lies below what comes next, on its own side.
IdsBelowNext ==
    \A i \in DOMAIN idLines :
        idLines[i].id \in IF idLines[i].type = "publisher"
                         THEN PubIdStart .. (pubId - 1) ELSE 0 .. (subId - 1)

IdsIInv == IdsTypeOK /\ IdsBelowNext /\ IdsTellTopicsApart
=============================================================================
