------------------------------ MODULE Emitter -------------------------------
(***************************************************************************)
(* What codegen.rs writes for the fields of a topic: structs, serialisers, *)
(* deserialisers, the size of the largest message, the functions of the    *)
(* user and the rows of the topic table.                                   *)
(*                                                                         *)
(* A struct's name is its type's with "_t" behind it, the prefix of its    *)
(* functions the name without.  Names of messages do not end in "_t"       *)
(* themselves (ROS does not let them), and stripping takes off one.        *)
(***************************************************************************)
EXTENDS CdrSize, MsgFields, SequencesExt

StructName(type) == Append(type, "_t")
PrefixOf(struct) == Front(struct)

\* True of any strings, but the provers do not know it of these.
ASSUME NamesAreStrings == {"_t"} \cup Prims \cup {CType(prim) : prim \in Prims} \subseteq STRING

\* What `start' has become after n passes.
Loop(pass, start, n) ==
    LET after[i \in 0 .. n] == IF i = 0 THEN start ELSE pass[i][after[i - 1]]
    IN  after[n]

\* The pass that changes nothing.
Same(states) == [state \in states |-> state]

-----------------------------------------------------------------------------
(* Structs and functions, each once, after those of the types inside.      *)

\* What has been written, and of which types.
NothingEmitted == [emitted |-> {}, text |-> <<>>]
Outputs(texts) == [emitted : SUBSET Types, text : Seq(texts)]

CStructs ==
    [name : Types, members : Seq([ctype : Types, name : STRING, array : Seq(Nat)])]

\* A struct; a member is its C type, its name and its length if an array.
CStruct(type, fields) ==
    LET Member(f) ==
            IF IsNested(f)
            THEN [ctype |-> StructName(f.type), name |-> f.name, array |-> f.array]
            ELSE [ctype |-> <<CType(f.prim)>>, name |-> f.name,
                  array |-> IF f.prim = "string" /\ f.array = <<>>
                            THEN <<StringMaxBytes>> ELSE f.array]
    IN  [name |-> StructName(type), members |-> [i \in DOMAIN fields |-> Member(fields[i])]]

\* Fault: a struct comes before those of its members.
Placed_OutsideIn(before, inside, struct) ==
    before \o <<struct>> \o SubSeq(inside, Len(before) + 1, Len(inside))

\* Where a struct goes among those there were and those of its members.
Placed(before, inside, struct) == Append(inside, struct)

UserCStructs[fields \in MsgFieldSeqs] == [type \in Types |-> [out \in Outputs(CStructs) |->
    LET Inner(f) == IF IsNested(f) THEN UserCStructs[f.fields][f.type]
                    ELSE Same(Outputs(CStructs))
        begun  == [emitted |-> out.emitted \cup {StructName(type)}, text |-> out.text]
        inside == Loop([i \in DOMAIN fields |-> Inner(fields[i])], begun, Len(fields))
    IN  IF StructName(type) \in out.emitted THEN out
        ELSE [emitted |-> inside.emitted,
              text |-> Placed(out.text, inside.text, CStruct(type, fields))]]]

\* A call in a serialiser: of another one, or of Micro-CDR for an array, for a
\* string or for one value.  Micro-CDR's are named by the C type of `of'.
SerializeCall(f) ==
    IF IsNested(f)
    THEN [of |-> PrefixOf(StructName(f.type)), how |-> "function", n |-> Times(f)]
    ELSE [of |-> <<f.prim>>, n |-> Times(f),
          how |-> IF f.array # <<>> THEN "array"
                  ELSE IF f.prim = "string" THEN "string" ELSE "value"]

\* The same, but that a string comes with sizeof the member.
DeserializeCall(f) ==
    IF f.prim = "string" /\ f.array = <<>>
    THEN [of |-> <<"string">>, how |-> "string", n |-> StringMaxBytes]
    ELSE SerializeCall(f)

Serde(prefix, fields) ==
    [prefix |-> prefix,
     serialize |-> [i \in DOMAIN fields |-> SerializeCall(fields[i])],
     deserialize |-> [i \in DOMAIN fields |-> DeserializeCall(fields[i])]]

Calls == [of : Types, how : {"function", "array", "string", "value"}, n : Nat]
Serdes == [prefix : Types, serialize : Seq(Calls), deserialize : Seq(Calls)]

SerdeFunctions[fields \in MsgFieldSeqs] == [prefix \in Types |-> [out \in Outputs(Serdes) |->
    LET Inner(f) == IF IsNested(f) THEN SerdeFunctions[f.fields][PrefixOf(StructName(f.type))]
                    ELSE Same(Outputs(Serdes))
        begun  == [emitted |-> out.emitted \cup {prefix}, text |-> out.text]
        inside == Loop([i \in DOMAIN fields |-> Inner(fields[i])], begun, Len(fields))
    IN  IF prefix \in out.emitted THEN out
        ELSE [emitted |-> inside.emitted,
              text |-> Append(inside.text, Serde(prefix, fields))]]]

-----------------------------------------------------------------------------
(* Sizes                                                                   *)

\* What is known of the position, and the bytes added up.
Sums == [pos : Positions, total : Nat]

AddPrim == [prim \in Prims |-> [acc \in Sums |->
    [pos |-> AfterPrim(acc.pos, prim), total |-> acc.total + PrimBytes(acc.pos, prim)]]]

MaxCdrSize[fields \in MsgFieldSeqs] == [acc \in Sums |->
    LET Element(f) == IF IsNested(f) THEN MaxCdrSize[f.fields] ELSE AddPrim[f.prim]
        Elements(f) == [a \in Sums |->
            Loop([j \in 1 .. Times(f) |-> Element(f)], a, Times(f))]
    IN  Loop([i \in DOMAIN fields |-> Elements(fields[i])], acc, Len(fields))]

\* Fault: the encapsulation header is left out.
MaxPayloadSize_NoHeader(fields) ==
    MaxCdrSize[fields][[pos |-> StartPos, total |-> 0]].total

MaxPayloadSize(fields) ==
    EncapHeaderLen + MaxCdrSize[fields][[pos |-> StartPos, total |-> 0]].total

-----------------------------------------------------------------------------
(* Topics, as ros.toml has them: name, topic_type, msg_type, qos.          *)

QosNames == <<"default", "sensor_data", "reliable", "best_effort",
              "transient_local", "system_default">>

\* Left out, it is the default.
ParsedQos(topic) == IF topic.qos = "" THEN "default" ELSE topic.qos

\* The nros_qos_t of protocol.h.
QosValue(topic) == SelectInSeq(QosNames, LAMBDA q : q = ParsedQos(topic)) - 1

UserFunction(topic) ==
    [topic |-> topic.name, calls |-> PrefixOf(StructName(topic.msg_type)),
     name |-> IF topic.topic_type = "publisher" THEN "nros_publish"
              ELSE "subscriber_handler"]

NoCallback == "NULL"

TopicRow(topic) ==
    [topic |-> topic.name, type |-> topic.msg_type, qos |-> QosValue(topic),
     cb |-> IF topic.topic_type = "publisher" THEN NoCallback
            ELSE "subscriber_handler"]
=============================================================================
