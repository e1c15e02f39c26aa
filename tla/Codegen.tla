------------------------------ MODULE Codegen -------------------------------
(***************************************************************************)
(* nano_ros_codegen as a build runs it: the command line, ros.toml, the    *)
(* two package indexes, the message files, the outputs and the depfile;    *)
(* around it the build tool, which runs it again when it has to, somebody  *)
(* who edits the files it reads, and the board the outputs are built into. *)
(***************************************************************************)
EXTENDS MsgFiles, Emitter, TopicIds

CONSTANTS ArgLists,         \* command lines of a build (nano_ros_generate)
          EnvPrefix,        \* first entry of AMENT_PREFIX_PATH, or Unset
          TomlTexts,        \* what ros.toml may hold
          FileTexts,        \* file -> what it may hold, the first at first
          Upper,            \* a topic name in upper case
          LongStrings,      \* names <<name>> and types over NROS_MAX_STR_SIZE
          MaxPayload,       \* NROS_MAX_PAYLOAD
          MaxEdits, MaxInterrupts

Topics == [name : TopicNames, topic_type : STRING, msg_type : Types, qos : STRING]

\* Every message listed has a file, every file and ros.toml something it holds
\* at first.
ASSUME TextsAssumption ==
    /\ MsgsIn \in [Dirs -> SUBSET STRING]
    /\ \A d \in Dirs : \A name \in MsgsIn[d] : <<d, name>> \in DOMAIN FileTexts
    /\ \A f \in DOMAIN FileTexts : FileTexts[f] \in Seq(Seq(Lines)) /\ FileTexts[f] # <<>>
    /\ TomlTexts \in Seq(Seq(Topics)) /\ TomlTexts # <<>>

VARIABLES args, toml, edits, interrupts,
          phase, opts, config,       \* the process
          output, disk,              \* what it writes
          succeeded, edited, deps,   \* the build tool
          message, calls             \* the board

fileVars    == <<args, source, toml, edits>>
processVars == <<opts, config, rosPkgs>>
outputVars  == <<output, disk>>
buildVars   == <<succeeded, edited, deps>>
boardVars   == <<message, calls, walkVars>>
vars == <<fileVars, interrupts, phase, processVars, scanVars, parseVars, idVars,
          outputVars, buildVars, boardVars>>

-----------------------------------------------------------------------------
(* The command line                                                        *)

Unset == ""
Options == {"--ros-prefix", "--user-msgs", "--out-dir", "--depfile"}
IsOption(arg) == arg \in Options \cup {"--verbose"}     \* starts with "--"

NoOpts == [o \in Options \cup {"toml"} |-> Unset]

\* An option takes the next argument, whatever it is; the last toml counts.
ParseArgs == [list \in ArgLists |->
    LET Step(acc, arg) ==
            IF acc.awaits # Unset
            THEN [acc EXCEPT !.opts[acc.awaits] = arg, !.awaits = Unset]
            ELSE IF ~IsOption(arg) THEN [acc EXCEPT !.opts["toml"] = arg]
            ELSE IF arg \in Options THEN [acc EXCEPT !.awaits = arg]
            ELSE [acc EXCEPT !.ok = FALSE]
        end == FoldLeft(Step, [opts |-> NoOpts, awaits |-> Unset, ok |-> TRUE], list)
    IN  [opts |-> end.opts,
         ok |-> end.ok /\ end.awaits = Unset /\ end.opts["toml"] # Unset]]

RosPrefix ==
    IF opts["--ros-prefix"] # Unset THEN opts["--ros-prefix"]
    ELSE IF EnvPrefix # Unset THEN EnvPrefix
    ELSE "/opt/ros/humble"

-----------------------------------------------------------------------------
(* The build tool and the files                                            *)

RosToml == <<"ros.toml">>

NoMessage == [topic |-> Unset, maxSize |-> MaxPayload]

\* The command has never come to its end since something it depends on was
\* last edited.
Dirty == ~succeeded \/ edited \cap (deps \cup {RosToml}) # {}

\* The board of the last build is put aside.
Begin ==
    /\ phase = "idle" /\ calls = <<>> /\ Dirty
    /\ phase' = "args" /\ succeeded' = FALSE /\ edited' = {}
    /\ message' = NoMessage /\ WalkStart
    /\ UNCHANGED <<fileVars, interrupts, processVars, scanVars, parseVars, idVars,
                   outputVars, deps, calls>>

\* Somebody edits a file, at any time; a board that is serialising a message
\* does not notice, so the model lets it finish first.
MayEdit == edits < MaxEdits /\ calls = <<>>

EditMsg(file, lines) ==
    /\ MayEdit /\ lines # source[file]
    /\ source' = [source EXCEPT ![file] = lines]
    /\ edited' = edited \cup {file} /\ edits' = edits + 1
    /\ UNCHANGED <<args, toml, interrupts, phase, processVars, scanVars, parseVars,
                   idVars, outputVars, succeeded, deps, boardVars>>

EditToml(text) ==
    /\ MayEdit /\ text # toml
    /\ toml' = text
    /\ edited' = edited \cup {RosToml} /\ edits' = edits + 1
    /\ UNCHANGED <<args, source, interrupts, phase, processVars, scanVars, parseVars,
                   idVars, outputVars, succeeded, deps, boardVars>>

-----------------------------------------------------------------------------
(* main                                                                    *)

\* What the process leaves alone while it has not come to its outputs.
ReadsOnly == UNCHANGED <<fileVars, interrupts, idVars, outputVars, buildVars, boardVars>>

\* An error returned from main, a panic or a stack overflow.
Fail ==
    /\ phase' = "idle"
    /\ UNCHANGED <<processVars, scanVars, parseVars>> /\ ReadsOnly

Interrupt ==
    /\ phase # "idle" /\ interrupts < MaxInterrupts
    /\ phase' = "idle" /\ interrupts' = interrupts + 1
    /\ UNCHANGED <<fileVars, processVars, scanVars, parseVars, idVars, outputVars,
                   buildVars, boardVars>>

ReadArgs ==
    /\ phase = "args" /\ ParseArgs[args].ok
    /\ opts' = ParseArgs[args].opts /\ phase' = "toml"
    /\ UNCHANGED <<config, rosPkgs, scanVars, parseVars>> /\ ReadsOnly

BadArgs == phase = "args" /\ ~ParseArgs[args].ok /\ Fail

\* serde: every topic has a name, a direction and a type, and a QoS it knows.
TomlIsValid ==
    \A i \in DOMAIN toml : /\ toml[i].topic_type \in TopicTypes
                           /\ ParsedQos(toml[i]) \in Range(QosNames)

\* NanoRosConfig, and the first of the two scans.
ReadToml ==
    /\ phase = "toml" /\ TomlIsValid
    /\ config' = toml /\ phase' = "ros"
    /\ ScanStart(RosPrefix)
    /\ UNCHANGED <<opts, rosPkgs, parseVars>> /\ ReadsOnly

BadToml == phase = "toml" /\ ~TomlIsValid /\ Fail

Scan ==
    /\ phase \in {"ros", "user"} /\ ScanNext
    /\ UNCHANGED <<phase, processVars, parseVars>> /\ ReadsOnly

ScanDone == phase \in {"ros", "user"} /\ ~Scanning

RosScanned ==
    /\ ScanDone /\ phase = "ros" /\ ~scanFailed
    /\ rosPkgs' = index /\ phase' = "user"
    /\ ScanStart(opts["--user-msgs"])
    /\ UNCHANGED <<opts, config, parseVars>> /\ ReadsOnly

UserScanned ==
    /\ ScanDone /\ phase = "user" /\ ~scanFailed
    /\ phase' = "parse"
    /\ readFiles' = {} /\ stack' = <<>> /\ fieldsOf' = <<>> /\ parseFailed' = FALSE
    /\ UNCHANGED <<processVars, scanVars>> /\ ReadsOnly

BadScan == ScanDone /\ scanFailed /\ Fail

ValidTopicType(type) ==
    Len(type) = 3 /\ type[2] = "msg" /\ type[1] # "" /\ type[3] # ""

BetweenTopics == phase = "parse" /\ ~parseFailed /\ stack = <<>>

NextTopic == config[Len(fieldsOf) + 1]

StartTopic ==
    /\ BetweenTopics /\ Len(fieldsOf) < Len(config)
    /\ ValidTopicType(NextTopic.msg_type)
    /\ Open(NextTopic.msg_type, "", <<>>, <<>>)
    /\ UNCHANGED <<phase, processVars, scanVars>> /\ ReadsOnly

BadTopic ==
    /\ BetweenTopics /\ Len(fieldsOf) < Len(config)
    /\ ValidTopicType(NextTopic.msg_type) => ~CanOpen(NextTopic.msg_type)
    /\ Fail

Parse ==
    /\ phase = "parse" /\ ParseNext
    /\ UNCHANGED <<phase, processVars, scanVars>> /\ ReadsOnly

BadParse == phase = "parse" /\ parseFailed /\ Fail

-----------------------------------------------------------------------------
(* generate_core_code                                                      *)

NoOutput == [structs |-> NothingEmitted, serde |-> NothingEmitted,
             functions |-> <<>>, rows |-> <<>>, sizes |-> <<>>]

Writes == UNCHANGED <<fileVars, interrupts, processVars, scanVars, parseVars,
                      buildVars, boardVars>>

\* The three files are truncated before anything else can go wrong.
CreateOutputs ==
    /\ BetweenTopics /\ Len(fieldsOf) = Len(config)
    /\ phase' = "ids" /\ disk' = "partial" /\ output' = NoOutput
    /\ IdsStart
    /\ Writes

NextId == config[Len(idLines) + 1]

AssignIds ==
    /\ phase = "ids" /\ Len(idLines) < Len(config)
    /\ AssignId(NextId.name, NextId.topic_type)
    /\ Writes /\ UNCHANGED <<phase, outputVars>>

IdsOverflow ==
    /\ phase = "ids" /\ Len(idLines) < Len(config) /\ OutOfIds(NextId.topic_type)
    /\ Fail

IdsAssigned ==
    /\ phase = "ids" /\ Len(idLines) = Len(config)
    /\ phase' = "emit"
    /\ Writes /\ UNCHANGED <<idVars, outputVars>>

\* Struct, serialiser, deserialiser and user function of the next topic.
EmitTopic ==
    /\ phase = "emit" /\ Len(output.functions) < Len(config)
    /\ LET i == Len(output.functions) + 1
           type == config[i].msg_type
       IN  output' = [output EXCEPT
               !.structs = UserCStructs[fieldsOf[i]][type][@],
               !.serde = SerdeFunctions[fieldsOf[i]][PrefixOf(StructName(type))][@],
               !.functions = Append(@, UserFunction(config[i]))]
    /\ Writes /\ UNCHANGED <<phase, idVars, disk>>

\* Topic array, checks, prototypes, sizes.  Nobody flushes the BufWriters: what
\* they still hold goes out when they are dropped, and an error then is lost: the
\* files are cut short of `output', and the run goes on.
WriteTables ==
    /\ phase = "emit" /\ Len(output.functions) = Len(config)
    /\ output' = [output EXCEPT
           !.rows = [i \in DOMAIN config |-> TopicRow(config[i])],
           !.sizes = [i \in DOMAIN config |->
                        [name |-> config[i].name, size |-> MaxPayloadSize(fieldsOf[i])]]]
    /\ disk' \in {"whole", "cut"} /\ phase' = "depfile"
    /\ Writes /\ UNCHANGED idVars

\* The build tool takes in the depfile of a command that has succeeded.
WriteDepfile ==
    /\ phase = "depfile"
    /\ deps' = IF opts["--depfile"] = Unset THEN {} ELSE {RosToml} \cup readFiles
    /\ phase' = "idle" /\ succeeded' = TRUE
    /\ UNCHANGED <<fileVars, interrupts, processVars, scanVars, parseVars, idVars,
                   outputVars, edited, boardVars>>

Generate == CreateOutputs \/ AssignIds \/ IdsAssigned \/ EmitTopic \/ WriteTables
            \/ WriteDepfile

Run ==
    \/ ReadArgs \/ BadArgs \/ ReadToml \/ BadToml
    \/ Scan \/ RosScanned \/ UserScanned \/ BadScan
    \/ StartTopic \/ BadTopic \/ Parse \/ BadParse
    \/ IdsOverflow \/ Generate

-----------------------------------------------------------------------------
(* The board                                                               *)

\* Of macros defined twice, the last.
Macro(lines, name) ==
    lines[SelectLastInSeq(lines, LAMBDA l : Upper[l.name] = Upper[name])]

\* The static assertions of generate_wire_checks.
WireChecks ==
    \A i \in DOMAIN output.rows :
        LET row == output.rows[i]
        IN  /\ Macro(output.sizes, row.topic).size <= MaxPayload
            /\ {<<row.topic>>, row.type} \cap LongStrings = {}

SerdeOf(prefix) ==
    output.serde.text[SelectInSeq(output.serde.text, LAMBDA s : s.prefix = prefix)]

\* The calls of Micro-CDR that a serialiser comes to.
CallsOf(prefix) ==
    LET prefixes == {s.prefix : s \in Range(output.serde.text)}
        calls_of[p \in prefixes] ==
            LET body == SerdeOf(p).serialize
                One(call) ==
                    IF call.how = "function" THEN calls_of[call.of]
                    ELSE <<[of |-> call.of[1], how |-> call.how]>>
            IN  FlattenSeq([i \in DOMAIN body |->
                    FlattenSeq([j \in 1 .. body[i].n |-> One(body[i])])])
    IN  calls_of[prefix]

Unchanged == UNCHANGED <<fileVars, interrupts, phase, processVars, scanVars,
                         parseVars, idVars, outputVars, buildVars>>

\* nros_publish_<name> of firmware built from the outputs.
Publish(i) ==
    /\ phase = "idle" /\ ~Dirty /\ disk = "whole" /\ WireChecks /\ calls = <<>>
    /\ output.functions[i].name = "nros_publish"
    /\ message' = [topic |-> output.functions[i].topic,
                   maxSize |-> Macro(output.sizes, output.functions[i].topic).size]
    /\ calls' = CallsOf(output.functions[i].calls)
    /\ WalkStart
    /\ Unchanged

Serialize ==
    /\ calls # <<>>
    /\ LET call == Head(calls)
       IN  \/ call.how = "string" /\ \E bytes \in 1 .. StringMaxBytes : WalkString(bytes)
           \/ call.how = "array" /\ call.of = "string" /\ WalkStringElement
           \/ call.of \in Prims /\ WalkFixed(call.of)
    /\ calls' = Tail(calls)
    /\ UNCHANGED message /\ Unchanged

-----------------------------------------------------------------------------
Init ==
    /\ args \in ArgLists /\ toml \in {TomlTexts[1]}
    /\ source = [f \in DOMAIN FileTexts |-> FileTexts[f][1]]
    /\ edits = 0 /\ interrupts = 0 /\ phase = "idle"
    /\ opts = NoOpts /\ config = <<>> /\ rosPkgs = <<>>
    /\ index = <<>> /\ visited = {} /\ todo = <<>> /\ scanFailed = FALSE
    /\ readFiles = {} /\ stack = <<>> /\ fieldsOf = <<>> /\ parseFailed = FALSE
    /\ IdsInit
    /\ output = NoOutput /\ disk = "absent"
    /\ succeeded = FALSE /\ edited = {} /\ deps = {}
    /\ message = NoMessage /\ calls = <<>> /\ WalkInit

Next ==
    \/ Begin \/ Run \/ Interrupt
    \/ \E f \in DOMAIN FileTexts : \E lines \in Range(FileTexts[f]) : EditMsg(f, lines)
    \/ \E text \in Range(TomlTexts) : EditToml(text)
    \/ \E i \in DOMAIN output.functions : Publish(i)
    \/ Serialize

\* A process that has been started is run.
Spec == Init /\ [][Next]_vars /\ WF_vars(Run)

-----------------------------------------------------------------------------
\* Types, and where the phases have got to.
TypeOK ==
    /\ phase \in {"idle", "args", "toml", "ros", "user", "parse", "ids", "emit",
                  "depfile"}
    /\ disk \in {"absent", "partial", "whole", "cut"}
    /\ ScanTypeOK /\ ParseTypeOK /\ IdsTypeOK /\ WalkTypeOK
    /\ phase = "parse" => Len(fieldsOf) <= Len(config)
    /\ phase \in {"ids", "emit", "depfile"} => Len(fieldsOf) = Len(config)
    /\ phase \in {"emit", "depfile"} => Len(idLines) = Len(config)

\* ros.toml as it is now, and the fields its topics have by the files as they
\* are now.
FieldsNow(topic) == FieldsFrom(source, Pkgs)[MaxNesting][topic.msg_type]

\* The writers have been given all of the outputs.
AllWritten == disk \in {"whole", "cut"}

\* The structs of all topics, one topic after the other.
StructsNow ==
    Loop([i \in DOMAIN toml |-> UserCStructs[FieldsNow(toml[i])][toml[i].msg_type]],
         NothingEmitted, Len(toml)).text

\* "Codegen reruns when ros.toml or any .msg file it read changes"
\* (nano_ros_generate.cmake:4).  When the build tool sees nothing to do, what the
\* last run has written is complete and is that of ros.toml and of every message
\* file as they are now, whenever they were edited, runs in progress, failed and
\* interrupted included.  (It is in the files unless an error was lost as they
\* were closed, which is seen by nobody.)
UpToDate ==
    phase = "idle" /\ ~Dirty /\ opts["--depfile"] # Unset =>
        /\ AllWritten
        /\ output.structs.text = StructsNow
        /\ output.rows = [i \in DOMAIN toml |-> TopicRow(toml[i])]
        /\ \A i \in DOMAIN toml : output.sizes[i].size = MaxPayloadSize(FieldsNow(toml[i]))

\* Macros are named by topics in upper case: two topics of one name (one of each
\* direction), or that differ in case only, share theirs.
MacrosDiffer ==
    \A i, j \in DOMAIN output.rows :
        Upper[output.rows[i].topic] = Upper[output.rows[j].topic] => i = j

\* A type is met in many places, in several topics and inside others, and is
\* written once: at any time each struct is there once and behind the structs
\* of its members, every serialiser has its struct and finds those it calls,
\* reading takes the steps of writing, user functions find theirs, and a row of
\* the topic table finds its handler and an id of its own.  A run reads the file
\* of a type again for every use, so this needs the files to stay as they were
\* during the run; if they did not, UpToDate says that it is run again.
Undisturbed == edited = {} /\ (phase \in {"emit", "depfile"} \/ succeeded)

OutputsAreClosed ==
    LET structs  == output.structs.text
        serde    == output.serde.text
        prefixes == {serde[i].prefix : i \in DOMAIN serde}
        Steps(list) == [i \in DOMAIN list |-> <<list[i].of, list[i].how>>]
    IN  Undisturbed =>
        /\ \A i \in DOMAIN structs :
              /\ \A j \in DOMAIN structs : structs[i].name = structs[j].name => i = j
              /\ \A m \in Range(structs[i].members) :
                    Len(m.ctype) > 1 => \E j \in 1 .. (i - 1) : structs[j].name = m.ctype
        /\ \A i \in DOMAIN serde :
              /\ \A j \in DOMAIN serde : serde[i].prefix = serde[j].prefix => i = j
              /\ \E s \in Range(structs) : s.name = StructName(serde[i].prefix)
              /\ \A c \in Range(serde[i].serialize) :
                    c.how = "function" => c.of \in prefixes
              /\ Steps(serde[i].serialize) = Steps(serde[i].deserialize)
        /\ \A f \in Range(output.functions) : f.calls \in prefixes
        /\ \A r \in Range(output.rows) :
              r.cb # NoCallback =>
                  \E f \in Range(output.functions) : f.topic = r.topic /\ f.name = r.cb
        /\ MacrosDiffer =>
              \A i, j \in DOMAIN output.rows :
                  Macro(idLines, output.rows[i].topic).id
                      = Macro(idLines, output.rows[j].topic).id => i = j

\* Firmware that has passed the static assertions never serialises a message
\* into more bytes than <TOPIC>_MAX_SIZE or than a frame has room for; and that
\* size is the analysis of the very calls the generated serialiser makes.  A
\* message file edited between two readings of one run gives a serialiser of
\* one version and a size of another; only a depfile has that run repeated.
MessagesFitTheirFrame ==
    MacrosDiffer /\ opts["--depfile"] # Unset /\ message # NoMessage =>
        /\ EncapHeaderLen + writer.offset <= message.maxSize
        /\ message.maxSize <= MaxPayload
        /\ calls = <<>> => message.maxSize = EncapHeaderLen + total

\* A run comes to an end, in whatever tree of directories, links and types.
RunEnds == phase # "idle" ~> phase = "idle"
=============================================================================
