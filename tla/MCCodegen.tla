----------------------------- MODULE MCCodegen ------------------------------
(***************************************************************************)
(* A ROS installation with links up and a cycle, a user directory that     *)
(* scans and two that do not, five messages, and what ros.toml may say.    *)
(***************************************************************************)
EXTENDS Codegen

Sub(name, d) == [name |-> name, dir |-> d]

MCSubdirs == [
    ros    |-> <<Sub(".git", "broken"), Sub("build", "dupstd"), Sub("loop", "loop"),
                 Sub("share", "share")>>,
    loop   |-> <<Sub("again", "back")>>,
    back   |-> <<Sub("loop", "loop")>>,
    share  |-> <<Sub("a", "geo"), Sub("std", "std"), Sub("up", "ros")>>,
    geo    |-> <<Sub("deep", "deep"), Sub("log", "locked"), Sub("msg", "geomsg")>>,
    src    |-> <<Sub("mine", "mine"), Sub("x", "dupstd")>>,
    bad    |-> <<Sub("mine", "mine"), Sub("x", "broken")>>,
    std    |-> <<>>, mine |-> <<>>, dupstd |-> <<>>, broken |-> <<>>, locked |-> <<>>,
    deep   |-> <<>>, geomsg |-> <<>>]

MCDirs == DOMAIN MCSubdirs
MCDirNames == {".git", "build", "loop", "share", "again", "a", "std", "up", "deep",
               "msg", "mine", "x", "log"}

Xml(name) == <<"<!--", "<name>", "old", "</name>", "-->", "<name>", " ", name, "</name>">>

MCPackageXml == [d \in MCDirs |->
    CASE d \in {"std", "dupstd"} -> Xml("std_msgs")
      [] d = "geo" -> Xml("geo")
      [] d = "mine" -> Xml("mine")
      [] d = "broken" -> <<"<name>", " ", "</name>">>
      [] OTHER -> NoFile]

-----------------------------------------------------------------------------
OfBase(base, name) == [base |-> base, bounded |-> FALSE, spec |-> "none", length |-> 0,
                       name |-> name, eq |-> FALSE]
P(word, name) == OfBase(<<word>>, name)
Arr(line, n) == [line EXCEPT !.spec = "length", !.length = n]
BlankLine == OfBase(<<>>, "")

Header == <<"std", "Header">>
Pose   == <<"geomsg", "Pose">>
Twist  == <<"deep", "Twist">>
Extra  == <<"dupstd", "Extra">>
Cmd    == <<"mine", "Cmd">>
Junk   == <<"mine", "Junk">>

HeaderText == <<BlankLine, P("uint32", "sec"), P("wstring", "frame_id")>>
PoseText   == <<P("Header", "header"), P("float64", "x"), P("byte", "kind")>>
TwistText  == <<P("float64", "v"), P("int8", "gear"), P("char", "c"), P("float32", "w"),
                P("bool", "ok")>>
ExtraText  == <<[P("string", "label") EXCEPT !.bounded = TRUE], Arr(P("string", "tags"), 2),
                P("bool", "on")>>
CmdText    == <<[P("uint8", "MODE") EXCEPT !.eq = TRUE],
                Arr(OfBase(<<"geo", "Twist">>, "twists"), 2),
                [OfBase(<<"geo", "Pose">>, "all") EXCEPT !.spec = "empty"],
                OfBase(<<"std_msgs", "msg", "Extra">>, "extra"),
                Arr(P("int16", "ids"), 3), P("Header", "header")>>

MCFileTexts ==
    Header :> <<HeaderText, <<P("int64", "stamp")>> >>
    @@ Pose  :> <<PoseText, <<Arr(P("float64", "big"), 20)>> >>
    @@ Twist :> <<TwistText>>
    @@ Extra :> <<ExtraText, <<[P("uint8", "a") EXCEPT !.spec = "bad"]>> >>
    @@ Cmd   :> <<CmdText, <<P("uint8", ""), P("Cmd", "again")>>, <<P("Gone", "g")>>,
               <<P("Junk", "j")>>, <<OfBase(<<"geo", "msg", "deep", "Twist">>, "t")>> >>
    @@ Junk  :> << <<>> >>

MCNotUtf8 == {Junk}
MCLongStrings == {<<"longname">>}

MCMsgsIn == [d \in MCDirs |-> {f[2] : f \in {f \in DOMAIN MCFileTexts : f[1] = d}}]

-----------------------------------------------------------------------------
Topic(name, dir, type, qos) ==
    [name |-> name, topic_type |-> dir, msg_type |-> type, qos |-> qos]

PoseType == <<"geo", "msg", "Pose">>
CmdType  == <<"mine", "msg", "Cmd">>
TwistType == <<"geo", "msg", "Twist">>

MCTomlTexts == <<
    <<Topic("pose", "publisher", PoseType, "reliable"),
      Topic("cmd", "publisher", CmdType, "")>>,
    <<Topic("cmd", "subscriber", CmdType, "sensor_data"),
      Topic("twist", "publisher", TwistType, "")>>,
    <<Topic("cmd", "subscriber", CmdType, ""), Topic("pose", "subscriber", PoseType, ""),
      Topic("twist", "subscriber", TwistType, "")>>,
    <<Topic("pose", "publisher", PoseType, ""), Topic("POSE", "subscriber", TwistType, "")>>,
    <<Topic("longname", "publisher", TwistType, "system_default")>>,
    <<Topic("pose", "publisher", PoseType, "best")>>,
    <<Topic("pose", "publisher", <<"geo", "Pose">>, "")>> >>

MCArgLists == {
    <<"ros.toml", "--ros-prefix", "ros", "--user-msgs", "src", "--out-dir", "out",
      "--depfile", "d">>,
    <<"ros.toml", "--user-msgs", "src">>,
    <<"ros.toml", "--depfile", "d">>,
    <<"ros.toml", "--user-msgs", "bad">>,
    <<"ros.toml", "--user-msgs", "locked">>,
    <<"ros.toml", "--user-msgs">>,
    <<"--verbose", "ros.toml">> }

MCTopicNames == {"pose", "POSE", "cmd", "twist", "longname"}
MCUpper == [name \in MCTopicNames |-> IF name = "pose" THEN "POSE" ELSE name]
=============================================================================
