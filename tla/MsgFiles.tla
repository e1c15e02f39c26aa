------------------------------ MODULE MsgFiles ------------------------------
(***************************************************************************)
(* MsgResolver and the parser of .msg files.                               *)
(*                                                                         *)
(* A file is the directory it is in and the name of its message.  A line   *)
(* is what is left of it behind comments: the parts of its type (none if   *)
(* it is blank), whether the type has a "<=", its brackets, its second     *)
(* word if there is one, and whether there is an "=" besides.  A nested    *)
(* type is parsed where it is met: `stack' holds the files being parsed,   *)
(* innermost last, each with the lines still unread of what it was when it *)
(* was opened.                                                             *)
(***************************************************************************)
EXTENDS PackageIndex, MsgFields

CONSTANTS MsgsIn,           \* names of the messages with a file in a directory
          NotUtf8           \* files read_to_string fails on

Lines == [base : Types, bounded : BOOLEAN, length : Nat, name : STRING, eq : BOOLEAN,
          spec : {"none", "length", "empty", "bounded", "bad"}]

\* True of any strings, but the provers do not know it of these.
ASSUME WordsAreStrings == {"", "msg", "std_msgs", "Header"} \subseteq STRING

VARIABLES source,           \* file -> its lines
          rosPkgs,          \* index of the ROS installation (user's: `index')
          readFiles, stack,
          fieldsOf,         \* Topic::fields of the topics parsed so far
          parseFailed

parseVars == <<readFiles, stack, fieldsOf, parseFailed>>

-----------------------------------------------------------------------------
(* Where the file of a type is                                             *)

NotFound == <<>>

SplitTypePath(type) ==
    IF Len(type) = 2 THEN type
    ELSE IF Len(type) = 3 /\ type[2] = "msg" THEN <<type[1], type[3]>>
    ELSE NotFound

\* The first hit of a sequence of searches.
FirstFound(results) ==
    LET hits == {i \in DOMAIN results : results[i] # NotFound}
    IN  IF hits = {} THEN NotFound ELSE results[Min(hits)]

MsgNames == UNION Range(MsgsIn)

Conventional == [d \in Dirs |-> [name \in MsgNames |->
    FirstFound([i \in DOMAIN Subdirs[d] |->
        LET sub == Subdirs[d][i]
        IN  IF sub.name = "msg" /\ name \in MsgsIn[sub.dir]
            THEN <<sub.dir, name>> ELSE NotFound])]]

SearchDepth == 4

\* search_for_msg keeps no set of visited directories: its depth ends it.
SearchForMsg[depth \in 0 .. SearchDepth] == [d \in Dirs |-> [name \in MsgNames |->
    IF d \in Unreadable THEN NotFound
    ELSE IF name \in MsgsIn[d] THEN <<d, name>>
    ELSE IF depth = 0 THEN NotFound
    ELSE FirstFound([i \in DOMAIN Subdirs[d] |->
            LET sub == Subdirs[d][i]
            IN  IF IsSkippedDir(sub.name) THEN NotFound
                ELSE SearchForMsg[depth - 1][sub.dir][name]])]]

\* The usual place first.
InPackage == [d \in Dirs |-> [name \in MsgNames |->
    FirstFound(<<Conventional[d][name], SearchForMsg[SearchDepth][d][name]>>)]]

\* ROS first; a package of that name there without the message does not hide
\* the user's.
FileIn(pkgs, type) ==
    LET split == SplitTypePath(type)
    IN  IF split = NotFound \/ split[2] \notin MsgNames THEN NotFound
        ELSE FirstFound([i \in DOMAIN pkgs |->
                IF split[1] \in DOMAIN pkgs[i]
                THEN InPackage[pkgs[i][split[1]]][split[2]] ELSE NotFound])

Pkgs == <<rosPkgs, index>>
FindMsgFile(type) == FileIn(Pkgs, type)

\* Fault: of a type that is qualified already, "pkg/Name", nothing is made.
ResolveNestedType_AsIs(base, pkg) ==
    IF Len(base) \in {2, 3} THEN base
    ELSE IF base = <<"Header">> THEN <<"std_msgs", "msg", "Header">>
    ELSE <<pkg, "msg">> \o base

\* With more than three parts it becomes a type that SplitTypePath does not know.
ResolveNestedType(base, pkg) ==
    IF Len(base) = 2 THEN <<base[1], "msg", base[2]>>
    ELSE IF Len(base) = 3 THEN base
    ELSE IF base = <<"Header">> THEN <<"std_msgs", "msg", "Header">>
    ELSE <<pkg, "msg">> \o base

-----------------------------------------------------------------------------
(* Lines                                                                   *)

\* In this order: blank, a constant, no name, a dynamic array.
IsSkippedLine(line) ==
    \/ line.base = <<>>
    \/ line.eq /\ ~line.bounded
    \/ line.name = ""
    \/ line.spec \in {"empty", "bounded"}

IsPrimLine(line) == Len(line.base) = 1 /\ IsPrimitive(line.base[1])

PrimOf(line) == ParsePrimitive(line.base[1])

ArrayOf(line) == IF line.spec = "length" THEN <<line.length>> ELSE <<>>

-----------------------------------------------------------------------------
Top == Last(stack)
AtLine == stack # <<>> /\ Top.rest # <<>>
Line == Head(Top.rest)

\* The line is behind the parser.
Advanced == [stack EXCEPT ![Len(stack)].rest = Tail(@)]

\* parse_msg_file: the content is read at once.  Nothing in the code bounds the
\* nesting: MaxNesting is as many files as the stack of the process takes.
CanOpen(type) ==
    /\ FindMsgFile(type) \notin NotUtf8 \cup {NotFound}
    /\ Len(stack) < MaxNesting

\* A file of which nothing has been parsed.
Frame(type, name, array) ==
    [type |-> type, name |-> name, array |-> array, fields |-> <<>>,
     rest |-> source[FindMsgFile(type)]]

\* Fault: a file is read that the depfile will not name.
Open_NotRecorded(type, name, array, below) ==
    /\ CanOpen(type)
    /\ stack' = Append(below, Frame(type, name, array))
    /\ UNCHANGED <<readFiles, fieldsOf, parseFailed>>

Open(type, name, array, below) ==
    /\ CanOpen(type)
    /\ readFiles' = readFiles \cup {FindMsgFile(type)}
    /\ stack' = Append(below, Frame(type, name, array))
    /\ UNCHANGED <<fieldsOf, parseFailed>>

\* An error in a file, or a stack overflow, is the end of the run.
ParseFails ==
    /\ stack' = <<>> /\ parseFailed' = TRUE
    /\ UNCHANGED <<readFiles, fieldsOf>>

SkipLine ==
    /\ AtLine /\ IsSkippedLine(Line)
    /\ stack' = Advanced
    /\ UNCHANGED <<readFiles, fieldsOf, parseFailed>>

BadArrayLength ==
    AtLine /\ ~IsSkippedLine(Line) /\ Line.spec = "bad" /\ ParseFails

AtField == AtLine /\ ~IsSkippedLine(Line) /\ Line.spec # "bad"
AtPrim == IsPrimLine(Line)
NestedType == ResolveNestedType(Line.base, Top.type[1])

PrimField ==
    /\ AtField /\ AtPrim
    /\ LET field == PrimFieldOf(Line.name, PrimOf(Line), ArrayOf(Line))
       IN  stack' = [Advanced EXCEPT ![Len(stack)].fields = Append(@, field)]
    /\ UNCHANGED <<readFiles, fieldsOf, parseFailed>>

NestedField ==
    /\ AtField /\ ~AtPrim
    /\ Open(NestedType, Line.name, ArrayOf(Line), Advanced)

UnresolvedField == AtField /\ ~AtPrim /\ ~CanOpen(NestedType) /\ ParseFails

AtEnd == stack # <<>> /\ Top.rest = <<>>

EndNested ==
    /\ AtEnd /\ Len(stack) > 1
    /\ LET field == NestedFieldOf(Top.name, Top.type, Top.fields, Top.array)
       IN  stack' = [Front(stack) EXCEPT ![Len(stack) - 1].fields = Append(@, field)]
    /\ UNCHANGED <<readFiles, fieldsOf, parseFailed>>

EndTopic ==
    /\ AtEnd /\ Len(stack) = 1
    /\ fieldsOf' = Append(fieldsOf, Top.fields)
    /\ stack' = <<>>
    /\ UNCHANGED <<readFiles, parseFailed>>

ParseNext ==
    \/ SkipLine \/ BadArrayLength \/ PrimField
    \/ NestedField \/ UnresolvedField \/ EndNested \/ EndTopic

-----------------------------------------------------------------------------
(* What the fields of a type are by its file and those of the types inside *)
(* it, if all are read at once: files are those of `files' then.           *)

\* The field of a line, if `inner' has the fields of the types inside.
FieldOf(line, pkg, inner) ==
    LET nested == ResolveNestedType(line.base, pkg)
    IN  IF IsPrimLine(line) THEN PrimFieldOf(line.name, PrimOf(line), ArrayOf(line))
        ELSE NestedFieldOf(line.name, nested, inner[nested], ArrayOf(line))

\* Those of the first n lines, for every n.
FieldsOfLines(lines, pkg, inner) ==
    LET first[n \in 0 .. Len(lines)] ==
            IF n = 0 THEN <<>>
            ELSE IF IsSkippedLine(lines[n]) THEN first[n - 1]
            ELSE Append(first[n - 1], FieldOf(lines[n], pkg, inner))
    IN  first

\* Those of every type, down to a depth.
FieldsFrom(files, pkgs) ==
    LET from[depth \in 0 .. MaxNesting] == [type \in Types |->
            LET lines == files[FileIn(pkgs, type)]
            IN  IF depth = 0 \/ FileIn(pkgs, type) = NotFound THEN <<>>
                ELSE FieldsOfLines(lines, type[1], from[depth - 1])[Len(lines)]]
    IN  from

\* What is parsed of the files on the stack, the i-th of which may have
\* Depth(i) - 1 below it.
Depth(i) == MaxNesting + 1 - i

Frames(depth) ==
    [type : Types, name : STRING, array : Seq(Nat), fields : FieldTrees[depth],
     rest : Seq(Lines)]

\* Types are known by their whole names wherever they are met, which is what
\* makes one struct of geo/Twist and geo/msg/Twist.  (That the stack is never
\* deeper than MaxNesting is assumed of the process, not found.)
ParseTypeOK ==
    /\ stack \in Seq(Range(stack))
    /\ Len(stack) <= MaxNesting
    /\ \A i \in DOMAIN stack :
          /\ stack[i] \in Frames(Depth(i))
          /\ Len(stack[i].type) = 3 /\ stack[i].type[2] = "msg"
    /\ fieldsOf \in Seq(MsgFieldSeqs)
    /\ readFiles \subseteq DOMAIN source
    /\ parseFailed \in BOOLEAN
=============================================================================
