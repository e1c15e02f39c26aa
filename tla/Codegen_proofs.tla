--------------------------- MODULE Codegen_proofs ---------------------------
(***************************************************************************)
(* Theorems about the code generator as a build runs it: that its parts    *)
(* keep in it what they keep on their own, that its outputs are those of   *)
(* the files as they are when the build tool is content, that everything   *)
(* in them finds what it uses, and that what a board writes by them is no  *)
(* longer than they say.                                                   *)
(***************************************************************************)
EXTENDS Codegen, Generator_proofs

-----------------------------------------------------------------------------
(* What a step of the generator is to its parts                            *)

\* A step starts a scan, goes on with one, or has nothing to do with it.
LEMMA ScanStep ==
    ASSUME [Next]_vars
    PROVE  (\E root : ScanStart(root)) \/ ScanNext \/ UNCHANGED scanVars
  <1>1. CASE Begin  BY <1>1 DEF Begin
  <1>2. CASE Interrupt  BY <1>2 DEF Interrupt
  <1>3. ASSUME NEW f, NEW lines, EditMsg(f, lines) PROVE UNCHANGED scanVars
    BY <1>3 DEF EditMsg
  <1>4. ASSUME NEW text, EditToml(text) PROVE UNCHANGED scanVars
    BY <1>4 DEF EditToml
  <1>5. ASSUME NEW i, Publish(i) PROVE UNCHANGED scanVars
    BY <1>5 DEF Publish, Unchanged
  <1>6. CASE Serialize  BY <1>6 DEF Serialize, Unchanged
  <1>7. CASE Run
    <2>1. CASE ReadArgs \/ BadArgs \/ BadToml \/ UserScanned \/ BadScan
      BY <2>1 DEF ReadArgs, BadArgs, BadToml, UserScanned, BadScan, Fail
    <2>2. CASE ReadToml \/ RosScanned
      BY <2>2 DEF ReadToml, RosScanned
    <2>3. CASE Scan
      BY <2>3 DEF Scan
    <2>4. CASE StartTopic \/ BadTopic \/ Parse \/ BadParse \/ IdsOverflow
      BY <2>4 DEF StartTopic, BadTopic, Parse, BadParse, IdsOverflow, Fail
    <2>5. CASE Generate
      BY <2>5 DEF Generate, CreateOutputs, AssignIds, IdsAssigned, EmitTopic,
                  WriteTables, WriteDepfile, Writes
    <2> QED  BY <1>7, <2>1, <2>2, <2>3, <2>4, <2>5 DEF Run
  <1>8. CASE UNCHANGED vars  BY <1>8 DEF vars
  <1> QED  BY <1>1, <1>2, <1>3, <1>4, <1>5, <1>6, <1>7, <1>8 DEF Next

\* A step begins the ids of a ros.toml, gives one out, or none.
LEMMA IdsStep ==
    ASSUME [Next]_vars
    PROVE  IdsStart \/ AssignIds \/ UNCHANGED idVars
  <1>1. CASE Begin  BY <1>1 DEF Begin
  <1>2. CASE Interrupt  BY <1>2 DEF Interrupt
  <1>3. ASSUME NEW f, NEW lines, EditMsg(f, lines) PROVE UNCHANGED idVars
    BY <1>3 DEF EditMsg
  <1>4. ASSUME NEW text, EditToml(text) PROVE UNCHANGED idVars
    BY <1>4 DEF EditToml
  <1>5. ASSUME NEW i, Publish(i) PROVE UNCHANGED idVars
    BY <1>5 DEF Publish, Unchanged
  <1>6. CASE Serialize  BY <1>6 DEF Serialize, Unchanged
  <1>7. CASE Run
    <2>1. CASE ReadArgs \/ BadArgs \/ BadToml \/ UserScanned \/ BadScan
      BY <2>1 DEF ReadArgs, BadArgs, BadToml, UserScanned, BadScan, Fail, ReadsOnly
    <2>2. CASE ReadToml \/ RosScanned \/ Scan
      BY <2>2 DEF ReadToml, RosScanned, Scan, ReadsOnly
    <2>3. CASE StartTopic \/ BadTopic \/ Parse \/ BadParse \/ IdsOverflow
      BY <2>3 DEF StartTopic, BadTopic, Parse, BadParse, IdsOverflow, Fail, ReadsOnly
    <2>4. CASE Generate
      BY <2>4 DEF Generate, CreateOutputs, IdsAssigned, EmitTopic,
                  WriteTables, WriteDepfile, Writes
    <2> QED  BY <1>7, <2>1, <2>2, <2>3, <2>4 DEF Run
  <1>8. CASE UNCHANGED vars  BY <1>8 DEF vars
  <1> QED  BY <1>1, <1>2, <1>3, <1>4, <1>5, <1>6, <1>7, <1>8 DEF Next

\* A step begins a message, writes the next of its fields, or nothing.
LEMMA WalkStep ==
    ASSUME [Next]_vars
    PROVE  WalkStart \/ WalkNext \/ UNCHANGED walkVars
  <1>1. CASE Begin  BY <1>1 DEF Begin
  <1>2. CASE Interrupt  BY <1>2 DEF Interrupt, boardVars
  <1>3. ASSUME NEW f, NEW lines, EditMsg(f, lines) PROVE UNCHANGED walkVars
    BY <1>3 DEF EditMsg, boardVars
  <1>4. ASSUME NEW text, EditToml(text) PROVE UNCHANGED walkVars
    BY <1>4 DEF EditToml, boardVars
  <1>5. ASSUME NEW i, Publish(i) PROVE WalkStart
    BY <1>5 DEF Publish
  <1>6. CASE Serialize
    BY <1>6 DEF Serialize, WalkNext
  <1>7. CASE Run
    <2>1. CASE ReadArgs \/ BadArgs \/ BadToml \/ UserScanned \/ BadScan
      BY <2>1 DEF ReadArgs, BadArgs, BadToml, UserScanned, BadScan, Fail, ReadsOnly,
                  boardVars
    <2>2. CASE ReadToml \/ RosScanned \/ Scan
      BY <2>2 DEF ReadToml, RosScanned, Scan, ReadsOnly, boardVars
    <2>3. CASE StartTopic \/ BadTopic \/ Parse \/ BadParse \/ IdsOverflow
      BY <2>3 DEF StartTopic, BadTopic, Parse, BadParse, IdsOverflow, Fail, ReadsOnly,
                  boardVars
    <2>4. CASE Generate
      BY <2>4 DEF Generate, CreateOutputs, AssignIds, IdsAssigned, EmitTopic,
                  WriteTables, WriteDepfile, Writes, boardVars
    <2> QED  BY <1>7, <2>1, <2>2, <2>3, <2>4 DEF Run
  <1>8. CASE UNCHANGED vars  BY <1>8 DEF vars, boardVars
  <1> QED  BY <1>1, <1>2, <1>3, <1>4, <1>5, <1>6, <1>7, <1>8 DEF Next

\* What is written of the files, of ros.toml and of the two package indexes.
LEMMA InputStep ==
    ASSUME [Next]_vars
    PROVE  /\ \/ UNCHANGED source
              \/ \E f \in DOMAIN FileTexts : \E lines \in Range(FileTexts[f]) :
                    EditMsg(f, lines)
           /\ UNCHANGED toml \/ \E text \in Range(TomlTexts) : EditToml(text)
           /\ UNCHANGED config \/ ReadToml
           /\ UNCHANGED rosPkgs \/ RosScanned
  <1>1. CASE Begin  BY <1>1 DEF Begin, fileVars, processVars
  <1>2. CASE Interrupt  BY <1>2 DEF Interrupt, fileVars, processVars
  <1>3. ASSUME NEW f, NEW lines, EditMsg(f, lines)
        PROVE  UNCHANGED <<toml, config, rosPkgs>>
    BY <1>3 DEF EditMsg, processVars
  <1>4. ASSUME NEW text, EditToml(text) PROVE UNCHANGED <<source, config, rosPkgs>>
    BY <1>4 DEF EditToml, processVars
  <1>5. ASSUME NEW i, Publish(i) PROVE UNCHANGED <<source, toml, config, rosPkgs>>
    BY <1>5 DEF Publish, Unchanged, fileVars, processVars
  <1>6. CASE Serialize  BY <1>6 DEF Serialize, Unchanged, fileVars, processVars
  <1>7. CASE Run
    <2>1. CASE ReadArgs \/ BadArgs \/ BadToml \/ UserScanned \/ BadScan
      BY <2>1 DEF ReadArgs, BadArgs, BadToml, UserScanned, BadScan, Fail, ReadsOnly,
                  fileVars, processVars
    <2>2. CASE ReadToml \/ RosScanned \/ Scan
      BY <2>2 DEF ReadToml, RosScanned, Scan, ReadsOnly, fileVars, processVars
    <2>3. CASE StartTopic \/ BadTopic \/ Parse \/ BadParse \/ IdsOverflow
      BY <2>3 DEF StartTopic, BadTopic, Parse, BadParse, IdsOverflow, Fail, ReadsOnly,
                  fileVars, processVars
    <2>4. CASE Generate
      BY <2>4 DEF Generate, CreateOutputs, AssignIds, IdsAssigned, EmitTopic,
                  WriteTables, WriteDepfile, Writes, fileVars, processVars
    <2> QED  BY <1>7, <2>1, <2>2, <2>3, <2>4 DEF Run
  <1>8. CASE UNCHANGED vars  BY <1>8 DEF vars, fileVars, processVars
  <1> QED  BY <1>1, <1>2, <1>3, <1>4, <1>5, <1>6, <1>7, <1>8 DEF Next

-----------------------------------------------------------------------------
(* The parts, in the generator                                             *)

\* What ros.toml says, once it has been accepted.
Configs == Seq([name : TopicNames, topic_type : TopicTypes, msg_type : Types,
                qos : STRING])

\* The parts keep their invariants, the files are files and the directories of
\* the first index directories.
PartsInv ==
    /\ ScanIInv /\ IdsIInv /\ WalkIInv
    /\ toml \in Seq(Topics) /\ config \in Configs
    /\ source \in [DOMAIN FileTexts -> Seq(Lines)]
    /\ \A n \in DOMAIN rosPkgs : rosPkgs[n] \in Dirs

\* A scan that is started anew.
LEMMA StartKeepsScan ==
    ASSUME NEW root, ScanStart(root)
    PROVE  ScanIInv'
  <1>1. index' = <<>> /\ visited' = {} /\ scanFailed' \in BOOLEAN /\ DOMAIN index' = {}
    BY DEF ScanStart
  <1>2. todo' \in Seq(Entries)
    <2>1. CASE root \in Dirs
      <3> DEFINE first == [name |-> NoName, dir |-> root]
      <3>1. first \in Entries
        BY <2>1 DEF Entries
      <3> HIDE DEF first
      <3>2. <<first>> \in Seq(Entries)
        BY <3>1
      <3> QED  BY <2>1, <3>2 DEF ScanStart, ScanRoot, first
    <2>2. CASE root \notin Dirs
      BY <2>2, EmptySeq DEF ScanStart
    <2> QED  BY <2>1, <2>2
  <1> QED  BY <1>1, <1>2 DEF ScanIInv, ScanTypeOK, VisitedIsClosed, IndexIsTrue

\* Any step keeps the invariant of the scan.
LEMMA StepKeepsScan ==
    ASSUME ScanIInv, [Next]_vars
    PROVE  ScanIInv'
  <1>1. ASSUME NEW root, ScanStart(root) PROVE ScanIInv'
    BY <1>1, StartKeepsScan
  <1>2. CASE ScanNext
    BY <1>2, ScanNextKeepsInvariant
  <1>3. CASE UNCHANGED scanVars
    BY <1>3 DEF scanVars, ScanIInv, ScanTypeOK, VisitedIsClosed, IndexIsTrue
  <1> QED  BY <1>1, <1>2, <1>3, ScanStep

\* Any step keeps the invariant of the ids.
LEMMA StepKeepsIds ==
    ASSUME IdsIInv, config \in Configs, [Next]_vars
    PROVE  IdsIInv'
  <1>1. CASE IdsStart
    BY <1>1, IdsStartEstablishesInvariant
  <1>2. CASE AssignIds
    <2>1. /\ Len(idLines) < Len(config) /\ idLines \in Seq([name : TopicNames,
                type : TopicTypes, id : 0 .. 254])
          /\ AssignId(NextId.name, NextId.topic_type)
      BY <1>2 DEF AssignIds, IdsIInv, IdsTypeOK
    <2>2. Len(idLines) + 1 \in 1 .. Len(config)
      BY <2>1, LenProperties DEF Configs
    <2>3. NextId \in [name : TopicNames, topic_type : TopicTypes, msg_type : Types,
                      qos : STRING]
      BY <2>2, ElementOfSeq DEF Configs, NextId
    <2>4. NextId.name \in TopicNames /\ NextId.topic_type \in TopicTypes
      BY <2>3
    <2> QED  BY <2>1, <2>4, NewIdKeepsInvariant
  <1>3. CASE UNCHANGED idVars
    BY <1>3 DEF idVars, IdsIInv, IdsTypeOK, IdsBelowNext, IdsTellTopicsApart
  <1> QED  BY <1>1, <1>2, <1>3, IdsStep

\* Any step keeps the invariant of the size analysis.
LEMMA StepKeepsWalk ==
    ASSUME WalkIInv, [Next]_vars
    PROVE  WalkIInv'
  <1>1. CASE WalkStart
    BY <1>1, WalkStartEstablishesInvariant
  <1>2. CASE WalkNext \/ UNCHANGED walkVars
    BY <1>2, WalkNextKeepsInvariant
  <1> QED  BY <1>1, <1>2, WalkStep

\* What a sequence of texts that is not empty begins with.
LEMMA HeadOfTexts ==
    ASSUME NEW S, NEW t \in Seq(S), t # <<>>
    PROVE  t[1] \in S
  BY HeadTailProperties

\* Of what is edited, a file becomes another file.
LEMMA StepKeepsFiles ==
    ASSUME toml \in Seq(Topics), source \in [DOMAIN FileTexts -> Seq(Lines)],
           [Next]_vars
    PROVE  toml' \in Seq(Topics) /\ source' \in [DOMAIN FileTexts -> Seq(Lines)]
  <1>1. toml' \in Seq(Topics)
    <2>1. ASSUME NEW text \in Range(TomlTexts) PROVE text \in Seq(Topics)
      BY TextsAssumption, ElementOfSeq DEF Range
    <2>2. ASSUME NEW text \in Range(TomlTexts), EditToml(text)
          PROVE  toml' \in Seq(Topics)
      BY <2>1, <2>2 DEF EditToml
    <2> QED  BY <2>2, InputStep
  <1>2. source' \in [DOMAIN FileTexts -> Seq(Lines)]
    <2>1. ASSUME NEW f \in DOMAIN FileTexts, NEW lines \in Range(FileTexts[f]),
                 EditMsg(f, lines)
          PROVE  source' \in [DOMAIN FileTexts -> Seq(Lines)]
      <3>1. FileTexts[f] \in Seq(Seq(Lines))
        BY TextsAssumption
      <3>2. lines \in Seq(Lines)
        <4> DEFINE L == Seq(Lines)
        <4>1. FileTexts[f] \in Seq(L)
          BY <3>1
        <4> HIDE DEF L
        <4>2. lines \in L
          BY <4>1, ElementOfSeq DEF Range
        <4> QED  BY <4>2 DEF L
      <3>3. source' = [source EXCEPT ![f] = lines]
        BY <2>1 DEF EditMsg
      <3> QED  BY <3>2, <3>3
    <2> QED  BY <2>1, InputStep
  <1> QED  BY <1>1, <1>2

\* An accepted ros.toml has topics of two types only.
LEMMA StepKeepsConfig ==
    ASSUME toml \in Seq(Topics), config \in Configs, [Next]_vars
    PROVE  config' \in Configs
  <1>1. CASE ReadToml
    <2> DEFINE C == [name : TopicNames, topic_type : TopicTypes, msg_type : Types,
                     qos : STRING]
    <2>1. config' = toml /\ \A i \in DOMAIN toml : toml[i].topic_type \in TopicTypes
      BY <1>1 DEF ReadToml, TomlIsValid
    <2>2. ASSUME NEW i \in 1 .. Len(toml) PROVE toml[i] \in C
      <3>1. toml[i] \in Topics
        BY <2>2, ElementOfSeq
      <3>2. toml[i].topic_type \in TopicTypes
        BY <2>1, <2>2, LenProperties
      <3> QED  BY <3>1, <3>2 DEF Topics
    <2>3. Len(toml) \in Nat /\ toml = [i \in 1 .. Len(toml) |-> toml[i]]
      BY LenProperties
    <2> HIDE DEF C
    <2>4. toml \in Seq(C)
      BY <2>2, <2>3
    <2> QED  BY <2>1, <2>4 DEF Configs, C
  <1>2. CASE UNCHANGED config
    BY <1>2
  <1> QED  BY <1>1, <1>2, InputStep

\* And all of them together.
LEMMA StepKeepsParts == PartsInv /\ [Next]_vars => PartsInv'
  <1> SUFFICES ASSUME PartsInv, [Next]_vars PROVE PartsInv'
    OBVIOUS
  <1> USE DEF PartsInv
  <1>1. ScanIInv' /\ IdsIInv' /\ WalkIInv'
    BY StepKeepsScan, StepKeepsIds, StepKeepsWalk
  <1>2. /\ toml' \in Seq(Topics) /\ source' \in [DOMAIN FileTexts -> Seq(Lines)]
        /\ config' \in Configs
    BY StepKeepsFiles, StepKeepsConfig
  <1>3. \A n \in DOMAIN rosPkgs' : rosPkgs'[n] \in Dirs
    <2>1. CASE RosScanned
      <3>1. rosPkgs' = index
        BY <2>1 DEF RosScanned
      <3> QED  BY <3>1 DEF ScanIInv, IndexIsTrue, ScanTypeOK
    <2>2. CASE UNCHANGED rosPkgs
      BY <2>2
    <2> QED  BY <2>1, <2>2, InputStep
  <1> QED  BY <1>1, <1>2, <1>3

\* They hold at first.
LEMMA InitParts == Init => PartsInv
  <1> SUFFICES ASSUME Init PROVE PartsInv
    OBVIOUS
  <1>1. ScanIInv
    <2>1. /\ index = <<>> /\ visited = {} /\ todo = <<>> /\ scanFailed = FALSE
          /\ DOMAIN index = {}
      BY DEF Init
    <2>2. todo \in Seq(Entries)
      BY <2>1, EmptySeq
    <2> QED  BY <2>1, <2>2 DEF ScanIInv, ScanTypeOK, VisitedIsClosed, IndexIsTrue
  <1>2. IdsIInv
    BY IdsInitEstablishesInvariant DEF Init
  <1>3. WalkIInv
    BY WalkInitEstablishesInvariant DEF Init
  <1>4. toml \in Seq(Topics)
    BY TextsAssumption, HeadOfTexts DEF Init
  <1>5. config \in Configs /\ \A n \in DOMAIN rosPkgs : rosPkgs[n] \in Dirs
    <2>1. config = <<>> /\ rosPkgs = <<>> /\ DOMAIN rosPkgs = {}
      BY DEF Init
    <2> QED  BY <2>1, EmptySeq DEF Configs
  <1>6. source \in [DOMAIN FileTexts -> Seq(Lines)]
    <2>1. ASSUME NEW f \in DOMAIN FileTexts PROVE FileTexts[f][1] \in Seq(Lines)
      BY TextsAssumption, HeadOfTexts
    <2>2. source = [f \in DOMAIN FileTexts |-> FileTexts[f][1]]
      BY DEF Init
    <2> QED  BY <2>1, <2>2
  <1> QED  BY <1>1, <1>2, <1>3, <1>4, <1>5, <1>6 DEF PartsInv

-----------------------------------------------------------------------------
(* Fields, and the files they come from                                    *)

\* A file, or none.
FileOrNot == DOMAIN FileTexts \cup {NotFound}

\* The first hit is a hit.
LEMMA FirstFoundIsHit ==
    ASSUME NEW n \in Nat, NEW results, DOMAIN results = 1 .. n,
           \A i \in 1 .. n : results[i] \in FileOrNot
    PROVE  FirstFound(results) \in FileOrNot
  <1> DEFINE hits == {i \in DOMAIN results : results[i] # NotFound}
  <1>1. CASE hits = {}
    <2>1. FirstFound(results) = NotFound
      BY <1>1 DEF FirstFound
    <2> QED  BY <2>1 DEF FileOrNot
  <1>2. CASE hits # {}
    <2>1. hits \subseteq Nat /\ hits \subseteq 1 .. n
      OBVIOUS
    <2>2. \E m \in hits : \A k \in hits : m <= k
      <3> HIDE DEF hits
      <3> QED  BY <1>2, <2>1, LeastMember
    <2>3. Min(hits) \in hits
      <3> HIDE DEF hits
      <3> QED  BY <2>2 DEF Min
    <2>4. FirstFound(results) = results[Min(hits)]
      BY <1>2 DEF FirstFound
    <2> HIDE DEF hits
    <2> QED  BY <2>1, <2>3, <2>4
  <1> QED  BY <1>1, <1>2

\* One directory of the search, by what is found `below'.
Searched(below, depth, d, name) ==
    IF d \in Unreadable THEN NotFound
    ELSE IF name \in MsgsIn[d] THEN <<d, name>>
    ELSE IF depth = 0 THEN NotFound
    ELSE FirstFound([i \in DOMAIN Subdirs[d] |->
            LET sub == Subdirs[d][i]
            IN  IF IsSkippedDir(sub.name) THEN NotFound ELSE below[sub.dir][name]])

\* The searches of each depth up to n.
SearchesUpTo(g, n) ==
    g = [depth \in 0 .. n |-> [d \in Dirs |-> [name \in MsgNames |->
            Searched(g[depth - 1], depth, d, name)]]]

\* For each depth there is a function that has the searches up to it.
LEMMA SearchesExist ==
    ASSUME NEW n \in Nat
    PROVE  \E g : SearchesUpTo(g, n)
  <1> DEFINE T == {m \in Nat : \E g : SearchesUpTo(g, m)}
             Level(below, k) == [d \in Dirs |-> [name \in MsgNames |->
                                   Searched(below, k, d, name)]]
  <1>1. 0 \in T
    <2> DEFINE g == [k \in 0 .. 0 |-> Level(<<>>, 0)]
    <2>1. \A x, y, d, name : Searched(x, 0, d, name) = Searched(y, 0, d, name)
      BY Zenon DEF Searched
    <2>2. \A x, y : Level(x, 0) = Level(y, 0)
      BY <2>1
    <2> HIDE DEF Level
    <2>3. g = [k \in 0 .. 0 |-> Level(g[k - 1], k)]
      BY <2>2
    <2> HIDE DEF g
    <2>4. SearchesUpTo(g, 0)
      BY <2>3 DEF SearchesUpTo, Level
    <2> QED  BY <2>4
  <1>2. ASSUME NEW m \in Nat, m \in T
        PROVE  m + 1 \in T
    <2>1. PICK g : SearchesUpTo(g, m)
      BY <1>2
    <2> DEFINE h == [k \in 0 .. m + 1 |-> IF k <= m THEN g[k] ELSE Level(g[m], m + 1)]
    <2>2. \A k \in 0 .. m : g[k] = Level(g[k - 1], k)
      BY <2>1, Zenon DEF SearchesUpTo
    <2>3. \A x, y : Level(x, 0) = Level(y, 0)
      <3>1. \A x, y, d, name : Searched(x, 0, d, name) = Searched(y, 0, d, name)
        BY Zenon DEF Searched
      <3> QED  BY <3>1
    <2> HIDE DEF Level
    <2>4. ASSUME NEW k \in 0 .. m + 1
          PROVE  h[k] = Level(h[k - 1], k)
      <3>1. CASE k = 0
        <4>1. h[0] = g[0] /\ g[0] = Level(g[0 - 1], 0)
          BY <2>2
        <4>2. Level(g[0 - 1], 0) = Level(h[0 - 1], 0)
          BY <2>3, Zenon
        <4> QED  BY <4>1, <4>2, <3>1
      <3>2. CASE k \in 1 .. m
        <4>1. h[k] = g[k] /\ h[k - 1] = g[k - 1]
          BY <3>2
        <4> QED  BY <4>1, <2>2, <3>2
      <3>3. CASE k = m + 1
        <4>1. h[k] = Level(g[m], k) /\ h[k - 1] = g[m]
          BY <3>3
        <4> QED  BY <4>1
      <3> QED  BY <3>1, <3>2, <3>3
    <2>5. h = [k \in 0 .. m + 1 |-> h[k]]
      OBVIOUS
    <2> HIDE DEF h
    <2>6. h = [k \in 0 .. m + 1 |-> Level(h[k - 1], k)]
      BY <2>4, <2>5
    <2>7. SearchesUpTo(h, m + 1)
      BY <2>6 DEF SearchesUpTo, Level
    <2> QED  BY <2>7
  <1> HIDE DEF T
  <1>3. n \in T
    BY <1>1, <1>2, NatSetInduction
  <1> QED  BY <1>3 DEF T

\* So SearchForMsg is what its definition says.
LEMMA SearchForMsgDef ==
    ASSUME NEW k \in 0 .. SearchDepth, NEW d \in Dirs, NEW name \in MsgNames
    PROVE  SearchForMsg[k][d][name] = Searched(SearchForMsg[k - 1], k, d, name)
  <1> DEFINE found == CHOOSE g : SearchesUpTo(g, SearchDepth)
  <1>1. SearchForMsg = found
    BY DEF SearchForMsg, SearchesUpTo, Searched
  <1>2. SearchesUpTo(found, SearchDepth)
    BY SearchesExist DEF SearchDepth
  <1> HIDE DEF found
  <1>3. found[k] = [e \in Dirs |-> [nm \in MsgNames |-> Searched(found[k - 1], k, e, nm)]]
    BY <1>2, Zenon DEF SearchesUpTo
  <1>4. found[k][d] = [nm \in MsgNames |-> Searched(found[k - 1], k, d, nm)]
    BY <1>3, Zenon
  <1>5. found[k][d][name] = Searched(found[k - 1], k, d, name)
    BY <1>4, Zenon
  <1> QED  BY <1>1, <1>5, Zenon

\* What the search finds is a file.
LEMMA SearchFindsFiles ==
    ASSUME NEW d \in Dirs, NEW name \in MsgNames
    PROVE  SearchForMsg[SearchDepth][d][name] \in FileOrNot
  <1> DEFINE T == {k \in Nat : k \in 0 .. SearchDepth =>
                      \A e \in Dirs : SearchForMsg[k][e][name] \in FileOrNot}
  <1>1. ASSUME NEW k \in 0 .. SearchDepth, NEW below, NEW e \in Dirs,
               k # 0 => \A x \in Dirs : below[x][name] \in FileOrNot
        PROVE  Searched(below, k, e, name) \in FileOrNot
    <2> DEFINE results == [i \in DOMAIN Subdirs[e] |->
                    LET sub == Subdirs[e][i]
                    IN  IF IsSkippedDir(sub.name) THEN NotFound ELSE below[sub.dir][name]]
    <2>1. CASE e \notin Unreadable /\ name \notin MsgsIn[e] /\ k # 0
      <3>1. Subdirs[e] \in Seq(Entries)
        BY SubdirsAreEntries
      <3>2. Len(Subdirs[e]) \in Nat /\ DOMAIN results = 1 .. Len(Subdirs[e])
        BY <3>1, LenProperties
      <3>3. ASSUME NEW i \in 1 .. Len(Subdirs[e])
            PROVE  results[i] \in FileOrNot
        <4>1. Subdirs[e][i].dir \in Dirs
          <5>1. Subdirs[e][i] \in Entries
            BY <3>1, ElementOfSeq
          <5> QED  BY <5>1 DEF Entries
        <4>2. results[i] = NotFound \/ results[i] = below[Subdirs[e][i].dir][name]
          BY <3>2
        <4> QED  BY <1>1, <2>1, <4>1, <4>2 DEF FileOrNot
      <3>4. Searched(below, k, e, name) = FirstFound(results)
        BY <2>1 DEF Searched
      <3> HIDE DEF results
      <3> QED  BY <3>2, <3>3, <3>4, FirstFoundIsHit
    <2>2. CASE name \in MsgsIn[e]
      BY <2>2, TextsAssumption DEF Searched, FileOrNot
    <2>3. CASE e \in Unreadable \/ (name \notin MsgsIn[e] /\ k = 0)
      BY <2>3 DEF Searched, FileOrNot
    <2> QED  BY <2>1, <2>2, <2>3
  <1>2. 0 \in T
    <2>1. ASSUME NEW e \in Dirs PROVE SearchForMsg[0][e][name] \in FileOrNot
      <3>1. SearchForMsg[0][e][name] = Searched(SearchForMsg[0 - 1], 0, e, name)
        BY SearchForMsgDef DEF SearchDepth
      <3> QED  BY <3>1, <1>1 DEF SearchDepth
    <2> QED  BY <2>1
  <1>3. ASSUME NEW k \in Nat, k \in T
        PROVE  k + 1 \in T
    <2>1. SUFFICES ASSUME k + 1 \in 0 .. SearchDepth, NEW e \in Dirs
                   PROVE  SearchForMsg[k + 1][e][name] \in FileOrNot
      OBVIOUS
    <2>2. \A x \in Dirs : SearchForMsg[k][x][name] \in FileOrNot
      BY <1>3, <2>1 DEF SearchDepth
    <2>3. SearchForMsg[k + 1][e][name] = Searched(SearchForMsg[k], k + 1, e, name)
      <3>1. (k + 1) - 1 = k
        OBVIOUS
      <3> QED  BY <2>1, <3>1, SearchForMsgDef, Zenon
    <2> QED  BY <1>1, <2>1, <2>2, <2>3
  <1> HIDE DEF T
  <1>4. SearchDepth \in T /\ SearchDepth \in 0 .. SearchDepth
    <2>1. SearchDepth \in Nat
      BY DEF SearchDepth
    <2> QED  BY <1>2, <1>3, <2>1, NatSetInduction
  <1> QED  BY <1>4 DEF T

\* So is what the conventional place has.
LEMMA ConventionalFindsFiles ==
    ASSUME NEW d \in Dirs, NEW name \in MsgNames
    PROVE  Conventional[d][name] \in FileOrNot
  <1> DEFINE results == [i \in DOMAIN Subdirs[d] |->
                LET sub == Subdirs[d][i]
                IN  IF sub.name = "msg" /\ name \in MsgsIn[sub.dir]
                    THEN <<sub.dir, name>> ELSE NotFound]
  <1>1. Subdirs[d] \in Seq(Entries)
    BY SubdirsAreEntries
  <1>2. Len(Subdirs[d]) \in Nat /\ DOMAIN results = 1 .. Len(Subdirs[d])
    BY <1>1, LenProperties
  <1>3. ASSUME NEW i \in 1 .. Len(Subdirs[d])
        PROVE  results[i] \in FileOrNot
    <2>1. Subdirs[d][i].dir \in Dirs
      <3>1. Subdirs[d][i] \in Entries
        BY <1>1, ElementOfSeq
      <3> QED  BY <3>1 DEF Entries
    <2>2. \/ results[i] = NotFound
          \/ /\ name \in MsgsIn[Subdirs[d][i].dir]
             /\ results[i] = <<Subdirs[d][i].dir, name>>
      BY <1>2
    <2> QED  BY <2>1, <2>2, TextsAssumption DEF FileOrNot
  <1>4. Conventional[d][name] = FirstFound(results)
    BY DEF Conventional
  <1> HIDE DEF results
  <1> QED  BY <1>2, <1>3, <1>4, FirstFoundIsHit

\* And so is what a type's name leads to, in packages that are directories.
LEMMA TypesHaveFiles ==
    ASSUME PartsInv, NEW type
    PROVE  FindMsgFile(type) \in FileOrNot
  <1> DEFINE split == SplitTypePath(type)
             results == [i \in DOMAIN Pkgs |->
                IF split[1] \in DOMAIN Pkgs[i]
                THEN InPackage[Pkgs[i][split[1]]][split[2]] ELSE NotFound]
  <1>1. CASE split = NotFound \/ split[2] \notin MsgNames
    BY <1>1 DEF FindMsgFile, FileIn, FileOrNot
  <1>2. CASE split # NotFound /\ split[2] \in MsgNames
    <2>1. DOMAIN results = 1 .. 2
      BY DEF Pkgs
    <2>2. ASSUME NEW i \in 1 .. 2
          PROVE  results[i] \in FileOrNot
      <3>1. \A n \in DOMAIN Pkgs[i] : Pkgs[i][n] \in Dirs
        BY DEF Pkgs, PartsInv, ScanIInv, ScanTypeOK, IndexIsTrue
      <3>2. ASSUME NEW d \in Dirs, NEW name \in MsgNames
            PROVE  InPackage[d][name] \in FileOrNot
        <4> DEFINE two == <<Conventional[d][name], SearchForMsg[SearchDepth][d][name]>>
        <4>1. DOMAIN two = 1 .. 2 /\ \A k \in 1 .. 2 : two[k] \in FileOrNot
          BY ConventionalFindsFiles, SearchFindsFiles
        <4>2. InPackage[d][name] = FirstFound(two)
          BY DEF InPackage
        <4> HIDE DEF two
        <4> QED  BY <4>1, <4>2, FirstFoundIsHit
      <3>3. \/ results[i] = NotFound
            \/ /\ split[1] \in DOMAIN Pkgs[i]
               /\ results[i] = InPackage[Pkgs[i][split[1]]][split[2]]
        BY <2>1
      <3> QED  BY <1>2, <3>1, <3>2, <3>3 DEF FileOrNot
    <2>3. FindMsgFile(type) = FirstFound(results)
      BY <1>2 DEF FindMsgFile, FileIn
    <2> HIDE DEF results
    <2> QED  BY <2>1, <2>2, <2>3, FirstFoundIsHit
  <1> QED  BY <1>1, <1>2

-----------------------------------------------------------------------------
(* Sequences of whatever they hold                                         *)

\* A function on 1 .. n.
LEMMA RangeSeq ==
    ASSUME NEW n \in Nat, NEW s, s = [i \in 1 .. n |-> s[i]]
    PROVE  s \in Seq(Range(s)) /\ Len(s) = n /\ DOMAIN s = 1 .. n
  <1>1. DOMAIN s = 1 .. n
    OBVIOUS
  <1>2. \A i \in 1 .. n : s[i] \in Range(s)
    BY <1>1 DEF Range
  <1>3. s \in [1 .. n -> Range(s)]
    BY <1>1, <1>2
  <1>4. [1 .. n -> Range(s)] \subseteq Seq(Range(s))
    BY SeqDef
  <1>5. s \in Seq(Range(s))
    BY <1>3, <1>4
  <1>6. Len(s) \in Nat /\ DOMAIN s = 1 .. Len(s)
    BY <1>5, LenProperties
  <1> QED  BY <1>1, <1>5, <1>6

\* Adding to its end.
LEMMA RangeAppend ==
    ASSUME NEW s, s \in Seq(Range(s)), NEW e
    PROVE  /\ Append(s, e) \in Seq(Range(Append(s, e)))
           /\ Len(s) \in Nat /\ Len(Append(s, e)) = Len(s) + 1
           /\ DOMAIN s = 1 .. Len(s) /\ DOMAIN Append(s, e) = 1 .. Len(s) + 1
           /\ \A i \in 1 .. Len(s) : Append(s, e)[i] = s[i]
           /\ Append(s, e)[Len(s) + 1] = e
  <1> DEFINE S == Range(s) \cup {e}
             t == Append(s, e)
  <1>1. s \in Seq(S) /\ e \in S
    BY SeqMonotonic
  <1> HIDE DEF S
  <1>2. /\ t \in Seq(S) /\ Len(t) = Len(s) + 1
        /\ \A i \in 1 .. Len(s) : t[i] = s[i]
        /\ t[Len(s) + 1] = e
    BY <1>1, AppendProperties
  <1>3. Len(s) \in Nat /\ DOMAIN s = 1 .. Len(s)
    BY <1>1, LenProperties
  <1>4. DOMAIN t = 1 .. Len(t)
    BY <1>2, LenProperties
  <1>5. t \in Seq(Range(t))
    BY <1>2, SeqOfRange
  <1> QED  BY <1>2, <1>3, <1>4, <1>5

\* Changing one of its elements.
LEMMA RangeExcept ==
    ASSUME NEW s, s \in Seq(Range(s)), NEW k \in 1 .. Len(s), NEW e
    PROVE  /\ [s EXCEPT ![k] = e] \in Seq(Range([s EXCEPT ![k] = e]))
           /\ Len([s EXCEPT ![k] = e]) = Len(s)
           /\ DOMAIN s = 1 .. Len(s) /\ DOMAIN [s EXCEPT ![k] = e] = 1 .. Len(s)
           /\ \A i \in 1 .. Len(s) : i # k => [s EXCEPT ![k] = e][i] = s[i]
           /\ [s EXCEPT ![k] = e][k] = e
  <1> DEFINE S == Range(s) \cup {e}
             t == [s EXCEPT ![k] = e]
  <1>1. s \in Seq(S) /\ e \in S
    BY SeqMonotonic
  <1> HIDE DEF S
  <1>2. /\ t \in Seq(S) /\ Len(t) = Len(s)
        /\ \A i \in 1 .. Len(s) : t[i] = IF i = k THEN e ELSE s[i]
    BY <1>1, ExceptSeq
  <1>3. Len(s) \in Nat /\ DOMAIN s = 1 .. Len(s)
    BY <1>1, LenProperties
  <1>4. DOMAIN t = 1 .. Len(t)
    BY <1>2, LenProperties
  <1>5. t \in Seq(Range(t))
    BY <1>2, SeqOfRange
  <1> HIDE DEF t
  <1> QED  BY <1>2, <1>3, <1>4, <1>5 DEF t

\* Taking away its last.
LEMMA RangeFront ==
    ASSUME NEW s, s \in Seq(Range(s)), s # <<>>
    PROVE  /\ Front(s) \in Seq(Range(Front(s)))
           /\ Len(s) \in Nat /\ Len(s) >= 1 /\ Len(Front(s)) = Len(s) - 1
           /\ DOMAIN s = 1 .. Len(s) /\ DOMAIN Front(s) = 1 .. Len(s) - 1
           /\ \A i \in 1 .. Len(s) - 1 : Front(s)[i] = s[i]
  <1> DEFINE S == Range(s)
             n == Len(s)
             t == SubSeq(s, 1, n - 1)
  <1>1. s \in Seq(S)
    OBVIOUS
  <1> HIDE DEF S
  <1>2. n \in Nat /\ DOMAIN s = 1 .. n /\ n >= 1
    BY <1>1, LenProperties, EmptySeq
  <1> HIDE DEF n
  <1>3. \A i \in 1 .. n - 1 : s[i] \in S
    <2>1. \A i \in 1 .. n : s[i] \in S
      BY <1>1, ElementOfSeq DEF n
    <2> QED  BY <1>2, <2>1
  <1>4. /\ t \in Seq(S) /\ Len(t) = IF 1 <= n - 1 THEN n - 1 - 1 + 1 ELSE 0
        /\ \A i \in 1 .. n - 1 - 1 + 1 : t[i] = s[1 + i - 1]
    BY <1>2, <1>3, SubSeqProperties
  <1>5. Len(t) = n - 1
    BY <1>2, <1>4
  <1>6. ASSUME NEW i \in 1 .. n - 1 PROVE t[i] = s[i]
    <2>1. i \in 1 .. n - 1 - 1 + 1 /\ 1 + i - 1 = i
      BY <1>2
    <2> QED  BY <1>4, <2>1
  <1>7. DOMAIN t = 1 .. Len(t) /\ t \in Seq(Range(t))
    BY <1>4, LenProperties, SeqOfRange
  <1>8. Front(s) = t
    BY DEF Front, n
  <1> HIDE DEF t
  <1> QED  BY <1>2, <1>5, <1>6, <1>7, <1>8 DEF n

-----------------------------------------------------------------------------
(* The stack of the parser                                                 *)

\* What ParseTypeOK says of it, of any.
StackOK(s) ==
    /\ s \in Seq(Range(s))
    /\ Len(s) <= MaxNesting
    /\ \A i \in DOMAIN s : /\ s[i] \in Frames(Depth(i))
                           /\ Len(s[i].type) = 3 /\ s[i].type[2] = "msg"

\* The file of a message type, with a message type for its type.
FrameOK(f, depth) ==
    f \in Frames(depth) /\ Len(f.type) = 3 /\ f.type[2] = "msg"

\* No file being parsed.
LEMMA EmptyStackOK == StackOK(<<>>)
  <1>1. DOMAIN <<>> = {} /\ Len(<<>>) = 0
    OBVIOUS
  <1>2. <<>> \in Seq(Range(<<>>))
    BY EmptySeq
  <1> QED  BY <1>1, <1>2, NestingAssumption DEF StackOK

\* One more, inside.
LEMMA PushKeepsStack ==
    ASSUME NEW s, StackOK(s), Len(s) < MaxNesting, NEW f, FrameOK(f, Depth(Len(s) + 1))
    PROVE  StackOK(Append(s, f))
  <1> DEFINE t == Append(s, f)
  <1>1. /\ t \in Seq(Range(t)) /\ Len(s) \in Nat /\ Len(t) = Len(s) + 1
        /\ DOMAIN s = 1 .. Len(s) /\ DOMAIN t = 1 .. Len(s) + 1
        /\ \A i \in 1 .. Len(s) : t[i] = s[i]
        /\ t[Len(s) + 1] = f
    BY RangeAppend DEF StackOK
  <1> HIDE DEF t
  <1>2. \A n \in Nat : n < MaxNesting => n + 1 <= MaxNesting
    BY NestingAssumption
  <1>3. Len(t) <= MaxNesting
    BY <1>1, <1>2
  <1>4. ASSUME NEW i \in DOMAIN t PROVE FrameOK(t[i], Depth(i))
    <2>1. CASE i \in DOMAIN s
      <3>1. t[i] = s[i]
        BY <1>1, <2>1
      <3> QED  BY <2>1, <3>1 DEF StackOK, FrameOK
    <2>2. CASE i = Len(s) + 1
      BY <1>1, <2>2
    <2>3. \A n \in Nat : \A j \in 1 .. n + 1 : j \in 1 .. n \/ j = n + 1
      OBVIOUS
    <2> QED  BY <1>1, <2>1, <2>2, <2>3
  <1> QED  BY <1>1, <1>3, <1>4 DEF StackOK, FrameOK, t

\* Another state of one of them.
LEMMA ChangeKeepsStack ==
    ASSUME NEW s, StackOK(s), NEW k \in 1 .. Len(s), NEW f, FrameOK(f, Depth(k))
    PROVE  StackOK([s EXCEPT ![k] = f])
  <1> DEFINE t == [s EXCEPT ![k] = f]
  <1>1. /\ t \in Seq(Range(t)) /\ Len(t) = Len(s)
        /\ DOMAIN s = 1 .. Len(s) /\ DOMAIN t = 1 .. Len(s)
        /\ \A i \in 1 .. Len(s) : i # k => t[i] = s[i]
        /\ t[k] = f
    BY RangeExcept DEF StackOK
  <1> HIDE DEF t
  <1>2. ASSUME NEW i \in DOMAIN t PROVE FrameOK(t[i], Depth(i))
    <2>1. CASE i = k
      BY <1>1, <2>1
    <2>2. CASE i # k
      <3>1. t[i] = s[i] /\ i \in DOMAIN s
        BY <1>1, <2>2
      <3> QED  BY <3>1 DEF StackOK, FrameOK
    <2> QED  BY <2>1, <2>2
  <1>3. Len(t) <= MaxNesting
    BY <1>1 DEF StackOK
  <1> QED  BY <1>1, <1>2, <1>3 DEF StackOK, FrameOK, t

\* One less.
LEMMA PopKeepsStack ==
    ASSUME NEW s, StackOK(s), s # <<>>
    PROVE  StackOK(Front(s))
  <1> DEFINE t == Front(s)
  <1>1. /\ t \in Seq(Range(t))
        /\ Len(s) \in Nat /\ Len(s) >= 1 /\ Len(t) = Len(s) - 1
        /\ DOMAIN s = 1 .. Len(s) /\ DOMAIN t = 1 .. Len(s) - 1
        /\ \A i \in 1 .. Len(s) - 1 : t[i] = s[i]
    BY RangeFront DEF StackOK
  <1> HIDE DEF t
  <1>2. \A n \in Nat : n <= MaxNesting => n - 1 <= MaxNesting
    BY NestingAssumption
  <1>3. Len(t) <= MaxNesting
    BY <1>1, <1>2 DEF StackOK
  <1>4. ASSUME NEW i \in DOMAIN t PROVE FrameOK(t[i], Depth(i))
    <2>1. i \in DOMAIN s /\ t[i] = s[i]
      BY <1>1
    <2> QED  BY <2>1 DEF StackOK, FrameOK
  <1> QED  BY <1>1, <1>3, <1>4 DEF StackOK, FrameOK, t

\* The file being parsed.
LEMMA TopOfStack ==
    ASSUME StackOK(stack), stack # <<>>
    PROVE  /\ Len(stack) \in 1 .. MaxNesting /\ DOMAIN stack = 1 .. Len(stack)
           /\ Top = stack[Len(stack)] /\ FrameOK(Top, Depth(Len(stack)))
           /\ Depth(Len(stack)) \in 1 .. MaxNesting
           /\ Top.rest \in Seq(Lines) /\ Top.name \in STRING /\ Top.array \in Seq(Nat)
           /\ Top.type \in Types /\ Top.type[1] \in STRING
           /\ Top.fields \in FieldTrees[Depth(Len(stack))]
  <1>1. Len(stack) \in Nat /\ DOMAIN stack = 1 .. Len(stack) /\ Len(stack) >= 1
    BY RangeFront DEF StackOK
  <1>2. Len(stack) \in DOMAIN stack /\ Len(stack) \in 1 .. MaxNesting
    BY <1>1 DEF StackOK
  <1>3. Top = stack[Len(stack)]
    BY DEF Top, Last
  <1>4. FrameOK(Top, Depth(Len(stack)))
    BY <1>2, <1>3 DEF StackOK, FrameOK
  <1>5. \A n \in 1 .. MaxNesting : MaxNesting + 1 - n \in 1 .. MaxNesting
    BY NestingAssumption
  <1>6. /\ Top.rest \in Seq(Lines) /\ Top.name \in STRING /\ Top.array \in Seq(Nat)
        /\ Top.type \in Types /\ Top.fields \in FieldTrees[Depth(Len(stack))]
    BY <1>4 DEF FrameOK, Frames
  <1>7. Top.type[1] \in STRING
    <2>1. 1 \in 1 .. Len(Top.type)
      BY <1>4 DEF FrameOK
    <2> QED  BY <1>6, <2>1, ElementOfSeq DEF Types
  <1> QED  BY <1>1, <1>2, <1>3, <1>4, <1>5, <1>6, <1>7 DEF Depth

\* No fields are fields of any depth.
LEMMA NoFields == \A d \in 0 .. MaxNesting : <<>> \in FieldTrees[d]
  <1>1. ASSUME NEW d \in 1 .. MaxNesting PROVE <<>> \in FieldTrees[d]
    BY FieldTreesDef, EmptySeq
  <1>2. \A d \in 0 .. MaxNesting : d = 0 \/ d \in 1 .. MaxNesting
    BY NestingAssumption
  <1> QED  BY <1>1, <1>2, FieldTreesDef

\* A file that can be opened is one, and its message's type one of three parts.
LEMMA OpenedIsFile ==
    ASSUME PartsInv, NEW type, CanOpen(type)
    PROVE  /\ FindMsgFile(type) \in DOMAIN FileTexts
           /\ source[FindMsgFile(type)] \in Seq(Lines)
           /\ Len(type) \in {2, 3} /\ (Len(type) = 3 => type[2] = "msg")
  <1>1. FindMsgFile(type) \in DOMAIN FileTexts
    BY TypesHaveFiles DEF CanOpen, FileOrNot
  <1>2. source[FindMsgFile(type)] \in Seq(Lines)
    BY <1>1 DEF PartsInv
  <1>3. Len(type) = 2 \/ (Len(type) = 3 /\ type[2] = "msg")
    <2> SUFFICES ASSUME Len(type) # 2, ~(Len(type) = 3 /\ type[2] = "msg") PROVE FALSE
      OBVIOUS
    <2>1. SplitTypePath(type) = NotFound
      BY DEF SplitTypePath
    <2> QED  BY <2>1 DEF FindMsgFile, FileIn, CanOpen
  <1> QED  BY <1>1, <1>2, <1>3

\* A file that has been opened is one of the stack.
LEMMA OpenedIsFrame ==
    ASSUME PartsInv, NEW type \in Types, Len(type) = 3, CanOpen(type),
           NEW name \in STRING, NEW array \in Seq(Nat), NEW depth \in 0 .. MaxNesting
    PROVE  FrameOK(Frame(type, name, array), depth)
  <1>1. source[FindMsgFile(type)] \in Seq(Lines) /\ type[2] = "msg"
    BY OpenedIsFile
  <1>2. <<>> \in FieldTrees[depth]
    BY NoFields
  <1>3. Frame(type, name, array) \in Frames(depth)
    BY <1>1, <1>2 DEF Frame, Frames
  <1>4. Frame(type, name, array).type = type
    BY DEF Frame
  <1> QED  BY <1>1, <1>3, <1>4 DEF FrameOK

\* What is read off a line.
LEMMA PrimsOfLines ==
    ASSUME NEW line \in Lines
    PROVE  /\ IsPrimLine(line) => PrimOf(line) \in Prims
           /\ ArrayOf(line) \in Seq(Nat) /\ line.name \in STRING /\ line.base \in Types
  <1>1. line.length \in Nat /\ line.name \in STRING /\ line.base \in Types
    BY DEF Lines
  <1>2. ArrayOf(line) \in Seq(Nat)
    BY <1>1 DEF ArrayOf
  <1>3. IsPrimLine(line) => PrimOf(line) \in Prims
    <2>1. "string" \in Prims
      BY DEF Prims
    <2> QED  BY <2>1 DEF IsPrimLine, PrimOf, IsPrimitive, ParsePrimitive
  <1> QED  BY <1>1, <1>2, <1>3

\* A sequence of three.
LEMMA ThreeParts ==
    ASSUME NEW S, NEW a \in S, NEW b \in S, NEW c \in S
    PROVE  <<a, b, c>> \in Seq(S) /\ Len(<<a, b, c>>) = 3
  OBVIOUS

\* And two with a sequence behind them.
LEMMA TwoPartsAndMore ==
    ASSUME NEW S, NEW a \in S, NEW b \in S, NEW s \in Seq(S), Len(s) # 0
    PROVE  <<a, b>> \o s \in Seq(S) /\ Len(<<a, b>> \o s) >= 3
  <1>1. <<a, b>> \in Seq(S) /\ Len(<<a, b>>) = 2
    OBVIOUS
  <1> DEFINE t == <<a, b>>
  <1> HIDE DEF t
  <1>2. t \o s \in Seq(S) /\ Len(t \o s) = Len(t) + Len(s)
    BY <1>1, ConcatProperties DEF t
  <1>3. Len(s) \in Nat /\ Len(t) = 2
    BY <1>1, LenProperties DEF t
  <1>4. Len(t \o s) >= 3
    BY <1>2, <1>3
  <1> QED  BY <1>2, <1>4 DEF t

\* A nested type is resolved to a type of three parts, or of more than are known.
LEMMA NestedTypesOfLines ==
    ASSUME NEW base \in Types, base # <<>>, NEW pkg \in STRING
    PROVE  /\ ResolveNestedType(base, pkg) \in Types
           /\ Len(ResolveNestedType(base, pkg)) >= 3
  <1>1. Len(base) \in Nat /\ \A i \in 1 .. Len(base) : base[i] \in STRING
    BY LenProperties, ElementOfSeq DEF Types
  <1>2. Len(base) # 0
    BY EmptySeq DEF Types
  <1>3. base[1] \in STRING /\ (Len(base) = 2 => base[2] \in STRING)
    BY <1>1, <1>2
  <1>4. \A a, b \in STRING : <<a, "msg", b>> \in Types /\ Len(<<a, "msg", b>>) = 3
    BY WordsAreStrings, ThreeParts DEF Types
  <1>5. <<"std_msgs", "msg", "Header">> \in Types
         /\ Len(<<"std_msgs", "msg", "Header">>) = 3
    BY WordsAreStrings, ThreeParts DEF Types
  <1>6. <<pkg, "msg">> \o base \in Types /\ Len(<<pkg, "msg">> \o base) >= 3
    <2>1. "msg" \in STRING
      BY WordsAreStrings
    <2> QED  BY <1>2, <2>1, TwoPartsAndMore DEF Types
  <1>7. /\ ResolveNestedType(base, pkg) \in Types
        /\ \/ Len(ResolveNestedType(base, pkg)) = 3
           \/ Len(ResolveNestedType(base, pkg)) >= 3
    BY <1>3, <1>4, <1>5, <1>6, Zenon DEF ResolveNestedType
  <1>8. \A n : n = 3 \/ n >= 3 => n >= 3
    OBVIOUS
  <1> QED  BY <1>7, <1>8, Zenon

\* The line being read.
LEMMA LineOfStack ==
    ASSUME StackOK(stack), AtLine
    PROVE  /\ Line \in Lines /\ Line = Top.rest[1]
           /\ Tail(Top.rest) \in Seq(Lines)
           /\ StackOK(Advanced) /\ Len(Advanced) = Len(stack)
           /\ Advanced = [stack EXCEPT ![Len(stack)] = [Top EXCEPT !.rest = Tail(Top.rest)]]
           /\ FrameOK([Top EXCEPT !.rest = Tail(Top.rest)], Depth(Len(stack)))
  <1>1. stack # <<>> /\ Top.rest # <<>>
    BY DEF AtLine
  <1>2. /\ Len(stack) \in 1 .. MaxNesting /\ Len(stack) \in 1 .. Len(stack)
        /\ Top = stack[Len(stack)] /\ FrameOK(Top, Depth(Len(stack)))
        /\ Top.rest \in Seq(Lines)
    BY <1>1, TopOfStack
  <1>3. /\ Head(Top.rest) \in Lines /\ Tail(Top.rest) \in Seq(Lines)
    BY <1>1, <1>2, HeadTailProperties
  <1>4. Head(Top.rest) = Top.rest[1]
    BY <1>1, <1>2
  <1> DEFINE f == [Top EXCEPT !.rest = Tail(Top.rest)]
  <1>5. f \in Frames(Depth(Len(stack)))
    BY <1>2, <1>3 DEF FrameOK, Frames
  <1>6. f.type = Top.type
    BY <1>5 DEF Frames
  <1>7. FrameOK(f, Depth(Len(stack)))
    BY <1>2, <1>5, <1>6 DEF FrameOK
  <1>8. Advanced = [stack EXCEPT ![Len(stack)] = f]
    BY <1>2 DEF Advanced
  <1> HIDE DEF f
  <1>9. StackOK([stack EXCEPT ![Len(stack)] = f])
    BY <1>2, <1>7, ChangeKeepsStack
  <1>10. Len([stack EXCEPT ![Len(stack)] = f]) = Len(stack)
    BY <1>2, RangeExcept DEF StackOK
  <1> QED  BY <1>3, <1>4, <1>7, <1>8, <1>9, <1>10 DEF Line, f

-----------------------------------------------------------------------------
(* Types of what is parsed                                                 *)

\* A field of a line goes with those of its file.
LEMMA FieldKeepsFrame ==
    ASSUME NEW depth \in 1 .. MaxNesting, NEW f, FrameOK(f, depth),
           NEW field \in FieldsWith(FieldTrees[depth - 1])
    PROVE  FrameOK([f EXCEPT !.fields = Append(f.fields, field)], depth)
  <1> DEFINE S == FieldsWith(FieldTrees[depth - 1])
             g == [f EXCEPT !.fields = Append(f.fields, field)]
  <1>1. FieldTrees[depth] = Seq(S)
    BY FieldTreesDef
  <1> HIDE DEF S
  <1>2. f.fields \in Seq(S) /\ field \in S
    BY <1>1 DEF FrameOK, Frames, S
  <1>3. Append(f.fields, field) \in FieldTrees[depth]
    BY <1>1, <1>2, AppendProperties
  <1>4. g \in Frames(depth) /\ g.type = f.type
    BY <1>3 DEF FrameOK, Frames
  <1> HIDE DEF g
  <1> QED  BY <1>4 DEF FrameOK, g

\* A primitive field.
LEMMA PrimFieldIsField ==
    ASSUME NEW depth \in 0 .. MaxNesting, NEW line \in Lines, IsPrimLine(line)
    PROVE  PrimFieldOf(line.name, PrimOf(line), ArrayOf(line))
               \in FieldsWith(FieldTrees[depth])
  <1>1. <<>> \in FieldTrees[depth] /\ <<>> \in Types
    BY NoFields, EmptySeq DEF Types
  <1>2. PrimOf(line) \in Prims /\ ArrayOf(line) \in Seq(Nat) /\ line.name \in STRING
    BY PrimsOfLines
  <1> QED  BY <1>1, <1>2 DEF PrimFieldOf, FieldsWith

\* Its field goes with those of the file being parsed.
LEMMA PrimFieldKeepsStack ==
    ASSUME StackOK(stack), PrimField
    PROVE  StackOK(stack')
  <1> DEFINE n == Len(stack)
             field == PrimFieldOf(Line.name, PrimOf(Line), ArrayOf(Line))
             f == [Top EXCEPT !.rest = Tail(Top.rest)]
             g == [f EXCEPT !.fields = Append(f.fields, field)]
  <1>1. AtLine /\ stack # <<>> /\ IsPrimLine(Line)
    BY DEF PrimField, AtField, AtLine, AtPrim
  <1>2. n \in 1 .. MaxNesting /\ n \in 1 .. n /\ Depth(n) \in 1 .. MaxNesting
    BY <1>1, TopOfStack
  <1>3. /\ Line \in Lines /\ StackOK(Advanced) /\ Len(Advanced) = n
        /\ Advanced = [stack EXCEPT ![n] = f] /\ FrameOK(f, Depth(n))
    BY <1>1, LineOfStack
  <1>4. Depth(n) - 1 \in 0 .. MaxNesting
    BY <1>2, NestingAssumption
  <1>5. field \in FieldsWith(FieldTrees[Depth(n) - 1])
    BY <1>1, <1>3, <1>4, PrimFieldIsField
  <1>6. stack' = [Advanced EXCEPT ![n].fields = Append(@, field)]
    BY DEF PrimField
  <1>7. n \in DOMAIN stack
    BY <1>1, TopOfStack
  <1> HIDE DEF n, field, f
  <1>8. FrameOK(g, Depth(n))
    BY <1>2, <1>3, <1>5, FieldKeepsFrame
  <1>9. Advanced[n] = f
    BY <1>3, <1>7
  <1>10. stack' = [Advanced EXCEPT ![n] = g]
    BY <1>6, <1>9
  <1> HIDE DEF g
  <1> QED  BY <1>2, <1>3, <1>8, <1>10, ChangeKeepsStack

\* A nested type's file goes on the stack, one below the file it is met in.
LEMMA NestedFieldKeepsStack ==
    ASSUME PartsInv, StackOK(stack), NestedField
    PROVE  StackOK(stack') /\ FindMsgFile(NestedType) \in DOMAIN FileTexts
  <1>1. /\ AtLine /\ stack # <<>> /\ ~IsSkippedLine(Line)
        /\ Open(NestedType, Line.name, ArrayOf(Line), Advanced)
    BY DEF NestedField, AtField, AtLine
  <1>2. /\ Line \in Lines /\ StackOK(Advanced) /\ Len(Advanced) = Len(stack)
    BY <1>1, LineOfStack
  <1>3. ArrayOf(Line) \in Seq(Nat) /\ Line.name \in STRING /\ Line.base \in Types
    BY <1>2, PrimsOfLines
  <1>4. Line.base # <<>> /\ Top.type[1] \in STRING
    BY <1>1, TopOfStack DEF IsSkippedLine
  <1>5. NestedType \in Types /\ Len(NestedType) >= 3
    BY <1>3, <1>4, NestedTypesOfLines DEF NestedType
  <1>6. /\ CanOpen(NestedType) /\ Len(stack) < MaxNesting
        /\ stack' = Append(Advanced, Frame(NestedType, Line.name, ArrayOf(Line)))
    BY <1>1 DEF Open, CanOpen
  <1>7. Len(NestedType) = 3
    <2>1. Len(NestedType) \in {2, 3}
      BY <1>6, OpenedIsFile
    <2> QED  BY <1>5, <2>1
  <1>8. Len(stack) \in 1 .. MaxNesting
    BY <1>1, TopOfStack
  <1>9. Depth(Len(stack) + 1) \in 0 .. MaxNesting
    <2>1. \A n \in 1 .. MaxNesting : n < MaxNesting =>
             MaxNesting + 1 - (n + 1) \in 0 .. MaxNesting
      BY NestingAssumption
    <2> QED  BY <1>6, <1>8, <2>1 DEF Depth
  <1> DEFINE g == Frame(NestedType, Line.name, ArrayOf(Line))
  <1>10. FrameOK(g, Depth(Len(stack) + 1))
    BY <1>3, <1>5, <1>6, <1>7, <1>9, OpenedIsFrame
  <1> HIDE DEF g
  <1>11. StackOK(Append(Advanced, g))
    BY <1>2, <1>6, <1>10, PushKeepsStack
  <1> QED  BY <1>6, <1>11, OpenedIsFile DEF g

\* A nested type's fields are those of a field of the file it was met in.
LEMMA EndNestedKeepsStack ==
    ASSUME StackOK(stack), EndNested
    PROVE  StackOK(stack')
  <1> DEFINE n == Len(stack)
             field == NestedFieldOf(Top.name, Top.type, Top.fields, Top.array)
             f == stack[n - 1]
             g == [f EXCEPT !.fields = Append(f.fields, field)]
  <1>1. stack # <<>> /\ n > 1
    BY DEF EndNested, AtEnd
  <1>2. /\ n \in 1 .. MaxNesting /\ DOMAIN stack = 1 .. n
        /\ Top.name \in STRING /\ Top.array \in Seq(Nat) /\ Top.type \in Types
        /\ Top.fields \in FieldTrees[Depth(n)]
    BY <1>1, TopOfStack
  <1>3. /\ n - 1 \in 1 .. MaxNesting /\ Depth(n - 1) \in 1 .. MaxNesting
        /\ Depth(n - 1) - 1 = Depth(n)
    <2>1. \A k \in 1 .. MaxNesting : k > 1 =>
             /\ k - 1 \in 1 .. MaxNesting /\ MaxNesting + 1 - (k - 1) \in 1 .. MaxNesting
             /\ (MaxNesting + 1 - (k - 1)) - 1 = MaxNesting + 1 - k
      BY NestingAssumption
    <2> QED  BY <1>1, <1>2, <2>1 DEF Depth
  <1>4. field \in FieldsWith(FieldTrees[Depth(n - 1) - 1])
    BY <1>2, <1>3 DEF NestedFieldOf, FieldsWith
  <1>5. StackOK(Front(stack)) /\ Len(Front(stack)) = n - 1
    BY <1>1, PopKeepsStack, RangeFront DEF StackOK
  <1>6. /\ \A i \in 1 .. n - 1 : Front(stack)[i] = stack[i]
        /\ DOMAIN Front(stack) = 1 .. n - 1
    BY <1>1, RangeFront DEF StackOK
  <1>7. n - 1 \in 1 .. n - 1 /\ n - 1 \in 1 .. n
    BY <1>1, <1>2
  <1>8. Front(stack)[n - 1] = f
    BY <1>6, <1>7
  <1>9. FrameOK(f, Depth(n - 1))
    BY <1>2, <1>7 DEF StackOK, FrameOK
  <1>10. stack' = [Front(stack) EXCEPT ![n - 1].fields = Append(@, field)]
    BY DEF EndNested
  <1> HIDE DEF n, field, f
  <1>11. FrameOK(g, Depth(n - 1))
    BY <1>3, <1>4, <1>9, FieldKeepsFrame
  <1>12. stack' = [Front(stack) EXCEPT ![n - 1] = g]
    BY <1>8, <1>10
  <1> HIDE DEF g
  <1> QED  BY <1>5, <1>7, <1>11, <1>12, ChangeKeepsStack

\* The fields of a topic are those of a message.
LEMMA EndTopicKeepsFields ==
    ASSUME StackOK(stack), fieldsOf \in Seq(MsgFieldSeqs), EndTopic
    PROVE  /\ fieldsOf' \in Seq(MsgFieldSeqs) /\ Len(fieldsOf') = Len(fieldsOf) + 1
  <1>1. stack # <<>> /\ Len(stack) = 1
    BY DEF EndTopic, AtEnd
  <1>2. Top.fields \in FieldTrees[Depth(1)]
    BY <1>1, TopOfStack
  <1>3. Depth(1) = MaxNesting
    BY NestingAssumption DEF Depth
  <1>4. Top.fields \in MsgFieldSeqs
    BY <1>2, <1>3 DEF MsgFieldSeqs
  <1>5. fieldsOf' = Append(fieldsOf, Top.fields)
    BY DEF EndTopic
  <1> QED  BY <1>4, <1>5, AppendProperties

\* A step begins what is parsed, goes on with it, or has nothing to do with it.
LEMMA ParseStep ==
    ASSUME [Next]_vars
    PROVE  UserScanned \/ StartTopic \/ Parse \/ UNCHANGED parseVars
  <1>1. CASE Begin  BY <1>1 DEF Begin
  <1>2. CASE Interrupt  BY <1>2 DEF Interrupt
  <1>3. ASSUME NEW f, NEW lines, EditMsg(f, lines) PROVE UNCHANGED parseVars
    BY <1>3 DEF EditMsg
  <1>4. ASSUME NEW text, EditToml(text) PROVE UNCHANGED parseVars
    BY <1>4 DEF EditToml
  <1>5. ASSUME NEW i, Publish(i) PROVE UNCHANGED parseVars
    BY <1>5 DEF Publish, Unchanged
  <1>6. CASE Serialize  BY <1>6 DEF Serialize, Unchanged
  <1>7. CASE Run
    <2>1. CASE ReadArgs \/ BadArgs \/ BadToml \/ BadScan
      BY <2>1 DEF ReadArgs, BadArgs, BadToml, BadScan, Fail
    <2>2. CASE ReadToml \/ RosScanned \/ Scan
      BY <2>2 DEF ReadToml, RosScanned, Scan
    <2>3. CASE BadTopic \/ BadParse \/ IdsOverflow
      BY <2>3 DEF BadTopic, BadParse, IdsOverflow, Fail
    <2>4. CASE Generate
      BY <2>4 DEF Generate, CreateOutputs, AssignIds, IdsAssigned, EmitTopic,
                  WriteTables, WriteDepfile, Writes
    <2> QED  BY <1>7, <2>1, <2>2, <2>3, <2>4 DEF Run
  <1>8. CASE UNCHANGED vars  BY <1>8 DEF vars
  <1> QED  BY <1>1, <1>2, <1>3, <1>4, <1>5, <1>6, <1>7, <1>8 DEF Next

\* A topic's file is the first on the stack.
LEMMA StartTopicKeepsStack ==
    ASSUME PartsInv, ParseTypeOK, StartTopic
    PROVE  /\ StackOK(stack') /\ FindMsgFile(NextTopic.msg_type) \in DOMAIN FileTexts
           /\ Len(fieldsOf) < Len(config) /\ phase = "parse"
           /\ readFiles' = readFiles \cup {FindMsgFile(NextTopic.msg_type)}
           /\ stack' = Append(<<>>, Frame(NextTopic.msg_type, "", <<>>))
           /\ UNCHANGED <<fieldsOf, parseFailed, config, phase, source>>
  <1> DEFINE type == NextTopic.msg_type
  <1>1. /\ BetweenTopics /\ Len(fieldsOf) < Len(config) /\ ValidTopicType(type)
        /\ Open(type, "", <<>>, <<>>)
        /\ UNCHANGED <<config, phase, source>>
    BY DEF StartTopic, ReadsOnly, fileVars, processVars
  <1>2. phase = "parse" /\ stack = <<>> /\ Len(stack) = 0
    BY <1>1 DEF BetweenTopics
  <1>3. type \in Types /\ Len(type) = 3
    <2> DEFINE C == [name : TopicNames, topic_type : TopicTypes, msg_type : Types,
                     qos : STRING]
    <2>1. config \in Seq(C)
      BY DEF PartsInv, Configs
    <2> HIDE DEF C
    <2>2. Len(config) \in Nat /\ Len(fieldsOf) \in Nat
      BY <2>1, LenProperties DEF ParseTypeOK
    <2>3. Len(fieldsOf) + 1 \in 1 .. Len(config)
      <3>1. \A a, b \in Nat : a < b => a + 1 \in 1 .. b
        OBVIOUS
      <3>2. Len(fieldsOf) < Len(config)
        BY <1>1
      <3> QED  BY <2>2, <3>1, <3>2
    <2>4. NextTopic \in C
      BY <2>1, <2>3, ElementOfSeq DEF NextTopic
    <2>5. type \in Types
      BY <2>4 DEF C
    <2> QED  BY <2>5, <1>1 DEF ValidTopicType
  <1>4. /\ CanOpen(type) /\ 0 < MaxNesting
        /\ stack' = Append(<<>>, Frame(type, "", <<>>))
        /\ readFiles' = readFiles \cup {FindMsgFile(type)}
        /\ UNCHANGED <<fieldsOf, parseFailed>>
    BY <1>1, <1>2 DEF Open, CanOpen
  <1>5. "" \in STRING /\ <<>> \in Seq(Nat)
    BY WordsAreStrings, EmptySeq
  <1>6. Depth(0 + 1) \in 0 .. MaxNesting
    BY NestingAssumption DEF Depth
  <1> HIDE DEF type
  <1> DEFINE g == Frame(type, "", <<>>)
  <1>7. FrameOK(g, Depth(0 + 1))
    BY <1>3, <1>4, <1>5, <1>6, OpenedIsFrame
  <1> HIDE DEF g
  <1>8. Len(<<>>) = 0
    OBVIOUS
  <1>9. StackOK(Append(<<>>, g))
    BY <1>4, <1>7, <1>8, EmptyStackOK, PushKeepsStack
  <1>10. FindMsgFile(type) \in DOMAIN FileTexts
    BY <1>4, OpenedIsFile
  <1> QED  BY <1>1, <1>2, <1>4, <1>9, <1>10 DEF g, type

\* What a step of the parser does to the types of what it keeps.
LEMMA ParseKeepsTypes ==
    ASSUME PartsInv, ParseTypeOK, Parse
    PROVE  /\ StackOK(stack') /\ readFiles' \subseteq DOMAIN source
           /\ fieldsOf' \in Seq(MsgFieldSeqs) /\ parseFailed' \in BOOLEAN
           /\ \/ UNCHANGED fieldsOf /\ stack # <<>>
              \/ EndTopic /\ stack' = <<>> /\ Len(fieldsOf') = Len(fieldsOf) + 1
  <1>1. /\ StackOK(stack) /\ fieldsOf \in Seq(MsgFieldSeqs) /\ parseFailed \in BOOLEAN
        /\ readFiles \subseteq DOMAIN source /\ DOMAIN source = DOMAIN FileTexts
    BY DEF ParseTypeOK, StackOK, PartsInv
  <1>2. CASE SkipLine
    <2>1. AtLine /\ stack # <<>> /\ stack' = Advanced
          /\ UNCHANGED <<readFiles, fieldsOf, parseFailed>>
      BY <1>2 DEF SkipLine, AtLine
    <2>2. StackOK(Advanced)
      BY <1>1, <2>1, LineOfStack
    <2> QED  BY <1>1, <2>1, <2>2
  <1>3. CASE BadArrayLength \/ UnresolvedField
    <2>1. stack # <<>> /\ ParseFails
      BY <1>3 DEF BadArrayLength, UnresolvedField, AtField, AtLine
    <2>2. stack' = <<>> /\ parseFailed' = TRUE /\ UNCHANGED <<readFiles, fieldsOf>>
      BY <2>1 DEF ParseFails
    <2> QED  BY <1>1, <2>1, <2>2, EmptyStackOK
  <1>4. CASE PrimField
    <2>1. stack # <<>> /\ UNCHANGED <<readFiles, fieldsOf, parseFailed>>
      BY <1>4 DEF PrimField, AtField, AtLine
    <2> QED  BY <1>1, <1>4, <2>1, PrimFieldKeepsStack
  <1>5. CASE NestedField
    <2>1. /\ stack # <<>> /\ UNCHANGED <<fieldsOf, parseFailed>>
          /\ readFiles' = readFiles \cup {FindMsgFile(NestedType)}
      BY <1>5 DEF NestedField, AtField, AtLine, Open
    <2> QED  BY <1>1, <1>5, <2>1, NestedFieldKeepsStack
  <1>6. CASE EndNested
    <2>1. stack # <<>> /\ UNCHANGED <<readFiles, fieldsOf, parseFailed>>
      BY <1>6 DEF EndNested, AtEnd
    <2> QED  BY <1>1, <1>6, <2>1, EndNestedKeepsStack
  <1>7. CASE EndTopic
    <2>1. stack' = <<>> /\ UNCHANGED <<readFiles, parseFailed>>
      BY <1>7 DEF EndTopic
    <2> QED  BY <1>1, <1>7, <2>1, EndTopicKeepsFields, EmptyStackOK
  <1> QED  BY <1>2, <1>3, <1>4, <1>5, <1>6, <1>7 DEF Parse, ParseNext

\* Any step keeps the types of what is parsed.
LEMMA StepKeepsParseTypes ==
    ASSUME PartsInv, ParseTypeOK, [Next]_vars
    PROVE  ParseTypeOK'
  <1>1. DOMAIN source' = DOMAIN source /\ DOMAIN source = DOMAIN FileTexts
    BY StepKeepsParts DEF PartsInv
  <1>2. CASE UserScanned
    <2>1. /\ readFiles' = {} /\ stack' = <<>> /\ fieldsOf' = <<>> /\ parseFailed' = FALSE
      BY <1>2 DEF UserScanned
    <2>2. StackOK(stack') /\ fieldsOf' \in Seq(MsgFieldSeqs)
      BY <2>1, EmptyStackOK, EmptySeq
    <2> QED  BY <2>1, <2>2 DEF ParseTypeOK, StackOK
  <1>3. CASE StartTopic
    BY <1>1, <1>3, StartTopicKeepsStack DEF ParseTypeOK, StackOK
  <1>4. CASE Parse
    BY <1>1, <1>4, ParseKeepsTypes DEF ParseTypeOK, StackOK
  <1>5. CASE UNCHANGED parseVars
    BY <1>1, <1>5 DEF parseVars, ParseTypeOK
  <1> QED  BY <1>2, <1>3, <1>4, <1>5, ParseStep

\* Where the phases have got to: while a topic is being parsed, there is one.
PhasesInv ==
    /\ phase \in {"idle", "args", "toml", "ros", "user", "parse", "ids", "emit",
                  "depfile"}
    /\ disk \in {"absent", "partial", "whole", "cut"}
    /\ phase = "parse" => /\ Len(fieldsOf) <= Len(config)
                          /\ stack # <<>> => Len(fieldsOf) < Len(config)
    /\ phase \in {"ids", "emit", "depfile"} => Len(fieldsOf) = Len(config)
    /\ phase \in {"emit", "depfile"} => Len(idLines) = Len(config)

\* Parsing comes to the topics one by one.
LEMMA ParsingKeepsPhases ==
    ASSUME PartsInv, ParseTypeOK, PhasesInv, UserScanned \/ StartTopic \/ Parse
    PROVE  PhasesInv'
  <1>1. Len(config) \in Nat /\ Len(fieldsOf) \in Nat
    BY LenProperties DEF PartsInv, Configs, ParseTypeOK
  <1>2. CASE UserScanned
    <2>1. /\ phase' = "parse" /\ stack' = <<>> /\ fieldsOf' = <<>>
          /\ UNCHANGED <<disk, config>>
      BY <1>2 DEF UserScanned, ReadsOnly, outputVars, processVars
    <2>2. Len(fieldsOf') = 0 /\ Len(config') = Len(config)
      BY <2>1
    <2> QED  BY <1>1, <2>1, <2>2 DEF PhasesInv
  <1>3. CASE StartTopic
    <2>1. /\ Len(fieldsOf) < Len(config) /\ phase = "parse"
          /\ UNCHANGED <<fieldsOf, config, phase>>
      BY <1>3, StartTopicKeepsStack
    <2>2. UNCHANGED disk
      BY <1>3 DEF StartTopic, ReadsOnly, outputVars
    <2>3. Len(fieldsOf)' < Len(config)' /\ Len(fieldsOf)' <= Len(config)'
      BY <1>1, <2>1
    <2> QED  BY <2>1, <2>2, <2>3 DEF PhasesInv
  <1>4. CASE Parse
    <2>1. phase = "parse" /\ UNCHANGED <<disk, phase, config>>
      BY <1>4 DEF Parse, ReadsOnly, outputVars, processVars
    <2>2. \/ UNCHANGED fieldsOf /\ stack # <<>>
          \/ EndTopic /\ stack' = <<>> /\ Len(fieldsOf') = Len(fieldsOf) + 1
      BY <1>4, ParseKeepsTypes
    <2>3. Len(fieldsOf) < Len(config)
      BY <2>1, <2>2 DEF PhasesInv, EndTopic, AtEnd
    <2>4. CASE UNCHANGED fieldsOf
      <3>1. Len(fieldsOf)' < Len(config)' /\ Len(fieldsOf)' <= Len(config)'
        BY <1>1, <2>1, <2>3, <2>4
      <3> QED  BY <2>1, <3>1 DEF PhasesInv
    <2>5. CASE stack' = <<>> /\ Len(fieldsOf') = Len(fieldsOf) + 1
      <3>1. \A a, b \in Nat : a < b => a + 1 <= b
        OBVIOUS
      <3>2. Len(fieldsOf') <= Len(config')
        BY <1>1, <2>1, <2>3, <2>5, <3>1
      <3> QED  BY <2>1, <2>5, <3>2 DEF PhasesInv
    <2> QED  BY <2>2, <2>4, <2>5
  <1> QED  BY <1>2, <1>3, <1>4

\* Any step keeps the phases in their order.
LEMMA StepKeepsPhases ==
    ASSUME PartsInv, ParseTypeOK, PhasesInv, [Next]_vars
    PROVE  PhasesInv'
  <1> USE DEF PhasesInv
  <1>1. CASE Begin
    BY <1>1 DEF Begin, outputVars
  <1>2. CASE Interrupt
    BY <1>2 DEF Interrupt, outputVars
  <1>3. ASSUME NEW f, NEW lines, EditMsg(f, lines) PROVE PhasesInv'
    BY <1>3 DEF EditMsg, outputVars, processVars, parseVars, idVars
  <1>4. ASSUME NEW text, EditToml(text) PROVE PhasesInv'
    BY <1>4 DEF EditToml, outputVars, processVars, parseVars, idVars
  <1>5. ASSUME NEW i, Publish(i) PROVE PhasesInv'
    BY <1>5 DEF Publish, Unchanged, outputVars, processVars, parseVars, idVars
  <1>6. CASE Serialize
    BY <1>6 DEF Serialize, Unchanged, outputVars, processVars, parseVars, idVars
  <1>7. CASE Run
    <2>1. CASE ReadArgs
      BY <2>1 DEF ReadArgs, ReadsOnly, outputVars
    <2>2. CASE BadArgs \/ BadToml \/ BadScan \/ BadTopic \/ BadParse
      BY <2>2 DEF BadArgs, BadToml, BadScan, BadTopic, BadParse, Fail, ReadsOnly, outputVars
    <2>3. CASE IdsOverflow
      BY <2>3 DEF IdsOverflow, Fail, ReadsOnly, outputVars
    <2>4. CASE ReadToml
      BY <2>4 DEF ReadToml, ReadsOnly, outputVars
    <2>5. CASE Scan
      BY <2>5 DEF Scan, ReadsOnly, outputVars
    <2>6. CASE RosScanned
      BY <2>6 DEF RosScanned, ReadsOnly, outputVars
    <2>7. CASE UserScanned \/ StartTopic \/ Parse
      BY <2>7, ParsingKeepsPhases
    <2>8. CASE CreateOutputs
      BY <2>8 DEF CreateOutputs, Writes, parseVars, processVars
    <2>9. CASE AssignIds
      BY <2>9 DEF AssignIds, Writes, parseVars, processVars, outputVars
    <2>10. CASE IdsAssigned
      BY <2>10 DEF IdsAssigned, Writes, parseVars, processVars, outputVars, idVars
    <2>11. CASE EmitTopic
      BY <2>11 DEF EmitTopic, Writes, parseVars, processVars, idVars
    <2>12. CASE WriteTables
      BY <2>12 DEF WriteTables, Writes, parseVars, processVars, idVars
    <2>13. CASE WriteDepfile
      BY <2>13 DEF WriteDepfile, outputVars
    <2> QED  BY <1>7, <2>1, <2>2, <2>3, <2>4, <2>5, <2>6, <2>7, <2>8, <2>9, <2>10,
                <2>11, <2>12, <2>13 DEF Run, Generate
  <1>8. CASE UNCHANGED vars
    BY <1>8 DEF vars, outputVars, processVars, parseVars, idVars
  <1> QED  BY <1>1, <1>2, <1>3, <1>4, <1>5, <1>6, <1>7, <1>8 DEF Next

-----------------------------------------------------------------------------
(* Theorems of the parts and of the types                                  *)

\* TypeOK, made inductive.
TypeIInv == PartsInv /\ ParseTypeOK /\ PhasesInv

\* The types hold at first.
LEMMA InitTypes == Init => TypeIInv
  <1> SUFFICES ASSUME Init PROVE TypeIInv
    OBVIOUS
  <1>1. PartsInv
    BY InitParts
  <1>2. /\ readFiles = {} /\ stack = <<>> /\ fieldsOf = <<>> /\ parseFailed = FALSE
        /\ phase = "idle" /\ disk = "absent"
    BY DEF Init
  <1>3. StackOK(stack) /\ fieldsOf \in Seq(MsgFieldSeqs)
    BY <1>2, EmptyStackOK, EmptySeq
  <1>4. ParseTypeOK
    BY <1>2, <1>3 DEF ParseTypeOK, StackOK
  <1>5. PhasesInv
    BY <1>2 DEF PhasesInv
  <1> QED  BY <1>1, <1>4, <1>5 DEF TypeIInv

\* The invariant of the types holds of every behaviour of the generator, its
\* build tool and its board.
THEOREM TypeInvariance == Spec => []TypeIInv
  <1>1. Init => TypeIInv
    BY InitTypes
  <1>2. TypeIInv /\ [Next]_vars => TypeIInv'
    BY StepKeepsParts, StepKeepsParseTypes, StepKeepsPhases DEF TypeIInv
  <1> QED  BY <1>1, <1>2, PTL DEF Spec

\* The files being parsed are nested no deeper than the process can bear, each
\* carries fields of that depth only, and the phases come in their order.
THEOREM GeneratorTypesAreRight == Spec => []TypeOK
  <1>1. TypeIInv => TypeOK
    <2> SUFFICES ASSUME TypeIInv PROVE TypeOK
      OBVIOUS
    <2>1. ScanTypeOK /\ IdsTypeOK /\ WalkTypeOK /\ ParseTypeOK
      BY DEF TypeIInv, PartsInv, ScanIInv, IdsIInv, WalkIInv
    <2> QED  BY <2>1 DEF TypeIInv, TypeOK, PhasesInv
  <1> QED  BY <1>1, TypeInvariance, PTL

\* The two scans of a run find every package there is below their roots.
THEOREM BuildFindsEveryPackage == Spec => []EveryPackageIsFound
  <1>1. TypeIInv => EveryPackageIsFound
    BY ClosedMeansFound DEF TypeIInv, PartsInv
  <1> QED  BY <1>1, TypeInvariance, PTL

\* No two topics of one ros.toml have an id between them, those of a run that
\* fails or is interrupted included.
THEOREM BuildTellsTopicsApart == Spec => []IdsTellTopicsApart
  <1>1. TypeIInv => IdsTellTopicsApart
    BY DEF TypeIInv, PartsInv, IdsIInv
  <1> QED  BY <1>1, TypeInvariance, PTL

\* What a serialiser of the outputs has written of a message is never more than
\* the generator's analysis makes of the same calls.
THEOREM BuildBoundsEveryMessage == Spec => []MaxSizeIsUpperBound
  <1>1. TypeIInv => MaxSizeIsUpperBound
    BY DEF TypeIInv, PartsInv, WalkIInv
  <1> QED  BY <1>1, TypeInvariance, PTL

\* And never less either, before the first string.
THEOREM BuildSizesAreTight == Spec => []SizeIsExactWithoutStrings
  <1>1. TypeIInv => SizeIsExactWithoutStrings
    BY DEF TypeIInv, PartsInv, WalkIInv
  <1> QED  BY <1>1, TypeInvariance, PTL

-----------------------------------------------------------------------------
(* Fields as they would be read at once                                    *)

\* One more line, by the fields of those before it.
WithLine(lines, pkg, inner, before, n) ==
    IF n = 0 THEN <<>>
    ELSE IF IsSkippedLine(lines[n]) THEN before
    ELSE Append(before, FieldOf(lines[n], pkg, inner))

\* The fields of each number of lines up to n.
LinesUpTo(lines, pkg, inner, g, n) ==
    g = [k \in 0 .. n |-> WithLine(lines, pkg, inner, g[k - 1], k)]

\* There is a function that has them.
LEMMA LinesExist ==
    ASSUME NEW lines, NEW pkg, NEW inner, NEW n \in Nat
    PROVE  \E g : LinesUpTo(lines, pkg, inner, g, n)
  <1> DEFINE T == {m \in Nat : \E g : LinesUpTo(lines, pkg, inner, g, m)}
             W(before, k) == WithLine(lines, pkg, inner, before, k)
  <1>0. \A x, y : W(x, 0) = W(y, 0)
    BY DEF WithLine
  <1> HIDE DEF W
  <1>1. 0 \in T
    <2> DEFINE g == [k \in 0 .. 0 |-> W(<<>>, 0)]
    <2>1. g = [k \in 0 .. 0 |-> W(g[k - 1], k)]
      BY <1>0
    <2> HIDE DEF g
    <2>2. LinesUpTo(lines, pkg, inner, g, 0)
      BY <2>1 DEF LinesUpTo, W
    <2> QED  BY <2>2
  <1>2. ASSUME NEW m \in Nat, m \in T
        PROVE  m + 1 \in T
    <2>1. PICK g : LinesUpTo(lines, pkg, inner, g, m)
      BY <1>2
    <2> DEFINE h == [k \in 0 .. m + 1 |-> IF k <= m THEN g[k] ELSE W(g[m], m + 1)]
    <2>2. \A k \in 0 .. m : g[k] = W(g[k - 1], k)
      BY <2>1, Zenon DEF LinesUpTo, W
    <2>3. ASSUME NEW k \in 0 .. m + 1
          PROVE  h[k] = W(h[k - 1], k)
      <3>1. CASE k = 0
        <4>1. h[0] = g[0] /\ g[0] = W(g[0 - 1], 0)
          BY <2>2
        <4> QED  BY <4>1, <1>0, <3>1
      <3>2. CASE k \in 1 .. m
        <4>1. h[k] = g[k] /\ h[k - 1] = g[k - 1]
          BY <3>2
        <4> QED  BY <4>1, <2>2, <3>2
      <3>3. CASE k = m + 1
        <4>1. h[k] = W(g[m], k) /\ h[k - 1] = g[m]
          BY <3>3
        <4> QED  BY <4>1
      <3> QED  BY <3>1, <3>2, <3>3
    <2>4. h = [k \in 0 .. m + 1 |-> h[k]]
      OBVIOUS
    <2> HIDE DEF h
    <2>5. h = [k \in 0 .. m + 1 |-> W(h[k - 1], k)]
      BY <2>3, <2>4
    <2>6. LinesUpTo(lines, pkg, inner, h, m + 1)
      BY <2>5 DEF LinesUpTo, W
    <2> QED  BY <2>6
  <1> HIDE DEF T
  <1>3. n \in T
    BY <1>1, <1>2, NatSetInduction
  <1> QED  BY <1>3 DEF T

\* So FieldsOfLines is what its definition says.
LEMMA FieldsOfLinesDef ==
    ASSUME NEW lines \in Seq(Lines), NEW pkg, NEW inner, NEW n \in 0 .. Len(lines)
    PROVE  FieldsOfLines(lines, pkg, inner)[n]
               = WithLine(lines, pkg, inner, FieldsOfLines(lines, pkg, inner)[n - 1], n)
  <1> DEFINE first == CHOOSE g : LinesUpTo(lines, pkg, inner, g, Len(lines))
  <1>1. FieldsOfLines(lines, pkg, inner) = first
    BY DEF FieldsOfLines, LinesUpTo, WithLine
  <1>2. LinesUpTo(lines, pkg, inner, first, Len(lines))
    <2>1. Len(lines) \in Nat
      BY LenProperties
    <2> QED  BY <2>1, LinesExist
  <1> HIDE DEF first
  <1>3. first[n] = WithLine(lines, pkg, inner, first[n - 1], n)
    BY <1>2, Zenon DEF LinesUpTo
  <1> QED  BY <1>1, <1>3, Zenon

\* The fields of a type, by those of the types inside.
TypeFields(files, pkgs, below, depth, type) ==
    IF depth = 0 \/ FileIn(pkgs, type) = NotFound THEN <<>>
    ELSE FieldsOfLines(files[FileIn(pkgs, type)], type[1], below)
             [Len(files[FileIn(pkgs, type)])]

\* The fields of the types, of each depth up to n.
TypesUpTo(files, pkgs, g, n) ==
    g = [depth \in 0 .. n |->
            [type \in Types |-> TypeFields(files, pkgs, g[depth - 1], depth, type)]]

\* There is a function that has them.
LEMMA FieldsExist ==
    ASSUME NEW files, NEW pkgs, NEW n \in Nat
    PROVE  \E g : TypesUpTo(files, pkgs, g, n)
  <1> DEFINE T == {m \in Nat : \E g : TypesUpTo(files, pkgs, g, m)}
             W(below, k) == [type \in Types |-> TypeFields(files, pkgs, below, k, type)]
  <1>0. \A x, y : W(x, 0) = W(y, 0)
    <2>1. \A x, y, type : TypeFields(files, pkgs, x, 0, type)
                              = TypeFields(files, pkgs, y, 0, type)
      BY DEF TypeFields
    <2> QED  BY <2>1
  <1> HIDE DEF W
  <1>1. 0 \in T
    <2> DEFINE g == [k \in 0 .. 0 |-> W(<<>>, 0)]
    <2>1. g = [k \in 0 .. 0 |-> W(g[k - 1], k)]
      BY <1>0
    <2> HIDE DEF g
    <2>2. TypesUpTo(files, pkgs, g, 0)
      BY <2>1 DEF TypesUpTo, W
    <2> QED  BY <2>2
  <1>2. ASSUME NEW m \in Nat, m \in T
        PROVE  m + 1 \in T
    <2>1. PICK g : TypesUpTo(files, pkgs, g, m)
      BY <1>2
    <2> DEFINE h == [k \in 0 .. m + 1 |-> IF k <= m THEN g[k] ELSE W(g[m], m + 1)]
    <2>2. \A k \in 0 .. m : g[k] = W(g[k - 1], k)
      BY <2>1, Zenon DEF TypesUpTo, W
    <2>3. ASSUME NEW k \in 0 .. m + 1
          PROVE  h[k] = W(h[k - 1], k)
      <3>1. CASE k = 0
        <4>1. h[0] = g[0] /\ g[0] = W(g[0 - 1], 0)
          BY <2>2
        <4> QED  BY <4>1, <1>0, <3>1
      <3>2. CASE k \in 1 .. m
        <4>1. h[k] = g[k] /\ h[k - 1] = g[k - 1]
          BY <3>2
        <4> QED  BY <4>1, <2>2, <3>2
      <3>3. CASE k = m + 1
        <4>1. h[k] = W(g[m], k) /\ h[k - 1] = g[m]
          BY <3>3
        <4> QED  BY <4>1
      <3> QED  BY <3>1, <3>2, <3>3
    <2>4. h = [k \in 0 .. m + 1 |-> h[k]]
      OBVIOUS
    <2> HIDE DEF h
    <2>5. h = [k \in 0 .. m + 1 |-> W(h[k - 1], k)]
      BY <2>3, <2>4
    <2>6. TypesUpTo(files, pkgs, h, m + 1)
      BY <2>5 DEF TypesUpTo, W
    <2> QED  BY <2>6
  <1> HIDE DEF T
  <1>3. n \in T
    BY <1>1, <1>2, NatSetInduction
  <1> QED  BY <1>3 DEF T

\* So FieldsFrom is what its definition says.
LEMMA FieldsFromDef ==
    ASSUME NEW files, NEW pkgs, NEW depth \in 0 .. MaxNesting, NEW type \in Types
    PROVE  FieldsFrom(files, pkgs)[depth][type]
               = TypeFields(files, pkgs, FieldsFrom(files, pkgs)[depth - 1], depth, type)
  <1> DEFINE from == CHOOSE g : TypesUpTo(files, pkgs, g, MaxNesting)
  <1>1. FieldsFrom(files, pkgs) = from
    BY DEF FieldsFrom, TypesUpTo, TypeFields
  <1>2. TypesUpTo(files, pkgs, from, MaxNesting)
    BY FieldsExist, NestingAssumption
  <1> HIDE DEF from
  <1>3. from[depth] = [t \in Types |-> TypeFields(files, pkgs, from[depth - 1], depth, t)]
    BY <1>2, Zenon DEF TypesUpTo
  <1>4. from[depth][type] = TypeFields(files, pkgs, from[depth - 1], depth, type)
    BY <1>3, Zenon
  <1> QED  BY <1>1, <1>4, Zenon

\* What each topic adds to the structs and to the serialisers.
StructPasses(topics, fields) ==
    [i \in DOMAIN topics |-> UserCStructs[fields[i]][topics[i].msg_type]]

SerdePasses(topics, fields) ==
    [i \in DOMAIN topics |->
        SerdeFunctions[fields[i]][PrefixOf(StructName(topics[i].msg_type))]]

\* Those of each number of topics.
StructsOf(topics, fields) ==
    Passes(StructPasses(topics, fields), NothingEmitted, Len(topics))

SerdesOf(topics, fields) ==
    Passes(SerdePasses(topics, fields), NothingEmitted, Len(topics))

\* There are none of no topic, and each adds its own.
LEMMA OutputsOfDef ==
    ASSUME NEW topics, NEW fields, Len(topics) \in Nat, DOMAIN topics = 1 .. Len(topics)
    PROVE  /\ StructsOf(topics, fields)[0] = NothingEmitted
           /\ SerdesOf(topics, fields)[0] = NothingEmitted
           /\ \A n \in 1 .. Len(topics) :
                 /\ StructsOf(topics, fields)[n]
                      = UserCStructs[fields[n]][topics[n].msg_type]
                            [StructsOf(topics, fields)[n - 1]]
                 /\ SerdesOf(topics, fields)[n]
                      = SerdeFunctions[fields[n]][PrefixOf(StructName(topics[n].msg_type))]
                            [SerdesOf(topics, fields)[n - 1]]
  <1> DEFINE ps == StructPasses(topics, fields)
             pd == SerdePasses(topics, fields)
             N == Len(topics)
  <1>1. /\ StructsOf(topics, fields) = Passes(ps, NothingEmitted, N)
        /\ SerdesOf(topics, fields) = Passes(pd, NothingEmitted, N)
    BY DEF StructsOf, SerdesOf
  <1>2. \A n \in 1 .. N :
           /\ ps[n] = UserCStructs[fields[n]][topics[n].msg_type]
           /\ pd[n] = SerdeFunctions[fields[n]][PrefixOf(StructName(topics[n].msg_type))]
    BY DEF StructPasses, SerdePasses
  <1> HIDE DEF ps, pd
  <1>3. /\ Passes(ps, NothingEmitted, N)[0] = NothingEmitted
        /\ Passes(pd, NothingEmitted, N)[0] = NothingEmitted
        /\ \A n \in 1 .. N :
              /\ Passes(ps, NothingEmitted, N)[n]
                   = ps[n][Passes(ps, NothingEmitted, N)[n - 1]]
              /\ Passes(pd, NothingEmitted, N)[n]
                   = pd[n][Passes(pd, NothingEmitted, N)[n - 1]]
    <2> HIDE DEF N
    <2>1. N \in Nat
      BY DEF N
    <2> QED  BY <2>1, LoopDef
  <1> QED  BY <1>1, <1>2, <1>3

-----------------------------------------------------------------------------
(* How far a file has been parsed                                          *)

\* The fields of each number of lines of the file of a type, with `depth' - 1
\* files below it.
LinesIn(files, pkgs, type) == files[FileIn(pkgs, type)]

Firsts(files, pkgs, type, depth) ==
    FieldsOfLines(LinesIn(files, pkgs, type), type[1], FieldsFrom(files, pkgs)[depth - 1])

\* The first n lines are parsed.
LinesParsed(files, pkgs, frame, depth, n) ==
    LET lines == LinesIn(files, pkgs, frame.type)
    IN  /\ n \in 0 .. Len(lines)
        /\ frame.rest = SubSeq(lines, n + 1, Len(lines))
        /\ frame.fields = Firsts(files, pkgs, frame.type, depth)[n]

\* The n-th is a field of a nested type, which is being parsed: `inside'.
LineWaits(files, pkgs, frame, depth, n, inside) ==
    LET lines == LinesIn(files, pkgs, frame.type)
    IN  /\ n \in 1 .. Len(lines)
        /\ frame.rest = SubSeq(lines, n + 1, Len(lines))
        /\ frame.fields = Firsts(files, pkgs, frame.type, depth)[n - 1]
        /\ ~IsSkippedLine(lines[n]) /\ ~IsPrimLine(lines[n])
        /\ inside.name = lines[n].name /\ inside.array = ArrayOf(lines[n])
        /\ inside.type = ResolveNestedType(lines[n].base, frame.type[1])

\* The lines behind the first n.
LEMMA RestOfLines ==
    ASSUME NEW lines \in Seq(Lines), NEW n \in 0 .. Len(lines)
    PROVE  /\ SubSeq(lines, n + 1, Len(lines)) = <<>> => n = Len(lines)
           /\ n = 0 => SubSeq(lines, n + 1, Len(lines)) = lines
           /\ SubSeq(lines, n + 1, Len(lines)) # <<>> =>
                /\ n + 1 \in 1 .. Len(lines) /\ (n + 1) - 1 = n
                /\ Head(SubSeq(lines, n + 1, Len(lines))) = lines[n + 1]
                /\ Tail(SubSeq(lines, n + 1, Len(lines)))
                     = SubSeq(lines, (n + 1) + 1, Len(lines))
  <1> DEFINE L == Lines
             rest == SubSeq(lines, n + 1, Len(lines))
  <1>1. lines \in Seq(L)
    OBVIOUS
  <1> HIDE DEF L
  <1>2. Len(lines) \in Nat /\ Len(lines) \in Int /\ n + 1 \in Int /\ n \in Nat
    BY <1>1, LenProperties
  <1>3. CASE n = Len(lines)
    <2>1. Len(lines) < n + 1
      BY <1>2, <1>3
    <2>2. rest = <<>>
      BY <1>2, <2>1, SubSeqEmpty
    <2>3. n = 0 => lines = <<>>
      BY <1>1, <1>3, EmptySeq
    <2> QED  BY <1>3, <2>2, <2>3
  <1>4. CASE n # Len(lines)
    <2>1. /\ n + 1 \in 1 .. Len(lines) /\ Len(lines) \in n + 1 .. Len(lines)
          /\ (n + 1) - 1 = n
      BY <1>2, <1>4
    <2>2. Head(rest) = lines[n + 1] /\ Tail(rest) = SubSeq(lines, (n + 1) + 1, Len(lines))
      BY <1>1, <2>1, HeadTailOfSubSeq
    <2>3. rest # <<>>
      <3>1. \A i \in n + 1 .. Len(lines) : lines[i] \in L
        <4>1. \A i \in 1 .. Len(lines) : lines[i] \in L
          BY <1>1, ElementOfSeq
        <4> QED  BY <1>2, <4>1
      <3>2. Len(rest) = IF n + 1 <= Len(lines) THEN Len(lines) - (n + 1) + 1 ELSE 0
        BY <1>2, <3>1, SubSeqProperties
      <3>3. Len(rest) # 0
        BY <1>2, <2>1, <3>2
      <3> HIDE DEF rest
      <3> QED  BY <3>3
    <2>4. n = 0 => rest = lines
      BY <1>1, SubSeqFull
    <2> QED  BY <2>1, <2>2, <2>3, <2>4
  <1> QED  BY <1>3, <1>4

\* A line that is skipped.
LEMMA LineSkipped ==
    ASSUME NEW files, NEW pkgs, NEW depth, NEW frame, NEW n, NEW g,
           LinesIn(files, pkgs, frame.type) \in Seq(Lines),
           LinesParsed(files, pkgs, frame, depth, n),
           frame.rest # <<>>, IsSkippedLine(Head(frame.rest)),
           g.type = frame.type, g.fields = frame.fields, g.rest = Tail(frame.rest)
    PROVE  LinesParsed(files, pkgs, g, depth, n + 1)
  <1> DEFINE lines == LinesIn(files, pkgs, frame.type)
             first == Firsts(files, pkgs, frame.type, depth)
  <1>1. /\ n \in 0 .. Len(lines) /\ frame.rest = SubSeq(lines, n + 1, Len(lines))
        /\ frame.fields = first[n] /\ lines \in Seq(Lines)
    BY DEF LinesParsed
  <1>2. /\ n + 1 \in 1 .. Len(lines) /\ Head(frame.rest) = lines[n + 1]
        /\ Tail(frame.rest) = SubSeq(lines, (n + 1) + 1, Len(lines)) /\ (n + 1) - 1 = n
    <2> HIDE DEF lines
    <2> QED  BY <1>1, RestOfLines
  <1>3. n + 1 \in 0 .. Len(lines) /\ n + 1 # 0
    BY <1>2
  <1>4. first[n + 1] = WithLine(lines, frame.type[1], FieldsFrom(files, pkgs)[depth - 1],
                                first[(n + 1) - 1], n + 1)
    <2> HIDE DEF lines
    <2>1. first = FieldsOfLines(lines, frame.type[1], FieldsFrom(files, pkgs)[depth - 1])
      BY DEF Firsts, lines
    <2> HIDE DEF first
    <2> QED  BY <1>1, <1>3, <2>1, FieldsOfLinesDef
  <1>5. IsSkippedLine(lines[n + 1])
    BY <1>2
  <1> HIDE DEF lines, first
  <1>6. first[n + 1] = first[n]
    BY <1>2, <1>3, <1>4, <1>5 DEF WithLine
  <1>7. /\ lines = LinesIn(files, pkgs, g.type)
        /\ first = Firsts(files, pkgs, g.type, depth)
    BY DEF lines, first
  <1>8. g.fields = first[n + 1] /\ g.rest = SubSeq(lines, (n + 1) + 1, Len(lines))
    BY <1>1, <1>2, <1>6
  <1> QED  BY <1>3, <1>7, <1>8 DEF LinesParsed

\* A line with a field of a primitive type.
LEMMA PrimLineParsed ==
    ASSUME NEW files, NEW pkgs, NEW depth, NEW frame, NEW n, NEW g,
           LinesIn(files, pkgs, frame.type) \in Seq(Lines),
           LinesParsed(files, pkgs, frame, depth, n),
           frame.rest # <<>>, NEW line, line = Head(frame.rest),
           ~IsSkippedLine(line), IsPrimLine(line),
           g.type = frame.type, g.rest = Tail(frame.rest),
           g.fields = Append(frame.fields,
                             PrimFieldOf(line.name, PrimOf(line), ArrayOf(line)))
    PROVE  LinesParsed(files, pkgs, g, depth, n + 1)
  <1> DEFINE lines == LinesIn(files, pkgs, frame.type)
             first == Firsts(files, pkgs, frame.type, depth)
             inner == FieldsFrom(files, pkgs)[depth - 1]
  <1>1. /\ n \in 0 .. Len(lines) /\ frame.rest = SubSeq(lines, n + 1, Len(lines))
        /\ frame.fields = first[n] /\ lines \in Seq(Lines)
    BY DEF LinesParsed
  <1>2. /\ n + 1 \in 1 .. Len(lines) /\ line = lines[n + 1]
        /\ Tail(frame.rest) = SubSeq(lines, (n + 1) + 1, Len(lines)) /\ (n + 1) - 1 = n
    <2> HIDE DEF lines
    <2> QED  BY <1>1, RestOfLines
  <1>3. n + 1 \in 0 .. Len(lines) /\ n + 1 # 0
    BY <1>2
  <1>4. first[n + 1] = WithLine(lines, frame.type[1], inner, first[(n + 1) - 1], n + 1)
    <2> HIDE DEF lines
    <2>1. first = FieldsOfLines(lines, frame.type[1], inner)
      BY DEF Firsts, lines
    <2> HIDE DEF first, inner
    <2> QED  BY <1>1, <1>3, <2>1, FieldsOfLinesDef
  <1> HIDE DEF lines, first, inner
  <1>5. first[n + 1] = Append(first[n], FieldOf(line, frame.type[1], inner))
    BY <1>2, <1>3, <1>4 DEF WithLine
  <1>6. FieldOf(line, frame.type[1], inner)
            = PrimFieldOf(line.name, PrimOf(line), ArrayOf(line))
    BY DEF FieldOf
  <1>7. /\ lines = LinesIn(files, pkgs, g.type)
        /\ first = Firsts(files, pkgs, g.type, depth)
    BY DEF lines, first
  <1>8. g.fields = first[n + 1] /\ g.rest = SubSeq(lines, (n + 1) + 1, Len(lines))
    BY <1>1, <1>2, <1>5, <1>6
  <1> QED  BY <1>3, <1>7, <1>8 DEF LinesParsed

\* A line with a field of a nested type: its file is opened.
LEMMA NestedLineWaits ==
    ASSUME NEW files, NEW pkgs, NEW depth, NEW frame, NEW n, NEW g, NEW inside,
           LinesIn(files, pkgs, frame.type) \in Seq(Lines),
           LinesParsed(files, pkgs, frame, depth, n),
           frame.rest # <<>>, NEW line, line = Head(frame.rest),
           ~IsSkippedLine(line), ~IsPrimLine(line),
           g.type = frame.type, g.rest = Tail(frame.rest), g.fields = frame.fields,
           inside.name = line.name, inside.array = ArrayOf(line),
           inside.type = ResolveNestedType(line.base, frame.type[1])
    PROVE  LineWaits(files, pkgs, g, depth, n + 1, inside)
  <1> DEFINE lines == LinesIn(files, pkgs, frame.type)
             first == Firsts(files, pkgs, frame.type, depth)
  <1>1. /\ n \in 0 .. Len(lines) /\ frame.rest = SubSeq(lines, n + 1, Len(lines))
        /\ frame.fields = first[n] /\ lines \in Seq(Lines)
    BY DEF LinesParsed
  <1>2. /\ n + 1 \in 1 .. Len(lines) /\ line = lines[n + 1]
        /\ Tail(frame.rest) = SubSeq(lines, (n + 1) + 1, Len(lines)) /\ (n + 1) - 1 = n
    <2> HIDE DEF lines
    <2> QED  BY <1>1, RestOfLines
  <1> HIDE DEF lines, first
  <1>3. /\ lines = LinesIn(files, pkgs, g.type)
        /\ first = Firsts(files, pkgs, g.type, depth)
    BY DEF lines, first
  <1>4. /\ g.rest = SubSeq(lines, (n + 1) + 1, Len(lines))
        /\ g.fields = first[(n + 1) - 1]
    BY <1>1, <1>2
  <1> QED  BY <1>2, <1>3, <1>4 DEF LineWaits

\* Nothing of a file is parsed when it is opened.
LEMMA NoLineParsed ==
    ASSUME NEW files, NEW pkgs, NEW depth, NEW frame,
           LinesIn(files, pkgs, frame.type) \in Seq(Lines),
           frame.fields = <<>>, frame.rest = LinesIn(files, pkgs, frame.type)
    PROVE  LinesParsed(files, pkgs, frame, depth, 0)
  <1> DEFINE lines == LinesIn(files, pkgs, frame.type)
             first == Firsts(files, pkgs, frame.type, depth)
             inner == FieldsFrom(files, pkgs)[depth - 1]
  <1>1. lines \in Seq(Lines) /\ 0 \in 0 .. Len(lines)
    BY LenProperties
  <1>2. first = FieldsOfLines(lines, frame.type[1], inner)
    BY DEF Firsts
  <1> HIDE DEF lines, first, inner
  <1>3. first[0] = WithLine(lines, frame.type[1], inner, first[0 - 1], 0)
    BY <1>1, <1>2, FieldsOfLinesDef
  <1>4. first[0] = <<>>
    BY <1>3 DEF WithLine
  <1>5. SubSeq(lines, 0 + 1, Len(lines)) = lines
    BY <1>1, RestOfLines
  <1> QED  BY <1>1, <1>4, <1>5 DEF LinesParsed, lines, first

\* A file of which nothing is left has the fields of its type.
LEMMA AllLinesParsed ==
    ASSUME NEW files, NEW pkgs, NEW depth \in 1 .. MaxNesting, NEW frame, NEW n,
           LinesIn(files, pkgs, frame.type) \in Seq(Lines),
           LinesParsed(files, pkgs, frame, depth, n), frame.rest = <<>>,
           frame.type \in Types, FileIn(pkgs, frame.type) # NotFound
    PROVE  frame.fields = FieldsFrom(files, pkgs)[depth][frame.type]
  <1> DEFINE lines == LinesIn(files, pkgs, frame.type)
             first == Firsts(files, pkgs, frame.type, depth)
             inner == FieldsFrom(files, pkgs)[depth - 1]
  <1>1. /\ n \in 0 .. Len(lines) /\ frame.rest = SubSeq(lines, n + 1, Len(lines))
        /\ frame.fields = first[n] /\ lines \in Seq(Lines)
    BY DEF LinesParsed
  <1>2. n = Len(lines)
    <2> HIDE DEF lines
    <2> QED  BY <1>1, RestOfLines
  <1>3. depth \in 0 .. MaxNesting /\ depth # 0
    BY NestingAssumption
  <1>4. FieldsFrom(files, pkgs)[depth][frame.type]
            = TypeFields(files, pkgs, inner, depth, frame.type)
    BY <1>3, FieldsFromDef
  <1>5. TypeFields(files, pkgs, inner, depth, frame.type)
            = FieldsOfLines(lines, frame.type[1], inner)[Len(lines)]
    BY <1>3 DEF TypeFields, LinesIn
  <1>6. FieldsOfLines(lines, frame.type[1], inner) = first
    BY DEF Firsts
  <1> HIDE DEF lines, first, inner
  <1> QED  BY <1>1, <1>2, <1>4, <1>5, <1>6

\* Back in the file that waited, which has a field more.
LEMMA NestedLineParsed ==
    ASSUME NEW files, NEW pkgs, NEW depth, NEW frame, NEW n, NEW inside, NEW g,
           LinesIn(files, pkgs, frame.type) \in Seq(Lines),
           LineWaits(files, pkgs, frame, depth, n, inside),
           inside.fields = FieldsFrom(files, pkgs)[depth - 1][inside.type],
           g.type = frame.type, g.rest = frame.rest,
           g.fields = Append(frame.fields, NestedFieldOf(inside.name, inside.type,
                                                         inside.fields, inside.array))
    PROVE  LinesParsed(files, pkgs, g, depth, n)
  <1> DEFINE lines == LinesIn(files, pkgs, frame.type)
             first == Firsts(files, pkgs, frame.type, depth)
             inner == FieldsFrom(files, pkgs)[depth - 1]
  <1>1. /\ n \in 1 .. Len(lines) /\ frame.rest = SubSeq(lines, n + 1, Len(lines))
        /\ frame.fields = first[n - 1] /\ lines \in Seq(Lines)
        /\ ~IsSkippedLine(lines[n]) /\ ~IsPrimLine(lines[n])
        /\ inside.name = lines[n].name /\ inside.array = ArrayOf(lines[n])
        /\ inside.type = ResolveNestedType(lines[n].base, frame.type[1])
    BY DEF LineWaits
  <1>2. n \in 0 .. Len(lines) /\ n # 0
    BY <1>1
  <1>3. first[n] = WithLine(lines, frame.type[1], inner, first[n - 1], n)
    <2> HIDE DEF lines
    <2>1. first = FieldsOfLines(lines, frame.type[1], inner)
      BY DEF Firsts, lines
    <2> HIDE DEF first, inner
    <2> QED  BY <1>1, <1>2, <2>1, FieldsOfLinesDef
  <1>4. inside.fields = inner[inside.type]
    OBVIOUS
  <1> HIDE DEF lines, first, inner
  <1>5. first[n] = Append(first[n - 1], FieldOf(lines[n], frame.type[1], inner))
    BY <1>1, <1>2, <1>3 DEF WithLine
  <1>6. FieldOf(lines[n], frame.type[1], inner)
            = NestedFieldOf(inside.name, inside.type, inside.fields, inside.array)
    BY <1>1, <1>4 DEF FieldOf
  <1>7. /\ lines = LinesIn(files, pkgs, g.type)
        /\ first = Firsts(files, pkgs, g.type, depth)
    BY DEF lines, first
  <1>8. g.fields = first[n]
    BY <1>1, <1>5, <1>6
  <1>9. g.rest = SubSeq(lines, n + 1, Len(lines))
    BY <1>1
  <1> QED  BY <1>2, <1>7, <1>8, <1>9 DEF LinesParsed

-----------------------------------------------------------------------------
(* Types whose files can be parsed                                         *)

\* The fields of the types, in the end.
FieldsOfTypes(files, pkgs) == FieldsFrom(files, pkgs)[MaxNesting]

\* Types that can be parsed, and all those inside them.
SoundTypes(files, pkgs) ==
    UNION {M \in SUBSET Types : Closed(M, FieldsOfTypes(files, pkgs))}

\* Nested fields are of such types, and have their fields.
FieldsAreSound(fields, files, pkgs) ==
    /\ fields \in Seq(Range(fields))
    /\ \A i \in DOMAIN fields : IsNested(fields[i]) =>
          /\ fields[i].type \in SoundTypes(files, pkgs)
          /\ fields[i].fields = FieldsOfTypes(files, pkgs)[fields[i].type]

\* They are as a set of types has to be for what is written to be in order.
LEMMA SoundTypesAreClosed ==
    ASSUME NEW files, NEW pkgs
    PROVE  Closed(SoundTypes(files, pkgs), FieldsOfTypes(files, pkgs))
  <1> DEFINE K == FieldsOfTypes(files, pkgs)
             S == SoundTypes(files, pkgs)
  <1>1. \A A \in S : \E M \in SUBSET S : A \in M /\ Closed(M, K)
    BY DEF SoundTypes
  <1>2. S \subseteq Types
    BY DEF SoundTypes
  <1> HIDE DEF S, K
  <1>3. ASSUME NEW A \in S
        PROVE  /\ K[A] \in MsgFieldSeqs
               /\ \A i \in DOMAIN K[A] : IsNested(K[A][i]) =>
                     K[A][i].type \in S /\ K[A][i].fields = K[K[A][i].type]
    <2>1. PICK M \in SUBSET S : A \in M /\ Closed(M, K)
      BY <1>1
    <2> QED  BY <2>1 DEF Closed
  <1>4. Closed(S, K)
    BY <1>2, <1>3 DEF Closed
  <1> QED  BY <1>4 DEF S, K

\* One more of them.
LEMMA TypeIsSound ==
    ASSUME NEW files, NEW pkgs, NEW type \in Types,
           FieldsOfTypes(files, pkgs)[type] \in MsgFieldSeqs,
           FieldsAreSound(FieldsOfTypes(files, pkgs)[type], files, pkgs)
    PROVE  type \in SoundTypes(files, pkgs)
  <1> DEFINE K == FieldsOfTypes(files, pkgs)
             S == SoundTypes(files, pkgs)
             M == S \cup {type}
  <1>1. Closed(S, K)
    BY SoundTypesAreClosed
  <1>2. \A i \in DOMAIN K[type] : IsNested(K[type][i]) =>
           K[type][i].type \in S /\ K[type][i].fields = K[K[type][i].type]
    BY DEF FieldsAreSound
  <1>3. K[type] \in MsgFieldSeqs
    OBVIOUS
  <1> HIDE DEF S, K
  <1>4. ASSUME NEW A \in M
        PROVE  /\ K[A] \in MsgFieldSeqs
               /\ \A i \in DOMAIN K[A] : IsNested(K[A][i]) =>
                     K[A][i].type \in M /\ K[A][i].fields = K[K[A][i].type]
    <2>1. CASE A = type
      BY <1>2, <1>3, <2>1
    <2>2. CASE A \in S
      BY <1>1, <2>2 DEF Closed
    <2> QED  BY <2>1, <2>2
  <1>5. M \in SUBSET Types /\ Closed(M, K)
    BY <1>1, <1>4 DEF Closed
  <1> QED  BY <1>5 DEF SoundTypes, K

\* The first n lines are parsed, with so many files below it or more.
ParsedTo(files, pkgs, frame, depth, n) ==
    /\ \A d \in depth .. MaxNesting : LinesParsed(files, pkgs, frame, d, n)
    /\ FieldsAreSound(frame.fields, files, pkgs)

\* The n-th waits for what is inside.
WaitsAt(files, pkgs, frame, depth, n, inside) ==
    /\ \A d \in depth .. MaxNesting : LineWaits(files, pkgs, frame, d, n, inside)
    /\ FieldsAreSound(frame.fields, files, pkgs)

\* One more field of such a type, or of none.
LEMMA SoundAppend ==
    ASSUME NEW files, NEW pkgs, NEW fields, FieldsAreSound(fields, files, pkgs),
           NEW f, IsNested(f) => /\ f.type \in SoundTypes(files, pkgs)
                                 /\ f.fields = FieldsOfTypes(files, pkgs)[f.type]
    PROVE  FieldsAreSound(Append(fields, f), files, pkgs)
  <1> DEFINE t == Append(fields, f)
             n == Len(fields)
  <1>1. fields \in Seq(Range(fields))
    BY DEF FieldsAreSound
  <1>2. /\ t \in Seq(Range(t)) /\ n \in Nat
        /\ DOMAIN fields = 1 .. n /\ DOMAIN t = 1 .. n + 1
        /\ \A i \in 1 .. n : t[i] = fields[i]
        /\ t[n + 1] = f
    BY <1>1, RangeAppend
  <1> HIDE DEF t, n
  <1>3. \A i \in 1 .. n + 1 : i \in 1 .. n \/ i = n + 1
    BY <1>2
  <1>4. ASSUME NEW i \in 1 .. n + 1, IsNested(t[i])
        PROVE  /\ t[i].type \in SoundTypes(files, pkgs)
               /\ t[i].fields = FieldsOfTypes(files, pkgs)[t[i].type]
    <2>1. CASE i = n + 1
      BY <1>2, <1>4, <2>1
    <2>2. CASE i \in 1 .. n
      BY <1>2, <1>4, <2>2 DEF FieldsAreSound
    <2> QED  BY <1>3, <2>1, <2>2
  <1>5. FieldsAreSound(t, files, pkgs)
    BY <1>2, <1>4 DEF FieldsAreSound
  <1> QED  BY <1>5 DEF t

\* A line that is skipped.
LEMMA SkipMoves ==
    ASSUME NEW files, NEW pkgs, NEW depth, NEW frame, NEW n, NEW g,
           LinesIn(files, pkgs, frame.type) \in Seq(Lines),
           ParsedTo(files, pkgs, frame, depth, n),
           frame.rest # <<>>, IsSkippedLine(Head(frame.rest)),
           g.type = frame.type, g.fields = frame.fields, g.rest = Tail(frame.rest)
    PROVE  ParsedTo(files, pkgs, g, depth, n + 1)
  <1>1. \A d \in depth .. MaxNesting : LinesParsed(files, pkgs, g, d, n + 1)
    BY LineSkipped DEF ParsedTo
  <1> QED  BY <1>1 DEF ParsedTo

\* A line with a field of a primitive type.
LEMMA PrimMoves ==
    ASSUME NEW files, NEW pkgs, NEW depth, NEW frame, NEW n, NEW g,
           LinesIn(files, pkgs, frame.type) \in Seq(Lines),
           ParsedTo(files, pkgs, frame, depth, n),
           frame.rest # <<>>, NEW line, line = Head(frame.rest),
           ~IsSkippedLine(line), IsPrimLine(line), PrimOf(line) \in Prims,
           g.type = frame.type, g.rest = Tail(frame.rest),
           g.fields = Append(frame.fields,
                             PrimFieldOf(line.name, PrimOf(line), ArrayOf(line)))
    PROVE  ParsedTo(files, pkgs, g, depth, n + 1)
  <1>1. \A d \in depth .. MaxNesting : LinesParsed(files, pkgs, g, d, n + 1)
    BY PrimLineParsed DEF ParsedTo
  <1>2. FieldsAreSound(frame.fields, files, pkgs)
    BY DEF ParsedTo
  <1>3. ~IsNested(PrimFieldOf(line.name, PrimOf(line), ArrayOf(line)))
    BY DEF IsNested, PrimFieldOf, Prims
  <1>4. FieldsAreSound(g.fields, files, pkgs)
    BY <1>2, <1>3, SoundAppend
  <1> QED  BY <1>1, <1>4 DEF ParsedTo

\* A line with a field of a nested type: its file is opened.
LEMMA NestedWaits ==
    ASSUME NEW files, NEW pkgs, NEW depth, NEW frame, NEW n, NEW g, NEW inside,
           LinesIn(files, pkgs, frame.type) \in Seq(Lines),
           ParsedTo(files, pkgs, frame, depth, n),
           frame.rest # <<>>, NEW line, line = Head(frame.rest),
           ~IsSkippedLine(line), ~IsPrimLine(line),
           g.type = frame.type, g.rest = Tail(frame.rest), g.fields = frame.fields,
           inside.name = line.name, inside.array = ArrayOf(line),
           inside.type = ResolveNestedType(line.base, frame.type[1])
    PROVE  WaitsAt(files, pkgs, g, depth, n + 1, inside)
  <1>1. \A d \in depth .. MaxNesting : LineWaits(files, pkgs, g, d, n + 1, inside)
    BY NestedLineWaits DEF ParsedTo
  <1> QED  BY <1>1 DEF ParsedTo, WaitsAt

\* Nothing of a file is parsed when it is opened.
LEMMA OpenedIsUnparsed ==
    ASSUME NEW files, NEW pkgs, NEW depth, NEW frame,
           LinesIn(files, pkgs, frame.type) \in Seq(Lines),
           frame.fields = <<>>, frame.rest = LinesIn(files, pkgs, frame.type)
    PROVE  ParsedTo(files, pkgs, frame, depth, 0)
  <1>1. \A d \in depth .. MaxNesting : LinesParsed(files, pkgs, frame, d, 0)
    BY NoLineParsed
  <1>2. <<>> \in Seq(Range(<<>>)) /\ DOMAIN <<>> = {}
    BY EmptySeq
  <1> QED  BY <1>1, <1>2 DEF ParsedTo, FieldsAreSound

\* A file of which nothing is left has the fields of its type, however many
\* files more there might have been below it.
LEMMA EndIsWhole ==
    ASSUME NEW files, NEW pkgs, NEW depth \in 1 .. MaxNesting, NEW frame, NEW n,
           LinesIn(files, pkgs, frame.type) \in Seq(Lines),
           ParsedTo(files, pkgs, frame, depth, n), frame.rest = <<>>,
           frame.type \in Types, FileIn(pkgs, frame.type) # NotFound,
           frame.fields \in FieldTrees[depth]
    PROVE  /\ \A d \in depth .. MaxNesting :
                 frame.fields = FieldsFrom(files, pkgs)[d][frame.type]
           /\ frame.fields = FieldsOfTypes(files, pkgs)[frame.type]
           /\ frame.type \in SoundTypes(files, pkgs)
  <1>1. /\ \A d \in depth .. MaxNesting : d \in 1 .. MaxNesting
        /\ MaxNesting \in depth .. MaxNesting /\ depth \in 0 .. MaxNesting
    BY NestingAssumption
  <1>2. ASSUME NEW d \in depth .. MaxNesting
        PROVE  frame.fields = FieldsFrom(files, pkgs)[d][frame.type]
    <2>1. LinesParsed(files, pkgs, frame, d, n)
      BY DEF ParsedTo
    <2> QED  BY <1>1, <2>1, AllLinesParsed
  <1>3. frame.fields = FieldsOfTypes(files, pkgs)[frame.type]
    BY <1>1, <1>2 DEF FieldsOfTypes
  <1>4. frame.fields \in MsgFieldSeqs
    BY <1>1, TreesAreFields
  <1>5. FieldsAreSound(frame.fields, files, pkgs)
    BY DEF ParsedTo
  <1>6. frame.type \in SoundTypes(files, pkgs)
    BY <1>3, <1>4, <1>5, TypeIsSound
  <1> QED  BY <1>2, <1>3, <1>6

\* Back in the file that waited, which has a field more.
LEMMA NestedMoves ==
    ASSUME NEW files, NEW pkgs, NEW depth \in 1 .. MaxNesting, NEW frame, NEW n,
           NEW inside, NEW g,
           LinesIn(files, pkgs, frame.type) \in Seq(Lines),
           WaitsAt(files, pkgs, frame, depth, n, inside),
           \A d \in depth - 1 .. MaxNesting :
               inside.fields = FieldsFrom(files, pkgs)[d][inside.type],
           inside.type \in SoundTypes(files, pkgs),
           g.type = frame.type, g.rest = frame.rest,
           g.fields = Append(frame.fields, NestedFieldOf(inside.name, inside.type,
                                                         inside.fields, inside.array))
    PROVE  ParsedTo(files, pkgs, g, depth, n)
  <1>1. /\ \A d \in depth .. MaxNesting : d - 1 \in depth - 1 .. MaxNesting
        /\ MaxNesting \in depth - 1 .. MaxNesting
    BY NestingAssumption
  <1>2. ASSUME NEW d \in depth .. MaxNesting
        PROVE  LinesParsed(files, pkgs, g, d, n)
    <2>1. LineWaits(files, pkgs, frame, d, n, inside)
      BY DEF WaitsAt
    <2>2. inside.fields = FieldsFrom(files, pkgs)[d - 1][inside.type]
      BY <1>1
    <2> QED  BY <2>1, <2>2, NestedLineParsed
  <1> DEFINE f == NestedFieldOf(inside.name, inside.type, inside.fields, inside.array)
  <1>3. f.type = inside.type /\ f.fields = inside.fields
    BY DEF NestedFieldOf
  <1>4. inside.fields = FieldsOfTypes(files, pkgs)[inside.type]
    BY <1>1 DEF FieldsOfTypes
  <1>5. FieldsAreSound(frame.fields, files, pkgs)
    BY DEF WaitsAt
  <1>6. g.fields = Append(frame.fields, f)
    OBVIOUS
  <1> HIDE DEF f
  <1>7. FieldsAreSound(g.fields, files, pkgs)
    BY <1>3, <1>4, <1>5, <1>6, SoundAppend
  <1> QED  BY <1>2, <1>7 DEF ParsedTo

\* What is inside may go on.
LEMMA WaitsGoesOn ==
    ASSUME NEW files, NEW pkgs, NEW depth, NEW frame, NEW n, NEW inside, NEW other,
           WaitsAt(files, pkgs, frame, depth, n, inside),
           other.type = inside.type, other.name = inside.name, other.array = inside.array
    PROVE  WaitsAt(files, pkgs, frame, depth, n, other)
  BY DEF WaitsAt, LineWaits

-----------------------------------------------------------------------------
(* How far the files on the stack have been parsed                         *)

\* All but the last wait for the one behind them.
FrameIsTrue(s, i, files, pkgs) ==
    IF i = Len(s) THEN \E n \in Nat : ParsedTo(files, pkgs, s[i], Depth(i), n)
    ELSE \E n \in Nat : WaitsAt(files, pkgs, s[i], Depth(i), n, s[i + 1])

\* The stack of a topic, whose files are among those `read'.
StackOf(s, type, read, files, pkgs) ==
    /\ s # <<>> => s[1].type = type
    /\ \A i \in DOMAIN s : /\ FileIn(pkgs, s[i].type) \in read \ {NotFound}
                           /\ FrameIsTrue(s, i, files, pkgs)

\* The last file goes on.
LEMMA TopMoves ==
    ASSUME NEW s, s \in Seq(Range(s)), s # <<>>,
           NEW type, NEW read, NEW files, NEW pkgs, StackOf(s, type, read, files, pkgs),
           NEW g, g.type = s[Len(s)].type, g.name = s[Len(s)].name,
           g.array = s[Len(s)].array,
           NEW n \in Nat, ParsedTo(files, pkgs, g, Depth(Len(s)), n)
    PROVE  StackOf([s EXCEPT ![Len(s)] = g], type, read, files, pkgs)
  <1> DEFINE k == Len(s)
             t == [s EXCEPT ![k] = g]
  <1>1. k \in Nat /\ k >= 1 /\ DOMAIN s = 1 .. k /\ k \in 1 .. k
    BY RangeFront
  <1>2. /\ Len(t) = k /\ DOMAIN t = 1 .. k /\ t[k] = g
        /\ \A i \in 1 .. k : i # k => t[i] = s[i]
    BY <1>1, RangeExcept
  <1> HIDE DEF t, k
  <1>3. \A i \in 1 .. k : t[i].type = s[i].type
    BY <1>2 DEF k
  <1>4. ASSUME NEW i \in 1 .. k PROVE FrameIsTrue(t, i, files, pkgs)
    <2>1. CASE i = k
      BY <1>2, <2>1 DEF FrameIsTrue, k
    <2>2. CASE i # k
      <3>1. i + 1 \in 1 .. k /\ t[i] = s[i] /\ i # Len(t) /\ i # Len(s)
        <4>1. \A a \in Nat : \A b \in 1 .. a : b # a => b + 1 \in 1 .. a
          OBVIOUS
        <4>2. i + 1 \in 1 .. k
          BY <1>1, <2>2, <4>1
        <4> QED  BY <1>2, <2>2, <4>2 DEF k
      <3>2. PICK m \in Nat : WaitsAt(files, pkgs, s[i], Depth(i), m, s[i + 1])
        BY <1>1, <3>1 DEF StackOf, FrameIsTrue
      <3>3. /\ t[i + 1].type = s[i + 1].type /\ t[i + 1].name = s[i + 1].name
            /\ t[i + 1].array = s[i + 1].array
        BY <1>2, <3>1 DEF k
      <3>4. WaitsAt(files, pkgs, s[i], Depth(i), m, t[i + 1])
        BY <3>2, <3>3, WaitsGoesOn
      <3> QED  BY <3>1, <3>4 DEF FrameIsTrue
    <2> QED  BY <2>1, <2>2
  <1>5. t # <<>> => t[1].type = type
    <2>1. s[1].type = type /\ 1 \in 1 .. k
      BY <1>1 DEF StackOf
    <2> QED  BY <1>3, <2>1
  <1>6. \A i \in 1 .. k : FileIn(pkgs, t[i].type) \in read \ {NotFound}
    BY <1>1, <1>3 DEF StackOf
  <1> QED  BY <1>2, <1>4, <1>5, <1>6 DEF StackOf, t, k

\* The last file waits for another.
LEMMA TopWaits ==
    ASSUME NEW s, s \in Seq(Range(s)), s # <<>>,
           NEW type, NEW read, NEW files, NEW pkgs, StackOf(s, type, read, files, pkgs),
           NEW g, g.type = s[Len(s)].type, g.name = s[Len(s)].name,
           g.array = s[Len(s)].array,
           NEW f, FileIn(pkgs, f.type) # NotFound,
           NEW n \in Nat, WaitsAt(files, pkgs, g, Depth(Len(s)), n, f),
           ParsedTo(files, pkgs, f, Depth(Len(s) + 1), 0)
    PROVE  StackOf(Append([s EXCEPT ![Len(s)] = g], f), type,
                   read \cup {FileIn(pkgs, f.type)}, files, pkgs)
  <1> DEFINE k == Len(s)
             u == [s EXCEPT ![k] = g]
             t == Append(u, f)
  <1>1. k \in Nat /\ k >= 1 /\ DOMAIN s = 1 .. k /\ k \in 1 .. k
    BY RangeFront
  <1>2. /\ u \in Seq(Range(u)) /\ Len(u) = k /\ DOMAIN u = 1 .. k /\ u[k] = g
        /\ \A i \in 1 .. k : i # k => u[i] = s[i]
    BY <1>1, RangeExcept
  <1> HIDE DEF u
  <1> HIDE DEF k
  <1>3. /\ Len(t) = k + 1 /\ DOMAIN t = 1 .. k + 1 /\ t[k + 1] = f
        /\ \A i \in 1 .. k : t[i] = u[i]
    BY <1>2, RangeAppend
  <1> HIDE DEF t
  <1>4. \A i \in 1 .. k : t[i].type = s[i].type
    BY <1>2, <1>3 DEF k
  <1>5. ASSUME NEW i \in 1 .. k + 1 PROVE FrameIsTrue(t, i, files, pkgs)
    <2>1. CASE i = k + 1
      <3>1. ParsedTo(files, pkgs, t[i], Depth(i), 0)
        BY <1>3, <2>1 DEF k
      <3> QED  BY <1>3, <2>1, <3>1 DEF FrameIsTrue
    <2>2. CASE i = k
      <3>1. i + 1 = k + 1 /\ i # Len(t)
        BY <1>1, <1>3, <2>2
      <3>2. WaitsAt(files, pkgs, t[i], Depth(i), n, t[i + 1])
        BY <1>1, <1>2, <1>3, <2>2, <3>1 DEF k
      <3> QED  BY <3>1, <3>2 DEF FrameIsTrue
    <2>3. CASE i # k /\ i # k + 1
      <3>1. /\ i \in 1 .. k /\ i + 1 \in 1 .. k /\ t[i] = s[i]
            /\ i # Len(t) /\ i # Len(s)
        <4>1. \A a \in Nat : \A b \in 1 .. a + 1 :
                 b # a /\ b # a + 1 => b \in 1 .. a /\ b + 1 \in 1 .. a
          OBVIOUS
        <4>2. i \in 1 .. k /\ i + 1 \in 1 .. k
          BY <1>1, <2>3, <4>1
        <4>3. t[i] = s[i]
          BY <1>2, <1>3, <2>3, <4>2
        <4> QED  BY <1>3, <2>3, <4>2, <4>3 DEF k
      <3>2. PICK m \in Nat : WaitsAt(files, pkgs, s[i], Depth(i), m, s[i + 1])
        BY <1>1, <3>1 DEF StackOf, FrameIsTrue
      <3>3. /\ t[i + 1].type = s[i + 1].type /\ t[i + 1].name = s[i + 1].name
            /\ t[i + 1].array = s[i + 1].array
        BY <1>2, <1>3, <3>1 DEF k
      <3>4. WaitsAt(files, pkgs, s[i], Depth(i), m, t[i + 1])
        BY <3>2, <3>3, WaitsGoesOn
      <3> QED  BY <3>1, <3>4 DEF FrameIsTrue
    <2> QED  BY <2>1, <2>2, <2>3
  <1>6. t # <<>> => t[1].type = type
    <2>1. s[1].type = type /\ 1 \in 1 .. k
      BY <1>1 DEF StackOf
    <2> QED  BY <1>4, <2>1
  <1>7. ASSUME NEW i \in 1 .. k + 1
        PROVE  FileIn(pkgs, t[i].type) \in (read \cup {FileIn(pkgs, f.type)}) \ {NotFound}
    <2>1. CASE i \in 1 .. k
      BY <1>1, <1>4, <2>1 DEF StackOf
    <2>2. CASE i = k + 1
      BY <1>3, <2>2
    <2> QED  BY <1>1, <2>1, <2>2
  <1> QED  BY <1>3, <1>5, <1>6, <1>7 DEF StackOf, t, u, k

\* The last file is done, and the one that waited for it goes on.
LEMMA TopReturns ==
    ASSUME NEW s, s \in Seq(Range(s)), Len(s) > 1,
           NEW type, NEW read, NEW files, NEW pkgs, StackOf(s, type, read, files, pkgs),
           NEW g, g.type = s[Len(s) - 1].type, g.name = s[Len(s) - 1].name,
           g.array = s[Len(s) - 1].array,
           NEW n \in Nat, ParsedTo(files, pkgs, g, Depth(Len(s) - 1), n)
    PROVE  StackOf([Front(s) EXCEPT ![Len(s) - 1] = g], type, read, files, pkgs)
  <1> DEFINE k == Len(s) - 1
             u == Front(s)
             t == [u EXCEPT ![k] = g]
  <1>0. s # <<>>
    BY EmptySeq
  <1>1. /\ u \in Seq(Range(u)) /\ Len(s) \in Nat /\ Len(u) = k /\ DOMAIN u = 1 .. k
        /\ DOMAIN s = 1 .. Len(s) /\ \A i \in 1 .. k : u[i] = s[i]
    BY <1>0, RangeFront
  <1>2. k \in Nat /\ k >= 1 /\ k \in 1 .. k /\ 1 .. k \subseteq DOMAIN s /\ Len(s) = k + 1
    BY <1>1
  <1> HIDE DEF k, u
  <1>3. /\ Len(t) = k /\ DOMAIN t = 1 .. k /\ t[k] = g
        /\ \A i \in 1 .. k : i # k => t[i] = u[i]
    BY <1>1, <1>2, RangeExcept
  <1> HIDE DEF t
  <1>4. \A i \in 1 .. k : t[i].type = s[i].type
    BY <1>1, <1>3 DEF k
  <1>5. ASSUME NEW i \in 1 .. k PROVE FrameIsTrue(t, i, files, pkgs)
    <2>1. CASE i = k
      BY <1>3, <2>1 DEF FrameIsTrue, k
    <2>2. CASE i # k
      <3>1. /\ i + 1 \in 1 .. k /\ t[i] = s[i] /\ i # Len(t) /\ i # Len(s)
            /\ i \in DOMAIN s
        BY <1>1, <1>2, <1>3, <2>2
      <3>2. PICK m \in Nat : WaitsAt(files, pkgs, s[i], Depth(i), m, s[i + 1])
        BY <3>1 DEF StackOf, FrameIsTrue
      <3>3. /\ t[i + 1].type = s[i + 1].type /\ t[i + 1].name = s[i + 1].name
            /\ t[i + 1].array = s[i + 1].array
        BY <1>1, <1>3, <3>1 DEF k
      <3>4. WaitsAt(files, pkgs, s[i], Depth(i), m, t[i + 1])
        BY <3>2, <3>3, WaitsGoesOn
      <3> QED  BY <3>1, <3>4 DEF FrameIsTrue
    <2> QED  BY <2>1, <2>2
  <1>6. t # <<>> => t[1].type = type
    <2>1. s[1].type = type /\ 1 \in 1 .. k
      BY <1>0, <1>2 DEF StackOf
    <2> QED  BY <1>4, <2>1
  <1>7. \A i \in 1 .. k : FileIn(pkgs, t[i].type) \in read \ {NotFound}
    BY <1>2, <1>4 DEF StackOf
  <1> QED  BY <1>3, <1>5, <1>6, <1>7 DEF StackOf, t, u, k

\* A topic's file is opened.
LEMMA FirstOpens ==
    ASSUME NEW f, NEW read, NEW files, NEW pkgs, FileIn(pkgs, f.type) # NotFound,
           ParsedTo(files, pkgs, f, Depth(1), 0)
    PROVE  StackOf(Append(<<>>, f), f.type, read \cup {FileIn(pkgs, f.type)}, files, pkgs)
  <1> DEFINE t == Append(<<>>, f)
  <1>1. Len(<<>>) = 0 /\ <<>> \in Seq(Range(<<>>))
    BY EmptySeq
  <1>2. Len(t) = 0 + 1 /\ DOMAIN t = 1 .. 0 + 1 /\ t[0 + 1] = f
    BY <1>1, RangeAppend
  <1>3. Len(t) = 1 /\ DOMAIN t = {1} /\ t[1] = f
    BY <1>2
  <1> HIDE DEF t
  <1>4. FrameIsTrue(t, 1, files, pkgs)
    BY <1>3 DEF FrameIsTrue
  <1> QED  BY <1>3, <1>4 DEF StackOf, t

-----------------------------------------------------------------------------
(* What a step of the parser does to the truth of the stack                *)

\* Any contents of the files.
Sources == [DOMAIN FileTexts -> Seq(Lines)]

\* Each file on a stack is one.
LEMMA FilesOfStack ==
    ASSUME NEW s, NEW type, NEW read, read \subseteq DOMAIN FileTexts,
           NEW files \in Sources, NEW pkgs, StackOf(s, type, read, files, pkgs),
           NEW i \in DOMAIN s
    PROVE  /\ LinesIn(files, pkgs, s[i].type) \in Seq(Lines)
           /\ FileIn(pkgs, s[i].type) # NotFound
  <1>1. FileIn(pkgs, s[i].type) \in read \ {NotFound}
    BY DEF StackOf
  <1> QED  BY <1>1 DEF Sources, LinesIn

\* The last of them waits for nothing.
LEMMA TopIsParsed ==
    ASSUME StackOK(stack), stack # <<>>, readFiles \subseteq DOMAIN FileTexts,
           NEW type, NEW files \in Sources, StackOf(stack, type, readFiles, files, Pkgs)
    PROVE  /\ \E n \in Nat : ParsedTo(files, Pkgs, Top, Depth(Len(stack)), n)
           /\ LinesIn(files, Pkgs, Top.type) \in Seq(Lines)
           /\ FileIn(Pkgs, Top.type) # NotFound
  <1>1. Len(stack) \in DOMAIN stack /\ Top = stack[Len(stack)]
    BY TopOfStack
  <1>2. FrameIsTrue(stack, Len(stack), files, Pkgs)
    BY <1>1 DEF StackOf
  <1>3. \E n \in Nat : ParsedTo(files, Pkgs, Top, Depth(Len(stack)), n)
    BY <1>1, <1>2 DEF FrameIsTrue
  <1>4. /\ LinesIn(files, Pkgs, Top.type) \in Seq(Lines)
        /\ FileIn(Pkgs, Top.type) # NotFound
    BY <1>1, FilesOfStack
  <1> QED  BY <1>3, <1>4

\* Of one of which nothing is left, all is known.
LEMMA TopIsWhole ==
    ASSUME StackOK(stack), stack # <<>>, readFiles \subseteq DOMAIN FileTexts,
           NEW type, NEW files \in Sources, StackOf(stack, type, readFiles, files, Pkgs),
           Top.rest = <<>>
    PROVE  /\ \A d \in Depth(Len(stack)) .. MaxNesting :
                 Top.fields = FieldsFrom(files, Pkgs)[d][Top.type]
           /\ Top.fields = FieldsOfTypes(files, Pkgs)[Top.type]
           /\ Top.type \in SoundTypes(files, Pkgs)
  <1> DEFINE depth == Depth(Len(stack))
             f == Top
  <1>1. /\ depth \in 1 .. MaxNesting /\ f.type \in Types
        /\ f.fields \in FieldTrees[depth]
    BY TopOfStack
  <1>2. /\ \E n \in Nat : ParsedTo(files, Pkgs, f, depth, n)
        /\ LinesIn(files, Pkgs, f.type) \in Seq(Lines)
        /\ FileIn(Pkgs, f.type) # NotFound /\ f.rest = <<>>
    BY TopIsParsed
  <1> HIDE DEF depth, f
  <1>3. PICK n \in Nat : ParsedTo(files, Pkgs, f, depth, n)
    BY <1>2
  <1>4. /\ \A d \in depth .. MaxNesting : f.fields = FieldsFrom(files, Pkgs)[d][f.type]
        /\ f.fields = FieldsOfTypes(files, Pkgs)[f.type]
        /\ f.type \in SoundTypes(files, Pkgs)
    BY <1>1, <1>2, <1>3, EndIsWhole
  <1> QED  BY <1>4 DEF depth, f

\* The frame being parsed, without its first line.
LEMMA AdvancedFrame ==
    ASSUME StackOK(stack), AtLine
    PROVE  /\ [Top EXCEPT !.rest = Tail(Top.rest)].type = Top.type
           /\ [Top EXCEPT !.rest = Tail(Top.rest)].name = Top.name
           /\ [Top EXCEPT !.rest = Tail(Top.rest)].array = Top.array
           /\ [Top EXCEPT !.rest = Tail(Top.rest)].fields = Top.fields
           /\ [Top EXCEPT !.rest = Tail(Top.rest)].rest = Tail(Top.rest)
           /\ stack # <<>> /\ Top.rest # <<>>
           /\ Top.type = stack[Len(stack)].type /\ Top.name = stack[Len(stack)].name
           /\ Top.array = stack[Len(stack)].array
  <1>1. stack # <<>> /\ Top.rest # <<>>
    BY DEF AtLine
  <1>2. Top = stack[Len(stack)] /\ Top \in Frames(Depth(Len(stack)))
    BY <1>1, TopOfStack DEF FrameOK
  <1> QED  BY <1>1, <1>2 DEF Frames

\* A line is skipped.
LEMMA SkipLineIsTrue ==
    ASSUME StackOK(stack), readFiles \subseteq DOMAIN FileTexts, SkipLine,
           NEW type, NEW files \in Sources, StackOf(stack, type, readFiles, files, Pkgs)
    PROVE  StackOf(stack', type, readFiles, files, Pkgs)
  <1> DEFINE f == [Top EXCEPT !.rest = Tail(Top.rest)]
  <1>1. AtLine /\ IsSkippedLine(Head(Top.rest)) /\ stack' = Advanced
    BY DEF SkipLine, Line
  <1>2. /\ f.type = Top.type /\ f.name = Top.name /\ f.array = Top.array
        /\ f.fields = Top.fields /\ f.rest = Tail(Top.rest)
        /\ stack # <<>> /\ Top.rest # <<>>
        /\ Top.type = stack[Len(stack)].type /\ Top.name = stack[Len(stack)].name
        /\ Top.array = stack[Len(stack)].array
    BY <1>1, AdvancedFrame
  <1>3. Advanced = [stack EXCEPT ![Len(stack)] = f]
    BY <1>1, LineOfStack
  <1>4. PICK n \in Nat : ParsedTo(files, Pkgs, Top, Depth(Len(stack)), n)
    BY <1>2, TopIsParsed
  <1>5. LinesIn(files, Pkgs, Top.type) \in Seq(Lines)
    BY <1>2, TopIsParsed
  <1> HIDE DEF f
  <1>6. ParsedTo(files, Pkgs, f, Depth(Len(stack)), n + 1)
    BY <1>1, <1>2, <1>4, <1>5, SkipMoves
  <1>7. n + 1 \in Nat /\ stack \in Seq(Range(stack))
    BY DEF StackOK
  <1>8. StackOf([stack EXCEPT ![Len(stack)] = f], type, readFiles, files, Pkgs)
    BY <1>2, <1>6, <1>7, TopMoves
  <1> QED  BY <1>1, <1>3, <1>8

\* A primitive field is added.
LEMMA PrimFieldIsTrue ==
    ASSUME StackOK(stack), readFiles \subseteq DOMAIN FileTexts, PrimField,
           NEW type, NEW files \in Sources, StackOf(stack, type, readFiles, files, Pkgs)
    PROVE  StackOf(stack', type, readFiles, files, Pkgs)
  <1> DEFINE f == [Top EXCEPT !.rest = Tail(Top.rest)]
             field == PrimFieldOf(Line.name, PrimOf(Line), ArrayOf(Line))
             g == [f EXCEPT !.fields = Append(f.fields, field)]
  <1>1. /\ AtLine /\ ~IsSkippedLine(Line) /\ IsPrimLine(Line) /\ Line = Head(Top.rest)
        /\ stack' = [Advanced EXCEPT ![Len(stack)].fields = Append(@, field)]
    BY DEF PrimField, AtField, AtPrim, Line
  <1>2. /\ f.type = Top.type /\ f.name = Top.name /\ f.array = Top.array
        /\ f.fields = Top.fields /\ f.rest = Tail(Top.rest)
        /\ stack # <<>> /\ Top.rest # <<>>
        /\ Top.type = stack[Len(stack)].type /\ Top.name = stack[Len(stack)].name
        /\ Top.array = stack[Len(stack)].array
    BY <1>1, AdvancedFrame
  <1>3. /\ Advanced = [stack EXCEPT ![Len(stack)] = f]
        /\ f \in Frames(Depth(Len(stack)))
    BY <1>1, LineOfStack DEF FrameOK
  <1>4. PICK n \in Nat : ParsedTo(files, Pkgs, Top, Depth(Len(stack)), n)
    BY <1>2, TopIsParsed
  <1>5. LinesIn(files, Pkgs, Top.type) \in Seq(Lines)
    BY <1>2, TopIsParsed
  <1>6. Len(stack) \in DOMAIN stack
    BY <1>2, TopOfStack
  <1> HIDE DEF f, field
  <1>7. /\ g.type = Top.type /\ g.name = Top.name /\ g.array = Top.array
        /\ g.rest = Tail(Top.rest) /\ g.fields = Append(Top.fields, field)
    BY <1>2, <1>3 DEF Frames
  <1>8. stack' = [stack EXCEPT ![Len(stack)] = g]
    BY <1>1, <1>3, <1>6
  <1> HIDE DEF g
  <1>9. ParsedTo(files, Pkgs, g, Depth(Len(stack)), n + 1)
    <2>1. PrimOf(Line) \in Prims
      BY <1>1, LineOfStack, PrimsOfLines
    <2> QED  BY <1>1, <1>2, <1>4, <1>5, <1>7, <2>1, PrimMoves DEF field
  <1>10. n + 1 \in Nat /\ stack \in Seq(Range(stack))
    BY DEF StackOK
  <1>11. StackOf([stack EXCEPT ![Len(stack)] = g], type, readFiles, files, Pkgs)
    BY <1>2, <1>7, <1>9, <1>10, TopMoves
  <1> QED  BY <1>8, <1>11

\* The files the parser has read hold what they held when it opened them.
LEMMA NestedFieldIsTrue ==
    ASSUME PartsInv, StackOK(stack), readFiles \subseteq DOMAIN FileTexts, NestedField,
           NEW type, NEW files \in Sources, StackOf(stack, type, readFiles, files, Pkgs),
           \A f \in readFiles' : files[f] = source[f]
    PROVE  StackOf(stack', type, readFiles', files, Pkgs)
  <1> DEFINE f == [Top EXCEPT !.rest = Tail(Top.rest)]
             inside == Frame(NestedType, Line.name, ArrayOf(Line))
  <1>1. /\ AtLine /\ ~IsSkippedLine(Line) /\ ~IsPrimLine(Line) /\ Line = Head(Top.rest)
        /\ stack' = Append(Advanced, inside) /\ CanOpen(NestedType)
        /\ readFiles' = readFiles \cup {FindMsgFile(NestedType)}
    BY DEF NestedField, AtField, AtPrim, Line, Open
  <1>2. /\ f.type = Top.type /\ f.name = Top.name /\ f.array = Top.array
        /\ f.fields = Top.fields /\ f.rest = Tail(Top.rest)
        /\ stack # <<>> /\ Top.rest # <<>>
        /\ Top.type = stack[Len(stack)].type /\ Top.name = stack[Len(stack)].name
        /\ Top.array = stack[Len(stack)].array
    BY <1>1, AdvancedFrame
  <1>3. Advanced = [stack EXCEPT ![Len(stack)] = f]
    BY <1>1, LineOfStack
  <1>4. PICK n \in Nat : ParsedTo(files, Pkgs, Top, Depth(Len(stack)), n)
    BY <1>2, TopIsParsed
  <1>5. LinesIn(files, Pkgs, Top.type) \in Seq(Lines)
    BY <1>2, TopIsParsed
  <1>6. /\ inside.type = NestedType /\ inside.name = Line.name
        /\ inside.array = ArrayOf(Line) /\ inside.fields = <<>>
        /\ inside.rest = source[FindMsgFile(NestedType)]
    BY DEF Frame
  <1>7. NestedType = ResolveNestedType(Line.base, Top.type[1])
    BY DEF NestedType
  <1>8. /\ FileIn(Pkgs, inside.type) = FindMsgFile(NestedType)
        /\ FindMsgFile(NestedType) \in DOMAIN FileTexts
        /\ FindMsgFile(NestedType) # NotFound
    <2>1. FindMsgFile(NestedType) \in DOMAIN FileTexts
      BY <1>1, OpenedIsFile
    <2>2. FindMsgFile(NestedType) # NotFound
      BY <1>1 DEF CanOpen
    <2> QED  BY <1>6, <2>1, <2>2 DEF FindMsgFile
  <1>9. /\ LinesIn(files, Pkgs, inside.type) = source[FindMsgFile(NestedType)]
        /\ LinesIn(files, Pkgs, inside.type) \in Seq(Lines)
    <2>1. files[FindMsgFile(NestedType)] = source[FindMsgFile(NestedType)]
      BY <1>1
    <2> QED  BY <1>8, <2>1 DEF LinesIn, Sources
  <1> HIDE DEF f, inside
  <1>10. WaitsAt(files, Pkgs, f, Depth(Len(stack)), n + 1, inside)
    BY <1>1, <1>2, <1>4, <1>5, <1>6, <1>7, NestedWaits
  <1>11. ParsedTo(files, Pkgs, inside, Depth(Len(stack) + 1), 0)
    BY <1>6, <1>9, OpenedIsUnparsed
  <1>12. n + 1 \in Nat /\ stack \in Seq(Range(stack))
    BY DEF StackOK
  <1>13. StackOf(Append([stack EXCEPT ![Len(stack)] = f], inside), type,
                 readFiles \cup {FileIn(Pkgs, inside.type)}, files, Pkgs)
    BY <1>2, <1>8, <1>10, <1>11, <1>12, TopWaits
  <1> QED  BY <1>1, <1>3, <1>8, <1>13

\* The file of a nested type is done.
LEMMA EndNestedIsTrue ==
    ASSUME StackOK(stack), readFiles \subseteq DOMAIN FileTexts, EndNested,
           NEW type, NEW files \in Sources, StackOf(stack, type, readFiles, files, Pkgs)
    PROVE  StackOf(stack', type, readFiles, files, Pkgs)
  <1> DEFINE k == Len(stack)
             f == stack[k - 1]
             field == NestedFieldOf(Top.name, Top.type, Top.fields, Top.array)
             g == [f EXCEPT !.fields = Append(f.fields, field)]
  <1>1. /\ stack # <<>> /\ Top.rest = <<>> /\ k > 1
        /\ stack' = [Front(stack) EXCEPT ![k - 1].fields = Append(@, field)]
    BY DEF EndNested, AtEnd
  <1>2. /\ k \in 1 .. MaxNesting /\ DOMAIN stack = 1 .. k /\ Top = stack[k]
    BY <1>1, TopOfStack
  <1>3. /\ k - 1 \in 1 .. k - 1 /\ k - 1 \in DOMAIN stack /\ k - 1 # Len(stack)
        /\ (k - 1) + 1 = k /\ Depth(k - 1) - 1 = Depth(k)
        /\ Depth(k - 1) \in 1 .. MaxNesting
    <2>1. \A m \in Nat : m > 1 /\ m <= MaxNesting =>
             /\ m - 1 \in 1 .. m - 1 /\ m - 1 \in 1 .. m /\ m - 1 # m /\ (m - 1) + 1 = m
             /\ (MaxNesting + 1 - (m - 1)) - 1 = MaxNesting + 1 - m
             /\ MaxNesting + 1 - (m - 1) \in 1 .. MaxNesting
      BY NestingAssumption
    <2>2. k \in Nat /\ k <= MaxNesting
      BY <1>2
    <2> HIDE DEF k
    <2>3. k - 1 # Len(stack)
      BY <1>1, <2>1, <2>2 DEF k
    <2> QED  BY <1>1, <1>2, <2>1, <2>2, <2>3 DEF Depth
  <1>4. /\ \A d \in Depth(k) .. MaxNesting :
              Top.fields = FieldsFrom(files, Pkgs)[d][Top.type]
        /\ Top.type \in SoundTypes(files, Pkgs)
    BY <1>1, TopIsWhole
  <1>5. PICK m \in Nat : WaitsAt(files, Pkgs, f, Depth(k - 1), m, stack[k])
    <2>1. FrameIsTrue(stack, k - 1, files, Pkgs)
      BY <1>3 DEF StackOf
    <2> QED  BY <1>3, <2>1 DEF FrameIsTrue
  <1>6. LinesIn(files, Pkgs, f.type) \in Seq(Lines)
    BY <1>3, FilesOfStack
  <1>7. f \in Frames(Depth(k - 1))
    BY <1>3 DEF StackOK
  <1>8. Front(stack)[k - 1] = f /\ DOMAIN Front(stack) = 1 .. k - 1
    BY <1>1, <1>3, RangeFront DEF StackOK
  <1> HIDE DEF f, field
  <1>9. /\ g.type = f.type /\ g.name = f.name /\ g.array = f.array
         /\ g.rest = f.rest /\ g.fields = Append(f.fields, field)
    BY <1>7 DEF Frames
  <1>10. stack' = [Front(stack) EXCEPT ![k - 1] = g]
    BY <1>1, <1>8
  <1> HIDE DEF g
  <1>11. ParsedTo(files, Pkgs, g, Depth(k - 1), m)
    <2>1. WaitsAt(files, Pkgs, f, Depth(k - 1), m, Top)
      BY <1>2, <1>5
    <2>2. \A d \in Depth(k - 1) - 1 .. MaxNesting :
             Top.fields = FieldsFrom(files, Pkgs)[d][Top.type]
      BY <1>3, <1>4
    <2> HIDE DEF k
    <2> QED  BY <1>3, <1>4, <1>6, <1>9, <2>1, <2>2, NestedMoves DEF field
  <1>12. stack \in Seq(Range(stack)) /\ f = stack[Len(stack) - 1]
    BY DEF StackOK, f
  <1>13. StackOf([Front(stack) EXCEPT ![k - 1] = g], type, readFiles, files, Pkgs)
    BY <1>1, <1>9, <1>11, <1>12, TopReturns
  <1> QED  BY <1>10, <1>13

\* The fields of a topic are those of its type.
LEMMA EndTopicIsTrue ==
    ASSUME StackOK(stack), readFiles \subseteq DOMAIN FileTexts, EndTopic,
           NEW type, NEW files \in Sources, StackOf(stack, type, readFiles, files, Pkgs)
    PROVE  /\ fieldsOf' = Append(fieldsOf, FieldsOfTypes(files, Pkgs)[type])
           /\ type \in SoundTypes(files, Pkgs)
  <1>1. /\ stack # <<>> /\ Top.rest = <<>> /\ Len(stack) = 1
        /\ fieldsOf' = Append(fieldsOf, Top.fields)
    BY DEF EndTopic, AtEnd
  <1>2. Top = stack[1]
    BY <1>1, TopOfStack
  <1>3. /\ Top.fields = FieldsOfTypes(files, Pkgs)[Top.type]
        /\ Top.type \in SoundTypes(files, Pkgs)
    BY <1>1, TopIsWhole
  <1>4. Top.type = type
    BY <1>1, <1>2 DEF StackOf
  <1> QED  BY <1>1, <1>3, <1>4

\* The file of a topic is opened.
LEMMA StartTopicIsTrue ==
    ASSUME PartsInv, ParseTypeOK, StartTopic,
           NEW files \in Sources, \A f \in readFiles' : files[f] = source[f]
    PROVE  StackOf(stack', NextTopic.msg_type, readFiles', files, Pkgs)
  <1> DEFINE type == NextTopic.msg_type
             frame == Frame(type, "", <<>>)
  <1>1. /\ FindMsgFile(type) \in DOMAIN FileTexts
        /\ readFiles' = readFiles \cup {FindMsgFile(type)}
        /\ stack' = Append(<<>>, frame)
    BY StartTopicKeepsStack
  <1>2. FindMsgFile(type) # NotFound
    BY DEF StartTopic, Open, CanOpen
  <1> HIDE DEF type
  <1>3. /\ frame.type = type /\ frame.fields = <<>>
        /\ frame.rest = source[FindMsgFile(type)]
    BY DEF Frame
  <1>4. FileIn(Pkgs, frame.type) = FindMsgFile(type)
    BY <1>3 DEF FindMsgFile
  <1>5. /\ LinesIn(files, Pkgs, frame.type) = source[FindMsgFile(type)]
        /\ LinesIn(files, Pkgs, frame.type) \in Seq(Lines)
    <2>1. files[FindMsgFile(type)] = source[FindMsgFile(type)]
      BY <1>1
    <2> QED  BY <1>1, <1>4, <2>1 DEF LinesIn, Sources
  <1> HIDE DEF frame
  <1>6. ParsedTo(files, Pkgs, frame, Depth(1), 0)
    BY <1>3, <1>5, OpenedIsUnparsed
  <1>7. StackOf(Append(<<>>, frame), frame.type, readFiles \cup {FileIn(Pkgs, frame.type)},
                files, Pkgs)
    BY <1>2, <1>4, <1>6, FirstOpens
  <1> QED  BY <1>1, <1>3, <1>4, <1>7 DEF type

-----------------------------------------------------------------------------
(* What the process and the build tool may rely on                         *)

\* What the files that have been read would have to hold for the same outputs.
Agreeing == {files \in Sources : \A f \in readFiles : files[f] = source[f]}

\* None of them has been edited since the process began.
Untouched == edited \cap readFiles = {}

\* In one of these phases, or done.
InRun(phases) == phase \in phases \/ succeeded

Parsed == {"parse", "ids", "emit", "depfile"}

\* A process that has succeeded has come to its end.
Ends ==
    succeeded => /\ phase = "idle" /\ Len(fieldsOf) = Len(config)
                 /\ deps = IF opts["--depfile"] = Unset THEN {} ELSE {RosToml} \cup readFiles

TomlIsTrue ==
    InRun(Parsed \cup {"ros", "user"}) /\ RosToml \notin edited => config = toml

StackIsTrue ==
    phase = "parse" /\ stack # <<>> /\ Untouched =>
        \A files \in Agreeing :
            StackOf(stack, NextTopic.msg_type, readFiles, files, Pkgs)

FieldsAreTrue ==
    InRun(Parsed) /\ Untouched =>
        \A files \in Agreeing : \A i \in DOMAIN fieldsOf :
            /\ config[i].msg_type \in SoundTypes(files, Pkgs)
            /\ fieldsOf[i] = FieldsOfTypes(files, Pkgs)[config[i].msg_type]

\* What has been written, by how far it has come.
OutputIsTrue ==
    /\ output = [structs |-> output.structs, serde |-> output.serde,
                 functions |-> output.functions, rows |-> output.rows,
                 sizes |-> output.sizes]
    /\ output.functions \in Seq(Range(output.functions))
    /\ phase = "ids" => output = NoOutput
    /\ InRun({"emit", "depfile"}) =>
         /\ Len(output.functions) <= Len(config)
         /\ output.structs = StructsOf(config, fieldsOf)[Len(output.functions)]
         /\ output.serde = SerdesOf(config, fieldsOf)[Len(output.functions)]
         /\ \A i \in DOMAIN output.functions :
               output.functions[i] = UserFunction(config[i])
    /\ phase = "emit" => output.rows = <<>>
    /\ InRun({"depfile"}) =>
         /\ AllWritten /\ Len(output.functions) = Len(config)
         /\ output.rows = [i \in DOMAIN config |-> TopicRow(config[i])]
         /\ output.sizes = [i \in DOMAIN config |->
                [name |-> config[i].name, size |-> MaxPayloadSize(fieldsOf[i])]]

\* The ids are those of the topics, one each in the end.
IdsAreTrue ==
    /\ InRun({"ids", "emit", "depfile"}) =>
          \A i \in DOMAIN idLines : idLines[i].name = config[i].name
    /\ InRun({"emit", "depfile"}) => Len(idLines) = Len(config)

BuildIInv ==
    /\ TypeIInv /\ Ends /\ TomlIsTrue /\ StackIsTrue /\ FieldsAreTrue
    /\ OutputIsTrue /\ IdsAreTrue

-----------------------------------------------------------------------------
(* What a step does to what is parsed                                      *)

\* Nothing, but that files may be edited that it has not read.
QuietStep ==
    /\ UNCHANGED <<readFiles, stack, fieldsOf, config, rosPkgs, index>>
    /\ phase' = "parse" => phase = "parse"
    /\ InRun(Parsed)' => InRun(Parsed)
    /\ Untouched' => Untouched /\ \A f \in readFiles : source'[f] = source[f]

\* A step starts parsing, goes on, leaves it behind, or is quiet.
LEMMA BuildStep ==
    ASSUME PartsInv, ParseTypeOK, Ends, [Next]_vars
    PROVE  UserScanned \/ StartTopic \/ Parse \/ ~InRun(Parsed)' \/ QuietStep
  <1>1. CASE Begin
    BY <1>1 DEF Begin, InRun, Parsed
  <1>2. CASE Interrupt
    BY <1>2 DEF Interrupt, InRun, Parsed, Ends, buildVars
  <1>3. ASSUME NEW f \in DOMAIN FileTexts, NEW lines, EditMsg(f, lines) PROVE QuietStep
    <2>1. /\ UNCHANGED <<readFiles, stack, fieldsOf, config, rosPkgs, index, phase,
                         succeeded>>
          /\ edited' = edited \cup {f} /\ source' = [source EXCEPT ![f] = lines]
      BY <1>3 DEF EditMsg, processVars, parseVars, scanVars
    <2>2. Untouched' => Untouched /\ \A file \in readFiles : source'[file] = source[file]
      <3> SUFFICES ASSUME Untouched'
                   PROVE  Untouched /\ \A file \in readFiles : source'[file] = source[file]
        OBVIOUS
      <3>1. (edited \cup {f}) \cap readFiles = {}
        BY <2>1 DEF Untouched
      <3>2. f \notin readFiles /\ edited \cap readFiles = {}
        BY <3>1
      <3>3. \A file \in readFiles : file # f /\ file \in DOMAIN source
        BY <3>2 DEF ParseTypeOK
      <3> QED  BY <2>1, <3>2, <3>3 DEF Untouched
    <2> QED  BY <2>1, <2>2 DEF QuietStep, InRun
  <1>4. ASSUME NEW text, EditToml(text) PROVE QuietStep
    <2>1. /\ UNCHANGED <<readFiles, stack, fieldsOf, config, rosPkgs, index, phase,
                         succeeded, source>>
          /\ edited' = edited \cup {RosToml}
      BY <1>4 DEF EditToml, processVars, parseVars, scanVars
    <2> QED  BY <2>1 DEF QuietStep, InRun, Untouched
  <1>5. ASSUME NEW i, Publish(i) PROVE QuietStep
    BY <1>5 DEF Publish, Unchanged, QuietStep, InRun, Untouched, processVars, parseVars,
                scanVars, fileVars, buildVars
  <1>6. CASE Serialize
    BY <1>6 DEF Serialize, Unchanged, QuietStep, InRun, Untouched, processVars, parseVars,
                scanVars, fileVars, buildVars
  <1>7. CASE Run
    <2>1. CASE ReadArgs \/ BadArgs \/ BadToml \/ BadScan
      BY <2>1 DEF ReadArgs, BadArgs, BadToml, BadScan, ScanDone, Fail, ReadsOnly,
                  buildVars, InRun, Parsed, Ends
    <2>2. CASE ReadToml \/ RosScanned \/ Scan
      BY <2>2 DEF ReadToml, RosScanned, Scan, ReadsOnly, buildVars, InRun, Parsed, Ends
    <2>3. CASE BadTopic \/ BadParse \/ IdsOverflow
      BY <2>3 DEF BadTopic, BetweenTopics, BadParse, IdsOverflow, Fail, ReadsOnly,
                  buildVars, InRun, Parsed, Ends
    <2>4. CASE CreateOutputs \/ AssignIds \/ IdsAssigned \/ EmitTopic \/ WriteTables
      BY <2>4 DEF CreateOutputs, BetweenTopics, AssignIds, IdsAssigned, EmitTopic,
                  WriteTables, Writes, QuietStep, InRun, Parsed, Untouched, processVars,
                  parseVars, scanVars, fileVars, buildVars
    <2>5. CASE WriteDepfile
      BY <2>5 DEF WriteDepfile, QuietStep, InRun, Parsed, Untouched, processVars,
                  parseVars, scanVars, fileVars
    <2>6. CASE UserScanned \/ StartTopic \/ Parse
      BY <2>6
    <2> QED  BY <1>7, <2>1, <2>2, <2>3, <2>4, <2>5, <2>6 DEF Run, Generate
  <1>8. CASE UNCHANGED vars
    BY <1>8 DEF vars, QuietStep, InRun, Untouched, processVars, parseVars, scanVars,
                fileVars, buildVars
  <1> QED  BY <1>1, <1>2, <1>3, <1>4, <1>5, <1>6, <1>7, <1>8 DEF Next

\* A quiet step leaves true what was.
LEMMA QuietKeepsParsed ==
    ASSUME QuietStep, StackIsTrue, FieldsAreTrue
    PROVE  StackIsTrue' /\ FieldsAreTrue'
  <1>1. /\ UNCHANGED <<readFiles, stack, fieldsOf, config, Pkgs, NextTopic>>
        /\ phase' = "parse" => phase = "parse"
        /\ InRun(Parsed)' => InRun(Parsed)
    BY DEF QuietStep, Pkgs, NextTopic
  <1>2. ASSUME Untouched' PROVE Untouched /\ Agreeing' = Agreeing
    <2>1. Untouched /\ \A f \in readFiles : source'[f] = source[f]
      BY <1>2 DEF QuietStep
    <2> QED  BY <1>1, <2>1 DEF Agreeing
  <1>3. StackIsTrue'
    BY <1>1, <1>2 DEF StackIsTrue
  <1>4. FieldsAreTrue'
    BY <1>1, <1>2 DEF FieldsAreTrue
  <1> QED  BY <1>3, <1>4

\* Reading on, the files it might have been are fewer.
LEMMA ParseShrinksAgreeing ==
    ASSUME StartTopic \/ Parse
    PROVE  /\ phase = "parse" /\ UNCHANGED <<phase, config, source, edited, Pkgs>>
           /\ readFiles \subseteq readFiles' /\ Agreeing' \subseteq Agreeing
           /\ Untouched' => Untouched
           /\ \A files \in Agreeing' :
                 files \in Sources /\ \A f \in readFiles' : files[f] = source[f]
  <1>1. /\ phase = "parse" /\ UNCHANGED <<phase, config, source, edited, Pkgs>>
    BY DEF StartTopic, Parse, BetweenTopics, ReadsOnly, fileVars, processVars, buildVars,
           scanVars, Pkgs
  <1>2. readFiles \subseteq readFiles'
    BY DEF StartTopic, Parse, ParseNext, SkipLine, BadArrayLength, PrimField, NestedField,
           UnresolvedField, EndNested, EndTopic, ParseFails, Open
  <1> QED  BY <1>1, <1>2 DEF Agreeing, Untouched

\* The stack is true of every contents that agrees with what has been read.
LEMMA ParseKeepsStackTrue ==
    ASSUME PartsInv, ParseTypeOK, StackIsTrue, Parse
    PROVE  StackIsTrue'
  <1> SUFFICES ASSUME stack' # <<>>, Untouched', NEW files \in Agreeing'
               PROVE  StackOf(stack', NextTopic'.msg_type, readFiles', files, Pkgs')
    BY DEF StackIsTrue
  <1>1. /\ phase = "parse" /\ UNCHANGED <<phase, config, source, edited, Pkgs>>
        /\ readFiles \subseteq readFiles' /\ files \in Agreeing /\ Untouched
        /\ files \in Sources /\ \A f \in readFiles' : files[f] = source[f]
    BY ParseShrinksAgreeing
  <1>2. /\ StackOK(stack) /\ readFiles \subseteq DOMAIN FileTexts
    BY DEF ParseTypeOK, StackOK, PartsInv
  <1>3. UNCHANGED fieldsOf /\ stack # <<>>
    BY ParseKeepsTypes
  <1>4. NextTopic' = NextTopic
    BY <1>1, <1>3 DEF NextTopic
  <1>5. StackOf(stack, NextTopic.msg_type, readFiles, files, Pkgs)
    BY <1>1, <1>3 DEF StackIsTrue
  <1> DEFINE type == NextTopic.msg_type
  <1> HIDE DEF type
  <1>6. StackOf(stack, type, readFiles, files, Pkgs)
    BY <1>5 DEF type
  <1>7. StackOf(stack', type, readFiles', files, Pkgs)
    <2>1. CASE SkipLine
      <3>1. UNCHANGED readFiles
        BY <2>1 DEF SkipLine
      <3>2. StackOf(stack', type, readFiles, files, Pkgs)
        BY <1>1, <1>2, <1>6, <2>1, SkipLineIsTrue
      <3> QED  BY <3>1, <3>2
    <2>2. CASE PrimField
      <3>1. UNCHANGED readFiles
        BY <2>2 DEF PrimField
      <3>2. StackOf(stack', type, readFiles, files, Pkgs)
        BY <1>1, <1>2, <1>6, <2>2, PrimFieldIsTrue
      <3> QED  BY <3>1, <3>2
    <2>3. CASE NestedField
      BY <1>1, <1>2, <1>6, <2>3, NestedFieldIsTrue
    <2>4. CASE EndNested
      <3>1. UNCHANGED readFiles
        BY <2>4 DEF EndNested
      <3>2. StackOf(stack', type, readFiles, files, Pkgs)
        BY <1>1, <1>2, <1>6, <2>4, EndNestedIsTrue
      <3> QED  BY <3>1, <3>2
    <2>5. CASE BadArrayLength \/ UnresolvedField \/ EndTopic
      BY <2>5 DEF BadArrayLength, UnresolvedField, EndTopic, ParseFails
    <2> QED  BY <2>1, <2>2, <2>3, <2>4, <2>5 DEF Parse, ParseNext
  <1> QED  BY <1>1, <1>4, <1>7 DEF type

\* And so are the fields of the topics that are done.
LEMMA ParseKeepsFieldsTrue ==
    ASSUME PartsInv, ParseTypeOK, StackIsTrue, FieldsAreTrue, Parse
    PROVE  FieldsAreTrue'
  <1> SUFFICES ASSUME Untouched', NEW files \in Agreeing', NEW i \in DOMAIN fieldsOf'
               PROVE  /\ config'[i].msg_type \in SoundTypes(files, Pkgs')
                      /\ fieldsOf'[i] = FieldsOfTypes(files, Pkgs')[config'[i].msg_type]
    BY DEF FieldsAreTrue
  <1>1. /\ phase = "parse" /\ UNCHANGED <<phase, config, source, edited, Pkgs>>
        /\ readFiles \subseteq readFiles' /\ files \in Agreeing /\ Untouched
        /\ files \in Sources /\ \A f \in readFiles' : files[f] = source[f]
    BY ParseShrinksAgreeing
  <1>2. /\ StackOK(stack) /\ readFiles \subseteq DOMAIN FileTexts
        /\ fieldsOf \in Seq(MsgFieldSeqs)
    BY DEF ParseTypeOK, StackOK, PartsInv
  <1>3. \A j \in DOMAIN fieldsOf :
           /\ config[j].msg_type \in SoundTypes(files, Pkgs)
           /\ fieldsOf[j] = FieldsOfTypes(files, Pkgs)[config[j].msg_type]
    BY <1>1 DEF FieldsAreTrue, InRun, Parsed
  <1>4. CASE UNCHANGED fieldsOf
    BY <1>1, <1>3, <1>4
  <1>5. CASE EndTopic
    <2> DEFINE type == NextTopic.msg_type
               fields == FieldsOfTypes(files, Pkgs)[type]
    <2>1. stack # <<>>
      BY <1>5 DEF EndTopic, AtEnd
    <2>2. StackOf(stack, type, readFiles, files, Pkgs)
      BY <1>1, <2>1 DEF StackIsTrue
    <2> HIDE DEF type
    <2>3. fieldsOf' = Append(fieldsOf, fields) /\ type \in SoundTypes(files, Pkgs)
      BY <1>1, <1>2, <1>5, <2>2, EndTopicIsTrue
    <2> HIDE DEF fields
    <2>4. fieldsOf \in Seq(Range(fieldsOf))
      BY <1>2, SeqOfRange
    <2>5. /\ DOMAIN fieldsOf' = 1 .. Len(fieldsOf) + 1 /\ DOMAIN fieldsOf = 1 .. Len(fieldsOf)
          /\ Len(fieldsOf) \in Nat /\ fieldsOf'[Len(fieldsOf) + 1] = fields
          /\ \A j \in 1 .. Len(fieldsOf) : fieldsOf'[j] = fieldsOf[j]
      BY <2>3, <2>4, RangeAppend
    <2>6. CASE i \in 1 .. Len(fieldsOf)
      BY <1>1, <1>3, <2>5, <2>6
    <2>7. CASE i = Len(fieldsOf) + 1
      <3>1. config[i].msg_type = type
        BY <2>7 DEF type, NextTopic
      <3> QED  BY <1>1, <2>3, <2>5, <2>7, <3>1 DEF fields
    <2>8. \A n \in Nat : \A j \in 1 .. n + 1 : j \in 1 .. n \/ j = n + 1
      OBVIOUS
    <2> QED  BY <2>5, <2>6, <2>7, <2>8
  <1> QED  BY <1>4, <1>5, ParseKeepsTypes

\* The next topic is begun.
LEMMA StartTopicKeepsParsed ==
    ASSUME PartsInv, ParseTypeOK, FieldsAreTrue, StartTopic
    PROVE  StackIsTrue' /\ FieldsAreTrue'
  <1>1. /\ phase = "parse" /\ UNCHANGED <<phase, config, source, edited, Pkgs>>
        /\ readFiles \subseteq readFiles' /\ Agreeing' \subseteq Agreeing
        /\ Untouched' => Untouched
    BY ParseShrinksAgreeing
  <1>2. UNCHANGED fieldsOf
    BY StartTopicKeepsStack
  <1>3. NextTopic' = NextTopic
    BY <1>1, <1>2 DEF NextTopic
  <1>4. ASSUME NEW files \in Agreeing'
        PROVE  StackOf(stack', NextTopic'.msg_type, readFiles', files, Pkgs')
    <2>1. files \in Sources /\ \A f \in readFiles' : files[f] = source[f]
      BY <1>4, ParseShrinksAgreeing
    <2>2. StackOf(stack', NextTopic.msg_type, readFiles', files, Pkgs)
      BY <2>1, StartTopicIsTrue
    <2> QED  BY <1>1, <1>3, <2>2
  <1>5. StackIsTrue'
    BY <1>4 DEF StackIsTrue
  <1>6. FieldsAreTrue'
    BY <1>1, <1>2 DEF FieldsAreTrue, InRun, Parsed
  <1> QED  BY <1>5, <1>6

\* Any step keeps what is parsed true.
LEMMA StepKeepsParsed ==
    ASSUME TypeIInv, Ends, StackIsTrue, FieldsAreTrue, [Next]_vars
    PROVE  StackIsTrue' /\ FieldsAreTrue'
  <1>1. PartsInv /\ ParseTypeOK
    BY DEF TypeIInv
  <1>2. CASE UserScanned
    <2>1. stack' = <<>> /\ fieldsOf' = <<>> /\ DOMAIN <<>> = {}
      BY <1>2 DEF UserScanned
    <2> QED  BY <2>1 DEF StackIsTrue, FieldsAreTrue
  <1>3. CASE StartTopic
    BY <1>1, <1>3, StartTopicKeepsParsed
  <1>4. CASE Parse
    BY <1>1, <1>4, ParseKeepsStackTrue, ParseKeepsFieldsTrue
  <1>5. CASE ~InRun(Parsed)'
    BY <1>5 DEF StackIsTrue, FieldsAreTrue, InRun, Parsed
  <1>6. CASE QuietStep
    BY <1>6, QuietKeepsParsed
  <1> QED  BY <1>1, <1>2, <1>3, <1>4, <1>5, <1>6, BuildStep

-----------------------------------------------------------------------------
(* What a step does to ros.toml, to the build tool and to the outputs      *)

\* Any step keeps what the end of a run means.
LEMMA StepKeepsEnds ==
    ASSUME PhasesInv, Ends, [Next]_vars
    PROVE  Ends'
  <1>1. CASE Begin
    BY <1>1 DEF Begin, Ends
  <1>2. CASE Interrupt
    BY <1>2 DEF Interrupt, buildVars, Ends
  <1>3. ASSUME NEW f, NEW lines, EditMsg(f, lines) PROVE Ends'
    BY <1>3 DEF EditMsg, processVars, parseVars, Ends
  <1>4. ASSUME NEW text, EditToml(text) PROVE Ends'
    BY <1>4 DEF EditToml, processVars, parseVars, Ends
  <1>5. ASSUME NEW i, Publish(i) PROVE Ends'
    BY <1>5 DEF Publish, Unchanged, processVars, parseVars, buildVars, Ends
  <1>6. CASE Serialize
    BY <1>6 DEF Serialize, Unchanged, processVars, parseVars, buildVars, Ends
  <1>7. CASE Run
    <2>1. CASE ReadArgs \/ BadArgs \/ BadToml \/ BadScan
      BY <2>1 DEF ReadArgs, BadArgs, BadToml, BadScan, ScanDone, Fail, ReadsOnly,
                  buildVars, Ends
    <2>2. CASE ReadToml \/ RosScanned \/ Scan \/ UserScanned
      BY <2>2 DEF ReadToml, RosScanned, Scan, UserScanned, ReadsOnly, buildVars, Ends
    <2>3. CASE StartTopic \/ Parse \/ BadTopic \/ BadParse \/ IdsOverflow
      BY <2>3 DEF StartTopic, Parse, BadTopic, BetweenTopics, BadParse, IdsOverflow, Fail,
                  ReadsOnly, buildVars, Ends
    <2>4. CASE CreateOutputs \/ AssignIds \/ IdsAssigned \/ EmitTopic \/ WriteTables
      BY <2>4 DEF CreateOutputs, BetweenTopics, AssignIds, IdsAssigned, EmitTopic,
                  WriteTables, Writes, buildVars, Ends
    <2>5. CASE WriteDepfile
      <3>1. Len(fieldsOf) = Len(config)
        BY <2>5 DEF WriteDepfile, PhasesInv
      <3>2. /\ phase' = "idle" /\ UNCHANGED <<fieldsOf, config, opts, readFiles>>
            /\ deps' = IF opts["--depfile"] = Unset THEN {} ELSE {RosToml} \cup readFiles
        BY <2>5 DEF WriteDepfile, processVars, parseVars
      <3> QED  BY <3>1, <3>2 DEF Ends
    <2> QED  BY <1>7, <2>1, <2>2, <2>3, <2>4, <2>5 DEF Run, Generate
  <1>8. CASE UNCHANGED vars
    BY <1>8 DEF vars, processVars, parseVars, buildVars, Ends
  <1> QED  BY <1>1, <1>2, <1>3, <1>4, <1>5, <1>6, <1>7, <1>8 DEF Next

\* Any step keeps the topics those of ros.toml, unless it has been edited.
LEMMA StepKeepsToml ==
    ASSUME Ends, TomlIsTrue, [Next]_vars
    PROVE  TomlIsTrue'
  <1> USE DEF TomlIsTrue, InRun, Parsed
  <1>1. CASE Begin
    BY <1>1 DEF Begin
  <1>2. CASE Interrupt
    BY <1>2 DEF Interrupt, buildVars, Ends
  <1>3. ASSUME NEW f, NEW lines, EditMsg(f, lines) PROVE TomlIsTrue'
    BY <1>3 DEF EditMsg, processVars
  <1>4. ASSUME NEW text, EditToml(text) PROVE TomlIsTrue'
    BY <1>4 DEF EditToml
  <1>5. ASSUME NEW i, Publish(i) PROVE TomlIsTrue'
    BY <1>5 DEF Publish, Unchanged, fileVars, processVars, buildVars
  <1>6. CASE Serialize
    BY <1>6 DEF Serialize, Unchanged, fileVars, processVars, buildVars
  <1>7. CASE Run
    <2>1. CASE ReadArgs \/ BadArgs \/ BadToml \/ BadScan
      BY <2>1 DEF ReadArgs, BadArgs, BadToml, BadScan, ScanDone, Fail, ReadsOnly,
                  buildVars, Ends
    <2>2. CASE ReadToml
      BY <2>2 DEF ReadToml, ReadsOnly, fileVars
    <2>3. CASE RosScanned \/ Scan \/ UserScanned
      BY <2>3 DEF RosScanned, Scan, UserScanned, ReadsOnly, processVars, buildVars, fileVars
    <2>4. CASE StartTopic \/ Parse
      BY <2>4 DEF StartTopic, Parse, ReadsOnly, processVars, buildVars, fileVars
    <2>5. CASE BadTopic \/ BadParse \/ IdsOverflow
      BY <2>5 DEF BadTopic, BetweenTopics, BadParse, IdsOverflow, Fail, ReadsOnly,
                  buildVars, Ends
    <2>6. CASE CreateOutputs \/ AssignIds \/ IdsAssigned \/ EmitTopic \/ WriteTables
      BY <2>6 DEF CreateOutputs, BetweenTopics, AssignIds, IdsAssigned, EmitTopic,
                  WriteTables, Writes, buildVars, processVars, fileVars
    <2>7. CASE WriteDepfile
      BY <2>7 DEF WriteDepfile, processVars, fileVars
    <2> QED  BY <1>7, <2>1, <2>2, <2>3, <2>4, <2>5, <2>6, <2>7 DEF Run, Generate
  <1>8. CASE UNCHANGED vars
    BY <1>8 DEF vars, fileVars, processVars, buildVars
  <1> QED  BY <1>1, <1>2, <1>3, <1>4, <1>5, <1>6, <1>7, <1>8 DEF Next

\* A step that writes nothing, and does not come to writing.
QuietOutput ==
    /\ UNCHANGED <<output, disk>>
    /\ phase' = "ids" => phase = "ids"
    /\ phase' = "emit" => phase = "emit"
    /\ InRun({"emit", "depfile"})' =>
          InRun({"emit", "depfile"}) /\ UNCHANGED <<config, fieldsOf>>
    /\ InRun({"depfile"})' => InRun({"depfile"})

\* A step writes outputs or is quiet.
LEMMA OutputStep ==
    ASSUME Ends, [Next]_vars
    PROVE  CreateOutputs \/ IdsAssigned \/ EmitTopic \/ WriteTables \/ QuietOutput
  <1> USE DEF QuietOutput, InRun
  <1>1. CASE Begin
    BY <1>1 DEF Begin, outputVars
  <1>2. CASE Interrupt
    BY <1>2 DEF Interrupt, buildVars, outputVars, Ends
  <1>3. ASSUME NEW f, NEW lines, EditMsg(f, lines) PROVE QuietOutput
    BY <1>3 DEF EditMsg, processVars, parseVars, outputVars
  <1>4. ASSUME NEW text, EditToml(text) PROVE QuietOutput
    BY <1>4 DEF EditToml, processVars, parseVars, outputVars
  <1>5. ASSUME NEW i, Publish(i) PROVE QuietOutput
    BY <1>5 DEF Publish, Unchanged, processVars, parseVars, buildVars, outputVars
  <1>6. CASE Serialize
    BY <1>6 DEF Serialize, Unchanged, processVars, parseVars, buildVars, outputVars
  <1>7. CASE Run
    <2>1. CASE ReadArgs \/ BadArgs \/ BadToml \/ BadScan
      BY <2>1 DEF ReadArgs, BadArgs, BadToml, BadScan, ScanDone, Fail, ReadsOnly,
                  buildVars, outputVars, Ends
    <2>2. CASE ReadToml \/ RosScanned \/ Scan \/ UserScanned
      BY <2>2 DEF ReadToml, RosScanned, Scan, UserScanned, ReadsOnly, buildVars,
                  outputVars, Ends
    <2>3. CASE StartTopic \/ Parse \/ BadTopic \/ BadParse \/ IdsOverflow
      BY <2>3 DEF StartTopic, Parse, BadTopic, BetweenTopics, BadParse, IdsOverflow, Fail,
                  ReadsOnly, buildVars, outputVars, Ends
    <2>4. CASE AssignIds
      BY <2>4 DEF AssignIds, Writes, processVars, parseVars, buildVars, outputVars
    <2>5. CASE WriteDepfile
      BY <2>5 DEF WriteDepfile, processVars, parseVars, outputVars
    <2> QED  BY <1>7, <2>1, <2>2, <2>3, <2>4, <2>5 DEF Run, Generate
  <1>8. CASE UNCHANGED vars
    BY <1>8 DEF vars, processVars, parseVars, buildVars, outputVars
  <1> QED  BY <1>1, <1>2, <1>3, <1>4, <1>5, <1>6, <1>7, <1>8 DEF Next

\* The outputs are truncated.
LEMMA CreateIsTrue ==
    ASSUME Ends, CreateOutputs
    PROVE  OutputIsTrue'
  <1>1. /\ output' = NoOutput /\ phase' = "ids" /\ ~succeeded'
    BY DEF CreateOutputs, BetweenTopics, Writes, buildVars, Ends
  <1>2. /\ NoOutput = [structs |-> NoOutput.structs, serde |-> NoOutput.serde,
                       functions |-> NoOutput.functions, rows |-> NoOutput.rows,
                       sizes |-> NoOutput.sizes]
        /\ NoOutput.functions = <<>>
    BY DEF NoOutput
  <1>3. <<>> \in Seq(Range(<<>>))
    BY EmptySeq
  <1> QED  BY <1>1, <1>2, <1>3 DEF OutputIsTrue, InRun

\* The structs of no topics.
LEMMA IdsAssignedIsTrue ==
    ASSUME TypeIInv, Ends, OutputIsTrue, IdsAssigned
    PROVE  OutputIsTrue'
  <1>1. /\ phase = "ids" /\ output = NoOutput /\ phase' = "emit" /\ ~succeeded'
        /\ UNCHANGED <<output, config, fieldsOf>>
    BY DEF IdsAssigned, Writes, buildVars, outputVars, processVars, parseVars, Ends,
           OutputIsTrue
  <1>2. /\ NoOutput.structs = NothingEmitted /\ NoOutput.serde = NothingEmitted
        /\ NoOutput.functions = <<>> /\ NoOutput.rows = <<>>
        /\ Len(<<>>) = 0 /\ DOMAIN <<>> = {}
    BY DEF NoOutput
  <1>3. Len(config) \in Nat /\ DOMAIN config = 1 .. Len(config)
    BY LenProperties DEF TypeIInv, PartsInv, Configs
  <1>4. /\ StructsOf(config, fieldsOf)[0] = NothingEmitted
        /\ SerdesOf(config, fieldsOf)[0] = NothingEmitted
    BY <1>3, OutputsOfDef
  <1>5. /\ Len(output.functions) = 0 /\ output.structs = NothingEmitted
        /\ output.serde = NothingEmitted /\ output.rows = <<>>
        /\ DOMAIN output.functions = {}
    BY <1>1, <1>2
  <1>6. Len(output'.functions) <= Len(config')
    BY <1>1, <1>3, <1>5
  <1>7. /\ output'.structs = StructsOf(config', fieldsOf')[Len(output'.functions)]
        /\ output'.serde = SerdesOf(config', fieldsOf')[Len(output'.functions)]
        /\ \A i \in DOMAIN output'.functions : output'.functions[i] = UserFunction(config'[i])
        /\ output'.rows = <<>>
    BY <1>1, <1>4, <1>5
  <1> QED  BY <1>1, <1>6, <1>7 DEF OutputIsTrue, InRun

\* The structs, serialisers and function of one topic more.
LEMMA EmitIsTrue ==
    ASSUME TypeIInv, Ends, OutputIsTrue, EmitTopic
    PROVE  OutputIsTrue'
  <1> DEFINE i == Len(output.functions) + 1
             type == config[i].msg_type
             structs == UserCStructs[fieldsOf[i]][type][output.structs]
             serde == SerdeFunctions[fieldsOf[i]][PrefixOf(StructName(type))][output.serde]
             functions == Append(output.functions, UserFunction(config[i]))
  <1>1. /\ phase = "emit" /\ phase' = "emit" /\ ~succeeded'
        /\ UNCHANGED <<config, fieldsOf>>
        /\ Len(output.functions) < Len(config)
    BY DEF EmitTopic, Writes, buildVars, processVars, parseVars, Ends
  <1>2. output' = [output EXCEPT !.structs = structs, !.serde = serde,
                                 !.functions = functions]
    BY DEF EmitTopic
  <1>3. /\ output = [structs |-> output.structs, serde |-> output.serde,
                     functions |-> output.functions, rows |-> output.rows,
                     sizes |-> output.sizes]
        /\ output.functions \in Seq(Range(output.functions))
    BY DEF OutputIsTrue
  <1>4. /\ output.structs = StructsOf(config, fieldsOf)[Len(output.functions)]
        /\ output.serde = SerdesOf(config, fieldsOf)[Len(output.functions)]
        /\ \A j \in DOMAIN output.functions :
              output.functions[j] = UserFunction(config[j])
        /\ output.rows = <<>>
    BY <1>1 DEF OutputIsTrue, InRun
  <1> HIDE DEF structs, serde, functions
  <1>5. output' = [structs |-> structs, serde |-> serde, functions |-> functions,
                   rows |-> output.rows, sizes |-> output.sizes]
    BY <1>2, <1>3
  <1>6. /\ Len(output.functions) \in Nat
        /\ functions \in Seq(Range(functions)) /\ Len(functions) = i
        /\ DOMAIN output.functions = 1 .. Len(output.functions)
        /\ DOMAIN functions = 1 .. Len(output.functions) + 1
        /\ \A j \in 1 .. Len(output.functions) : functions[j] = output.functions[j]
        /\ functions[i] = UserFunction(config[i])
    BY <1>3, RangeAppend DEF functions
  <1>7. Len(config) \in Nat /\ DOMAIN config = 1 .. Len(config)
    BY LenProperties DEF TypeIInv, PartsInv, Configs
  <1>8. /\ i \in 1 .. Len(config) /\ i - 1 = Len(output.functions) /\ i <= Len(config)
        /\ \A j \in DOMAIN functions : j \in DOMAIN output.functions \/ j = i
    <2>1. \A a, b \in Nat : a < b =>
             /\ a + 1 \in 1 .. b /\ (a + 1) - 1 = a /\ a + 1 <= b
             /\ \A j \in 1 .. a + 1 : j \in 1 .. a \/ j = a + 1
      OBVIOUS
    <2>2. Len(output.functions) < Len(config)
      BY <1>1
    <2> QED  BY <1>6, <1>7, <2>1, <2>2
  <1> HIDE DEF i
  <1>9. /\ structs = StructsOf(config, fieldsOf)[i]
        /\ serde = SerdesOf(config, fieldsOf)[i]
    <2>1. /\ StructsOf(config, fieldsOf)[i]
                = UserCStructs[fieldsOf[i]][type][StructsOf(config, fieldsOf)[i - 1]]
          /\ SerdesOf(config, fieldsOf)[i]
                = SerdeFunctions[fieldsOf[i]][PrefixOf(StructName(type))]
                      [SerdesOf(config, fieldsOf)[i - 1]]
      BY <1>7, <1>8, OutputsOfDef
    <2> QED  BY <1>4, <1>8, <2>1 DEF structs, serde
  <1>10. /\ Len(output'.functions) = i /\ output'.structs = structs
         /\ output'.serde = serde /\ output'.functions = functions
         /\ output'.rows = <<>>
    BY <1>4, <1>5, <1>6
  <1>11. output' = [structs |-> output'.structs, serde |-> output'.serde,
                    functions |-> output'.functions, rows |-> output'.rows,
                    sizes |-> output'.sizes]
    BY <1>5
  <1>12. \A j \in DOMAIN functions : functions[j] = UserFunction(config[j])
    BY <1>4, <1>6, <1>8
  <1>13. /\ Len(output'.functions) <= Len(config')
         /\ output'.structs = StructsOf(config', fieldsOf')[Len(output'.functions)]
         /\ output'.serde = SerdesOf(config', fieldsOf')[Len(output'.functions)]
         /\ \A j \in DOMAIN output'.functions :
               output'.functions[j] = UserFunction(config'[j])
    BY <1>1, <1>8, <1>9, <1>10, <1>12
  <1>14. output'.functions \in Seq(Range(output'.functions))
    BY <1>6, <1>10
  <1> QED  BY <1>1, <1>10, <1>11, <1>13, <1>14 DEF OutputIsTrue, InRun

\* The outputs are whole.
LEMMA TablesAreTrue ==
    ASSUME TypeIInv, Ends, OutputIsTrue, WriteTables
    PROVE  OutputIsTrue'
  <1> DEFINE rows == [i \in DOMAIN config |-> TopicRow(config[i])]
             sizes == [i \in DOMAIN config |->
                        [name |-> config[i].name, size |-> MaxPayloadSize(fieldsOf[i])]]
  <1>1. /\ phase = "emit" /\ phase' = "depfile" /\ AllWritten'
        /\ UNCHANGED <<config, fieldsOf>>
        /\ Len(output.functions) = Len(config)
        /\ output' = [output EXCEPT !.rows = rows, !.sizes = sizes]
    BY DEF WriteTables, Writes, AllWritten, processVars, parseVars
  <1>2. /\ output = [structs |-> output.structs, serde |-> output.serde,
                     functions |-> output.functions, rows |-> output.rows,
                     sizes |-> output.sizes]
        /\ output.functions \in Seq(Range(output.functions))
        /\ Len(output.functions) <= Len(config)
        /\ output.structs = StructsOf(config, fieldsOf)[Len(output.functions)]
        /\ output.serde = SerdesOf(config, fieldsOf)[Len(output.functions)]
        /\ \A i \in DOMAIN output.functions : output.functions[i] = UserFunction(config[i])
    BY <1>1 DEF OutputIsTrue, InRun
  <1>3. /\ rows' = rows /\ sizes' = sizes
    BY <1>1
  <1> HIDE DEF rows, sizes
  <1>4. output' = [structs |-> output.structs, serde |-> output.serde,
                   functions |-> output.functions, rows |-> rows, sizes |-> sizes]
    BY <1>1, <1>2
  <1>5. /\ output'.structs = output.structs /\ output'.functions = output.functions
        /\ output'.serde = output.serde
        /\ output'.rows = rows /\ output'.sizes = sizes
    BY <1>4
  <1>6. output' = [structs |-> output'.structs, serde |-> output'.serde,
                   functions |-> output'.functions, rows |-> output'.rows,
                   sizes |-> output'.sizes]
    BY <1>4
  <1>7. output'.rows = rows' /\ output'.sizes = sizes'
    BY <1>3, <1>5
  <1> QED  BY <1>1, <1>2, <1>5, <1>6, <1>7 DEF OutputIsTrue, InRun, rows, sizes

\* Any step keeps the outputs those of what was parsed.
LEMMA StepKeepsOutput ==
    ASSUME TypeIInv, Ends, OutputIsTrue, [Next]_vars
    PROVE  OutputIsTrue'
  <1>1. CASE CreateOutputs \/ IdsAssigned \/ EmitTopic \/ WriteTables
    BY <1>1, CreateIsTrue, IdsAssignedIsTrue, EmitIsTrue, TablesAreTrue
  <1>2. CASE QuietOutput
    <2>1. /\ UNCHANGED <<output, disk>>
          /\ phase' = "ids" => phase = "ids"
          /\ phase' = "emit" => phase = "emit"
          /\ InRun({"emit", "depfile"})' =>
                InRun({"emit", "depfile"}) /\ UNCHANGED <<config, fieldsOf>>
          /\ InRun({"depfile"})' => InRun({"depfile"})
          /\ InRun({"depfile"})' => InRun({"emit", "depfile"})'
      BY <1>2 DEF QuietOutput, InRun
    <2> QED  BY <2>1 DEF OutputIsTrue, AllWritten
  <1> QED  BY <1>1, <1>2, OutputStep

-----------------------------------------------------------------------------
(* What a step does to the names of the ids                                *)

\* A step that gives out no id, and does not come to giving out any.
QuietIds ==
    /\ UNCHANGED idLines
    /\ InRun({"ids", "emit", "depfile"})' =>
          InRun({"ids", "emit", "depfile"}) /\ UNCHANGED config
    /\ InRun({"emit", "depfile"})' => InRun({"emit", "depfile"})

\* A step begins the ids, gives one out, has given out the last, or is quiet.
LEMMA IdLinesStep ==
    ASSUME Ends, [Next]_vars
    PROVE  \/ Begin \/ CreateOutputs \/ AssignIds \/ IdsAssigned \/ QuietIds
  <1> USE DEF QuietIds, InRun
  <1>1. CASE Begin
    BY <1>1
  <1>2. CASE Interrupt
    BY <1>2 DEF Interrupt, buildVars, idVars, Ends
  <1>3. ASSUME NEW f, NEW lines, EditMsg(f, lines) PROVE QuietIds
    BY <1>3 DEF EditMsg, processVars, idVars
  <1>4. ASSUME NEW text, EditToml(text) PROVE QuietIds
    BY <1>4 DEF EditToml, processVars, idVars
  <1>5. ASSUME NEW i, Publish(i) PROVE QuietIds
    BY <1>5 DEF Publish, Unchanged, processVars, buildVars, idVars
  <1>6. CASE Serialize
    BY <1>6 DEF Serialize, Unchanged, processVars, buildVars, idVars
  <1>7. CASE Run
    <2>1. CASE ReadArgs \/ BadArgs \/ BadToml \/ BadScan
      BY <2>1 DEF ReadArgs, BadArgs, BadToml, BadScan, ScanDone, Fail, ReadsOnly,
                  buildVars, idVars, Ends
    <2>2. CASE ReadToml \/ RosScanned \/ Scan \/ UserScanned
      BY <2>2 DEF ReadToml, RosScanned, Scan, UserScanned, ReadsOnly, buildVars,
                  idVars, Ends
    <2>3. CASE StartTopic \/ Parse \/ BadTopic \/ BadParse \/ IdsOverflow
      BY <2>3 DEF StartTopic, Parse, BadTopic, BetweenTopics, BadParse, IdsOverflow, Fail,
                  ReadsOnly, buildVars, idVars, Ends
    <2>4. CASE EmitTopic \/ WriteTables
      BY <2>4 DEF EmitTopic, WriteTables, Writes, processVars, buildVars, idVars
    <2>5. CASE WriteDepfile
      BY <2>5 DEF WriteDepfile, processVars, idVars
    <2> QED  BY <1>7, <2>1, <2>2, <2>3, <2>4, <2>5 DEF Run, Generate
  <1>8. CASE UNCHANGED vars
    BY <1>8 DEF vars, processVars, buildVars, idVars
  <1> QED  BY <1>1, <1>2, <1>3, <1>4, <1>5, <1>6, <1>7, <1>8 DEF Next

\* The next topic gets an id under its name.
LEMMA AssignIdsIsTrue ==
    ASSUME TypeIInv, IdsAreTrue, AssignIds
    PROVE  /\ UNCHANGED config
           /\ \A i \in DOMAIN idLines' : idLines'[i].name = config[i].name
  <1>1. /\ phase = "ids" /\ UNCHANGED config
        /\ AssignId(NextId.name, NextId.topic_type)
    BY DEF AssignIds, Writes, processVars
  <1>2. PICK line : idLines' = Append(idLines, line) /\ line.name = NextId.name
    BY <1>1 DEF AssignId, AssignPublisher, AssignSubscriber, Define
  <1>3. idLines \in Seq(Range(idLines))
    BY SeqOfRange DEF TypeIInv, PartsInv, IdsIInv, IdsTypeOK
  <1>4. /\ DOMAIN idLines' = 1 .. Len(idLines) + 1 /\ DOMAIN idLines = 1 .. Len(idLines)
        /\ Len(idLines) \in Nat /\ idLines'[Len(idLines) + 1] = line
        /\ \A i \in 1 .. Len(idLines) : idLines'[i] = idLines[i]
    BY <1>2, <1>3, RangeAppend
  <1>5. \A i \in 1 .. Len(idLines) : idLines[i].name = config[i].name
    BY <1>1, <1>4 DEF IdsAreTrue, InRun
  <1>6. \A n \in Nat : \A i \in 1 .. n + 1 : i \in 1 .. n \/ i = n + 1
    OBVIOUS
  <1>7. line.name = config[Len(idLines) + 1].name
    BY <1>2 DEF NextId
  <1> QED  BY <1>1, <1>4, <1>5, <1>6, <1>7

\* Any step keeps the names those of the topics.
LEMMA StepKeepsIdNames ==
    ASSUME TypeIInv, Ends, IdsAreTrue, [Next]_vars
    PROVE  IdsAreTrue'
  <1>1. CASE Begin
    BY <1>1 DEF Begin, IdsAreTrue, InRun
  <1>2. CASE CreateOutputs
    <2>1. /\ idLines' = <<>> /\ DOMAIN <<>> = {} /\ phase' = "ids" /\ ~succeeded'
      BY <1>2 DEF CreateOutputs, BetweenTopics, IdsStart, Writes, buildVars, Ends
    <2> QED  BY <2>1 DEF IdsAreTrue, InRun
  <1>3. CASE AssignIds
    <2>1. phase' = "ids" /\ ~succeeded'
      BY <1>3 DEF AssignIds, Writes, buildVars, Ends
    <2> QED  BY <1>3, <2>1, AssignIdsIsTrue DEF IdsAreTrue, InRun
  <1>4. CASE IdsAssigned
    <2>1. phase = "ids" /\ Len(idLines) = Len(config) /\ UNCHANGED <<idLines, config>>
      BY <1>4 DEF IdsAssigned, Writes, processVars, idVars
    <2> QED  BY <2>1 DEF IdsAreTrue, InRun
  <1>5. CASE QuietIds
    BY <1>5 DEF QuietIds, IdsAreTrue, InRun
  <1> QED  BY <1>1, <1>2, <1>3, <1>4, <1>5, IdLinesStep

-----------------------------------------------------------------------------
(* The outputs are up to date                                              *)

\* All of it holds at first.
LEMMA InitBuild == Init => BuildIInv
  <1> SUFFICES ASSUME Init PROVE BuildIInv
    OBVIOUS
  <1>1. /\ succeeded = FALSE /\ phase = "idle" /\ output = NoOutput
    BY DEF Init
  <1>2. Ends /\ TomlIsTrue /\ StackIsTrue /\ FieldsAreTrue /\ IdsAreTrue
    BY <1>1 DEF Ends, TomlIsTrue, StackIsTrue, FieldsAreTrue, IdsAreTrue, InRun, Parsed
  <1>3. OutputIsTrue
    <2>1. <<>> \in Seq(Range(<<>>))
      BY EmptySeq
    <2>2. /\ NoOutput = [structs |-> NoOutput.structs, serde |-> NoOutput.serde,
                         functions |-> NoOutput.functions, rows |-> NoOutput.rows,
                         sizes |-> NoOutput.sizes]
          /\ NoOutput.functions = <<>>
      BY DEF NoOutput
    <2> QED  BY <1>1, <2>1, <2>2 DEF OutputIsTrue, InRun
  <1> QED  BY <1>2, <1>3, InitTypes DEF BuildIInv

\* What has been parsed is what the files say that have been read, if none was
\* edited since, whatever the others hold; and what has been written is what
\* was parsed.
THEOREM BuildInvariance == Spec => []BuildIInv
  <1>1. Init => BuildIInv
    BY InitBuild
  <1>2. BuildIInv /\ [Next]_vars => BuildIInv'
    <2> SUFFICES ASSUME BuildIInv, [Next]_vars PROVE BuildIInv'
      OBVIOUS
    <2>1. /\ TypeIInv /\ Ends /\ TomlIsTrue /\ StackIsTrue /\ FieldsAreTrue
          /\ OutputIsTrue /\ IdsAreTrue
      BY DEF BuildIInv
    <2>2. TypeIInv'
      BY <2>1, StepKeepsParts, StepKeepsParseTypes, StepKeepsPhases DEF TypeIInv
    <2>3. Ends' /\ TomlIsTrue'
      BY <2>1, StepKeepsEnds, StepKeepsToml DEF TypeIInv
    <2>4. StackIsTrue' /\ FieldsAreTrue'
      BY <2>1, StepKeepsParsed
    <2>5. OutputIsTrue' /\ IdsAreTrue'
      BY <2>1, StepKeepsOutput, StepKeepsIdNames
    <2> QED  BY <2>2, <2>3, <2>4, <2>5 DEF BuildIInv
  <1> QED  BY <1>1, <1>2, PTL DEF Spec

\* When the build tool sees nothing to do, nothing is: the outputs are those of
\* ros.toml and of the message files as they are at that time.
THEOREM OutputsAreUpToDate == Spec => []UpToDate
  <1>1. BuildIInv => UpToDate
    <2> SUFFICES ASSUME BuildIInv, phase = "idle", ~Dirty, opts["--depfile"] # Unset
                 PROVE  /\ AllWritten
                        /\ output.structs.text = StructsNow
                        /\ output.rows = [i \in DOMAIN toml |-> TopicRow(toml[i])]
                        /\ \A i \in DOMAIN toml :
                              output.sizes[i].size = MaxPayloadSize(FieldsNow(toml[i]))
      BY DEF UpToDate
    <2> DEFINE now == [i \in DOMAIN toml |-> FieldsNow(toml[i])]
    <2>1. /\ succeeded /\ edited \cap (deps \cup {RosToml}) = {}
          /\ deps = {RosToml} \cup readFiles /\ Len(fieldsOf) = Len(config)
      BY DEF Dirty, BuildIInv, Ends
    <2>2. Untouched /\ RosToml \notin edited
      BY <2>1 DEF Untouched
    <2>3. config = toml
      BY <2>1, <2>2 DEF BuildIInv, TomlIsTrue, InRun
    <2>4. source \in Agreeing
      BY DEF Agreeing, Sources, BuildIInv, TypeIInv, PartsInv
    <2>5. \A i \in DOMAIN fieldsOf : fieldsOf[i] = FieldsNow(toml[i])
      BY <2>1, <2>2, <2>3, <2>4 DEF BuildIInv, FieldsAreTrue, FieldsOfTypes, InRun, FieldsNow
    <2>6. /\ DOMAIN fieldsOf = 1 .. Len(fieldsOf) /\ DOMAIN toml = 1 .. Len(toml)
          /\ fieldsOf = [i \in DOMAIN fieldsOf |-> fieldsOf[i]]
      BY LenProperties DEF BuildIInv, TypeIInv, PartsInv, ParseTypeOK
    <2>7. DOMAIN fieldsOf = DOMAIN toml
      BY <2>1, <2>3, <2>6
    <2>8. fieldsOf = now
      BY <2>5, <2>6, <2>7
    <2> HIDE DEF now
    <2>9. /\ AllWritten /\ Len(output.functions) = Len(config)
          /\ output.rows = [i \in DOMAIN config |-> TopicRow(config[i])]
          /\ output.sizes = [i \in DOMAIN config |->
                [name |-> config[i].name, size |-> MaxPayloadSize(fieldsOf[i])]]
          /\ output.structs = StructsOf(config, fieldsOf)[Len(output.functions)]
      BY <2>1 DEF BuildIInv, OutputIsTrue, InRun
    <2>10. output.structs.text = StructsNow
      <3>1. output.structs = StructsOf(toml, now)[Len(toml)]
        BY <2>3, <2>8, <2>9
      <3>2. Len(toml) \in Nat
        BY LenProperties DEF BuildIInv, TypeIInv, PartsInv
      <3>3. Loop(StructPasses(toml, now), NothingEmitted, Len(toml))
                = StructsOf(toml, now)[Len(toml)]
        BY <3>2, LoopDef DEF StructsOf
      <3>4. StructPasses(toml, now)
                = [i \in DOMAIN toml |-> UserCStructs[FieldsNow(toml[i])][toml[i].msg_type]]
        BY DEF StructPasses, now
      <3> QED  BY <3>1, <3>3, <3>4, Zenon DEF StructsNow
    <2>11. \A i \in DOMAIN toml : output.sizes[i].size = MaxPayloadSize(FieldsNow(toml[i]))
      <3> TAKE i \in DOMAIN toml
      <3>1. output.sizes[i].size = MaxPayloadSize(fieldsOf[i])
        BY <2>3, <2>9
      <3>2. fieldsOf[i] = FieldsNow(toml[i])
        BY <2>5, <2>7
      <3> QED  BY <3>1, <3>2
    <2> QED  BY <2>3, <2>9, <2>10, <2>11
  <1> QED  BY <1>1, BuildInvariance, PTL

-----------------------------------------------------------------------------
(* The outputs are closed                                                  *)

\* Topics of types of M, with the fields of those.
TopicsHave(topics, fields, M, K) ==
    /\ Len(topics) \in Nat /\ DOMAIN topics = 1 .. Len(topics)
    /\ \A i \in 1 .. Len(topics) :
          topics[i].msg_type \in M /\ fields[i] = K[topics[i].msg_type]

\* What is written of the first n is written of the types `ts'.
WrittenOf(topics, fields, n, ts, M, K) ==
    /\ Ordered(ts, M, K)
    /\ StructsOf(topics, fields)[n] = StructsOut({}, ts, K)
    /\ SerdesOf(topics, fields)[n] = SerdeOut({}, ts, K)
    /\ \A i \in 1 .. n : topics[i].msg_type \in Range(ts)

\* Topics of such types are written in order.
LEMMA TopicsAreOrdered ==
    ASSUME NEW M, NEW K, Closed(M, K), NEW topics, NEW fields,
           TopicsHave(topics, fields, M, K), NEW n \in 0 .. Len(topics)
    PROVE  \E ts : WrittenOf(topics, fields, n, ts, M, K)
  <1> DEFINE N == Len(topics)
             P(m, ts) == WrittenOf(topics, fields, m, ts, M, K)
             T == {m \in Nat : m <= N => \E ts : P(m, ts)}
  <1>1. /\ StructsOf(topics, fields)[0] = NothingEmitted
        /\ SerdesOf(topics, fields)[0] = NothingEmitted
        /\ \A m \in 1 .. N :
              /\ StructsOf(topics, fields)[m]
                   = UserCStructs[fields[m]][topics[m].msg_type][StructsOf(topics, fields)[m - 1]]
              /\ SerdesOf(topics, fields)[m]
                   = SerdeFunctions[fields[m]][PrefixOf(StructName(topics[m].msg_type))]
                         [SerdesOf(topics, fields)[m - 1]]
    BY OutputsOfDef DEF TopicsHave
  <1> HIDE DEF N
  <1>2. 0 \in T
    <2>1. \A i \in 1 .. 0 : FALSE
      OBVIOUS
    <2>2. P(0, <<>>)
      BY <1>1, <2>1, NothingIsOrdered DEF WrittenOf
    <2> HIDE DEF P
    <2> QED  BY <2>2
  <1>3. ASSUME NEW m \in Nat, m \in T
        PROVE  m + 1 \in T
    <2>1. SUFFICES ASSUME m + 1 <= N PROVE \E ts : P(m + 1, ts)
      OBVIOUS
    <2>2. /\ N \in Nat /\ m + 1 \in 1 .. N /\ (m + 1) - 1 = m /\ m <= N
          /\ \A i \in 1 .. m + 1 : i \in 1 .. m \/ i = m + 1
      BY <2>1 DEF N, TopicsHave
    <2> DEFINE A == topics[m + 1].msg_type
    <2>3. A \in M /\ fields[m + 1] = K[A]
      BY <2>2 DEF N, TopicsHave
    <2>4. PICK ts : P(m, ts)
      BY <1>3, <2>2
    <2>5. PICK us : Emits(A, {}, ts, us, M, K)
      BY <2>3, <2>4, EmitsAll DEF WrittenOf
    <2>6. /\ Ordered(us, M, K) /\ Range(ts) \cup {A} \subseteq Range(us)
          /\ UserCStructs[K[A]][A][StructsOut({}, ts, K)] = StructsOut({}, us, K)
          /\ SerdeFunctions[K[A]][A][SerdeOut({}, ts, K)] = SerdeOut({}, us, K)
      BY <2>5 DEF Emits
    <2>7. PrefixOf(StructName(A)) = A
      BY <2>3, NamesOfTypes DEF Closed
    <2>8. /\ StructsOf(topics, fields)[m + 1] = StructsOut({}, us, K)
          /\ SerdesOf(topics, fields)[m + 1] = SerdeOut({}, us, K)
      BY <1>1, <2>2, <2>3, <2>4, <2>6, <2>7 DEF WrittenOf
    <2>9. \A i \in 1 .. m + 1 : topics[i].msg_type \in Range(us)
      BY <2>2, <2>4, <2>6 DEF WrittenOf
    <2>10. P(m + 1, us)
      BY <2>6, <2>8, <2>9 DEF WrittenOf
    <2> HIDE DEF P
    <2> QED  BY <2>10
  <1> HIDE DEF T, P
  <1>4. n \in Nat /\ n <= N
    BY DEF N
  <1>5. n \in T
    BY <1>2, <1>3, <1>4, NatSetInduction
  <1> QED  BY <1>4, <1>5 DEF T, P

\* A macro that is the only one of its name is the one that is found.
LEMMA MacroIsItsOwn ==
    ASSUME NEW lines, Len(lines) \in Nat, NEW i \in 1 .. Len(lines),
           \A j \in 1 .. Len(lines) : Upper[lines[j].name] = Upper[lines[i].name] => j = i
    PROVE  Macro(lines, lines[i].name) = lines[i]
  <1> DEFINE I == {j \in 1 .. Len(lines) : Upper[lines[j].name] = Upper[lines[i].name]}
  <1>1. I = {i}
    OBVIOUS
  <1> HIDE DEF I
  <1>2. Max(I) = i
    BY <1>1 DEF Max
  <1>3. SelectLastInSeq(lines, LAMBDA l : Upper[l.name] = Upper[lines[i].name])
            = IF I # {} THEN Max(I) ELSE 0
    BY DEF SelectLastInSeq, I
  <1> QED  BY <1>1, <1>2, <1>3 DEF Macro

\* Topics whose macros differ are found under their own ids.
LEMMA RowsFindTheirIds ==
    ASSUME BuildIInv, Undisturbed, MacrosDiffer,
           NEW i \in DOMAIN output.rows, NEW j \in DOMAIN output.rows,
           Macro(idLines, output.rows[i].topic).id = Macro(idLines, output.rows[j].topic).id
    PROVE  i = j
  <1> DEFINE rows == output.rows
  <1>1. InRun({"depfile"})
    <2>1. phase = "emit" => rows = <<>>
      BY DEF BuildIInv, OutputIsTrue
    <2>2. phase # "emit"
      BY <2>1
    <2> QED  BY <2>2 DEF Undisturbed, InRun
  <1>2. InRun({"emit", "depfile"}) /\ InRun({"ids", "emit", "depfile"})
    BY <1>1 DEF InRun
  <1>3. rows = [k \in DOMAIN config |-> TopicRow(config[k])]
    BY <1>1 DEF BuildIInv, OutputIsTrue
  <1>4. /\ \A k \in DOMAIN idLines : idLines[k].name = config[k].name
        /\ Len(idLines) = Len(config)
    BY <1>2 DEF BuildIInv, IdsAreTrue
  <1>5. /\ DOMAIN config = 1 .. Len(config) /\ DOMAIN idLines = 1 .. Len(idLines)
        /\ Len(idLines) \in Nat
    BY LenProperties DEF BuildIInv, TypeIInv, PartsInv, IdsIInv, IdsTypeOK, Configs
  <1>6. /\ DOMAIN rows = 1 .. Len(idLines)
        /\ \A k \in 1 .. Len(idLines) : rows[k].topic = idLines[k].name
    BY <1>3, <1>4, <1>5 DEF TopicRow
  <1>7. \A k, l \in 1 .. Len(idLines) :
            Upper[idLines[k].name] = Upper[idLines[l].name] => k = l
    BY <1>6 DEF MacrosDiffer
  <1>8. \A k \in 1 .. Len(idLines) : Macro(idLines, idLines[k].name) = idLines[k]
    BY <1>5, <1>7, MacroIsItsOwn
  <1>9. idLines[i].id = idLines[j].id
    BY <1>6, <1>8
  <1>10. IdsTellTopicsApart
    BY DEF BuildIInv, TypeIInv, PartsInv, IdsIInv
  <1> QED  BY <1>5, <1>6, <1>9, <1>10 DEF IdsTellTopicsApart

\* A row of the topic table finds its handler.
LEMMA RowsFindTheirHandlers ==
    ASSUME BuildIInv, Undisturbed, NEW r \in Range(output.rows), r.cb # NoCallback
    PROVE  \E f \in Range(output.functions) : f.topic = r.topic /\ f.name = r.cb
  <1> DEFINE rows == output.rows
  <1>1. PICK i \in DOMAIN rows : r = rows[i]
    BY DEF Range
  <1>2. InRun({"depfile"})
    <2>1. phase = "emit" => rows = <<>>
      BY DEF BuildIInv, OutputIsTrue
    <2>2. phase # "emit"
      BY <1>1, <2>1
    <2> QED  BY <2>2 DEF Undisturbed, InRun
  <1>3. InRun({"emit", "depfile"})
    BY <1>2 DEF InRun
  <1>4. /\ rows = [k \in DOMAIN config |-> TopicRow(config[k])]
        /\ Len(output.functions) = Len(config)
    BY <1>2 DEF BuildIInv, OutputIsTrue
  <1>5. /\ \A k \in DOMAIN output.functions :
              output.functions[k] = UserFunction(config[k])
        /\ output.functions \in Seq(Range(output.functions))
    BY <1>3 DEF BuildIInv, OutputIsTrue
  <1>6. /\ DOMAIN config = 1 .. Len(config)
        /\ DOMAIN output.functions = 1 .. Len(output.functions)
    BY <1>5, LenProperties DEF BuildIInv, TypeIInv, PartsInv, Configs
  <1>7. i \in DOMAIN config /\ r = TopicRow(config[i])
    BY <1>1, <1>4
  <1>8. i \in DOMAIN output.functions /\ output.functions[i] = UserFunction(config[i])
    BY <1>4, <1>5, <1>6, <1>7
  <1>9. UserFunction(config[i]).topic = r.topic /\ UserFunction(config[i]).name = r.cb
    BY <1>7 DEF UserFunction, TopicRow
  <1> QED  BY <1>8, <1>9 DEF Range

\* The outputs are those of some types in order, among which those of the topics.
OutputsAreOf(ts) ==
    /\ Ordered(ts, SoundTypes(source, Pkgs), FieldsOfTypes(source, Pkgs))
    /\ output.structs = StructsOut({}, ts, FieldsOfTypes(source, Pkgs))
    /\ output.serde = SerdeOut({}, ts, FieldsOfTypes(source, Pkgs))
    /\ \A f \in Range(output.functions) : f.calls \in Range(ts)

\* That they are, if no file has been edited that was read for them.
LEMMA OutputsAreOrdered ==
    ASSUME BuildIInv, Untouched, InRun({"emit", "depfile"})
    PROVE  \E ts : OutputsAreOf(ts)
  <1> DEFINE M == SoundTypes(source, Pkgs)
             K == FieldsOfTypes(source, Pkgs)
             n == Len(output.functions)
  <1>1. InRun(Parsed)
    BY DEF InRun, Parsed
  <1>2. /\ n <= Len(config)
        /\ output.structs = StructsOf(config, fieldsOf)[n]
        /\ output.serde = SerdesOf(config, fieldsOf)[n]
        /\ \A i \in DOMAIN output.functions :
              output.functions[i] = UserFunction(config[i])
        /\ output.functions \in Seq(Range(output.functions))
    BY DEF BuildIInv, OutputIsTrue
  <1>3. /\ Len(fieldsOf) = Len(config)
        /\ Len(config) \in Nat /\ DOMAIN config = 1 .. Len(config)
        /\ DOMAIN fieldsOf = 1 .. Len(fieldsOf)
        /\ n \in Nat /\ DOMAIN output.functions = 1 .. n
    <2>1. Len(fieldsOf) = Len(config)
      BY DEF InRun, BuildIInv, TypeIInv, PhasesInv, Ends
    <2>2. /\ Len(config) \in Nat /\ DOMAIN config = 1 .. Len(config)
          /\ DOMAIN fieldsOf = 1 .. Len(fieldsOf)
      BY LenProperties DEF BuildIInv, TypeIInv, PartsInv, Configs, ParseTypeOK
    <2> QED  BY <1>2, <2>1, <2>2, LenProperties
  <1>4. source \in Agreeing
    BY DEF Agreeing, Sources, BuildIInv, TypeIInv, PartsInv
  <1>5. \A i \in 1 .. Len(config) :
            config[i].msg_type \in M /\ fieldsOf[i] = K[config[i].msg_type]
    BY <1>1, <1>3, <1>4 DEF BuildIInv, FieldsAreTrue
  <1>6. Closed(M, K)
    BY SoundTypesAreClosed
  <1> HIDE DEF M, K, n
  <1>7. n \in 0 .. Len(config)
    BY <1>2, <1>3
  <1>8. TopicsHave(config, fieldsOf, M, K)
    BY <1>3, <1>5 DEF TopicsHave
  <1>9. PICK ts : WrittenOf(config, fieldsOf, n, ts, M, K)
    BY <1>6, <1>7, <1>8, TopicsAreOrdered
  <1>10. ASSUME NEW f \in Range(output.functions)
        PROVE  f.calls \in Range(ts)
    <2>1. PICK i \in 1 .. n : f = UserFunction(config[i])
      BY <1>2, <1>3 DEF Range
    <2>2. config[i].msg_type \in M /\ config[i].msg_type \in Types
      BY <1>3, <1>5, <1>6, <1>7 DEF Closed
    <2>3. f.calls = config[i].msg_type
      BY <2>1, <2>2, NamesOfTypes DEF UserFunction
    <2> QED  BY <1>9, <2>3 DEF WrittenOf
  <1> QED  BY <1>2, <1>9, <1>10 DEF M, K, OutputsAreOf, WrittenOf

\* A type is written once, after those inside it, and everything that is written
\* finds what it uses.
THEOREM OutputsAreAlwaysClosed == Spec => []OutputsAreClosed
  <1>1. ASSUME BuildIInv, Undisturbed
        PROVE  \E ts : OutputsAreOf(ts)
    <2>1. InRun({"emit", "depfile"}) /\ Untouched
      BY <1>1 DEF Undisturbed, InRun, Untouched
    <2> QED  BY <1>1, <2>1, OutputsAreOrdered
  <1>2. ASSUME BuildIInv, Undisturbed
        PROVE  OutputsAreClosed
    <2> DEFINE M == SoundTypes(source, Pkgs)
               K == FieldsOfTypes(source, Pkgs)
               structs == output.structs.text
               serde == output.serde.text
               prefixes == {serde[i].prefix : i \in DOMAIN serde}
               Steps(list) == [i \in DOMAIN list |-> <<list[i].of, list[i].how>>]
    <2>1. PICK ts : /\ Ordered(ts, M, K)
                    /\ output.structs = StructsOut({}, ts, K)
                    /\ output.serde = SerdeOut({}, ts, K)
                    /\ \A f \in Range(output.functions) : f.calls \in Range(ts)
      BY <1>1, <1>2 DEF OutputsAreOf
    <2>2. Closed(M, K)
      BY SoundTypesAreClosed
    <2> HIDE DEF M, K
    <2>3. Complete(structs, serde, Range(ts))
      BY <2>1, <2>2, OrderedIsComplete
    <2> HIDE DEF structs, serde
    <2>4. /\ \A i, j \in DOMAIN structs : structs[i].name = structs[j].name => i = j
          /\ \A i \in DOMAIN structs : \A m \in Range(structs[i].members) :
                Len(m.ctype) > 1 => \E j \in 1 .. (i - 1) : structs[j].name = m.ctype
          /\ \A i, j \in DOMAIN serde : serde[i].prefix = serde[j].prefix => i = j
          /\ \A i \in DOMAIN serde :
                \E s \in Range(structs) : s.name = StructName(serde[i].prefix)
          /\ prefixes = Range(ts)
          /\ \A i \in DOMAIN serde : \A c \in Range(serde[i].serialize) :
                c.how = "function" => c.of \in Range(ts)
          /\ \A i \in DOMAIN serde :
                Steps(serde[i].serialize) = Steps(serde[i].deserialize)
      BY <2>3, Zenon DEF Complete
    <2>5. \A f \in Range(output.functions) : f.calls \in prefixes
      BY <2>1, <2>4
    <2>6. \A r \in Range(output.rows) :
              r.cb # NoCallback =>
                  \E f \in Range(output.functions) : f.topic = r.topic /\ f.name = r.cb
      BY <1>2, RowsFindTheirHandlers
    <2>7. MacrosDiffer =>
              \A i, j \in DOMAIN output.rows :
                  Macro(idLines, output.rows[i].topic).id
                      = Macro(idLines, output.rows[j].topic).id => i = j
      BY <1>2, RowsFindTheirIds
    <2> HIDE DEF prefixes, Steps
    <2>8. \A i \in DOMAIN structs :
              /\ \A j \in DOMAIN structs : structs[i].name = structs[j].name => i = j
              /\ \A m \in Range(structs[i].members) :
                    Len(m.ctype) > 1 => \E j \in 1 .. (i - 1) : structs[j].name = m.ctype
      BY <2>4
    <2>9. \A i \in DOMAIN serde :
              /\ \A j \in DOMAIN serde : serde[i].prefix = serde[j].prefix => i = j
              /\ \E s \in Range(structs) : s.name = StructName(serde[i].prefix)
              /\ \A c \in Range(serde[i].serialize) :
                    c.how = "function" => c.of \in prefixes
              /\ Steps(serde[i].serialize) = Steps(serde[i].deserialize)
      BY <2>4
    <2> QED  BY <2>5, <2>6, <2>7, <2>8, <2>9, Zenon
               DEF OutputsAreClosed, structs, serde, prefixes, Steps
  <1>3. BuildIInv => OutputsAreClosed
    BY <1>2 DEF OutputsAreClosed
  <1> QED  BY <1>3, BuildInvariance, PTL

-----------------------------------------------------------------------------
(* Messages fit their frame                                                *)

\* The calls that a board makes for a type are those of its fields.
LEMMA CallsAreOfFields ==
    ASSUME NEW M, NEW K, Closed(M, K), NEW ts, Ordered(ts, M, K),
           output.serde = SerdeOut({}, ts, K), NEW A \in Range(ts)
    PROVE  Means(CallsOf(A), MaxCdrSize[K[A]])
  <1> DEFINE text == output.serde.text
             P == {s.prefix : s \in Range(text)}
             calls_of == CHOOSE g : g = [p \in P |-> BodyCalls(g, Named(text, p).serialize)]
  <1>1. text = [j \in DOMAIN ts |-> Serde(ts[j], K[ts[j]])]
    BY DEF SerdeOut
  <1>2. Len(ts) \in Nat /\ DOMAIN ts = 1 .. Len(ts)
    BY LenProperties DEF Ordered
  <1>3. CallsOf(A) = calls_of[A]
    BY DEF CallsOf, BodyCalls, TimesCall, OneCall, SerdeOf, Named
  <1>4. P = Before(ts, Len(ts))
    <2>1. \A j \in DOMAIN ts : text[j].prefix = ts[j]
      BY <1>1 DEF Serde
    <2>2. DOMAIN text = DOMAIN ts
      BY <1>1
    <2>3. Range(text) = {text[j] : j \in DOMAIN ts}
      BY <2>2 DEF Range
    <2> HIDE DEF text
    <2>4. P = {ts[j] : j \in DOMAIN ts}
      BY <2>1, <2>3
    <2> QED  BY <1>2, <2>4 DEF Before
  <1> HIDE DEF text, P
  <1>5. \A g : CallsUpTo(text, ts, g, Len(ts))
                 <=> g = [p \in P |-> BodyCalls(g, Named(text, p).serialize)]
    BY <1>4, Zenon DEF CallsUpTo
  <1>6. Len(ts) \in 0 .. Len(ts)
    BY <1>2
  <1>7. \E g : CallsUpTo(text, ts, g, Len(ts))
    BY <1>1, <1>6, CallsExist
  <1>8. CallsUpTo(text, ts, calls_of, Len(ts))
    BY <1>5, <1>7
  <1> HIDE DEF calls_of
  <1>9. Means(calls_of[A], MaxCdrSize[K[A]])
    BY <1>1, <1>8, CallsMean
  <1> QED  BY <1>3, <1>9

\* What there is still to write of a message comes to its size.
CallsComeToSize ==
    /\ calls \in Seq(BoardCalls)
    /\ message.maxSize <= MaxPayload
    /\ message.maxSize
         = EncapHeaderLen + Analysed(calls)[[pos |-> pos, total |-> total]].total

\* A board runs the outputs of a process that has succeeded, and none runs.
BoardIsTrue ==
    /\ calls # <<>> \/ message # NoMessage => phase = "idle" /\ succeeded
    /\ MacrosDiffer /\ opts["--depfile"] # Unset /\ message # NoMessage => CallsComeToSize

\* A step that has nothing to do with the board; while one runs, the outputs stay.
QuietBoard ==
    /\ UNCHANGED boardVars
    /\ phase = "idle" /\ succeeded =>
          phase' = "idle" /\ succeeded' /\ UNCHANGED <<output, opts>>

\* A step puts the board aside, begins a message, goes on with it or is quiet.
LEMMA BoardStep ==
    ASSUME [Next]_vars
    PROVE  \/ Begin \/ Serialize \/ QuietBoard
           \/ \E i \in DOMAIN output.functions : Publish(i)
  <1> USE DEF QuietBoard
  <1>1. CASE Interrupt
    BY <1>1 DEF Interrupt
  <1>2. ASSUME NEW f, NEW lines, EditMsg(f, lines) PROVE QuietBoard
    BY <1>2 DEF EditMsg, processVars, outputVars
  <1>3. ASSUME NEW text, EditToml(text) PROVE QuietBoard
    BY <1>3 DEF EditToml, processVars, outputVars
  <1>4. CASE Run
    <2>1. CASE ReadArgs \/ BadArgs \/ BadToml \/ BadScan
      BY <2>1 DEF ReadArgs, BadArgs, BadToml, BadScan, ScanDone, Fail, ReadsOnly
    <2>2. CASE ReadToml \/ RosScanned \/ Scan \/ UserScanned
      BY <2>2 DEF ReadToml, RosScanned, Scan, UserScanned, ScanDone, ReadsOnly
    <2>3. CASE StartTopic \/ Parse \/ BadTopic \/ BadParse \/ IdsOverflow
      BY <2>3 DEF StartTopic, Parse, BadTopic, BetweenTopics, BadParse, IdsOverflow, Fail,
                  ReadsOnly
    <2>4. CASE Generate
      BY <2>4 DEF Generate, CreateOutputs, BetweenTopics, AssignIds, IdsAssigned, EmitTopic,
                  WriteTables, WriteDepfile, Writes
    <2> QED  BY <1>4, <2>1, <2>2, <2>3, <2>4 DEF Run
  <1>5. CASE UNCHANGED vars
    BY <1>5 DEF vars, processVars, outputVars, buildVars
  <1> QED  BY <1>1, <1>2, <1>3, <1>4, <1>5 DEF Next

\* What is known of the message so far.
LEMMA SumSoFar ==
    ASSUME BuildIInv
    PROVE  /\ [pos |-> pos, total |-> total] \in Sums
           /\ total \in Nat /\ writer.offset \in Nat /\ writer.offset <= total
  <1>1. WalkIInv
    BY DEF BuildIInv, TypeIInv, PartsInv
  <1>2. pos \in Positions /\ total \in Nat /\ writer.offset \in Nat
    BY <1>1 DEF WalkIInv, WalkTypeOK
  <1>3. writer.offset <= total
    BY <1>1 DEF WalkIInv, MaxSizeIsUpperBound
  <1> QED  BY <1>2, <1>3 DEF Sums

\* The board goes on with the message.
LEMMA SerializeKeepsBoard ==
    ASSUME BuildIInv, BoardIsTrue, Serialize
    PROVE  BoardIsTrue'
  <1>1. /\ calls # <<>> /\ calls' = Tail(calls) /\ message' = message
        /\ phase' = phase /\ succeeded' = succeeded /\ output' = output /\ opts' = opts
    BY DEF Serialize, Unchanged, buildVars, outputVars, processVars
  <1>2. phase' = "idle" /\ succeeded'
    BY <1>1 DEF BoardIsTrue
  <1>3. MacrosDiffer' <=> MacrosDiffer
    BY <1>1 DEF MacrosDiffer
  <1>4. ASSUME CallsComeToSize
        PROVE  CallsComeToSize'
    <2> DEFINE c == Head(calls)
               acc == [pos |-> pos, total |-> total]
    <2>1. calls \in Seq(BoardCalls) /\ acc \in Sums
      BY <1>4, SumSoFar DEF CallsComeToSize
    <2>2. /\ c \in BoardCalls /\ calls' \in Seq(BoardCalls)
          /\ Analysed(calls)[acc] = Analysed(calls')[AddPrim[c.of][acc]]
      BY <1>1, <2>1, AnalysedHead
    <2>3. c.of \in Prims /\ (c.how = "string" => c.of = "string")
      BY <2>2 DEF BoardCalls
    <2>4. Analyse(c.of)
      BY <2>3 DEF Serialize, WalkString, WalkStringElement, WalkFixed
    <2>5. AddPrim[c.of][acc] = [pos |-> pos', total |-> total']
      BY <2>1, <2>3, <2>4, AddPrimIsTyped DEF Analyse
    <2> HIDE DEF c, acc
    <2> QED  BY <1>1, <1>4, <2>2, <2>5 DEF CallsComeToSize, acc
  <1> QED  BY <1>1, <1>2, <1>3, <1>4 DEF BoardIsTrue, NoMessage

\* A size has been written under the name of each topic, and checked.
LEMMA SizesAreChecked ==
    ASSUME BuildIInv, InRun({"depfile"}), MacrosDiffer, WireChecks,
           NEW i \in DOMAIN output.functions
    PROVE  /\ output.functions[i] = UserFunction(config[i])
           /\ i \in DOMAIN config /\ i \in DOMAIN fieldsOf
           /\ Macro(output.sizes, config[i].name).size = MaxPayloadSize(fieldsOf[i])
           /\ Macro(output.sizes, config[i].name).size <= MaxPayload
  <1> DEFINE rows == output.rows
             sizes == output.sizes
             N == Len(config)
  <1>1. InRun({"emit", "depfile"})
    BY DEF InRun
  <1>2. /\ rows = [k \in DOMAIN config |-> TopicRow(config[k])]
        /\ sizes = [k \in DOMAIN config |->
                       [name |-> config[k].name, size |-> MaxPayloadSize(fieldsOf[k])]]
        /\ Len(output.functions) = N
    BY DEF BuildIInv, OutputIsTrue
  <1>3. /\ output.functions[i] = UserFunction(config[i])
        /\ output.functions \in Seq(Range(output.functions))
    BY <1>1 DEF BuildIInv, OutputIsTrue
  <1>4. /\ N \in Nat /\ DOMAIN config = 1 .. N /\ DOMAIN output.functions = 1 .. N
        /\ DOMAIN fieldsOf = 1 .. Len(fieldsOf)
    BY <1>2, <1>3, LenProperties DEF BuildIInv, TypeIInv, PartsInv, Configs, ParseTypeOK
  <1>5. Len(fieldsOf) = N
    BY DEF BuildIInv, TypeIInv, PhasesInv, Ends, InRun
  <1>6. /\ DOMAIN rows = 1 .. N /\ Len(sizes) = N
        /\ \A k \in 1 .. N : rows[k].topic = config[k].name
        /\ \A k \in 1 .. N : /\ sizes[k].name = config[k].name
                             /\ sizes[k].size = MaxPayloadSize(fieldsOf[k])
    BY <1>2, <1>4 DEF TopicRow
  <1>7. /\ \A k, l \in DOMAIN rows : Upper[rows[k].topic] = Upper[rows[l].topic] => k = l
        /\ \A k \in DOMAIN rows : Macro(sizes, rows[k].topic).size <= MaxPayload
    <2>1. \A k, l \in DOMAIN rows : Upper[rows[k].topic] = Upper[rows[l].topic] => k = l
      BY DEF MacrosDiffer
    <2>2. ASSUME NEW k \in DOMAIN rows
          PROVE  Macro(sizes, rows[k].topic).size <= MaxPayload
      BY DEF WireChecks
    <2> HIDE DEF rows, sizes
    <2> QED  BY <2>1, <2>2
  <1> HIDE DEF rows, sizes, N
  <1>8. i \in 1 .. N
    BY <1>4
  <1>9. ASSUME NEW j \in 1 .. Len(sizes), Upper[sizes[j].name] = Upper[sizes[i].name]
        PROVE  j = i
    <2>1. /\ i \in DOMAIN rows /\ j \in DOMAIN rows
          /\ rows[i].topic = sizes[i].name /\ rows[j].topic = sizes[j].name
      BY <1>6, <1>8
    <2> QED  BY <1>7, <1>9, <2>1
  <1>10. Macro(sizes, sizes[i].name) = sizes[i]
    BY <1>4, <1>6, <1>8, <1>9, MacroIsItsOwn
  <1>11. Macro(sizes, config[i].name) = sizes[i]
    BY <1>6, <1>8, <1>10
  <1>12. /\ Macro(sizes, config[i].name).size = MaxPayloadSize(fieldsOf[i])
         /\ Macro(sizes, config[i].name).size <= MaxPayload
    BY <1>6, <1>7, <1>8, <1>11
  <1> QED  BY <1>3, <1>4, <1>5, <1>8, <1>12 DEF sizes

\* A message is begun, of a size that is that of its calls.
LEMMA PublishKeepsBoard ==
    ASSUME BuildIInv, NEW i \in DOMAIN output.functions, Publish(i)
    PROVE  BoardIsTrue'
  <1> DEFINE f == output.functions[i]
             start == [pos |-> StartPos, total |-> 0]
  <1>1. /\ phase = "idle" /\ ~Dirty /\ WireChecks
        /\ message' = [topic |-> f.topic, maxSize |-> Macro(output.sizes, f.topic).size]
        /\ calls' = CallsOf(f.calls)
        /\ pos' = StartPos /\ total' = 0
        /\ phase' = phase /\ succeeded' = succeeded /\ output' = output /\ opts' = opts
    BY DEF Publish, WalkStart, Unchanged, buildVars, outputVars, processVars
  <1>2. succeeded /\ edited \cap (deps \cup {RosToml}) = {}
    BY <1>1 DEF Dirty
  <1>3. MacrosDiffer' <=> MacrosDiffer
    BY <1>1 DEF MacrosDiffer
  <1>4. ASSUME MacrosDiffer, opts["--depfile"] # Unset
        PROVE  CallsComeToSize'
    <2> DEFINE M == SoundTypes(source, Pkgs)
               K == FieldsOfTypes(source, Pkgs)
               A == config[i].msg_type
    <2>1. InRun({"emit", "depfile"}) /\ InRun({"depfile"}) /\ InRun(Parsed)
      BY <1>2 DEF InRun
    <2>2. Untouched
      BY <1>2, <1>4 DEF BuildIInv, Ends, Untouched
    <2>3. PICK ts : OutputsAreOf(ts)
      BY <2>1, <2>2, OutputsAreOrdered
    <2>4. /\ f = UserFunction(config[i])
          /\ i \in DOMAIN config /\ i \in DOMAIN fieldsOf
          /\ Macro(output.sizes, config[i].name).size = MaxPayloadSize(fieldsOf[i])
          /\ Macro(output.sizes, config[i].name).size <= MaxPayload
      BY <1>1, <1>4, <2>1, SizesAreChecked
    <2>5. source \in Agreeing
      BY DEF Agreeing, Sources, BuildIInv, TypeIInv, PartsInv
    <2>6. A \in M /\ fieldsOf[i] = K[A]
      BY <2>1, <2>2, <2>4, <2>5 DEF BuildIInv, FieldsAreTrue
    <2>7. Closed(M, K)
      BY SoundTypesAreClosed
    <2>8. Ordered(ts, M, K) /\ output.serde = SerdeOut({}, ts, K) /\ f.calls \in Range(ts)
      BY <2>3 DEF OutputsAreOf, Range
    <2> HIDE DEF M, K
    <2>9. f.topic = config[i].name /\ f.calls = A
      <3>1. A \in Types
        BY <2>6, <2>7 DEF Closed
      <3> QED  BY <2>4, <3>1, NamesOfTypes DEF UserFunction
    <2> HIDE DEF f, A
    <2>10. Means(CallsOf(A), MaxCdrSize[K[A]])
      BY <2>7, <2>8, <2>9, CallsAreOfFields
    <2>11. start \in Sums
      BY DEF Sums, StartPos, Positions, Alignments
    <2> HIDE DEF start
    <2>12. calls' \in Seq(BoardCalls) /\ Analysed(calls')[start] = MaxCdrSize[K[A]][start]
      BY <1>1, <2>9, <2>10, <2>11 DEF Means
    <2>13. MaxPayloadSize(K[A]) = EncapHeaderLen + MaxCdrSize[K[A]][start].total
      BY DEF MaxPayloadSize, start
    <2>14. /\ message'.maxSize = EncapHeaderLen + Analysed(calls')[start].total
           /\ message'.maxSize <= MaxPayload
      BY <1>1, <2>4, <2>6, <2>9, <2>12, <2>13
    <2>15. start = [pos |-> pos', total |-> total']
      BY <1>1 DEF start
    <2> QED  BY <2>12, <2>14, <2>15 DEF CallsComeToSize
  <1> QED  BY <1>1, <1>2, <1>3, <1>4 DEF BoardIsTrue

\* Any step keeps the board's message true to its size.
LEMMA StepKeepsBoard ==
    ASSUME BuildIInv, BoardIsTrue, [Next]_vars
    PROVE  BoardIsTrue'
  <1>1. CASE Begin
    <2>1. message' = NoMessage /\ NoMessage' = NoMessage /\ calls' = <<>>
      BY <1>1 DEF Begin, NoMessage
    <2> QED  BY <2>1 DEF BoardIsTrue
  <1>2. CASE QuietBoard
    <2>1. /\ message' = message /\ calls' = calls /\ pos' = pos /\ total' = total
          /\ phase = "idle" /\ succeeded =>
                phase' = "idle" /\ succeeded' /\ output' = output /\ opts' = opts
      BY <1>2 DEF QuietBoard, boardVars, walkVars
    <2>2. CASE calls # <<>> \/ message # NoMessage
      <3>1. phase' = "idle" /\ succeeded' /\ output' = output /\ opts' = opts
        BY <2>1, <2>2 DEF BoardIsTrue
      <3>2. MacrosDiffer' <=> MacrosDiffer
        BY <3>1 DEF MacrosDiffer
      <3>3. CallsComeToSize => CallsComeToSize'
        BY <2>1 DEF CallsComeToSize
      <3> QED  BY <2>1, <3>1, <3>2, <3>3 DEF BoardIsTrue, NoMessage
    <2>3. CASE ~(calls # <<>> \/ message # NoMessage)
      BY <2>1, <2>3 DEF BoardIsTrue, NoMessage
    <2> QED  BY <2>2, <2>3
  <1> QED  BY <1>1, <1>2, BoardStep, SerializeKeepsBoard, PublishKeepsBoard

\* The serialiser that a board runs makes the calls of which the size was
\* computed that its firmware was checked with, whatever the files have become
\* since.
THEOREM BoardInvariance == Spec => []BoardIsTrue
  <1>1. Init => BoardIsTrue
    BY DEF Init, BoardIsTrue
  <1>2. BuildIInv /\ BoardIsTrue /\ [Next]_vars => BoardIsTrue'
    BY StepKeepsBoard
  <1> QED  BY <1>1, <1>2, BuildInvariance, PTL DEF Spec

\* So no message is longer than the size in its header says, or than a frame has
\* room for, and that size is the worst case of its own serialiser.
THEOREM MessagesAlwaysFitTheirFrame == Spec => []MessagesFitTheirFrame
  <1>1. BuildIInv /\ BoardIsTrue => MessagesFitTheirFrame
    <2> SUFFICES ASSUME BuildIInv, BoardIsTrue, MacrosDiffer, opts["--depfile"] # Unset,
                        message # NoMessage
                 PROVE  /\ EncapHeaderLen + writer.offset <= message.maxSize
                        /\ message.maxSize <= MaxPayload
                        /\ calls = <<>> => message.maxSize = EncapHeaderLen + total
      BY DEF MessagesFitTheirFrame
    <2> DEFINE acc == [pos |-> pos, total |-> total]
               sum == Analysed(calls)[acc]
    <2>1. /\ calls \in Seq(BoardCalls) /\ message.maxSize <= MaxPayload
          /\ message.maxSize = EncapHeaderLen + sum.total
      BY DEF BoardIsTrue, CallsComeToSize
    <2>2. /\ acc \in Sums /\ acc.total = total
          /\ total \in Nat /\ writer.offset \in Nat /\ writer.offset <= total
      BY SumSoFar
    <2> HIDE DEF acc
    <2>3. sum \in Sums /\ sum.total >= acc.total
      BY <2>1, <2>2, AnalysedIsTyped
    <2>4. calls = <<>> => sum = acc
      BY <2>2, AnalysedEmpty
    <2> HIDE DEF sum
    <2>5. sum.total \in Nat
      BY <2>3 DEF Sums
    <2> QED  BY <2>1, <2>2, <2>3, <2>4, <2>5 DEF EncapHeaderLen
  <1> QED  BY <1>1, BuildInvariance, BoardInvariance, PTL
=============================================================================
