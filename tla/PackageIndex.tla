---------------------------- MODULE PackageIndex ----------------------------
(***************************************************************************)
(* build_package_index: the walk over a directory tree that finds the ROS  *)
(* packages in it.  Directories are canonical; a name in a directory may   *)
(* be a symbolic link, so the tree may share subtrees and have cycles.     *)
(*                                                                         *)
(* The recursion of scan_dir is the sequence `todo': the directory in hand *)
(* first, then its siblings, then those of its parents.                    *)
(***************************************************************************)
EXTENDS SequencesExt, Integers

CONSTANTS Dirs,
          DirNames,
          Subdirs,          \* [name, dir] of each directory in it, sorted by name
          PackageXml,       \* tokens of the package.xml in a directory, or NoFile
          Unreadable,       \* directories read_dir fails on
          DotNames          \* names that start with a dot

NoFile == <<"no file">>

\* The root of a scan goes by no name.
NoName == ""

Entries == [name : DirNames \cup {NoName}, dir : Dirs]

ASSUME DirsAssumption == Subdirs \in [Dirs -> Seq(Entries)]

VARIABLES index,            \* PackageIndex: name -> directory
          visited, todo, scanFailed

scanVars == <<index, visited, todo, scanFailed>>

-----------------------------------------------------------------------------
(* package.xml                                                             *)

Blank == " "
Malformed == "malformed"

\* Everything outside comments; an unterminated one hides the rest.
StripXmlComments(tokens) ==
    LET open[i \in 0 .. Len(tokens)] ==
            IF i = 0 THEN FALSE
            ELSE IF open[i - 1] THEN tokens[i] # "-->" ELSE tokens[i] = "<!--"
        shown == SelectSeq([i \in DOMAIN tokens |-> i],
                           LAMBDA i : ~open[i - 1] /\ ~open[i])
    IN  [j \in DOMAIN shown |-> tokens[shown[j]]]

\* The first <name> element.  A name is one token, with blanks around it or not.
ParsePackageName(xml) ==
    LET tokens   == StripXmlComments(xml)
        starts   == SelectInSeq(tokens, LAMBDA t : t = "<name>")
        rest     == SubSeq(tokens, starts + 1, Len(tokens))
        ends     == SelectInSeq(rest, LAMBDA t : t = "</name>")
        content  == SelectSeq(SubSeq(rest, 1, ends - 1), LAMBDA t : t # Blank)
    IN  IF starts = 0 \/ ends = 0 \/ content = <<>> THEN Malformed
        ELSE content[1]

-----------------------------------------------------------------------------
IsPackage(d) == PackageXml[d] # NoFile

PackageNames == [d \in Dirs |-> ParsePackageName(PackageXml[d])]
NameOf(d) == PackageNames[d]

IsSkippedDir(name) == name \in DotNames \cup {"build", "install", "log"}

\* The root is scanned whatever its name.
ScanRoot(root) == <<[name |-> NoName, dir |-> root]>>

\* Nothing found yet; a root that is not a directory is an error.
ScanStart(root) ==
    /\ index' = <<>> /\ visited' = {}
    /\ todo' = IF root \in Dirs THEN ScanRoot(root) ELSE <<>>
    /\ scanFailed' = (root \notin Dirs)

Scanning == todo # <<>>

SkipByName ==
    /\ Scanning /\ IsSkippedDir(Head(todo).name)
    /\ todo' = Tail(todo)
    /\ UNCHANGED <<index, visited, scanFailed>>

\* Entering a directory that is not skipped for its name.
Visits(d) == Scanning /\ ~IsSkippedDir(Head(todo).name) /\ d = Head(todo).dir

AlreadyVisited(d) ==
    /\ Visits(d) /\ d \in visited
    /\ todo' = Tail(todo)
    /\ UNCHANGED <<index, visited, scanFailed>>

\* Fault: the visited set is kept and not asked.
Enter_NoMemory(d) == Visits(d) /\ visited' = visited \cup {d}

Enter(d) == Visits(d) /\ d \notin visited /\ visited' = visited \cup {d}

\* Of two packages with one name the first is kept; packages do not nest.
FindPackage(d) ==
    /\ Enter(d) /\ IsPackage(d) /\ NameOf(d) # Malformed
    /\ index' = [n \in DOMAIN index \cup {NameOf(d)} |->
                    IF n \in DOMAIN index THEN index[n] ELSE d]
    /\ todo' = Tail(todo)
    /\ UNCHANGED scanFailed

\* Fault: the directories still to be scanned are lost.
Descend_DropsSiblings(d) ==
    /\ Enter(d) /\ ~IsPackage(d) /\ d \notin Unreadable
    /\ todo' = Subdirs[d]
    /\ UNCHANGED <<index, scanFailed>>

Descend(d) ==
    /\ Enter(d) /\ ~IsPackage(d) /\ d \notin Unreadable
    /\ todo' = Subdirs[d] \o Tail(todo)
    /\ UNCHANGED <<index, scanFailed>>

\* An error anywhere ends the whole scan.
ScanError(d) ==
    /\ Enter(d)
    /\ IF IsPackage(d) THEN NameOf(d) = Malformed ELSE d \in Unreadable
    /\ todo' = <<>> /\ scanFailed' = TRUE
    /\ UNCHANGED index

ScanNext ==
    \/ SkipByName
    \/ \E d \in Dirs :
         AlreadyVisited(d) \/ FindPackage(d) \/ Descend(d) \/ ScanError(d)

\* A scan of its own, from any directory.
ScanInit ==
    /\ index = <<>> /\ visited = {} /\ scanFailed = FALSE
    /\ \E root \in Dirs : todo = ScanRoot(root)

ScanSpec == ScanInit /\ [][ScanNext]_scanVars

-----------------------------------------------------------------------------
\* Directories and the packages among them as a walk without memory would come
\* to them: what is in every set that has r and all it leads to.
LeadsTo == [d \in Dirs |->
    IF IsPackage(d) THEN {}
    ELSE {e.dir : e \in {e \in Range(Subdirs[d]) : ~IsSkippedDir(e.name)}}]

ClosedSets == {S \in SUBSET Dirs : \A x \in S : LeadsTo[x] \subseteq S}

Reachable == [r \in Dirs |-> {d \in Dirs : \A S \in ClosedSets : r \in S => d \in S}]

\* Although the scan never goes to a directory twice, which is what ends it in
\* a tree with cycles, it forgets none: when it is over, the index has the name
\* of every package that any directory it has been to leads to.
EveryPackageIsFound ==
    ~Scanning /\ ~scanFailed =>
        \A r \in visited : \A d \in Reachable[r] :
            IsPackage(d) => NameOf(d) \in DOMAIN index

-----------------------------------------------------------------------------
\* The invariant of the proof.  A visited directory has been indexed, or what
\* it leads to has been visited or has its turn to come.
VisitedIsClosed ==
    ~scanFailed =>
        \A d \in visited :
            IF IsPackage(d) THEN NameOf(d) \in DOMAIN index
            ELSE \A e \in Range(Subdirs[d]) :
                    \/ IsSkippedDir(e.name)
                    \/ e.dir \in visited
                    \/ e \in Range(todo)

\* Every entry of the index is a visited package of that name.
IndexIsTrue ==
    \A n \in DOMAIN index :
        index[n] \in visited /\ IsPackage(index[n]) /\ NameOf(index[n]) = n

ScanTypeOK ==
    /\ visited \subseteq Dirs
    /\ todo \in Seq(Entries)
    /\ scanFailed \in BOOLEAN

ScanIInv == ScanTypeOK /\ VisitedIsClosed /\ IndexIsTrue
=============================================================================
