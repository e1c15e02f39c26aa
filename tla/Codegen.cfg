SPECIFICATION Spec
CONSTANTS
    Dirs <- MCDirs
    DirNames <- MCDirNames
    Subdirs <- MCSubdirs
    PackageXml <- MCPackageXml
    Unreadable = {"locked"}
    DotNames = {".git"}
    MsgsIn <- MCMsgsIn
    NotUtf8 <- MCNotUtf8
    MaxNesting = 4
    TopicNames <- MCTopicNames
    SubIdLimit = 2
    PubIdStart = 2
    PubIdLimit = 4
    StringMaxBytes = 9
    ArgLists <- MCArgLists
    EnvPrefix = "ros"
    TomlTexts <- MCTomlTexts
    FileTexts <- MCFileTexts
    Upper <- MCUpper
    LongStrings <- MCLongStrings
    MaxPayload = 150
    MaxEdits = 1
    MaxInterrupts = 1
CHECK_DEADLOCK FALSE
INVARIANTS
    TypeOK
    MaxSizeIsUpperBound
    SizeIsExactWithoutStrings
    IdsTellTopicsApart
    EveryPackageIsFound
    UpToDate
    OutputsAreClosed
    MessagesFitTheirFrame
PROPERTIES
    RunEnds
