SPECIFICATION FairSpec
CONSTANTS
    TopicCount = 2
    TopicId <- Table2
    TopicQos <- Qos2
    FrameLen = 2
    Oversized = {}
    HostFrames <- HostAny
    MaxHost = 5
    MaxPub = 2
    WireMax = 2
INVARIANTS
    TypeOK
    IndexInBounds
    AwaitedTopicExists
PROPERTIES
    OnlyRegisterIsOverwritten
    GateOpensWithDone
    TransmitterIsReleased
CHECK_DEADLOCK FALSE
