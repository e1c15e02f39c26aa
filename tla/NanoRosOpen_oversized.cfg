SPECIFICATION Spec
CONSTANTS
    TopicCount = 2
    TopicId <- Table2
    TopicQos <- Qos2
    FrameLen = 2
    Oversized = {1}
    HostFrames <- HostAny
    MaxHost = 5
    MaxPub = 2
    WireMax = 2
INVARIANT
    OversizedBlocksPublishing
CHECK_DEADLOCK FALSE
