SPECIFICATION Spec
CONSTANTS
    TopicCount = 2
    TopicId <- Table2
    TopicQos <- QosRejected
    FrameLen = 2
    Oversized = {}
    QueueMax = 1
    CreateMayThrow = FALSE
    SendsMayFail = FALSE
    MaxPub = 1
    MaxRos = 0
    MaxRestarts = 0
    MaxResets = 0
    MaxCorrupt = 0
INVARIANT AgentKeepsRunning
