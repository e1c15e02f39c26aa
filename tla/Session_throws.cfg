SPECIFICATION Spec
CONSTANTS
    TopicCount = 2
    TopicId <- Table2
    TopicQos <- Qos2
    FrameLen = 2
    Oversized = {}
    QueueMax = 1
    CreateMayThrow = TRUE
    SendsMayFail = FALSE
    MaxPub = 0
    MaxRos = 0
    MaxRestarts = 0
    MaxResets = 0
    MaxCorrupt = 0
INVARIANT AgentKeepsRunning
