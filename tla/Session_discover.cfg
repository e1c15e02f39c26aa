SPECIFICATION Spec
CONSTANTS
    TopicCount = 2
    TopicId <- Table2
    TopicQos <- Qos2
    FrameLen = 2
    Oversized = {}
    QueueMax = 1
    CreateMayThrow = FALSE
    SendsMayFail = FALSE
    MaxPub = 1
    MaxRos = 0
    MaxRestarts = 1
    MaxResets = 0
    MaxCorrupt = 0
PROPERTY DiscoverIsObeyed
CHECK_DEADLOCK FALSE
