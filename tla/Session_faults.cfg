SPECIFICATION Spec
CONSTANTS
    TopicCount = 2
    TopicId <- Table2
    TopicQos <- Qos2
    FrameLen = 2
    Oversized = {}
    QueueMax = 1
    CreateMayThrow = TRUE
    SendsMayFail = TRUE
    MaxPub = 2
    MaxRos = 2
    MaxRestarts = 2
    MaxResets = 1
    MaxCorrupt = 1
INVARIANTS
    RosOutIsOrdered
    ReceivedIsOrdered
    CrashNeedsLoss
    LossOnlyStalls
CHECK_DEADLOCK FALSE
