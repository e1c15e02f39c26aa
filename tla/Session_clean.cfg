SPECIFICATION FairSpec
CONSTANTS
    TopicCount = 4
    TopicId <- Table4
    TopicQos <- Qos4
    FrameLen = 2
    Oversized = {}
    QueueMax = 2
    CreateMayThrow = FALSE
    SendsMayFail = FALSE
    MaxPub = 3
    MaxRos = 4
    MaxRestarts = 0
    MaxResets = 0
    MaxCorrupt = 0
INVARIANTS
    TypeOK
    NothingTorn
    AckAnswersRegister
    DataFindsPublisher
    OneTurn
PROPERTIES
    HandlesAreFinal
    RegistrationCompletes
    PublishIsReliable
