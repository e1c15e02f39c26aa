SPECIFICATION Spec
CONSTANTS
    Byte <- Bytes
    Magic0 = 170
    Magic1 = 85
    BufferSize = 10
    CrcInit <- Crc16Init
    CrcUpdate <- Crc16Update
    Traffic <- TrafficAny
    MaxFrames = 5
    MaxNoise = 1
    NoiseBytes = {0, 10, 85, 170}
    Recovery = 2
INVARIANTS
    BuffersHold
    DeliveredWasWritten
    QuietLineDelivers
    ParserResyncs
PROPERTIES
    DeliveredWasHeard
    MagicIsNeverMissed
CHECK_DEADLOCK FALSE
