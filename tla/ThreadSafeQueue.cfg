SPECIFICATION FairSpec
CONSTANTS
    Producers <- Executors
    QueueMax = 2
    MaxPush = 5
INVARIANTS
    TypeOK
    PolledNeverSleeps
    SleeperIsNotified
    EmptyPopNeedsStop
PROPERTIES
    QueueDropsOldest
    EveryItemLeaves
CHECK_DEADLOCK FALSE
