CONSTANTS
    Worker = {1, 2}
    NumPartitions = 2
    PartitionOf <- AccountPartition
    Burst = 1
    Transaction <- BurstOnA
    None = None
    QueueSize = 4
    MaxBatch = 2
    MaxVelocity = 1
    WindowSlides = TRUE
    Mortal = {2}
    Stalling = {2}
    Revivable = {2}
    MaxRevivals = 1
SPECIFICATION FairSpec
CHECK_DEADLOCK FALSE
PROPERTIES EveryTransactionHandled
