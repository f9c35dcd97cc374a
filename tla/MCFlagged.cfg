CONSTANTS
    Worker = {1, 2}
    NumPartitions = 2
    PartitionOf <- AccountPartition
    Burst = 2
    Transaction <- BurstOnA
    None = None
    QueueSize = 4
    MaxBatch = 2
    MaxVelocity = 1
    WindowSlides = FALSE
    Mortal = {}
    Stalling = {}
    Revivable = {}
    MaxRevivals = 0
SPECIFICATION Spec
CHECK_DEADLOCK FALSE
INVARIANTS FlaggedNeverSubmitted
