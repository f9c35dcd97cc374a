CONSTANTS
    Worker = {1, 2}
    NumPartitions = 2
    PartitionOf <- AccountPartition
    Burst = 2
    Transaction <- BurstOnA
    None = None
    QueueSize = 2
    MaxBatch = 2
    MaxVelocity = 0
    WindowSlides = FALSE
    Mortal = {}
    Stalling = {2}
    Revivable = {2}
    MaxRevivals = 1
SPECIFICATION Spec
CHECK_DEADLOCK FALSE
INVARIANTS TypeOK AtLeastOnce HandedOnInOrder
PROPERTIES ResumePointAdvances
