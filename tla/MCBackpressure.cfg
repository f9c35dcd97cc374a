CONSTANTS
    Worker = {1, 2}
    NumPartitions = 2
    PartitionOf <- AccountPartition
    Burst = 1
    Transaction <- BurstOnAAndB
    None = None
    QueueSize = 1
    MaxBatch = 1
    MaxVelocity = 5
    WindowSlides = FALSE
    Mortal = {}
    Stalling = {}
    Revivable = {}
    MaxRevivals = 0
SPECIFICATION Spec
CHECK_DEADLOCK FALSE
PROPERTIES BackpressureSparesWorkers
