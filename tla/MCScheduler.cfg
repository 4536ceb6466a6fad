SPECIFICATION FairSpec
CONSTANTS
    Task = {t1, t2, t3, t4}
    MaxQueue = 2
INVARIANTS QueueSound
PROPERTIES EverySettles ImplementsTaskQueue
CHECK_DEADLOCK FALSE
