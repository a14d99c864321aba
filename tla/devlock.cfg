CONSTANTS
    NR_TASKS = 4
    BadSectors = {3}
    MaxQueue = 3
SPECIFICATION FairSpec
INVARIANTS TypeOK Mutex NoLostWakeup QueueHoldsWaiters
PROPERTIES EveryRequestServed
