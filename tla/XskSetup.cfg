SPECIFICATION Spec
CONSTANTS
    Queues = 3
    Cpus = 2
INVARIANTS RunningWorkerEquipped HandlesAccountedFor FallbackFindsQueueFree DetachedOnReturn
 
CHECK_DEADLOCK FALSE
