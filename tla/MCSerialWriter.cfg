\* Writes fail, jobs panic, threads are refused, and a keybind saves beside the queue.
CONSTANTS
    t1 = t1
    t2 = t2
    caller = caller
    Threads = {t1, t2}
    Caller = caller
    MaxContent = 5
    MaxDirect = 1
    MaxFailures = 2
SPECIFICATION FairSpec
INVARIANTS
    TypeOK
    QueueServed
    NewestKept
PROPERTIES
    SavesLatest
    EverySaveLands
CHECK_DEADLOCK FALSE
