CONSTANTS
    Threads = {t1, t2}
    MaxArrivals = 2
    Types = {k}
    MaxObjects = 1
SPECIFICATION FairSpec
INVARIANT TypeOK SocketIsQuiet StopsOnlyWithoutLoop NoHandlerAfterDestructor WorkerKeepsReferences
PROPERTY ConnectionServed DestructorReturns
CHECK_DEADLOCK FALSE
