CONSTANTS
    MaxStarts = 6
    DtorStops = TRUE
SPECIFICATION FairSpec
CHECK_DEADLOCK TRUE
INVARIANTS TypeOK OneWorker StoppedMeansStopped NoStaleStop NoUseAfterDestroy
PROPERTIES StopReturns
