CONSTANTS
    MaxStarts = 1
    DtorStops = FALSE
SPECIFICATION Spec
CHECK_DEADLOCK TRUE
INVARIANT NoUseAfterDestroy
