SPECIFICATION Spec
CONSTANTS
    Lines = 2
    Capacity = 1
    Reapers = {"root", "own"}
INVARIANT TypeOK
INVARIANT NoPartialLoad
PROPERTY RefinesLoader
PROPERTY WatcherEnds
\* Every process comes to its end.
CHECK_DEADLOCK FALSE
