SPECIFICATION Spec
CONSTANTS
    Lines = 2
    Capacity = 1
    Reapers = {"root"}
INVARIANT NoAtexitInWatcher
\* Every process comes to its end.
CHECK_DEADLOCK FALSE
