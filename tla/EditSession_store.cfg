SPECIFICATION Spec
CONSTANTS
    Sessions = {p1, p2}
    Nobody = Nobody
    Commands = {"add", "get"}
    Layouts = {TRUE}
    MaxInterrupts = 0
    Environment = {"kill", "fault", "child"}
SYMMETRY SessionSymmetry
CONSTRAINT OneStraySession
INVARIANT TypeOK
INVARIANT Exclusion
INVARIANT PublishedWhole
INVARIANT Recoverable
PROPERTY NoLostUpdate
PROPERTY BackupIsPrevious
\* Every session comes to its end and is not started again.
CHECK_DEADLOCK FALSE
