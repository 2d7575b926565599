SPECIFICATION FairSpec
CONSTANTS
    Sessions = {p1, p2}
    Nobody = Nobody
    Commands = {"edit"}
    Layouts = {TRUE}
    MaxInterrupts = 1
    Environment = {"interrupt", "fault"}
CONSTRAINT NoBackup
CONSTRAINT WatchersStay
INVARIANT LockAccountable
INVARIANT PlaintextRemoved
PROPERTY LockReleased
\* Every session comes to its end and is not started again.
CHECK_DEADLOCK FALSE
