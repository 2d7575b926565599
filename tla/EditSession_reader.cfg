SPECIFICATION FairSpec
CONSTANTS
    Sessions = {p1, p2}
    Nobody = Nobody
    Commands = {"edit", "get"}
    Layouts = {TRUE}
    MaxInterrupts = 0
    Environment = {}
PROPERTY GetFindsStore
\* Every session comes to its end and is not started again.
CHECK_DEADLOCK FALSE
