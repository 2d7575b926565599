SPECIFICATION Spec
CONSTANTS
    Sessions = {p1, p2}
    Nobody = Nobody
    Commands = {"edit"}
    Layouts = {TRUE}
    MaxInterrupts = 0
    Environment = {}
SYMMETRY SessionSymmetry
INVARIANT OneEditorAtATime
\* Every session comes to its end and is not started again.
CHECK_DEADLOCK FALSE
