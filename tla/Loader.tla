-------------------------------- MODULE Loader --------------------------------
(***************************************************************************)
(* What load_results_gpg promises its callers: it comes back with all the  *)
(* lines of the password file, or with none because there is no such file, *)
(* or it does not come back (errx).  EditSession and the get command treat *)
(* a load as one step on the strength of this.                             *)
(***************************************************************************)
EXTENDS Naturals

CONSTANT Lines   \* the number of lines in the password file

VARIABLES
    text,    \* the password file: "absent", "whole" or "corrupt"
    outcome, \* "pending", "loaded", "empty" or "failed"
    loaded   \* the number of lines handed to the caller

loaderVars == <<text, outcome, loaded>>

Init ==
    /\ text \in {"absent", "whole", "corrupt"}
    /\ outcome = "pending"
    /\ loaded = 0

Load ==
    /\ outcome = "pending" /\ text = "whole"
    /\ outcome' = "loaded"
    /\ loaded' = Lines
    /\ UNCHANGED text

NoFile ==
    /\ outcome = "pending" /\ text = "absent"
    /\ outcome' = "empty"
    /\ UNCHANGED <<text, loaded>>

Fail ==
    /\ outcome = "pending"
    /\ outcome' = "failed"
    /\ UNCHANGED <<text, loaded>>

Next == Load \/ NoFile \/ Fail

\* A load is always over at some time: gpg is not waited for for ever.
Spec == Init /\ [][Next]_loaderVars /\ WF_loaderVars(Next)

===============================================================================
