------------------------------ MODULE GpgReader ------------------------------
(***************************************************************************)
(* load_results_gpg in detail: three processes around one pipe.  The       *)
(* parent reads what the forked gpg writes; a second child, the watcher,   *)
(* sleeps and then sends SIGINT to gpg unless the parent cancelled it.     *)
(* Both children are forks of a process that, in edit and add, has         *)
(* installed atexit_cleanup and sig_cleanup, and they inherit both.        *)
(***************************************************************************)
EXTENDS Naturals

CONSTANTS
    Lines,    \* the number of lines in the password file
    Capacity, \* the number of lines the pipe holds
    Reapers   \* who may adopt orphans: SUBSET {"root", "own"}

ASSUME LinesAssumption == Lines \in Nat
ASSUME CapacityAssumption == Capacity \in Nat \ {0}
ASSUME ReapersAssumption == Reapers \subseteq {"root", "own"}

VARIABLES
    text,       \* the password file: "absent", "whole" or "corrupt"
    cmd,        \* the command that loads: "edit" (or add), "get" (or prompt)
    reaper,     \* the process that adopts orphans is root's or the user's own
    parent,     \* where the parent is
    got,        \* lines the parent has read
    gpg,        \* the state of the gpg child
    status,     \* its wait status
    sent,       \* lines gpg has written
    watcher,    \* the state of the watcher
    pending,    \* the children for which a SIGINT is pending
    lock        \* the lock file: "present" or "absent"

environment == <<text, cmd, reaper>>
gpgVars     == <<gpg, status, sent>>
vars        == <<environment, parent, got, gpgVars, watcher, pending, lock>>

Over == {"loaded", "empty", "failed"}

\* The parent process still exists ("loaded" and "empty" go on to edit).
ParentAlive == parent # "failed"

\* edit and add have installed atexit_cleanup and sig_cleanup.
Registered == cmd = "edit"

\* The pipe has a reader: the watcher has inherited the parent's end.
Readable == ParentAlive \/ watcher \notin {"none", "gone"}

-----------------------------------------------------------------------------
TypeOK ==
    /\ text \in {"absent", "whole", "corrupt"}
    /\ cmd \in {"edit", "get"}
    /\ reaper \in Reapers
    /\ parent \in {"stat", "fork", "watch", "read", "wait", "cancel", "code"}
                    \cup Over
    /\ got \in 0..Lines
    /\ gpg \in {"none", "forked", "running", "zombie", "reaped"}
    /\ status \in {"none", "ok", "error", "signaled"}
    /\ sent \in 0..Lines
    /\ watcher \in {"none", "born", "asleep", "awake", "killing", "atexit",
                    "gone"}
    /\ pending \subseteq {"gpg", "watcher"}
    /\ lock \in {"present", "absent"}

Init ==
    /\ text \in {"absent", "whole", "corrupt"}
    /\ cmd \in {"edit", "get"}
    /\ reaper \in Reapers
    /\ parent = "stat"
    /\ got = 0
    /\ gpg = "none" /\ status = "none" /\ sent = 0
    /\ watcher = "none"
    /\ pending = {}
    /\ lock = IF Registered THEN "present" ELSE "absent"

-----------------------------------------------------------------------------
(* The parent: gpg_open, load_results_fp, gpg_close.                       *)

\* err or errx: atexit_cleanup gives the lock back.
Fail ==
    /\ parent' = "failed"
    /\ lock' = "absent"

FileExists ==
    /\ parent = "stat"
    /\ parent' = IF text = "absent" THEN "empty" ELSE "fork"
    /\ UNCHANGED <<environment, got, gpgVars, watcher, pending, lock>>

\* pipe and fork; the parent closes its copy of the writing end.
ForkGpg ==
    /\ parent = "fork"
    /\ \/ /\ parent' = "watch"
          /\ gpg' = "forked"
          /\ UNCHANGED lock
       \/ Fail /\ UNCHANGED gpg
    /\ UNCHANGED <<environment, got, status, sent, watcher, pending>>

SetPidTimeout ==
    /\ parent = "watch"
    /\ \/ /\ parent' = "read"
          /\ watcher' = "born"
          /\ UNCHANGED lock
       \/ Fail /\ UNCHANGED watcher
    /\ UNCHANGED <<environment, got, gpgVars, pending>>

\* Mutant of ReadLine: the result of fgets is not looked at.
ReadLineUnchecked ==
    /\ parent = "read"
    /\ got' = got + 1
    /\ UNCHANGED <<environment, parent, gpgVars, watcher, pending, lock>>

\* One line by fgets, or a line that the locale cannot represent: errx.
ReadLine ==
    /\ parent = "read"
    /\ got < sent
    /\ \/ got' = got + 1 /\ UNCHANGED <<parent, lock>>
       \/ Fail /\ UNCHANGED got
    /\ UNCHANGED <<environment, gpgVars, watcher, pending>>

\* fgets returns NULL: the pipe is empty and gpg has closed its end.
ReadEnd ==
    /\ parent = "read"
    /\ got = sent /\ gpg = "zombie"
    /\ parent' = "wait"
    /\ UNCHANGED <<environment, got, gpgVars, watcher, pending, lock>>

\* Mutant of WaitPid: without WIFSIGNALED a killed gpg has exit code zero.
WaitPidExitStatus ==
    /\ parent = "wait"
    /\ gpg = "zombie"
    /\ gpg' = "reaped"
    /\ status' = IF status = "signaled" THEN "ok" ELSE status
    /\ parent' = "cancel"
    /\ UNCHANGED <<environment, got, sent, watcher, pending, lock>>

\* waitpid, and errx when gpg was killed by a signal (the watcher stays).
WaitPid ==
    /\ parent = "wait"
    /\ gpg = "zombie"
    /\ gpg' = "reaped"
    /\ IF status = "signaled"
         THEN Fail
         ELSE parent' = "cancel" /\ UNCHANGED lock
    /\ UNCHANGED <<environment, got, status, sent, watcher, pending>>

\* cancel_pid_timeout: SIGINT to the watcher, a zombie of ours at worst.
CancelPidTimeout ==
    /\ parent = "cancel"
    /\ pending' = pending \cup {"watcher"}
    /\ parent' = "code"
    /\ UNCHANGED <<environment, got, gpgVars, watcher, lock>>

\* load_results_gpg looks at the exit code of gpg.
ExitCode ==
    /\ parent = "code"
    /\ \/ status = "ok" /\ parent' = "loaded" /\ UNCHANGED lock
       \/ status # "ok" /\ Fail
    /\ UNCHANGED <<environment, got, gpgVars, watcher, pending>>

\* SIGINT from the terminal reaches the whole process group.  There is no
\* temporary file yet: the unlink in sig_cleanup fails and err exits.
Interrupt ==
    /\ parent \notin Over
    /\ Fail
    /\ pending' = {c \in {"gpg", "watcher"} :
                       \/ c = "gpg" /\ gpg \in {"forked", "running"}
                       \/ c = "watcher" /\ watcher # "none"}
    /\ UNCHANGED <<environment, got, gpgVars, watcher>>

\* A signal that mdp does not catch; the lock stays.
Killed ==
    /\ parent \notin Over
    /\ parent' = "failed"
    /\ UNCHANGED <<environment, got, gpgVars, watcher, pending, lock>>

-----------------------------------------------------------------------------
(* The gpg child.  It may hang at any time, on a passphrase for example.   *)

\* A child that leaves through exit, with the handlers it has inherited.
ChildCleanup == lock' = IF Registered THEN "absent" ELSE lock

GpgEnds(how) == gpg' = "zombie" /\ status' = how

\* execlp, or err in the child, which runs the inherited atexit_cleanup.
GpgExec ==
    /\ gpg = "forked"
    /\ \/ gpg' = "running" /\ UNCHANGED <<status, lock>>
       \/ GpgEnds("error") /\ ChildCleanup
    /\ UNCHANGED <<environment, parent, got, sent, watcher, pending>>

GpgWrite ==
    /\ gpg = "running"
    /\ sent < Lines
    /\ IF Readable
         THEN sent - got < Capacity /\ sent' = sent + 1 /\ UNCHANGED <<gpg, status>>
         ELSE GpgEnds("signaled") /\ UNCHANGED sent
    /\ UNCHANGED <<environment, parent, got, watcher, pending, lock>>

GpgExit ==
    /\ gpg = "running"
    /\ \/ text = "whole" /\ sent = Lines /\ GpgEnds("ok")
       \/ GpgEnds("error")
    /\ UNCHANGED <<environment, parent, got, sent, watcher, pending, lock>>

\* SIGINT kills gpg or makes it exit with an error; before the exec it runs
\* the inherited sig_cleanup, whose err exits.
GpgInterrupted ==
    /\ "gpg" \in pending
    /\ pending' = pending \ {"gpg"}
    /\ \/ /\ gpg = "running"
          /\ \E how \in {"signaled", "error"} : GpgEnds(how)
          /\ UNCHANGED lock
       \/ /\ gpg = "forked"
          /\ GpgEnds(IF Registered THEN "error" ELSE "signaled")
          /\ ChildCleanup
       \/ /\ gpg \in {"zombie", "reaped"}
          /\ UNCHANGED <<gpg, status, lock>>
    /\ UNCHANGED <<environment, parent, got, sent, watcher>>

\* The process that adopted an orphaned gpg reaps it.
GpgAdopted ==
    /\ ~ParentAlive
    /\ gpg = "zombie"
    /\ gpg' = "reaped"
    /\ UNCHANGED <<environment, parent, got, status, sent, watcher, pending,
                   lock>>

-----------------------------------------------------------------------------
(* The watcher: the child of set_pid_timeout.                              *)

WatcherGoto(from, to) == watcher = from /\ watcher' = to

\* signal(SIGINT, SIG_DFL).
ResetSignals ==
    /\ WatcherGoto("born", "asleep")
    /\ UNCHANGED <<environment, parent, got, gpgVars, pending, lock>>

\* sleep(timeout) returns.
Timeout ==
    /\ WatcherGoto("asleep", "awake")
    /\ UNCHANGED <<environment, parent, got, gpgVars, pending, lock>>

\* Mutant of CheckParent: the test is the wrong way round.
CheckParentInverted ==
    /\ WatcherGoto("awake",
                   IF ParentAlive \/ reaper = "own" THEN "gone" ELSE "killing")
    /\ UNCHANGED <<environment, parent, got, gpgVars, pending, lock>>

\* kill(getppid(), 0): of an orphan this asks for the adopting process, and
\* fails (EPERM) when that one belongs to root.
CheckParent ==
    /\ WatcherGoto("awake",
                   IF ParentAlive \/ reaper = "own" THEN "killing" ELSE "gone")
    /\ UNCHANGED <<environment, parent, got, gpgVars, pending, lock>>

\* Mutant of KillGpg: the watcher sleeps and tries again.
KillGpgRetry ==
    /\ WatcherGoto("killing", "asleep")
    /\ pending' = IF gpg \in {"forked", "running"}
                     THEN pending \cup {"gpg"} ELSE pending
    /\ UNCHANGED <<environment, parent, got, gpgVars, lock>>

\* kill(gpg, SIGINT) and _Exit.  When gpg was reaped the call fails (ESRCH)
\* and err runs the exit handlers, unless its pid is another process' by now.
KillGpg ==
    /\ \/ WatcherGoto("killing", "gone")
       \/ gpg = "reaped" /\ WatcherGoto("killing", "atexit")
    /\ pending' = IF gpg \in {"forked", "running"}
                     THEN pending \cup {"gpg"} ELSE pending
    /\ UNCHANGED <<environment, parent, got, gpgVars, lock>>

\* The exit handlers that the watcher has inherited.
WatcherAtexit ==
    /\ WatcherGoto("atexit", "gone")
    /\ ChildCleanup
    /\ UNCHANGED <<environment, parent, got, gpgVars, pending>>

\* SIGINT: it ends the watcher, through sig_cleanup and the exit handlers if
\* it arrives before ResetSignals.
WatcherInterrupted ==
    /\ "watcher" \in pending
    /\ pending' = pending \ {"watcher"}
    /\ watcher' = IF \/ watcher = "born" /\ Registered
                     \/ watcher = "atexit"
                    THEN "atexit" ELSE "gone"
    /\ UNCHANGED <<environment, parent, got, gpgVars, lock>>

-----------------------------------------------------------------------------
Parent == \/ FileExists \/ ForkGpg \/ SetPidTimeout \/ ReadLine \/ ReadEnd
          \/ WaitPid \/ CancelPidTimeout \/ ExitCode
Gpg == GpgExec \/ GpgWrite \/ GpgExit \/ GpgInterrupted
Watcher == \/ ResetSignals \/ Timeout \/ CheckParent \/ KillGpg
           \/ WatcherAtexit \/ WatcherInterrupted

Next == Parent \/ Gpg \/ Watcher \/ Interrupt \/ Killed \/ GpgAdopted

\* Processes that can run do run, sleep returns, and gpg reacts to SIGINT;
\* nothing is assumed of gpg's own progress beyond its exec.
Spec ==
    /\ Init /\ [][Next]_vars
    /\ WF_vars(Parent) /\ WF_vars(Watcher)
    /\ WF_vars(GpgExec) /\ WF_vars(GpgInterrupted)

-----------------------------------------------------------------------------
(* Properties.                                                             *)

\* The results are used only when every line was read and gpg vouched for
\* them: neither the watcher's SIGINT nor a failing gpg, nor the exit code of
\* a killed gpg, lets a truncated list reach the editor (gpg_close).
NoPartialLoad ==
    parent = "loaded" => text = "whole" /\ got = Lines /\ status = "ok"

\* The reading side implements the abstract loader, its termination included:
\* a hung gpg never blocks mdp, because the watcher outlives the hang.
L == INSTANCE Loader WITH
        outcome <- IF parent \in Over THEN parent ELSE "pending",
        loaded <- IF parent = "loaded" THEN got ELSE 0

RefinesLoader == L!Spec

\* The safety part of it.
RefinesLoaderSafely == L!Init /\ [][L!Next]_(L!loaderVars)

\* A cancelled or expired watcher goes away, whatever became of the parent.
WatcherEnds == watcher = "born" ~> watcher = "gone"

-----------------------------------------------------------------------------
(* What the proofs need besides.                                           *)

\* What each stage of the parent knows of gpg and of the pipe.
Stages ==
    /\ got <= sent
    /\ status = "ok" => text = "whole" /\ sent = Lines
    /\ gpg \in {"none", "forked", "running"} => status = "none"
    /\ parent \in {"stat", "fork"} => gpg = "none"
    /\ parent = "empty" => text = "absent"
    /\ parent \in {"wait", "cancel", "code", "loaded"}
         => gpg \in {"zombie", "reaped"} /\ got = sent
    /\ parent = "loaded" => status = "ok"
    /\ text = "absent" => parent \in {"stat", "empty", "failed"}

ReaderInv == TypeOK /\ Stages

-----------------------------------------------------------------------------
(* What the comments say, where the code disagrees.                        *)

\* "Avoid atexit() to run on the child": the watcher never runs the exit
\* handlers of its parent (utils.c, set_pid_timeout).
NoAtexitInWatcher == watcher = "atexit" => ~Registered

=============================================================================
