----------------------------- MODULE EditSession -----------------------------
(***************************************************************************)
(* Concurrent runs of mdp over the files of one user.                      *)
(*                                                                         *)
(* A session is one process running `mdp edit', `mdp add' or `mdp get'.    *)
(* The sessions share the lock file, the encrypted password file and its   *)
(* backup; every session has its own plain-text temporary file and its own *)
(* encrypted temporary file.  One action is one system call that the other *)
(* processes can observe (stat, open, link, unlink, a run of gpg or of the *)
(* editor), so that sessions, the signal handler and the forked watcher    *)
(* interleave between any two of them.                                     *)
(*                                                                         *)
(* A text is abstracted to the set of edits it embodies: an edit is named  *)
(* by the session that made it, and what was in the store beforehand is    *)
(* the edit of Nobody.  A text is "tidy" when it is what edit_results      *)
(* would write for its entries (no trailing blanks, a final newline).      *)
(***************************************************************************)
EXTENDS Naturals, FiniteSets

CONSTANTS
    Sessions,      \* the processes of one user
    Nobody,        \* owner of a lock file that does not exist
    Commands,      \* the commands they run: SUBSET AllCommands
    Layouts,       \* the layouts an editor leaves: tidy is TRUE or FALSE
    MaxInterrupts, \* bound on the SIGINTs delivered in a behaviour
    Environment    \* what the environment does: SUBSET Hazards

AllCommands == {"edit", "add", "get"}

Hazards == {"interrupt", "child", "kill", "fault"}

ASSUME NobodyAssumption == Nobody \notin Sessions
ASSUME CommandsAssumption == Commands \subseteq AllCommands
ASSUME LayoutsAssumption == Layouts \subseteq BOOLEAN
ASSUME EnvironmentAssumption == Environment \subseteq Hazards
ASSUME MaxInterruptsAssumption == MaxInterrupts \in Nat

VARIABLES
    cmd,        \* the command each session runs
    cfg_backup, \* the configuration's `set backup', shared by the sessions
    pc,         \* where each session is
    hs,         \* where each session's sig_cleanup is
    child,      \* where each session's forked watcher is
    lock,       \* the owner of the lock file
    pw,         \* cfg_password_file
    bak,        \* cfg_password_file.bak
    tmp,        \* editor_tmp_path, per session
    enc,        \* editor_tmp_path.gpg, per session
    results,    \* the results array, per session
    sum,        \* result_crc32, per session
    interrupts, \* SIGINTs delivered so far
    published,  \* history: the text last linked as password file
    breach      \* history: how the protection of the store was lost

files   == <<lock, pw, bak, tmp, enc>>
memory  == <<results, sum>>
history == <<published, breach>>
config  == <<cmd, cfg_backup>>
vars    == <<config, pc, hs, child, files, memory, interrupts, history>>

-----------------------------------------------------------------------------
(* Files.  A file is absent, partially written, or a whole text.           *)

Edits == Sessions \cup {Nobody}

File == [state : {"absent", "partial", "whole"}, entries : SUBSET Edits,
         tidy : BOOLEAN]

Absent  == [state |-> "absent", entries |-> {}, tidy |-> TRUE]
Partial == [state |-> "partial", entries |-> {}, tidy |-> TRUE]
Whole(e, t) == [state |-> "whole", entries |-> e, tidy |-> t]

FileExists(f) == f.state # "absent"

-----------------------------------------------------------------------------
(* Program counters.                                                       *)

\* Once setup_signals_and_atexit has run, up to the exit of main.
Working == {"gpg_open", "decrypt", "add_passwords", "mkstemp", "dump",
            "editor", "has_changed", "encrypt", "encrypting", "pw_exists",
            "bak_unlink", "bak_link", "pw_unlink", "link_new", "chmod",
            "enc_unlink"}

\* The steps of cleanup, run by atexit_cleanup.
Exiting == {"ax_stat", "ax_unlink", "ax_tmp"}

\* "no_passwords" is the exit of a get that found nothing; "dead" is a death
\* by a signal, "crashed" one by a NULL stream: no atexit handler runs.  The
\* cleanup at exit was ended half-way in "unclean", by a lock or a temporary
\* file that was gone, and in "failed", by a system call that failed.
Over == {"ended", "no_passwords", "dead", "crashed", "unclean", "failed"}

PCs == {"idle", "gpg_check", "lock_exists", "lock_open", "setup"}
           \cup Working \cup Exiting \cup Over

\* system() ignores SIGINT in the parent while its command runs.
InSystem == {"editor", "encrypting"}

\* The watcher: "reaped" once gpg_close has waited for gpg; the others are
\* the stat and unlink of lock_unset in sig_cleanup and in atexit_cleanup.
ChildStates == {"none", "live", "reaped", "sig_stat", "sig_unlink",
                "exit_stat", "exit_unlink", "gone"}

Editing(p) == cmd[p] # "get"

\* atexit_cleanup and sig_cleanup are installed.
Registered(p) == Editing(p) /\ pc[p] \in Working \cup Exiting

\* p has created the lock file and has not yet removed it.
Holding(p) ==
    Editing(p) /\ pc[p] \in {"setup", "ax_stat", "ax_unlink"} \cup Working

\* The main flow of p is at `at' and is not suspended by a signal handler.
At(p, at) == pc[p] = at /\ hs[p] \in {"none", "masked"}

Goto(p, to) == pc' = [pc EXCEPT ![p] = to]

\* Mutant of Leave: atexit_cleanup was never registered.
LeaveUnregistered(p) == Goto(p, "ended")

\* exit(), from main or from err and errx.
Leave(p) == Goto(p, IF Registered(p) THEN "ax_stat" ELSE "ended")

-----------------------------------------------------------------------------
TypeOK ==
    /\ cmd \in [Sessions -> Commands]
    /\ cfg_backup \in BOOLEAN
    /\ pc \in [Sessions -> PCs]
    /\ hs \in [Sessions -> {"none", "stat", "unlink", "tmp", "masked"}]
    /\ child \in [Sessions -> ChildStates]
    /\ lock \in Sessions \cup {Nobody}
    /\ pw \in File /\ bak \in File
    /\ tmp \in [Sessions -> File] /\ enc \in [Sessions -> File]
    /\ results \in [Sessions -> SUBSET Edits]
    /\ sum \in [Sessions -> File]
    /\ interrupts \in 0..MaxInterrupts
    /\ published \in File
    /\ breach \subseteq {"double", "interrupt", "child", "blank"}

Init ==
    /\ cmd \in [Sessions -> Commands]
    /\ cfg_backup \in BOOLEAN
    /\ pc = [p \in Sessions |-> "idle"]
    /\ hs = [p \in Sessions |-> "none"]
    /\ child = [p \in Sessions |-> "none"]
    /\ lock = Nobody
    /\ pw \in {Absent} \cup {Whole({Nobody}, t) : t \in Layouts}
    /\ bak = Absent
    /\ tmp = [p \in Sessions |-> Absent]
    /\ enc = [p \in Sessions |-> Absent]
    /\ results = [p \in Sessions |-> {}]
    /\ sum = [p \in Sessions |-> Absent]
    /\ interrupts = 0
    /\ published = pw
    /\ breach = {}

-----------------------------------------------------------------------------
(* Start-up of a session, and the lock.                                    *)

\* mdp_add may end right away, on an unknown profile.
Start(p) ==
    /\ At(p, "idle")
    /\ \/ Goto(p, "gpg_check")
       \/ cmd[p] = "add" /\ Goto(p, "ended")
    /\ UNCHANGED <<config, hs, child, files, memory, interrupts, history>>

\* gpg is missing, has no key, or no key id is configured: errx.
GpgCheck(p) ==
    /\ At(p, "gpg_check")
    /\ \/ Goto(p, IF Editing(p) THEN "lock_exists" ELSE "gpg_open")
       \/ Goto(p, "ended")
    /\ UNCHANGED <<config, hs, child, files, memory, interrupts, history>>

\* Mutant of LockExists: setup_signals_and_atexit ran before lock_set, so a
\* refused session cleans up too.
LockExistsCleansUp(p) ==
    /\ At(p, "lock_exists")
    /\ Goto(p, IF lock = Nobody THEN "lock_open" ELSE "ax_stat")
    /\ UNCHANGED <<config, hs, child, files, memory, interrupts, history>>

\* The stat of lock_set; a refused session ends without any cleanup.
LockExists(p) ==
    /\ At(p, "lock_exists")
    /\ Goto(p, IF lock = Nobody THEN "lock_open" ELSE "ended")
    /\ UNCHANGED <<config, hs, child, files, memory, interrupts, history>>

\* Mutant of LockOpen: the fprintf is missing, the file names no process.
LockOpenEmpty(p) ==
    /\ At(p, "lock_open")
    /\ Goto(p, "setup")
    /\ lock' = "empty"
    /\ UNCHANGED <<config, hs, child, pw, bak, tmp, enc, memory, interrupts,
                   history>>

\* The fopen "w" and fprintf of lock_set: an existing lock is overwritten.
LockOpen(p) ==
    /\ At(p, "lock_open")
    /\ Goto(p, "setup")
    /\ lock' = p
    /\ breach' = IF lock = Nobody THEN breach ELSE breach \cup {"double"}
    /\ UNCHANGED <<config, hs, child, pw, bak, tmp, enc, memory, interrupts,
                   published>>

SetupSignalsAndAtexit(p) ==
    /\ At(p, "setup")
    /\ Goto(p, "gpg_open")
    /\ UNCHANGED <<config, hs, child, files, memory, interrupts, history>>

-----------------------------------------------------------------------------
(* Loading the password file: load_results_gpg.                            *)

\* Where a session goes once load_results_gpg has returned n # 0 or 0.
Loaded(p, some) ==
    Goto(p, CASE cmd[p] = "edit" -> "mkstemp"
              [] cmd[p] = "add" -> "add_passwords"
              [] cmd[p] = "get" -> IF some THEN "ended" ELSE "no_passwords")

\* gpg_open returns NULL when there is no password file; otherwise it forks
\* gpg and the watcher.  An editor that finds no file although one has been
\* published starts from a blank text.
GpgOpen(p) ==
    /\ At(p, "gpg_open")
    /\ IF FileExists(pw)
         THEN /\ Goto(p, "decrypt")
              /\ child' = [child EXCEPT ![p] = "live"]
              /\ UNCHANGED breach
         ELSE /\ Loaded(p, FALSE)
              /\ breach' = IF Editing(p) /\ FileExists(published)
                             THEN breach \cup {"blank"} ELSE breach
              /\ UNCHANGED child
    /\ UNCHANGED <<config, hs, files, memory, interrupts, published>>

\* Mutant of Decrypt: the exit code of gpg is not looked at.
DecryptUnchecked(p) ==
    /\ At(p, "decrypt")
    /\ child' = [child EXCEPT ![p] = "reaped"]
    /\ \E f \in {pw, Partial} :
         /\ results' = [results EXCEPT ![p] = f.entries]
         /\ sum' = [sum EXCEPT ![p] = f]
         /\ Loaded(p, f.entries # {})
    /\ UNCHANGED <<config, hs, files, interrupts, history>>

\* load_results_fp over the pipe, and gpg_close.  gpg fails on a file that is
\* gone or is not whole, on a wrong passphrase, or when the watcher kills it.
Decrypt(p) ==
    /\ At(p, "decrypt")
    /\ child' = [child EXCEPT ![p] = "reaped"]
    /\ \/ /\ pw.state = "whole"
          /\ results' = [results EXCEPT ![p] = pw.entries]
          /\ sum' = [sum EXCEPT ![p] = pw]
          /\ Loaded(p, pw.entries # {})
       \/ /\ Leave(p)
          /\ UNCHANGED memory
    /\ UNCHANGED <<config, hs, files, interrupts, history>>

\* profile_passwords_to_results; a password_count of zero adds nothing.  A
\* length that cannot be generated, or a character that the locale does not
\* have, ends the session.
AddPasswords(p) ==
    /\ At(p, "add_passwords")
    /\ \/ /\ \E e \in {{}, {p}} : results' = [results EXCEPT ![p] = @ \cup e]
          /\ Goto(p, "mkstemp")
       \/ /\ Leave(p)
          /\ UNCHANGED results
    /\ UNCHANGED <<config, hs, child, files, sum, interrupts, history>>

-----------------------------------------------------------------------------
(* Editing the text: edit_results.                                         *)

Mkstemp(p) ==
    /\ At(p, "mkstemp")
    /\ tmp' = [tmp EXCEPT ![p] = Whole({}, TRUE)]
    /\ Goto(p, "dump")
    /\ UNCHANGED <<config, hs, child, lock, pw, bak, enc, memory, interrupts,
                   history>>

\* The descriptor stays valid when sig_cleanup has unlinked the file: what is
\* written is then out of every reader's reach.
Dump(p) ==
    /\ At(p, "dump")
    /\ tmp' = [tmp EXCEPT ![p] = IF FileExists(@) THEN Whole(results[p], TRUE)
                                                  ELSE Absent]
    /\ Goto(p, "editor")
    /\ UNCHANGED <<config, hs, child, lock, pw, bak, enc, memory, interrupts,
                   history>>

\* What the editor of p may leave where it found f: the text as it was, with
\* p's edit made or taken back, tidy or not, or no file by that name any more.
\* A missing file is edited as an empty one and exists only once it is saved.
EditOutcomes(p, f) ==
    {f, Absent} \cup {Whole(e, t) : e \in {f.entries, f.entries \cup {p},
                                   f.entries \ {p}}, t \in Layouts}

\* spawn_editor: the editor runs to its end; a failed editor ends mdp.
EditorExit(p) ==
    /\ At(p, "editor")
    /\ \/ \E f \in EditOutcomes(p, tmp[p]) :
            /\ tmp' = [tmp EXCEPT ![p] = f]
            /\ Goto(p, "has_changed")
       \/ /\ Leave(p)
          /\ UNCHANGED tmp
    /\ UNCHANGED <<config, hs, child, lock, pw, bak, enc, memory, interrupts,
                   history>>

\* has_changed: the sum of the temporary file against that of the load.  A
\* missing file makes fopen return NULL and fclose(NULL) crash; a line that
\* load_results_fp cannot read ends mdp.
HasChanged(p) ==
    /\ At(p, "has_changed")
    /\ \/ /\ FileExists(tmp[p])
          /\ results' = [results EXCEPT ![p] = @ \cup tmp[p].entries]
          /\ sum' = [sum EXCEPT ![p] = tmp[p]]
          /\ IF sum[p] # tmp[p] THEN Goto(p, "encrypt") ELSE Leave(p)
       \/ /\ IF FileExists(tmp[p]) THEN Leave(p) ELSE Goto(p, "crashed")
          /\ UNCHANGED memory
    /\ UNCHANGED <<config, hs, child, files, interrupts, history>>

-----------------------------------------------------------------------------
(* Saving the text: gpg_encrypt.                                           *)

\* system("gpg -e"): gpg has opened its output, if it has found its input.
EncryptStart(p) ==
    /\ At(p, "encrypt")
    /\ enc' = [enc EXCEPT ![p] = IF FileExists(tmp[p]) THEN Partial ELSE @]
    /\ Goto(p, "encrypting")
    /\ UNCHANGED <<config, hs, child, lock, pw, bak, tmp, memory, interrupts,
                   history>>

\* Mutant of EncryptEnd: the result of system("gpg -e") is not looked at.
EncryptEndUnchecked(p) ==
    /\ At(p, "encrypting")
    /\ \E f \in {tmp[p], enc[p]} : enc' = [enc EXCEPT ![p] = f]
    /\ Goto(p, "pw_exists")
    /\ UNCHANGED <<config, hs, child, lock, pw, bak, tmp, memory, interrupts,
                   history>>

\* gpg has exited, with success or with an error that ends mdp.
EncryptEnd(p) ==
    /\ At(p, "encrypting")
    /\ \/ /\ enc[p].state = "partial"
          /\ enc' = [enc EXCEPT ![p] = tmp[p]]
          /\ Goto(p, "pw_exists")
       \/ /\ \E f \in {Absent, enc[p]} : enc' = [enc EXCEPT ![p] = f]
          /\ Leave(p)
    /\ UNCHANGED <<config, hs, child, lock, pw, bak, tmp, memory, interrupts,
                   history>>

\* Mutant of PwExists: cfg_backup is not looked at.
PwExistsNoBackup(p) ==
    /\ At(p, "pw_exists")
    /\ Goto(p, IF FileExists(pw) THEN "pw_unlink" ELSE "link_new")
    /\ UNCHANGED <<config, hs, child, files, memory, interrupts, history>>

PwExists(p) ==
    /\ At(p, "pw_exists")
    /\ Goto(p, CASE ~FileExists(pw) -> "link_new"
                 [] FileExists(pw) /\ cfg_backup -> "bak_unlink"
                 [] FileExists(pw) /\ ~cfg_backup -> "pw_unlink")
    /\ UNCHANGED <<config, hs, child, files, memory, interrupts, history>>

\* A backup that does not exist (ENOENT) is no error.
BakUnlink(p) ==
    /\ At(p, "bak_unlink")
    /\ bak' = Absent
    /\ Goto(p, "bak_link")
    /\ UNCHANGED <<config, hs, child, lock, pw, tmp, enc, memory, interrupts,
                   history>>

\* link fails with ENOENT or EEXIST when another session got in between.
BakLink(p) ==
    /\ At(p, "bak_link")
    /\ IF FileExists(pw) /\ ~FileExists(bak)
         THEN bak' = pw /\ Goto(p, "pw_unlink")
         ELSE Leave(p) /\ UNCHANGED bak
    /\ UNCHANGED <<config, hs, child, lock, pw, tmp, enc, memory, interrupts,
                   history>>

PwUnlink(p) ==
    /\ At(p, "pw_unlink")
    /\ IF FileExists(pw)
         THEN pw' = Absent /\ Goto(p, "link_new")
         ELSE Leave(p) /\ UNCHANGED pw
    /\ UNCHANGED <<config, hs, child, lock, bak, tmp, enc, memory, interrupts,
                   history>>

\* link(tmp.gpg, password file): EEXIST when another session was faster.
LinkNew(p) ==
    /\ At(p, "link_new")
    /\ IF ~FileExists(pw)
         THEN /\ pw' = enc[p]
              /\ published' = enc[p]
              /\ Goto(p, "chmod")
         ELSE Leave(p) /\ UNCHANGED <<pw, published>>
    /\ UNCHANGED <<config, hs, child, lock, bak, tmp, enc, memory, interrupts,
                   breach>>

Chmod(p) ==
    /\ At(p, "chmod")
    /\ IF FileExists(pw) THEN Goto(p, "enc_unlink") ELSE Leave(p)
    /\ UNCHANGED <<config, hs, child, files, memory, interrupts, history>>

EncUnlink(p) ==
    /\ At(p, "enc_unlink")
    /\ enc' = [enc EXCEPT ![p] = Absent]
    /\ Leave(p)
    /\ UNCHANGED <<config, hs, child, lock, pw, bak, tmp, memory, interrupts,
                   history>>

-----------------------------------------------------------------------------
(* The exit of a session: atexit_cleanup.  An error inside it calls exit   *)
(* again, which does not run the handler a second time.                    *)

\* Mutant of AxStat: the test of lock_unset is the wrong way round.
AxStatInverted(p) ==
    /\ At(p, "ax_stat")
    /\ Goto(p, IF lock = Nobody THEN "ax_unlink" ELSE "ax_tmp")
    /\ UNCHANGED <<config, hs, child, files, memory, interrupts, history>>

AxStat(p) ==
    /\ At(p, "ax_stat")
    /\ Goto(p, IF lock = Nobody THEN "ax_tmp" ELSE "ax_unlink")
    /\ UNCHANGED <<config, hs, child, files, memory, interrupts, history>>

\* The unlink of lock_unset, whoever wrote the lock file.  When the file has
\* gone since the stat, err ends the cleanup half-way.
AxUnlink(p) ==
    /\ At(p, "ax_unlink")
    /\ lock' = Nobody
    /\ Goto(p, IF lock = Nobody THEN "unclean" ELSE "ax_tmp")
    /\ UNCHANGED <<config, hs, child, pw, bak, tmp, enc, memory, interrupts,
                   history>>

\* Mutant of AxTmp: the encrypted temporary file is removed as well.
AxTmpBoth(p) ==
    /\ At(p, "ax_tmp")
    /\ tmp' = [tmp EXCEPT ![p] = Absent]
    /\ enc' = [enc EXCEPT ![p] = Absent]
    /\ Goto(p, "ended")
    /\ UNCHANGED <<config, hs, child, lock, pw, bak, memory, interrupts,
                   history>>

\* Mutant of AxTmp: the temporary file is left alone.
AxTmpKept(p) ==
    /\ At(p, "ax_tmp")
    /\ Goto(p, "ended")
    /\ UNCHANGED <<config, hs, child, files, memory, interrupts, history>>

AxTmp(p) ==
    /\ At(p, "ax_tmp")
    /\ tmp' = [tmp EXCEPT ![p] = Absent]
    /\ Goto(p, "ended")
    /\ UNCHANGED <<config, hs, child, lock, pw, bak, enc, memory, interrupts,
                   history>>

-----------------------------------------------------------------------------
(* SIGINT.  Before setup_signals_and_atexit, and in a get, it kills; from  *)
(* then on it runs sig_cleanup, during which it is masked.                 *)

Interrupt(p) ==
    /\ "interrupt" \in Environment
    /\ interrupts < MaxInterrupts
    /\ interrupts' = interrupts + 1
    /\ hs[p] = "none"
    /\ pc[p] \notin InSystem \cup Over \cup {"idle"}
    /\ IF Registered(p)
         THEN hs' = [hs EXCEPT ![p] = "stat"] /\ UNCHANGED pc
         ELSE Goto(p, "dead") /\ UNCHANGED hs
    /\ UNCHANGED <<config, child, files, memory, history>>

\* err inside the handler: exit from the handler's frame, SIGINT masked.  A
\* session that was at its exit already does not start on it anew: it is over.
HandlerExit(p, over) ==
    /\ hs' = [hs EXCEPT ![p] = "masked"]
    /\ Goto(p, IF pc[p] \in Exiting THEN over ELSE "ax_stat")

HandlerStat(p) ==
    /\ hs[p] = "stat"
    /\ hs' = [hs EXCEPT ![p] = IF lock = Nobody THEN "tmp" ELSE "unlink"]
    /\ UNCHANGED <<config, pc, child, files, memory, interrupts, history>>

HandlerUnlink(p) ==
    /\ hs[p] = "unlink"
    /\ lock' = Nobody
    /\ IF lock = Nobody
         THEN /\ HandlerExit(p, "unclean")
              /\ UNCHANGED breach
         ELSE /\ hs' = [hs EXCEPT ![p] = "tmp"]
              /\ breach' = breach \cup {"interrupt"}
              /\ UNCHANGED pc
    /\ UNCHANGED <<config, child, pw, bak, tmp, enc, memory, interrupts,
                   published>>

\* When the unlink succeeds the handler returns and the session carries on.
HandlerTmp(p) ==
    /\ hs[p] = "tmp"
    /\ tmp' = [tmp EXCEPT ![p] = Absent]
    /\ IF FileExists(tmp[p])
         THEN hs' = [hs EXCEPT ![p] = "none"] /\ UNCHANGED pc
         ELSE HandlerExit(p, "unclean")
    /\ UNCHANGED <<config, child, lock, pw, bak, enc, memory, interrupts,
                   history>>

-----------------------------------------------------------------------------
(* The watcher forked by set_pid_timeout.  It has inherited sig_cleanup    *)
(* and atexit_cleanup: cancelled before it has reset SIGINT it runs both,  *)
(* and when gpg is gone by the time it kills it, err runs the second.      *)

ChildGoto(p, from, to) ==
    child[p] = from /\ child' = [child EXCEPT ![p] = to]

\* Killed by SIGINT as intended, or left through _Exit.
ChildGone(p) ==
    /\ ChildGoto(p, "reaped", "gone")
    /\ UNCHANGED <<config, pc, hs, files, memory, interrupts, history>>

\* Only a session that has registered the handlers passes them on.
ChildCleanup(p) ==
    /\ "child" \in Environment
    /\ Editing(p)
    /\ ChildGoto(p, "reaped", "sig_stat") \/ ChildGoto(p, "reaped", "exit_stat")
    /\ UNCHANGED <<config, pc, hs, files, memory, interrupts, history>>

ChildStat(p) ==
    /\ \/ ChildGoto(p, "sig_stat",
                    IF lock = Nobody THEN "exit_stat" ELSE "sig_unlink")
       \/ ChildGoto(p, "exit_stat",
                    IF lock = Nobody THEN "gone" ELSE "exit_unlink")
    /\ UNCHANGED <<config, pc, hs, files, memory, interrupts, history>>

ChildUnlink(p) ==
    /\ \/ ChildGoto(p, "sig_unlink", "exit_stat")
       \/ ChildGoto(p, "exit_unlink", "gone")
    /\ lock' = Nobody
    /\ breach' = IF lock = Nobody THEN breach ELSE breach \cup {"child"}
    /\ UNCHANGED <<config, pc, hs, pw, bak, tmp, enc, memory, interrupts,
                   published>>

-----------------------------------------------------------------------------
(* Failures.                                                               *)

\* A signal that mdp does not catch (SIGKILL, SIGTERM, SIGHUP), a power cut.
Kill(p) ==
    /\ "kill" \in Environment
    /\ pc[p] \notin Over \cup {"idle"}
    /\ Goto(p, "dead")
    /\ hs' = [hs EXCEPT ![p] = "none"]
    /\ UNCHANGED <<config, child, files, memory, interrupts, history>>

\* A system call fails, on a full disk, missing rights or links across file
\* systems, or without a free descriptor, and err ends the session.  lock_set
\* and has_changed do not check their fopen and crash on the NULL stream.
Fault(p) ==
    /\ "fault" \in Environment
    /\ \/ /\ At(p, "lock_open") \/ At(p, "has_changed")
          /\ Goto(p, "crashed")
       \/ /\ \E at \in Working \ {"add_passwords", "has_changed"} : At(p, at)
          /\ Leave(p)
    /\ UNCHANGED <<config, hs, child, files, memory, interrupts, history>>

\* A failure of stat or unlink inside cleanup ends it half-way, be it run at
\* the exit or by the signal handler.
CleanupFault(p) ==
    /\ "fault" \in Environment
    /\ \/ /\ \E at \in Exiting : At(p, at)
          /\ Goto(p, "failed")
          /\ UNCHANGED hs
       \/ /\ hs[p] \in {"stat", "unlink", "tmp"}
          /\ HandlerExit(p, "failed")
    /\ UNCHANGED <<config, child, files, memory, interrupts, history>>

\* The user removes the lock of a session that is over (and reads "locked").
RemoveStaleLock(p) ==
    /\ lock = p
    /\ pc[p] \in Over
    /\ lock' = Nobody
    /\ UNCHANGED <<config, pc, hs, child, pw, bak, tmp, enc, memory,
                   interrupts, history>>

-----------------------------------------------------------------------------
\* A step of the session's own main flow, Start excepted.
Flow(p) ==
    \/ GpgCheck(p) \/ LockExists(p) \/ LockOpen(p) \/ SetupSignalsAndAtexit(p)
    \/ GpgOpen(p) \/ Decrypt(p) \/ AddPasswords(p)
    \/ Mkstemp(p) \/ Dump(p) \/ EditorExit(p) \/ HasChanged(p)
    \/ EncryptStart(p) \/ EncryptEnd(p) \/ PwExists(p) \/ BakUnlink(p)
    \/ BakLink(p) \/ PwUnlink(p) \/ LinkNew(p) \/ Chmod(p) \/ EncUnlink(p)
    \/ AxStat(p) \/ AxUnlink(p) \/ AxTmp(p)

Handler(p) == HandlerStat(p) \/ HandlerUnlink(p) \/ HandlerTmp(p)

Child(p) == ChildGone(p) \/ ChildCleanup(p) \/ ChildStat(p) \/ ChildUnlink(p)

Failure(p) == Kill(p) \/ Fault(p) \/ CleanupFault(p)

Step(p) ==
    \/ Start(p) \/ Flow(p) \/ Interrupt(p) \/ Handler(p) \/ Child(p)
    \/ Failure(p) \/ RemoveStaleLock(p)

Next == \E p \in Sessions : Step(p)

Spec == Init /\ [][Next]_vars

\* The operating system runs every process that can run; the editor and gpg
\* come to an end (gpg -d is killed by the watcher when it does not).
Fairness == \A p \in Sessions : WF_vars(Flow(p)) /\ WF_vars(Handler(p))

FairSpec == Spec /\ Fairness

-----------------------------------------------------------------------------
(* Properties.                                                             *)

\* The ways in which the lock file stops protecting the store: two lock_set
\* raced, sig_cleanup removed it, or a forked watcher removed it.
LockBreached == breach \cap {"double", "interrupt", "child"} # {}

\* The lock file works as long as nothing removed it behind its owner's back
\* and no two lock_set raced: a session between lock_set and the unlink of
\* its atexit_cleanup is the one whose pid is in the file (lock.c).
Exclusion == ~LockBreached => \A p \in Sessions : Holding(p) => lock = p

\* A lock file is never left behind by a session that ran its exit handlers to
\* their end, whichever step, other session or signal sent it there: its owner
\* still holds it, was killed, crashed on a NULL stream (has_changed), or had a
\* system call of its own cleanup fail (cleanup.c).
LockAccountable ==
    \A p \in Sessions :
        lock = p => Holding(p) \/ pc[p] \in {"dead", "crashed", "failed"}

\* Whatever the interleaving and whoever dies, neither the password file nor
\* its backup is ever a half-written encryption (gpg_encrypt's temp file).
PublishedWhole == pw.state # "partial" /\ bak.state # "partial"

\* While the lock protects the store, the last published edits are in some
\* whole encrypted file (password file, backup or tmp_edit.*.gpg), at every
\* point of the unlink/link sequence of gpg_encrypt, crashes included.
Recoverable ==
    ~LockBreached /\ FileExists(published) =>
        \E f \in {pw, bak} \cup {enc[p] : p \in Sessions} :
            f.state = "whole" /\ published.entries \subseteq f.entries

\* With the lock intact and no session that started from a blank text after
\* a crash, a save never drops an edit that an earlier save published.
NoLostUpdate ==
    [][breach = {} => published.entries \subseteq published'.entries]_vars

\* With the lock intact and no session that started from a blank text, a save
\* with `set backup' on leaves the version it replaces as backup, "to discard
\* the last changes" (README FILES).
BackupIsPrevious ==
    [][breach = {} /\ pw' # pw /\ FileExists(pw') /\ cfg_backup
         => bak = published]_vars

\* p's cleanup may have been ended half-way: by an error of the file system; or
\* by a lock_unset that lost the lock between its stat and its unlink, for
\* which the lock was breached before or a SIGINT struck during the exit.
CutShort(p) ==
    \/ pc[p] = "failed"
    \/ pc[p] = "unclean" /\ (LockBreached \/ hs[p] = "masked")

\* Whatever step fails or is interrupted, a session that is over leaves plain
\* text behind only if it was killed, if its cleanup was cut short as above, or
\* if the fopen of has_changed itself failed: the crash on a file that the
\* handler or the editor has taken away leaves none (cleanup.c, editor.c).
PlaintextRemoved ==
    \A p \in Sessions :
        pc[p] \in Over /\ FileExists(tmp[p]) =>
            \/ pc[p] = "dead"
            \/ CutShort(p)
            \/ pc[p] = "crashed" /\ "fault" \in Environment

\* The lock of a session is eventually given back, through errors, failed
\* editors and interrupts, unless the session is killed, crashes in has_changed
\* or cannot remove it (cleanup.c, main.c).
LockReleased ==
    \A p \in Sessions :
        lock = p ~> lock # p \/ pc[p] \in {"dead", "crashed", "failed"}

-----------------------------------------------------------------------------
(* What the proofs need besides: where a session and its handler can be.   *)

\* The steps that only a session with a lock to set or to give back takes.
EditingSteps == PCs \ ({"idle", "gpg_check", "gpg_open", "decrypt"} \cup Over)

\* Steps of a session whose temporary file may exist.
TmpSteps == (Working \ {"gpg_open", "decrypt", "add_passwords", "mkstemp"})
                \cup Exiting

\* Steps of gpg_encrypt once gpg has succeeded.
SavingSteps == {"pw_exists", "bak_unlink", "bak_link", "pw_unlink",
                "link_new", "chmod", "enc_unlink"}

LinkedSteps == {"chmod", "enc_unlink"}

\* Steps from the load to the unlink of the file that was loaded.
BaseSteps == {"add_passwords", "mkstemp", "dump", "editor", "has_changed",
              "encrypt", "encrypting", "pw_exists", "bak_unlink", "bak_link",
              "pw_unlink"}

UnsavedSteps == PCs \ (SavingSteps \cup {"encrypting"} \cup Exiting \cup Over)

\* A handler runs only in a session that has installed it, never during
\* system(); once past lock_unset its session's lock is gone.
Frames ==
    \A p \in Sessions :
        /\ pc[p] \in EditingSteps => Editing(p)
        /\ hs[p] \in {"stat", "unlink", "tmp"} => Registered(p)
        /\ hs[p] = "masked" => pc[p] \in Exiting \cup Over
        /\ pc[p] \in InSystem => hs[p] = "none"

\* sig_cleanup past its lock_unset: the session's own lock is gone.
HandlerUnlocked == \A p \in Sessions : hs[p] = "tmp" => lock # p

\* A session's temporary file exists only while its cleanup lies ahead, or
\* for the reasons that PlaintextRemoved names.
TmpAccountable ==
    \A p \in Sessions :
        FileExists(tmp[p]) =>
            /\ Editing(p)
            /\ \/ pc[p] \in TmpSteps \cup {"dead"}
               \/ CutShort(p)
               \/ pc[p] = "crashed" /\ "fault" \in Environment

\* The encrypted temporary file of a session is whole once gpg succeeded.
EncWhole ==
    \A p \in Sessions :
        /\ tmp[p].state # "partial"
        /\ pc[p] \in UnsavedSteps => enc[p].state = "absent"
        /\ pc[p] = "encrypting" =>
             \/ enc[p].state = "partial" /\ tmp[p].state = "whole"
             \/ enc[p].state = "absent"
        /\ pc[p] \in SavingSteps => enc[p].state = "whole"

\* Before a session links its text, its edit is in no text but its own.
Fresh ==
    \A p \in Sessions :
        pc[p] \in UnsavedSteps \cup {"encrypting"} \cup (SavingSteps \ LinkedSteps) =>
        /\ p \notin pw.entries
        /\ \A q \in Sessions \ {p} : /\ p \notin results[q]
                                     /\ p \notin tmp[q].entries
                                     /\ p \notin enc[q].entries

\* What a save must carry over: all that has been published, or just what
\* the password file holds once a session has started from a blank text.
Base == IF breach = {} THEN published.entries ELSE pw.entries

\* The text a holder of the lock is working on carries the base.
Carried(p) ==
    /\ pc[p] \in {"add_passwords", "mkstemp", "dump"} => Base \subseteq results[p]
    /\ pc[p] \in {"dump", "editor", "encrypt", "encrypting"}
         => FileExists(tmp[p])
    /\ pc[p] \in {"editor", "has_changed", "encrypt", "encrypting"}
         => tmp[p] = Absent \/ Base \subseteq tmp[p].entries
    /\ pc[p] \in SavingSteps => Base \subseteq enc[p].entries

\* The password file and the backup at each step of the holder's save.
Replacing(p) ==
    /\ pc[p] \in LinkedSteps \cup {"bak_unlink", "bak_link", "pw_unlink"}
         => FileExists(pw)
    /\ pc[p] = "pw_unlink" /\ cfg_backup => bak = published
    /\ pc[p] = "bak_link" => bak = Absent
    /\ breach = {} /\ pc[p] \in BaseSteps => pw = published
    /\ breach = {} /\ pc[p] = "link_new" /\ cfg_backup => bak = published

Saving ==
    ~LockBreached =>
        /\ pw \in {Absent, published}
        /\ published = Absent \/ FileExists(published)
        /\ published = Absent => bak = Absent
        /\ \A p \in Sessions : Holding(p) => Carried(p) /\ Replacing(p)

LockInv  == /\ TypeOK /\ Frames /\ HandlerUnlocked
            /\ Exclusion /\ LockAccountable
TmpInv   == LockInv /\ TmpAccountable
StoreInv == TypeOK /\ Frames /\ EncWhole /\ PublishedWhole
SaveInv  == LockInv /\ StoreInv /\ Fresh /\ Saving /\ Recoverable

-----------------------------------------------------------------------------
(* What the manual says, where the code disagrees.                         *)

\* "It avoids two copies of mdp to run at the same time for the same user":
\* no two sessions have the text open in an editor (README FILES, lock).
OneEditorAtATime ==
    \A p, q \in Sessions : pc[p] = "editor" /\ pc[q] = "editor" => p = q

\* "Return all the password entries": a get that answers "no passwords" does
\* so while none have been published (README, mdp get).
GetFindsStore ==
    [][\A p \in Sessions :
         pc[p] # "no_passwords" /\ pc'[p] = "no_passwords"
           => published.entries = {}]_vars

=============================================================================
