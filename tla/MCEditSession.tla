---------------------------- MODULE MCEditSession ----------------------------
(***************************************************************************)
(* Small instances of EditSession for TLC.  The sessions are model values  *)
(* and interchangeable: no definition tells one from another.              *)
(***************************************************************************)
EXTENDS EditSession, TLC

\* A bound of the instance: at most one session at a time has been killed or
\* has a watcher that runs the inherited handlers.
OneStraySession ==
    Cardinality({p \in Sessions :
        \/ pc[p] = "dead"
        \/ child[p] \notin {"none", "live", "reaped", "gone"}}) <= 1

\* Bounds of the instance with signals: the steps of the backup are left out,
\* and a watcher that gpg_close has cancelled stays where it is; without the
\* inherited handlers all it could do is to go away.
NoBackup == ~cfg_backup

WatchersStay == \A p \in Sessions : child[p] # "gone"

SessionSymmetry == Permutations(Sessions)

=============================================================================
