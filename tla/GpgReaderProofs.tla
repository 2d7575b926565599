--------------------------- MODULE GpgReaderProofs ---------------------------
(***************************************************************************)
(* Proofs about GpgReader, for any number of lines and any pipe.           *)
(***************************************************************************)
EXTENDS GpgReader, TLAPS

\* The stages of the load form an inductive invariant.
LEMMA ReaderStep ==
  ASSUME ReaderInv, [Next]_vars
  PROVE  ReaderInv'
<1> USE LinesAssumption, CapacityAssumption
        DEF ReaderInv, TypeOK, Stages, Over, environment, gpgVars, Fail,
            GpgEnds, WatcherGoto, ChildCleanup
<1>1. CASE UNCHANGED vars BY <1>1 DEF vars
<1>2. CASE FileExists BY <1>2 DEF FileExists
<1>3. CASE ForkGpg BY <1>3 DEF ForkGpg
<1>4. CASE SetPidTimeout BY <1>4 DEF SetPidTimeout
<1>5. CASE ReadLine BY <1>5 DEF ReadLine
<1>6. CASE ReadEnd BY <1>6 DEF ReadEnd
<1>7. CASE WaitPid BY <1>7 DEF WaitPid
<1>8. CASE CancelPidTimeout BY <1>8 DEF CancelPidTimeout
<1>9. CASE ExitCode BY <1>9 DEF ExitCode
<1>10. CASE Interrupt BY <1>10 DEF Interrupt
<1>11. CASE Killed BY <1>11 DEF Killed
<1>12. CASE GpgExec BY <1>12 DEF GpgExec
<1>13. CASE GpgWrite BY <1>13 DEF GpgWrite
<1>14. CASE GpgExit BY <1>14 DEF GpgExit
<1>15. CASE GpgInterrupted BY <1>15 DEF GpgInterrupted
<1>16. CASE GpgAdopted BY <1>16 DEF GpgAdopted
<1>17. CASE ResetSignals BY <1>17 DEF ResetSignals
<1>18. CASE Timeout BY <1>18 DEF Timeout
<1>19. CASE CheckParent BY <1>19 DEF CheckParent
<1>20. CASE KillGpg BY <1>20 DEF KillGpg
<1>21. CASE WatcherAtexit BY <1>21 DEF WatcherAtexit
<1>22. CASE WatcherInterrupted BY <1>22 DEF WatcherInterrupted
<1> QED
  BY <1>1, <1>2, <1>3, <1>4, <1>5, <1>6, <1>7, <1>8, <1>9, <1>10, <1>11,
     <1>12, <1>13, <1>14, <1>15, <1>16, <1>17, <1>18, <1>19, <1>20, <1>21,
     <1>22
  DEF Next, Parent, Gpg, Watcher

\* The inductive invariant.
LEMMA ReaderInvariant == Spec => []ReaderInv
<1>1. Init => ReaderInv
  BY LinesAssumption, ReapersAssumption
  DEF Init, ReaderInv, TypeOK, Stages, Over, Registered
<1>2. ReaderInv /\ [Next]_vars => ReaderInv'
  BY ReaderStep
<1> QED
  BY <1>1, <1>2, PTL DEF Spec

\* The variables of GpgReader keep their types.
THEOREM ReaderTypeCorrect == Spec => []TypeOK
  BY ReaderInvariant, PTL DEF ReaderInv

\* gpg_close and load_results_gpg let no truncated list through, for any
\* number of lines, any pipe capacity and any order of signals and exits.
THEOREM NoPartialLoadTheorem == Spec => []NoPartialLoad
<1>1. ReaderInv => NoPartialLoad
  BY DEF ReaderInv, Stages, NoPartialLoad
<1> QED
  BY <1>1, ReaderInvariant, PTL

\* Every step of the three processes is a step of the abstract Loader or
\* leaves it alone.
THEOREM ReaderImplementsLoader == Spec => RefinesLoaderSafely
<1>1. Init => L!Init
  BY DEF Init, L!Init, Over
<1>2. ReaderInv /\ ReaderInv' /\ [Next]_vars => [L!Next]_(L!loaderVars)
  <2> SUFFICES ASSUME ReaderInv, ReaderInv', [Next]_vars
               PROVE  [L!Next]_(L!loaderVars)
    OBVIOUS
  <2> USE DEF Over, environment, gpgVars, Fail, GpgEnds, WatcherGoto,
              L!Next, L!Load, L!NoFile, L!Fail, L!loaderVars
  <2>1. CASE UNCHANGED vars BY <2>1 DEF vars
  <2>2. CASE FileExists BY <2>2 DEF FileExists
  <2>3. CASE ForkGpg BY <2>3 DEF ForkGpg
  <2>4. CASE SetPidTimeout BY <2>4 DEF SetPidTimeout
  <2>5. CASE ReadLine BY <2>5 DEF ReadLine
  <2>6. CASE ReadEnd BY <2>6 DEF ReadEnd
  <2>7. CASE WaitPid BY <2>7 DEF WaitPid
  <2>8. CASE CancelPidTimeout BY <2>8 DEF CancelPidTimeout
  <2>9. CASE ExitCode BY <2>9 DEF ExitCode, ReaderInv, Stages
  <2>10. CASE Interrupt BY <2>10 DEF Interrupt
  <2>11. CASE Killed BY <2>11 DEF Killed
  <2>12. CASE Gpg
    BY <2>12 DEF Gpg, GpgExec, GpgWrite, GpgExit, GpgInterrupted
  <2>13. CASE GpgAdopted BY <2>13 DEF GpgAdopted
  <2>14. CASE Watcher
    BY <2>14 DEF Watcher, ResetSignals, Timeout, CheckParent, KillGpg,
                 WatcherAtexit, WatcherInterrupted
  <2> QED
    BY <2>1, <2>2, <2>3, <2>4, <2>5, <2>6, <2>7, <2>8, <2>9, <2>10, <2>11,
       <2>12, <2>13, <2>14
    DEF Next, Parent
<1> QED
  BY <1>1, <1>2, ReaderInvariant, PTL DEF Spec, RefinesLoaderSafely

=============================================================================
