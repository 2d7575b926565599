-------------------------- MODULE EditSessionProofs --------------------------
(***************************************************************************)
(* Proofs about EditSession, for any set of sessions, any commands, any    *)
(* environment and any number of interrupts.                               *)
(*                                                                         *)
(* The safety properties rest on one inductive invariant, SaveInv, built   *)
(* in layers: the types; where sessions and handlers can be (Frames); who  *)
(* holds the lock (LockStep); whose plain text exists (TmpStep); which     *)
(* encrypted files are whole (StoreStep); whose edit is in which text      *)
(* (FreshStep); what the holder of the lock carries over (SavingStep).     *)
(***************************************************************************)
EXTENDS EditSession, TLAPS

\* The three kinds of file are files.
LEMMA FileTypes ==
  /\ Absent \in File /\ Partial \in File
  /\ \A e \in SUBSET Edits, t \in BOOLEAN : Whole(e, t) \in File
  BY DEF File, Absent, Partial, Whole

\* The fields of a file.
LEMMA FileFields ==
  \A f \in File : /\ f.entries \in SUBSET Edits
                  /\ f.state \in {"absent", "partial", "whole"}
                  /\ f.tidy \in BOOLEAN
  BY DEF File

\* What an editor leaves is a file.
LEMMA EditTypes ==
  ASSUME NEW p \in Sessions, NEW f \in File, NEW g \in EditOutcomes(p, f)
  PROVE  g \in File
<1>1. f.entries \in SUBSET Edits /\ p \in Edits
  BY FileFields DEF Edits
<1>2. CASE g = f
  BY <1>2
<1>3. CASE \E e \in {f.entries, f.entries \cup {p}, f.entries \ {p}},
              t \in Layouts : g = Whole(e, t)
  BY <1>1, <1>3, FileTypes, LayoutsAssumption
<1>4. CASE g = Absent
  BY <1>4, FileTypes
<1> QED
  BY <1>2, <1>3, <1>4 DEF EditOutcomes

\* Every step preserves the types.
LEMMA TypeStep ==
  ASSUME TypeOK, [Next]_vars
  PROVE  TypeOK'
<1> USE FileTypes, MaxInterruptsAssumption
        DEF TypeOK, At, Goto, Leave, PCs, Working, Exiting, Over,
            config, files, memory, history, ChildStates, ChildGoto
<1>1. CASE UNCHANGED vars
  BY <1>1 DEF vars
<1>2. ASSUME NEW p \in Sessions, Step(p)
      PROVE  TypeOK'
  <2>1. CASE Start(p) BY <2>1 DEF Start
  <2>2. CASE GpgCheck(p) BY <2>2 DEF GpgCheck
  <2>3. CASE LockExists(p) BY <2>3 DEF LockExists
  <2>4. CASE LockOpen(p) BY <2>4 DEF LockOpen
  <2>5. CASE SetupSignalsAndAtexit(p) BY <2>5 DEF SetupSignalsAndAtexit
  <2>6. CASE GpgOpen(p)
    BY <2>6, CommandsAssumption DEF GpgOpen, AllCommands, Loaded
  <2>7. CASE Decrypt(p)
    <3>1. pw.entries \in SUBSET Edits
      BY FileFields
    <3>2. results' \in [Sessions -> SUBSET Edits] /\ sum' \in [Sessions -> File]
      BY <2>7, <3>1 DEF Decrypt
    <3>3. pc' \in [Sessions -> PCs]
      BY <2>7, CommandsAssumption DEF Decrypt, Loaded, AllCommands
    <3> QED
      BY <2>7, <3>2, <3>3 DEF Decrypt
  <2>8. CASE AddPasswords(p) BY <2>8 DEF AddPasswords, Edits
  <2>9. CASE Mkstemp(p) BY <2>9 DEF Mkstemp
  <2>10. CASE Dump(p) BY <2>10 DEF Dump
  <2>11. CASE EditorExit(p) BY <2>11, EditTypes DEF EditorExit
  <2>12. CASE HasChanged(p)
    <3>1. tmp[p].entries \in SUBSET Edits /\ tmp[p] \in File
      BY FileFields
    <3>2. results' \in [Sessions -> SUBSET Edits] /\ sum' \in [Sessions -> File]
      BY <2>12, <3>1 DEF HasChanged
    <3>3. pc' \in [Sessions -> PCs]
      BY <2>12 DEF HasChanged
    <3> QED
      BY <2>12, <3>2, <3>3 DEF HasChanged
  <2>13. CASE EncryptStart(p) BY <2>13 DEF EncryptStart
  <2>14. CASE EncryptEnd(p) BY <2>14 DEF EncryptEnd
  <2>15. CASE PwExists(p) BY <2>15 DEF PwExists
  <2>16. CASE BakUnlink(p) BY <2>16 DEF BakUnlink
  <2>17. CASE BakLink(p) BY <2>17 DEF BakLink
  <2>18. CASE PwUnlink(p) BY <2>18 DEF PwUnlink
  <2>19. CASE LinkNew(p) BY <2>19 DEF LinkNew
  <2>20. CASE Chmod(p) BY <2>20 DEF Chmod
  <2>21. CASE EncUnlink(p) BY <2>21 DEF EncUnlink
  <2>22. CASE AxStat(p) BY <2>22 DEF AxStat
  <2>23. CASE AxUnlink(p) BY <2>23 DEF AxUnlink
  <2>24. CASE AxTmp(p) BY <2>24 DEF AxTmp
  <2>25. CASE Interrupt(p) BY <2>25 DEF Interrupt
  <2>26. CASE HandlerStat(p) BY <2>26 DEF HandlerStat
  <2>27. CASE HandlerUnlink(p) BY <2>27 DEF HandlerUnlink, HandlerExit
  <2>28. CASE HandlerTmp(p) BY <2>28 DEF HandlerTmp, HandlerExit
  <2>29. CASE ChildGone(p) BY <2>29 DEF ChildGone
  <2>30. CASE ChildCleanup(p) BY <2>30 DEF ChildCleanup
  <2>31. CASE ChildStat(p) BY <2>31 DEF ChildStat
  <2>32. CASE ChildUnlink(p) BY <2>32 DEF ChildUnlink
  <2>33. CASE Kill(p) BY <2>33 DEF Kill
  <2>34. CASE Fault(p) BY <2>34 DEF Fault
  <2>35. CASE CleanupFault(p) BY <2>35 DEF CleanupFault, HandlerExit
  <2>36. CASE RemoveStaleLock(p) BY <2>36 DEF RemoveStaleLock
  <2> QED
    BY <1>2, <2>1, <2>2, <2>3, <2>4, <2>5, <2>6, <2>7, <2>8, <2>9, <2>10,
       <2>11, <2>12, <2>13, <2>14, <2>15, <2>16, <2>17, <2>18, <2>19,
       <2>20, <2>21, <2>22, <2>23, <2>24, <2>25, <2>26, <2>27, <2>28,
       <2>29, <2>30, <2>31, <2>32, <2>33, <2>34, <2>35, <2>36
    DEF Step, Flow, Handler, Child, Failure
<1> QED
  BY <1>1, <1>2 DEF Next, Step

\* Where a session and its handler are is preserved by every step.
LEMMA FramesStep ==
  ASSUME TypeOK, Frames, [Next]_vars
  PROVE  Frames'
<1> USE DEF TypeOK, Frames, EditingSteps, PCs, InSystem, At, Goto,
            Leave, Registered, Editing, Working, Exiting, Over, config,
            files, memory, history, ChildGoto
<1>1. CASE UNCHANGED vars
  BY <1>1 DEF vars
<1>2. ASSUME NEW p \in Sessions, Step(p)
      PROVE  Frames'
  <2>1. CASE Start(p) BY <2>1 DEF Start
  <2>2. CASE GpgCheck(p) BY <2>2 DEF GpgCheck
  <2>3. CASE LockExists(p) BY <2>3 DEF LockExists
  <2>4. CASE LockOpen(p) BY <2>4 DEF LockOpen
  <2>5. CASE SetupSignalsAndAtexit(p) BY <2>5 DEF SetupSignalsAndAtexit
  <2>6. CASE GpgOpen(p)
    BY <2>6, CommandsAssumption DEF GpgOpen, Loaded, AllCommands
  <2>7. CASE Decrypt(p)
    BY <2>7, CommandsAssumption DEF Decrypt, Loaded, AllCommands
  <2>8. CASE AddPasswords(p) BY <2>8 DEF AddPasswords
  <2>9. CASE Mkstemp(p) BY <2>9 DEF Mkstemp
  <2>10. CASE Dump(p) BY <2>10 DEF Dump
  <2>11. CASE EditorExit(p) BY <2>11 DEF EditorExit
  <2>12. CASE HasChanged(p) BY <2>12 DEF HasChanged
  <2>13. CASE EncryptStart(p) BY <2>13 DEF EncryptStart
  <2>14. CASE EncryptEnd(p) BY <2>14 DEF EncryptEnd
  <2>15. CASE PwExists(p) BY <2>15 DEF PwExists
  <2>16. CASE BakUnlink(p) BY <2>16 DEF BakUnlink
  <2>17. CASE BakLink(p) BY <2>17 DEF BakLink
  <2>18. CASE PwUnlink(p) BY <2>18 DEF PwUnlink
  <2>19. CASE LinkNew(p) BY <2>19 DEF LinkNew
  <2>20. CASE Chmod(p) BY <2>20 DEF Chmod
  <2>21. CASE EncUnlink(p) BY <2>21 DEF EncUnlink
  <2>22. CASE AxStat(p) BY <2>22 DEF AxStat
  <2>23. CASE AxUnlink(p) BY <2>23 DEF AxUnlink
  <2>24. CASE AxTmp(p) BY <2>24 DEF AxTmp
  <2>25. CASE Interrupt(p) BY <2>25 DEF Interrupt
  <2>26. CASE HandlerStat(p) BY <2>26 DEF HandlerStat
  <2>27. CASE HandlerUnlink(p) BY <2>27 DEF HandlerUnlink, HandlerExit
  <2>28. CASE HandlerTmp(p) BY <2>28 DEF HandlerTmp, HandlerExit
  <2>29. CASE ChildGone(p) BY <2>29 DEF ChildGone
  <2>30. CASE ChildCleanup(p) BY <2>30 DEF ChildCleanup
  <2>31. CASE ChildStat(p) BY <2>31 DEF ChildStat
  <2>32. CASE ChildUnlink(p) BY <2>32 DEF ChildUnlink
  <2>33. CASE Kill(p) BY <2>33 DEF Kill
  <2>34. CASE Fault(p) BY <2>34 DEF Fault
  <2>35. CASE CleanupFault(p) BY <2>35 DEF CleanupFault, HandlerExit
  <2>36. CASE RemoveStaleLock(p) BY <2>36 DEF RemoveStaleLock
  <2> QED
    BY <1>2, <2>1, <2>2, <2>3, <2>4, <2>5, <2>6, <2>7, <2>8, <2>9, <2>10,
       <2>11, <2>12, <2>13, <2>14, <2>15, <2>16, <2>17, <2>18, <2>19,
       <2>20, <2>21, <2>22, <2>23, <2>24, <2>25, <2>26, <2>27, <2>28,
       <2>29, <2>30, <2>31, <2>32, <2>33, <2>34, <2>35, <2>36
    DEF Step, Flow, Handler, Child, Failure
<1> QED
  BY <1>1, <1>2 DEF Next, Step

\* The lock invariant is preserved by every step.
LEMMA LockStep ==
  ASSUME TypeOK, Frames, HandlerUnlocked, Exclusion, LockAccountable,
         [Next]_vars
  PROVE  HandlerUnlocked' /\ Exclusion' /\ LockAccountable'
<1> USE NobodyAssumption
        DEF TypeOK, Frames, HandlerUnlocked, Exclusion, LockAccountable,
            LockBreached, EditingSteps, PCs, InSystem, At, Goto, Leave,
            Registered, Editing, Holding, Working, Exiting, Over, config,
            files, memory, history, ChildGoto
<1>1. CASE UNCHANGED vars
  BY <1>1 DEF vars
<1>2. ASSUME NEW p \in Sessions, Step(p)
      PROVE  HandlerUnlocked' /\ Exclusion' /\ LockAccountable'
  <2>1. CASE Start(p) BY <2>1 DEF Start
  <2>2. CASE GpgCheck(p) BY <2>2 DEF GpgCheck
  <2>3. CASE LockExists(p) BY <2>3 DEF LockExists
  <2>4. CASE LockOpen(p) BY <2>4 DEF LockOpen
  <2>5. CASE SetupSignalsAndAtexit(p) BY <2>5 DEF SetupSignalsAndAtexit
  <2>6. CASE GpgOpen(p)
    BY <2>6, CommandsAssumption DEF GpgOpen, Loaded, AllCommands
  <2>7. CASE Decrypt(p)
    BY <2>7, CommandsAssumption DEF Decrypt, Loaded, AllCommands
  <2>8. CASE AddPasswords(p) BY <2>8 DEF AddPasswords
  <2>9. CASE Mkstemp(p) BY <2>9 DEF Mkstemp
  <2>10. CASE Dump(p) BY <2>10 DEF Dump
  <2>11. CASE EditorExit(p) BY <2>11 DEF EditorExit
  <2>12. CASE HasChanged(p) BY <2>12 DEF HasChanged
  <2>13. CASE EncryptStart(p) BY <2>13 DEF EncryptStart
  <2>14. CASE EncryptEnd(p) BY <2>14 DEF EncryptEnd
  <2>15. CASE PwExists(p) BY <2>15 DEF PwExists
  <2>16. CASE BakUnlink(p) BY <2>16 DEF BakUnlink
  <2>17. CASE BakLink(p) BY <2>17 DEF BakLink
  <2>18. CASE PwUnlink(p) BY <2>18 DEF PwUnlink
  <2>19. CASE LinkNew(p) BY <2>19 DEF LinkNew
  <2>20. CASE Chmod(p) BY <2>20 DEF Chmod
  <2>21. CASE EncUnlink(p) BY <2>21 DEF EncUnlink
  <2>22. CASE AxStat(p) BY <2>22 DEF AxStat
  <2>23. CASE AxUnlink(p) BY <2>23 DEF AxUnlink
  <2>24. CASE AxTmp(p) BY <2>24 DEF AxTmp
  <2>25. CASE Interrupt(p) BY <2>25 DEF Interrupt
  <2>26. CASE HandlerStat(p) BY <2>26 DEF HandlerStat
  <2>27. CASE HandlerUnlink(p) BY <2>27 DEF HandlerUnlink, HandlerExit
  <2>28. CASE HandlerTmp(p) BY <2>28 DEF HandlerTmp, HandlerExit
  <2>29. CASE ChildGone(p) BY <2>29 DEF ChildGone
  <2>30. CASE ChildCleanup(p) BY <2>30 DEF ChildCleanup
  <2>31. CASE ChildStat(p) BY <2>31 DEF ChildStat
  <2>32. CASE ChildUnlink(p) BY <2>32 DEF ChildUnlink
  <2>33. CASE Kill(p) BY <2>33 DEF Kill
  <2>34. CASE Fault(p) BY <2>34 DEF Fault
  <2>35. CASE CleanupFault(p) BY <2>35 DEF CleanupFault, HandlerExit
  <2>36. CASE RemoveStaleLock(p) BY <2>36 DEF RemoveStaleLock
  <2> QED
    BY <1>2, <2>1, <2>2, <2>3, <2>4, <2>5, <2>6, <2>7, <2>8, <2>9, <2>10,
       <2>11, <2>12, <2>13, <2>14, <2>15, <2>16, <2>17, <2>18, <2>19,
       <2>20, <2>21, <2>22, <2>23, <2>24, <2>25, <2>26, <2>27, <2>28,
       <2>29, <2>30, <2>31, <2>32, <2>33, <2>34, <2>35, <2>36
    DEF Step, Flow, Handler, Child, Failure
<1> QED
  BY <1>1, <1>2 DEF Next, Step

\* Every step preserves that a temporary file has a cleanup ahead.
LEMMA TmpStep ==
  ASSUME LockInv, TmpAccountable, [Next]_vars
  PROVE  TmpAccountable'
<1> USE NobodyAssumption
        DEF LockInv, TypeOK, Frames, Exclusion, TmpAccountable, TmpSteps,
            CutShort, LockBreached, FileExists, Absent, EditingSteps, PCs,
            InSystem, At, Goto, Leave, Registered, Editing, Holding, Working,
            Exiting, Over, config, files, memory, history, ChildGoto
<1>1. CASE UNCHANGED vars
  BY <1>1 DEF vars
<1>2. ASSUME NEW p \in Sessions, Step(p)
      PROVE  TmpAccountable'
  <2>1. CASE Start(p) BY <2>1 DEF Start
  <2>2. CASE GpgCheck(p) BY <2>2 DEF GpgCheck
  <2>3. CASE LockExists(p) BY <2>3 DEF LockExists
  <2>4. CASE LockOpen(p) BY <2>4 DEF LockOpen
  <2>5. CASE SetupSignalsAndAtexit(p) BY <2>5 DEF SetupSignalsAndAtexit
  <2>6. CASE GpgOpen(p)
    BY <2>6, CommandsAssumption DEF GpgOpen, Loaded, AllCommands
  <2>7. CASE Decrypt(p)
    BY <2>7, CommandsAssumption DEF Decrypt, Loaded, AllCommands
  <2>8. CASE AddPasswords(p) BY <2>8 DEF AddPasswords
  <2>9. CASE Mkstemp(p)
    <3>1. Editing(p)' /\ pc'[p] = "dump"
      BY <2>9 DEF Mkstemp
    <3>2. /\ \A q \in Sessions \ {p} : tmp'[q] = tmp[q] /\ pc'[q] = pc[q]
          /\ UNCHANGED <<config, hs, history>>
      BY <2>9 DEF Mkstemp
    <3> QED
      BY <3>1, <3>2
  <2>10. CASE Dump(p)
    <3>1. Editing(p)' /\ pc'[p] = "editor"
      BY <2>10 DEF Dump
    <3>2. /\ \A q \in Sessions \ {p} : tmp'[q] = tmp[q] /\ pc'[q] = pc[q]
          /\ UNCHANGED <<config, hs, history>>
      BY <2>10 DEF Dump
    <3> QED
      BY <3>1, <3>2
  <2>11. CASE EditorExit(p) BY <2>11 DEF EditorExit
  <2>12. CASE HasChanged(p) BY <2>12 DEF HasChanged
  <2>13. CASE EncryptStart(p) BY <2>13 DEF EncryptStart
  <2>14. CASE EncryptEnd(p) BY <2>14 DEF EncryptEnd
  <2>15. CASE PwExists(p) BY <2>15 DEF PwExists
  <2>16. CASE BakUnlink(p) BY <2>16 DEF BakUnlink
  <2>17. CASE BakLink(p) BY <2>17 DEF BakLink
  <2>18. CASE PwUnlink(p) BY <2>18 DEF PwUnlink
  <2>19. CASE LinkNew(p) BY <2>19 DEF LinkNew
  <2>20. CASE Chmod(p) BY <2>20 DEF Chmod
  <2>21. CASE EncUnlink(p) BY <2>21 DEF EncUnlink
  <2>22. CASE AxStat(p) BY <2>22 DEF AxStat
  <2>23. CASE AxUnlink(p) BY <2>23 DEF AxUnlink
  <2>24. CASE AxTmp(p) BY <2>24 DEF AxTmp
  <2>25. CASE Interrupt(p) BY <2>25 DEF Interrupt
  <2>26. CASE HandlerStat(p) BY <2>26 DEF HandlerStat
  <2>27. CASE HandlerUnlink(p) BY <2>27 DEF HandlerUnlink, HandlerExit
  <2>28. CASE HandlerTmp(p) BY <2>28 DEF HandlerTmp, HandlerExit
  <2>29. CASE ChildGone(p) BY <2>29 DEF ChildGone
  <2>30. CASE ChildCleanup(p) BY <2>30 DEF ChildCleanup
  <2>31. CASE ChildStat(p) BY <2>31 DEF ChildStat
  <2>32. CASE ChildUnlink(p) BY <2>32 DEF ChildUnlink
  <2>33. CASE Kill(p) BY <2>33 DEF Kill
  <2>34. CASE Fault(p) BY <2>34 DEF Fault
  <2>35. CASE CleanupFault(p) BY <2>35 DEF CleanupFault, HandlerExit
  <2>36. CASE RemoveStaleLock(p) BY <2>36 DEF RemoveStaleLock
  <2> QED
    BY <1>2, <2>1, <2>2, <2>3, <2>4, <2>5, <2>6, <2>7, <2>8, <2>9, <2>10,
       <2>11, <2>12, <2>13, <2>14, <2>15, <2>16, <2>17, <2>18, <2>19,
       <2>20, <2>21, <2>22, <2>23, <2>24, <2>25, <2>26, <2>27, <2>28,
       <2>29, <2>30, <2>31, <2>32, <2>33, <2>34, <2>35, <2>36
    DEF Step, Flow, Handler, Child, Failure
<1> QED
  BY <1>1, <1>2 DEF Next, Step

\* Every step preserves that whatever is linked is whole.
LEMMA StoreStep ==
  ASSUME TypeOK, Frames, EncWhole, PublishedWhole, [Next]_vars
  PROVE  EncWhole' /\ PublishedWhole'
<1> USE DEF TypeOK, Frames, EncWhole, PublishedWhole, SavingSteps,
            UnsavedSteps, FileExists, Absent, Partial, Whole, EditingSteps,
            PCs, InSystem, At, Goto, Leave, Registered, Editing, Working,
            Exiting, Over, config, files, memory, history, ChildGoto
<1>1. CASE UNCHANGED vars
  BY <1>1 DEF vars
<1>2. ASSUME NEW p \in Sessions, Step(p)
      PROVE  EncWhole' /\ PublishedWhole'
  <2>1. CASE Start(p) BY <2>1 DEF Start
  <2>2. CASE GpgCheck(p) BY <2>2 DEF GpgCheck
  <2>3. CASE LockExists(p) BY <2>3 DEF LockExists
  <2>4. CASE LockOpen(p) BY <2>4 DEF LockOpen
  <2>5. CASE SetupSignalsAndAtexit(p) BY <2>5 DEF SetupSignalsAndAtexit
  <2>6. CASE GpgOpen(p)
    BY <2>6, CommandsAssumption DEF GpgOpen, Loaded, AllCommands
  <2>7. CASE Decrypt(p)
    BY <2>7, CommandsAssumption DEF Decrypt, Loaded, AllCommands
  <2>8. CASE AddPasswords(p) BY <2>8 DEF AddPasswords
  <2>9. CASE Mkstemp(p) BY <2>9 DEF Mkstemp
  <2>10. CASE Dump(p) BY <2>10 DEF Dump
  <2>11. CASE EditorExit(p) BY <2>11 DEF EditorExit, EditOutcomes
  <2>12. CASE HasChanged(p) BY <2>12 DEF HasChanged
  <2>13. CASE EncryptStart(p) BY <2>13, FileFields DEF EncryptStart
  <2>14. CASE EncryptEnd(p) BY <2>14 DEF EncryptEnd
  <2>15. CASE PwExists(p) BY <2>15 DEF PwExists
  <2>16. CASE BakUnlink(p) BY <2>16 DEF BakUnlink
  <2>17. CASE BakLink(p) BY <2>17 DEF BakLink
  <2>18. CASE PwUnlink(p) BY <2>18 DEF PwUnlink
  <2>19. CASE LinkNew(p) BY <2>19 DEF LinkNew
  <2>20. CASE Chmod(p) BY <2>20 DEF Chmod
  <2>21. CASE EncUnlink(p) BY <2>21 DEF EncUnlink
  <2>22. CASE AxStat(p) BY <2>22 DEF AxStat
  <2>23. CASE AxUnlink(p) BY <2>23 DEF AxUnlink
  <2>24. CASE AxTmp(p) BY <2>24 DEF AxTmp
  <2>25. CASE Interrupt(p) BY <2>25 DEF Interrupt
  <2>26. CASE HandlerStat(p) BY <2>26 DEF HandlerStat
  <2>27. CASE HandlerUnlink(p) BY <2>27 DEF HandlerUnlink, HandlerExit
  <2>28. CASE HandlerTmp(p) BY <2>28 DEF HandlerTmp, HandlerExit
  <2>29. CASE ChildGone(p) BY <2>29 DEF ChildGone
  <2>30. CASE ChildCleanup(p) BY <2>30 DEF ChildCleanup
  <2>31. CASE ChildStat(p) BY <2>31 DEF ChildStat
  <2>32. CASE ChildUnlink(p) BY <2>32 DEF ChildUnlink
  <2>33. CASE Kill(p) BY <2>33 DEF Kill
  <2>34. CASE Fault(p) BY <2>34 DEF Fault
  <2>35. CASE CleanupFault(p) BY <2>35 DEF CleanupFault, HandlerExit
  <2>36. CASE RemoveStaleLock(p) BY <2>36 DEF RemoveStaleLock
  <2> QED
    BY <1>2, <2>1, <2>2, <2>3, <2>4, <2>5, <2>6, <2>7, <2>8, <2>9, <2>10,
       <2>11, <2>12, <2>13, <2>14, <2>15, <2>16, <2>17, <2>18, <2>19,
       <2>20, <2>21, <2>22, <2>23, <2>24, <2>25, <2>26, <2>27, <2>28,
       <2>29, <2>30, <2>31, <2>32, <2>33, <2>34, <2>35, <2>36
    DEF Step, Flow, Handler, Child, Failure
<1> QED
  BY <1>1, <1>2 DEF Next, Step

\* A session's edit stays its own until the session links its text.
LEMMA FreshStep ==
  ASSUME TypeOK, Frames, Fresh, [Next]_vars
  PROVE  Fresh'
<1> USE DEF TypeOK, Frames, Fresh, SavingSteps, UnsavedSteps,
            LinkedSteps, FileExists, Absent, Partial, Whole, EditingSteps,
            PCs, InSystem, At, Goto, Leave, Registered, Editing, Working,
            Exiting, Over, config, files, memory, history, ChildGoto
<1>1. CASE UNCHANGED vars
  BY <1>1 DEF vars
<1>2. ASSUME NEW p \in Sessions, Step(p)
      PROVE  Fresh'
  <2>1. CASE Start(p) BY <2>1 DEF Start
  <2>2. CASE GpgCheck(p) BY <2>2 DEF GpgCheck
  <2>3. CASE LockExists(p) BY <2>3 DEF LockExists
  <2>4. CASE LockOpen(p) BY <2>4 DEF LockOpen
  <2>5. CASE SetupSignalsAndAtexit(p) BY <2>5 DEF SetupSignalsAndAtexit
  <2>6. CASE GpgOpen(p)
    BY <2>6, CommandsAssumption DEF GpgOpen, Loaded, AllCommands
  <2>7. CASE Decrypt(p)
    BY <2>7, CommandsAssumption DEF Decrypt, Loaded, AllCommands
  <2>8. CASE AddPasswords(p) BY <2>8 DEF AddPasswords
  <2>9. CASE Mkstemp(p) BY <2>9 DEF Mkstemp
  <2>10. CASE Dump(p) BY <2>10 DEF Dump
  <2>11. CASE EditorExit(p) BY <2>11 DEF EditorExit, EditOutcomes
  <2>12. CASE HasChanged(p) BY <2>12 DEF HasChanged
  <2>13. CASE EncryptStart(p) BY <2>13 DEF EncryptStart
  <2>14. CASE EncryptEnd(p) BY <2>14 DEF EncryptEnd
  <2>15. CASE PwExists(p) BY <2>15 DEF PwExists
  <2>16. CASE BakUnlink(p) BY <2>16 DEF BakUnlink
  <2>17. CASE BakLink(p) BY <2>17 DEF BakLink
  <2>18. CASE PwUnlink(p) BY <2>18 DEF PwUnlink
  <2>19. CASE LinkNew(p) BY <2>19 DEF LinkNew
  <2>20. CASE Chmod(p) BY <2>20 DEF Chmod
  <2>21. CASE EncUnlink(p) BY <2>21 DEF EncUnlink
  <2>22. CASE AxStat(p) BY <2>22 DEF AxStat
  <2>23. CASE AxUnlink(p) BY <2>23 DEF AxUnlink
  <2>24. CASE AxTmp(p) BY <2>24 DEF AxTmp
  <2>25. CASE Interrupt(p) BY <2>25 DEF Interrupt
  <2>26. CASE HandlerStat(p) BY <2>26 DEF HandlerStat
  <2>27. CASE HandlerUnlink(p) BY <2>27 DEF HandlerUnlink, HandlerExit
  <2>28. CASE HandlerTmp(p) BY <2>28 DEF HandlerTmp, HandlerExit
  <2>29. CASE ChildGone(p) BY <2>29 DEF ChildGone
  <2>30. CASE ChildCleanup(p) BY <2>30 DEF ChildCleanup
  <2>31. CASE ChildStat(p) BY <2>31 DEF ChildStat
  <2>32. CASE ChildUnlink(p) BY <2>32 DEF ChildUnlink
  <2>33. CASE Kill(p) BY <2>33 DEF Kill
  <2>34. CASE Fault(p) BY <2>34 DEF Fault
  <2>35. CASE CleanupFault(p) BY <2>35 DEF CleanupFault, HandlerExit
  <2>36. CASE RemoveStaleLock(p) BY <2>36 DEF RemoveStaleLock
  <2> QED
    BY <1>2, <2>1, <2>2, <2>3, <2>4, <2>5, <2>6, <2>7, <2>8, <2>9, <2>10,
       <2>11, <2>12, <2>13, <2>14, <2>15, <2>16, <2>17, <2>18, <2>19,
       <2>20, <2>21, <2>22, <2>23, <2>24, <2>25, <2>26, <2>27, <2>28,
       <2>29, <2>30, <2>31, <2>32, <2>33, <2>34, <2>35, <2>36
    DEF Step, Flow, Handler, Child, Failure
<1> QED
  BY <1>1, <1>2 DEF Next, Step

\* While the lock protects the store, every step preserves what the holder
\* of the lock carries over and where the previous version is.
LEMMA SavingStep ==
  ASSUME LockInv, StoreInv, Fresh, Saving, [Next]_vars
  PROVE  Saving'
<1> USE NobodyAssumption
        DEF LockInv, StoreInv, TypeOK, Frames, HandlerUnlocked,
            Exclusion, EncWhole, Fresh, Saving, Carried, Replacing, Base,
            LockBreached, BaseSteps, SavingSteps, UnsavedSteps, LinkedSteps,
            FileExists, Absent, Partial, Whole, Holding, EditingSteps, PCs,
            InSystem, At, Goto, Leave, Registered, Editing, Working,
            Exiting, Over, config, files, memory, history, ChildGoto
<1>1. CASE UNCHANGED vars
  BY <1>1 DEF vars
<1>2. ASSUME NEW p \in Sessions, Step(p)
      PROVE  Saving'
  <2>1. CASE Start(p) BY <2>1 DEF Start
  <2>2. CASE GpgCheck(p) BY <2>2 DEF GpgCheck
  <2>3. CASE LockExists(p) BY <2>3 DEF LockExists
  <2>4. CASE LockOpen(p) BY <2>4 DEF LockOpen
  <2>5. CASE SetupSignalsAndAtexit(p) BY <2>5 DEF SetupSignalsAndAtexit
  <2>6. CASE GpgOpen(p)
    <3>1. CASE FileExists(pw)
      BY <2>6, <3>1 DEF GpgOpen
    <3>2. CASE ~FileExists(pw)
      <4>1. ~LockBreached => pw = Absent
        BY <3>2
      <4>2. /\ pc' = [pc EXCEPT ![p] = pc'[p]]
            /\ pc'[p] \in {"mkstemp", "add_passwords", "no_passwords"}
            /\ pc'[p] # "no_passwords" => Editing(p)
        BY <2>6, <3>2, CommandsAssumption DEF GpgOpen, Loaded, AllCommands
      <4>3. /\ UNCHANGED <<config, hs, files, memory, published>>
            /\ breach' = IF Editing(p) /\ FileExists(published)
                           THEN breach \cup {"blank"} ELSE breach
        BY <2>6, <3>2 DEF GpgOpen
      <4>4. /\ breach \subseteq breach'
            /\ Editing(p) /\ FileExists(published) => "blank" \in breach'
        BY <4>3
      <4>5. ~LockBreached' => ~LockBreached
        BY <4>4
      <4>6. ~LockBreached' /\ Editing(p) /\ breach' = {}
              => pw = published /\ published = Absent
        BY <4>1, <4>4, <4>5
      <4>7. ~LockBreached' /\ Editing(p) => Base' = {}
        BY <4>1, <4>3, <4>5, <4>6
      <4> QED
        BY <4>1, <4>2, <4>3, <4>5, <4>6, <4>7
    <3> QED
      BY <3>1, <3>2
  <2>7. CASE Decrypt(p)
    BY <2>7, CommandsAssumption DEF Decrypt, Loaded, AllCommands
  <2>8. CASE AddPasswords(p) BY <2>8 DEF AddPasswords
  <2>9. CASE Mkstemp(p) BY <2>9 DEF Mkstemp
  <2>10. CASE Dump(p) BY <2>10 DEF Dump
  <2>11. CASE EditorExit(p)
    <3>1. CASE Leave(p) /\ UNCHANGED tmp
      BY <2>11, <3>1 DEF EditorExit
    <3>2. ASSUME NEW f \in EditOutcomes(p, tmp[p]),
                 tmp' = [tmp EXCEPT ![p] = f], Goto(p, "has_changed")
          PROVE  Saving'
      <4>1. ~LockBreached /\ Holding(p) =>
              f = Absent \/ Base \subseteq f.entries
        BY <2>11 DEF EditorExit, EditOutcomes
      <4>2. UNCHANGED <<config, lock, pw, bak, enc, memory, history>>
        BY <2>11 DEF EditorExit
      <4>3. ASSUME ~LockBreached, NEW q \in Sessions, Holding(q)'
            PROVE  Carried(q)' /\ Replacing(q)'
        <5>1. CASE q = p
          <6>1. Holding(p) /\ pc[p] = "editor" /\ pc'[p] = "has_changed"
            BY <2>11, <3>2, <4>2, <4>3, <5>1 DEF EditorExit
          <6>2. tmp'[p] = f /\ UNCHANGED Base
            BY <3>2, <4>2
          <6> QED
            BY <4>1, <4>2, <4>3, <5>1, <6>1, <6>2
        <5>2. CASE q # p
          <6>1. pc'[q] = pc[q] /\ tmp'[q] = tmp[q]
            BY <3>2, <5>2
          <6>2. Carried(q) /\ Replacing(q)
            BY <4>2, <4>3, <6>1
          <6> QED
            BY ONLY <4>2, <6>1, <6>2
            DEF Carried, Replacing, Base, config, memory, history
        <5> QED
          BY <5>1, <5>2
      <4> QED
        BY <4>2, <4>3
    <3> QED
      BY <2>11, <3>1, <3>2 DEF EditorExit
  <2>12. CASE HasChanged(p) BY <2>12 DEF HasChanged
  <2>13. CASE EncryptStart(p) BY <2>13 DEF EncryptStart
  <2>14. CASE EncryptEnd(p) BY <2>14 DEF EncryptEnd
  <2>15. CASE PwExists(p)
    <3>1. CASE FileExists(pw) /\ cfg_backup
      BY <2>15, <3>1 DEF PwExists
    <3>2. CASE FileExists(pw) /\ ~cfg_backup
      BY <2>15, <3>2 DEF PwExists
    <3>3. CASE ~FileExists(pw)
      <4>1. ~LockBreached /\ Holding(p) /\ breach = {} => bak = published
        BY <2>15, <3>3 DEF PwExists
      <4> QED
        BY <2>15, <3>3, <4>1 DEF PwExists
    <3> QED
      BY <3>1, <3>2, <3>3
  <2>16. CASE BakUnlink(p) BY <2>16 DEF BakUnlink
  <2>17. CASE BakLink(p) BY <2>17 DEF BakLink
  <2>18. CASE PwUnlink(p) BY <2>18 DEF PwUnlink
  <2>19. CASE LinkNew(p) BY <2>19 DEF LinkNew
  <2>20. CASE Chmod(p) BY <2>20 DEF Chmod
  <2>21. CASE EncUnlink(p) BY <2>21 DEF EncUnlink
  <2>22. CASE AxStat(p) BY <2>22 DEF AxStat
  <2>23. CASE AxUnlink(p) BY <2>23 DEF AxUnlink
  <2>24. CASE AxTmp(p) BY <2>24 DEF AxTmp
  <2>25. CASE Interrupt(p) BY <2>25 DEF Interrupt
  <2>26. CASE HandlerStat(p) BY <2>26 DEF HandlerStat
  <2>27. CASE HandlerUnlink(p) BY <2>27 DEF HandlerUnlink, HandlerExit
  <2>28. CASE HandlerTmp(p)
    <3>1. ~LockBreached => ~Holding(p) /\ pc[p] = "ax_tmp"
      BY <2>28 DEF HandlerTmp
    <3>2. /\ pc' = pc \/ pc' = [pc EXCEPT ![p] = "unclean"] \/ pc[p] # "ax_tmp"
          /\ \A q \in Sessions \ {p} : tmp'[q] = tmp[q]
          /\ UNCHANGED <<config, lock, pw, bak, enc, memory, history>>
      BY <2>28 DEF HandlerTmp, HandlerExit
    <3>3. ~LockBreached =>
            \A q \in Sessions : Holding(q)' => /\ q # p /\ Holding(q)
                                            /\ pc'[q] = pc[q]
      BY <3>1, <3>2
    <3>4. ASSUME ~LockBreached, NEW q \in Sessions, Holding(q)'
          PROVE  Carried(q)' /\ Replacing(q)'
      <4>1. pc'[q] = pc[q] /\ tmp'[q] = tmp[q] /\ Carried(q) /\ Replacing(q)
        BY <3>2, <3>3, <3>4
      <4> QED
        BY ONLY <3>2, <4>1
        DEF Carried, Replacing, Base, config, memory, history
    <3> QED
      BY <3>2, <3>4
  <2>29. CASE ChildGone(p) BY <2>29 DEF ChildGone
  <2>30. CASE ChildCleanup(p) BY <2>30 DEF ChildCleanup
  <2>31. CASE ChildStat(p) BY <2>31 DEF ChildStat
  <2>32. CASE ChildUnlink(p) BY <2>32 DEF ChildUnlink
  <2>33. CASE Kill(p) BY <2>33 DEF Kill
  <2>34. CASE Fault(p) BY <2>34 DEF Fault
  <2>35. CASE CleanupFault(p) BY <2>35 DEF CleanupFault, HandlerExit
  <2>36. CASE RemoveStaleLock(p) BY <2>36 DEF RemoveStaleLock
  <2> QED
    BY <1>2, <2>1, <2>2, <2>3, <2>4, <2>5, <2>6, <2>7, <2>8, <2>9, <2>10,
       <2>11, <2>12, <2>13, <2>14, <2>15, <2>16, <2>17, <2>18, <2>19,
       <2>20, <2>21, <2>22, <2>23, <2>24, <2>25, <2>26, <2>27, <2>28,
       <2>29, <2>30, <2>31, <2>32, <2>33, <2>34, <2>35, <2>36
    DEF Step, Flow, Handler, Child, Failure
<1> QED
  BY <1>1, <1>2 DEF Next, Step

\* Every step leaves the last published edits in some whole file.
LEMMA RecoverableStep ==
  ASSUME LockInv, StoreInv, Fresh, Saving, Recoverable, Saving', [Next]_vars
  PROVE  Recoverable'
<1> USE NobodyAssumption
        DEF LockInv, StoreInv, TypeOK, Frames, HandlerUnlocked,
            Exclusion, EncWhole, Saving, Carried, Replacing, Base,
            LockBreached, Recoverable, SavingSteps, UnsavedSteps,
            LinkedSteps, FileExists, Absent, Partial, Whole, Holding,
            EditingSteps, PCs, InSystem, At, Goto, Leave, Registered,
            Editing, Working, Exiting, Over, config, files, memory, history,
            ChildGoto
<1>1. CASE UNCHANGED vars
  BY <1>1 DEF vars
<1>2. ASSUME NEW p \in Sessions, Step(p)
      PROVE  Recoverable'
  <2>1. CASE Start(p) BY <2>1 DEF Start
  <2>2. CASE GpgCheck(p) BY <2>2 DEF GpgCheck
  <2>3. CASE LockExists(p) BY <2>3 DEF LockExists
  <2>4. CASE LockOpen(p) BY <2>4 DEF LockOpen
  <2>5. CASE SetupSignalsAndAtexit(p) BY <2>5 DEF SetupSignalsAndAtexit
  <2>6. CASE GpgOpen(p)
    BY <2>6, CommandsAssumption DEF GpgOpen, Loaded, AllCommands
  <2>7. CASE Decrypt(p)
    BY <2>7, CommandsAssumption DEF Decrypt, Loaded, AllCommands
  <2>8. CASE AddPasswords(p) BY <2>8 DEF AddPasswords
  <2>9. CASE Mkstemp(p) BY <2>9 DEF Mkstemp
  <2>10. CASE Dump(p)
    <3>1. UNCHANGED <<pw, bak, enc, history>>
      BY <2>10 DEF Dump
    <3> QED
      BY ONLY <3>1, Recoverable
      DEF Recoverable, LockBreached, FileExists, history
  <2>11. CASE EditorExit(p) BY <2>11 DEF EditorExit, EditOutcomes
  <2>12. CASE HasChanged(p) BY <2>12 DEF HasChanged
  <2>13. CASE EncryptStart(p) BY <2>13 DEF EncryptStart
  <2>14. CASE EncryptEnd(p) BY <2>14 DEF EncryptEnd
  <2>15. CASE PwExists(p) BY <2>15 DEF PwExists
  <2>16. CASE BakUnlink(p) BY <2>16 DEF BakUnlink
  <2>17. CASE BakLink(p) BY <2>17 DEF BakLink
  <2>18. CASE PwUnlink(p) BY <2>18 DEF PwUnlink
  <2>19. CASE LinkNew(p) BY <2>19 DEF LinkNew
  <2>20. CASE Chmod(p) BY <2>20 DEF Chmod
  <2>21. CASE EncUnlink(p)
    <3>1. ~LockBreached' => pw' = published' /\ pw'.state = "whole"
      <4>1. ~LockBreached => Holding(p) /\ FileExists(pw)
        BY <2>21 DEF EncUnlink
      <4> QED
        BY <2>21, <4>1, FileFields DEF EncUnlink, PublishedWhole
    <3> QED
      BY <2>21, <3>1 DEF EncUnlink
  <2>22. CASE AxStat(p) BY <2>22 DEF AxStat
  <2>23. CASE AxUnlink(p) BY <2>23 DEF AxUnlink
  <2>24. CASE AxTmp(p) BY <2>24 DEF AxTmp
  <2>25. CASE Interrupt(p) BY <2>25 DEF Interrupt
  <2>26. CASE HandlerStat(p) BY <2>26 DEF HandlerStat
  <2>27. CASE HandlerUnlink(p) BY <2>27 DEF HandlerUnlink, HandlerExit
  <2>28. CASE HandlerTmp(p)
    <3>1. UNCHANGED <<pw, bak, enc, history>>
      BY <2>28 DEF HandlerTmp, HandlerExit
    <3> QED
      BY ONLY <3>1, Recoverable
      DEF Recoverable, LockBreached, FileExists, history
  <2>29. CASE ChildGone(p) BY <2>29 DEF ChildGone
  <2>30. CASE ChildCleanup(p)
    <3>1. UNCHANGED <<files, history>>
      BY <2>30 DEF ChildCleanup
    <3> QED
      BY ONLY <3>1, Recoverable
      DEF Recoverable, LockBreached, FileExists, files, history
  <2>31. CASE ChildStat(p) BY <2>31 DEF ChildStat
  <2>32. CASE ChildUnlink(p) BY <2>32 DEF ChildUnlink
  <2>33. CASE Kill(p) BY <2>33 DEF Kill
  <2>34. CASE Fault(p) BY <2>34 DEF Fault
  <2>35. CASE CleanupFault(p) BY <2>35 DEF CleanupFault, HandlerExit
  <2>36. CASE RemoveStaleLock(p) BY <2>36 DEF RemoveStaleLock
  <2> QED
    BY <1>2, <2>1, <2>2, <2>3, <2>4, <2>5, <2>6, <2>7, <2>8, <2>9, <2>10,
       <2>11, <2>12, <2>13, <2>14, <2>15, <2>16, <2>17, <2>18, <2>19,
       <2>20, <2>21, <2>22, <2>23, <2>24, <2>25, <2>26, <2>27, <2>28,
       <2>29, <2>30, <2>31, <2>32, <2>33, <2>34, <2>35, <2>36
    DEF Step, Flow, Handler, Child, Failure
<1> QED
  BY <1>1, <1>2 DEF Next, Step

\* Only LinkNew makes a password file appear or changes what is published.
LEMMA Publication ==
  ASSUME TypeOK, [Next]_vars
  PROVE  \/ UNCHANGED published /\ pw' \in {pw, Absent}
         \/ \E q \in Sessions : LinkNew(q)
<1> USE DEF config, files, memory, history
<1>1. CASE UNCHANGED vars
  BY <1>1 DEF vars
<1>2. ASSUME NEW p \in Sessions, Step(p)
      PROVE  \/ UNCHANGED published /\ pw' \in {pw, Absent}
         \/ \E q \in Sessions : LinkNew(q)
  <2>1. CASE Start(p) BY <2>1 DEF Start
  <2>2. CASE GpgCheck(p) BY <2>2 DEF GpgCheck
  <2>3. CASE LockExists(p) BY <2>3 DEF LockExists
  <2>4. CASE LockOpen(p) BY <2>4 DEF LockOpen
  <2>5. CASE SetupSignalsAndAtexit(p) BY <2>5 DEF SetupSignalsAndAtexit
  <2>6. CASE GpgOpen(p) BY <2>6 DEF GpgOpen, Loaded
  <2>7. CASE Decrypt(p) BY <2>7 DEF Decrypt, Loaded
  <2>8. CASE AddPasswords(p) BY <2>8 DEF AddPasswords
  <2>9. CASE Mkstemp(p) BY <2>9 DEF Mkstemp
  <2>10. CASE Dump(p) BY <2>10 DEF Dump
  <2>11. CASE EditorExit(p) BY <2>11 DEF EditorExit
  <2>12. CASE HasChanged(p) BY <2>12 DEF HasChanged
  <2>13. CASE EncryptStart(p) BY <2>13 DEF EncryptStart
  <2>14. CASE EncryptEnd(p) BY <2>14 DEF EncryptEnd
  <2>15. CASE PwExists(p) BY <2>15 DEF PwExists
  <2>16. CASE BakUnlink(p) BY <2>16 DEF BakUnlink
  <2>17. CASE BakLink(p) BY <2>17 DEF BakLink
  <2>18. CASE PwUnlink(p) BY <2>18 DEF PwUnlink
  <2>19. CASE LinkNew(p) BY <2>19 DEF LinkNew
  <2>20. CASE Chmod(p) BY <2>20 DEF Chmod
  <2>21. CASE EncUnlink(p) BY <2>21 DEF EncUnlink
  <2>22. CASE AxStat(p) BY <2>22 DEF AxStat
  <2>23. CASE AxUnlink(p) BY <2>23 DEF AxUnlink
  <2>24. CASE AxTmp(p) BY <2>24 DEF AxTmp
  <2>25. CASE Interrupt(p) BY <2>25 DEF Interrupt
  <2>26. CASE HandlerStat(p) BY <2>26 DEF HandlerStat
  <2>27. CASE HandlerUnlink(p) BY <2>27 DEF HandlerUnlink, HandlerExit
  <2>28. CASE HandlerTmp(p) BY <2>28 DEF HandlerTmp, HandlerExit
  <2>29. CASE ChildGone(p) BY <2>29 DEF ChildGone
  <2>30. CASE ChildCleanup(p) BY <2>30 DEF ChildCleanup
  <2>31. CASE ChildStat(p) BY <2>31 DEF ChildStat
  <2>32. CASE ChildUnlink(p) BY <2>32 DEF ChildUnlink
  <2>33. CASE Kill(p) BY <2>33 DEF Kill
  <2>34. CASE Fault(p) BY <2>34 DEF Fault
  <2>35. CASE CleanupFault(p) BY <2>35 DEF CleanupFault, HandlerExit
  <2>36. CASE RemoveStaleLock(p) BY <2>36 DEF RemoveStaleLock
  <2> QED
    BY <1>2, <2>1, <2>2, <2>3, <2>4, <2>5, <2>6, <2>7, <2>8, <2>9, <2>10,
       <2>11, <2>12, <2>13, <2>14, <2>15, <2>16, <2>17, <2>18, <2>19,
       <2>20, <2>21, <2>22, <2>23, <2>24, <2>25, <2>26, <2>27, <2>28,
       <2>29, <2>30, <2>31, <2>32, <2>33, <2>34, <2>35, <2>36
    DEF Step, Flow, Handler, Child, Failure
<1> QED
  BY <1>1, <1>2 DEF Next, Step

\* A save carries over all that was published and leaves the version that it
\* replaces as backup.
LEMMA SaveCarriesOver ==
  ASSUME SaveInv, [Next]_vars
  PROVE  /\ breach = {} => published.entries \subseteq published'.entries
         /\ breach = {} /\ pw' # pw /\ FileExists(pw') /\ cfg_backup
              => bak = published
<1>1. CASE UNCHANGED published /\ pw' \in {pw, Absent}
  BY <1>1 DEF FileExists, Absent
<1>2. CASE \E p \in Sessions : LinkNew(p)
  <2>1. PICK p \in Sessions : LinkNew(p)
    BY <1>2
  <2>2. pc[p] = "link_new" /\ Editing(p)
    BY <2>1 DEF LinkNew, At, SaveInv, LockInv, Frames, EditingSteps, PCs,
                Working, Over
  <2>3. breach = {} => ~LockBreached
    BY DEF LockBreached
  <2>4. breach = {} => Carried(p) /\ Replacing(p)
    BY <2>2, <2>3 DEF SaveInv, Saving, Holding, Working
  <2>5. published' = published \/ published' = enc[p]
    BY <2>1 DEF LinkNew
  <2> QED
    BY <2>2, <2>4, <2>5 DEF Carried, Replacing, Base, SavingSteps
<1> QED
  BY <1>1, <1>2, Publication DEF SaveInv, LockInv

-----------------------------------------------------------------------------
\* The inductive invariant.
LEMMA SaveInvariant == Spec => [](SaveInv /\ TmpAccountable)
<1>1. Init => SaveInv /\ TmpAccountable
  <2> SUFFICES ASSUME Init PROVE SaveInv /\ TmpAccountable
    OBVIOUS
  <2>1. TypeOK
    <3>1. Nobody \in Edits
      BY DEF Edits
    <3> QED
      BY <3>1, FileTypes, LayoutsAssumption, MaxInterruptsAssumption
      DEF Init, TypeOK, PCs, ChildStates
  <2>2. LockInv
    BY <2>1, NobodyAssumption
    DEF Init, LockInv, Frames, HandlerUnlocked, Exclusion, LockAccountable,
        EditingSteps, InSystem, Holding, Working, Exiting
  <2>3. pw = Absent \/ pw = Whole({Nobody}, TRUE) \/ pw = Whole({Nobody}, FALSE)
    BY LayoutsAssumption DEF Init
  <2>4. StoreInv
    BY <2>1, <2>2, <2>3
    DEF Init, LockInv, StoreInv, EncWhole, PublishedWhole, SavingSteps, Absent,
        Whole
  <2>5. Fresh
    BY <2>3, NobodyAssumption DEF Init, Fresh, Absent, Whole
  <2>6. Saving
    BY <2>3 DEF Init, Saving, Holding, Working, FileExists, Absent, Whole
  <2>7. Recoverable
    BY <2>3 DEF Init, Recoverable, FileExists, Absent, Whole
  <2>8. TmpAccountable
    BY DEF Init, TmpAccountable, FileExists, Absent
  <2> QED
    BY <2>2, <2>4, <2>5, <2>6, <2>7, <2>8 DEF SaveInv
<1>2. SaveInv /\ TmpAccountable /\ [Next]_vars => (SaveInv /\ TmpAccountable)'
  <2> SUFFICES ASSUME SaveInv, TmpAccountable, [Next]_vars
               PROVE  SaveInv' /\ TmpAccountable'
    OBVIOUS
  <2>1. TypeOK' /\ Frames'
    BY TypeStep, FramesStep DEF SaveInv, LockInv
  <2>2. LockInv'
    BY <2>1, LockStep DEF SaveInv, LockInv
  <2>3. StoreInv'
    BY <2>1, StoreStep DEF SaveInv, LockInv, StoreInv
  <2>4. Fresh' /\ TmpAccountable'
    BY FreshStep, TmpStep DEF SaveInv, LockInv
  <2>5. Saving'
    BY SavingStep DEF SaveInv
  <2>6. Recoverable'
    BY <2>5, RecoverableStep DEF SaveInv
  <2> QED
    BY <2>2, <2>3, <2>4, <2>5, <2>6 DEF SaveInv
<1> QED
  BY <1>1, <1>2, PTL DEF Spec

\* The variables of EditSession keep their types.
THEOREM TypeCorrect == Spec => []TypeOK
  BY SaveInvariant, PTL DEF SaveInv, LockInv

\* lock_set and lock_unset exclude: as long as no two lock_set raced and no
\* handler or watcher removed the file, its owner is the only session between
\* its lock_set and the unlink of its cleanup.
THEOREM LockExcludes == Spec => []Exclusion
  BY SaveInvariant, PTL DEF SaveInv, LockInv

\* No session that runs its exit handlers to their end leaves its lock behind,
\* whatever handlers, watchers, other sessions and failing calls sent it there:
\* only a kill, a crash on a NULL stream or a failure inside cleanup does.
THEOREM LockIsAccounted == Spec => []LockAccountable
  BY SaveInvariant, PTL DEF SaveInv, LockInv

\* gpg_encrypt never puts a half-written file in place.
THEOREM StoreIsWhole == Spec => []PublishedWhole
  BY SaveInvariant, PTL DEF SaveInv, StoreInv

\* At every point of gpg_encrypt's sequence of links and unlinks the last
\* published edits are in a whole file, however many sessions die on the way.
THEOREM StoreIsRecoverable == Spec => []Recoverable
  BY SaveInvariant, PTL DEF SaveInv

\* A session that is over leaves its plain text behind only if it was killed,
\* had its cleanup cut short after the lock was lost or by a failing call, or
\* could not open the text in has_changed.
THEOREM PlaintextIsRemoved == Spec => []PlaintextRemoved
<1>1. TypeOK /\ TmpAccountable => PlaintextRemoved
  BY DEF TypeOK, TmpAccountable, PlaintextRemoved, CutShort, TmpSteps, Working,
         Exiting, Over
<1> QED
  BY <1>1, SaveInvariant, PTL DEF SaveInv, LockInv

\* With the protection intact no save drops an edit published before it.
THEOREM UpdatesAreKept == Spec => NoLostUpdate
<1>1. SaveInv /\ [Next]_vars
        => [breach = {} => published.entries \subseteq published'.entries]_vars
  BY SaveCarriesOver
<1> QED
  BY <1>1, SaveInvariant, PTL DEF Spec, NoLostUpdate

\* With the protection intact a save leaves the version it replaces as backup.
THEOREM BackupIsKept == Spec => BackupIsPrevious
<1>1. SaveInv /\ [Next]_vars
        => [breach = {} /\ pw' # pw /\ FileExists(pw') /\ cfg_backup
              => bak = published]_vars
  BY SaveCarriesOver
<1> QED
  BY <1>1, SaveInvariant, PTL DEF Spec, BackupIsPrevious

=============================================================================
