---------------------------- MODULE ActivityProofs ----------------------------
(***************************************************************************)
(* Proofs about Activity, for any set of worker threads and any number of  *)
(* files.                                                                  *)
(***************************************************************************)
EXTENDS Activity, TLAPS

-------------------------------------------------------------------------------
(* Types.                                                                  *)

\* The steps of a thread between choosing a file and having handled it.
HasFile == {"ask", "capture", "yield", "poll", "resume", "restore", "decide"}

FileLeft == \A w \in Workers : pc[w] \in HasFile => left[w] > 0

QuestionNamed ==
  /\ confirm_state = "WAIT" => confirm_message # "none"
  /\ \A w \in Workers : pc[w] = "ask" => confirm_message # "none"

TypeInv == TypeOK /\ FileLeft /\ QuestionNamed

\* The variables with Boolean values; the SMT backend needs their types as facts.
Flags ==
  /\ paused \in BOOLEAN
  /\ dont_prompt_overwrite \in BOOLEAN
  /\ activity_inprogess \in BOOLEAN
  /\ stop_activity \in BOOLEAN

LEMMA TypeInit == Init => TypeInv
<1> SUFFICES ASSUME Init PROVE TypeInv
  OBVIOUS
<1>1. Flags
  BY Zenon DEF Init, Flags
<1>2. exists \in [Workers -> BOOLEAN]
  BY Zenon DEF Init
<1> QED
  BY <1>1, <1>2, ActivityAssumption, SMT
  DEF Init, Flags, TypeInv, TypeOK, FileLeft, QuestionNamed, HasFile, Phases, Popups,
      Steps, Actions, OverwriteTypes

LEMMA TypeStep == TypeInv /\ [Next]_vars => TypeInv'
<1> SUFFICES ASSUME TypeInv, [Next]_vars PROVE TypeInv'
  OBVIOUS
<1> USE ActivityAssumption
    DEF TypeInv, TypeOK, FileLeft, QuestionNamed, HasFile, Phases, Popups, Steps, Actions,
        OverwriteTypes, uiVars, question, options, progress, worker
<1>1. CASE ClickDirectory
  BY <1>1 DEF ClickDirectory, ClickUnder
<1>2. CASE NoInput
  BY <1>2 DEF NoInput
<1>3. CASE CheckActivity
  BY <1>3 DEF CheckActivity
<1>4. CASE ShowProgress
  BY <1>4 DEF ShowProgress
<1>5. CASE ClickCancel
  <2>1. Flags'
    BY <1>5, Zenon DEF ClickCancel, Flags
  <2> QED
    BY <1>5, <2>1, SMT DEF ClickCancel, Flags
<1>6. CASE NoDialogInput
  BY <1>6 DEF NoDialogInput, Shown
<1>7. CASE OpenMenu
  BY <1>7 DEF OpenMenu, Shown
<1>8. CASE CloseMenu
  <2>1. Flags'
    BY <1>8, Zenon DEF CloseMenu, Flags
  <2> QED
    BY <1>8, <2>1, SMT DEF CloseMenu, Shown, Flags
<1>9. ASSUME NEW a \in Operations \cap DeleteOps, ChooseDelete(a) PROVE TypeInv'
  BY <1>9 DEF ChooseDelete, Shown, DeleteOps
<1>10. ASSUME NEW a \in Operations \cap TransferOps, ChooseTransfer(a) PROVE TypeInv'
  <2>1. Flags'
    BY <1>10, Zenon DEF ChooseTransfer, Flags
  <2> QED
    BY <1>10, <2>1, SMT DEF ChooseTransfer, Flags
<1>11. ASSUME NEW a \in Operations \cap ArchiveOps, ChooseArchive(a) PROVE TypeInv'
  <2>1. Flags'
    BY <1>11, Zenon DEF ChooseArchive, Flags
  <2> QED
    BY <1>11, <2>1, SMT DEF ChooseArchive, Shown, Flags
<1>12. CASE AnswerNo
  <2>1. Flags'
    BY <1>12, Zenon DEF AnswerNo, Flags
  <2> QED
    BY <1>12, <2>1, SMT DEF AnswerNo, Shown, Flags
<1>13. CASE AnswerYes
  <2>1. Flags'
    BY <1>13, Zenon DEF AnswerYes, Flags
  <2> QED
    BY <1>13, <2>1, SMT DEF AnswerYes, Shown, Flags
<1>14. ASSUME NEW type \in OverwriteTypes, CancelTransfer(type) PROVE TypeInv'
  BY <1>14 DEF CancelTransfer, Shown
<1>15. ASSUME NEW type \in OverwriteTypes, NEW always \in AlwaysUse,
              ContinueTransfer(type, always)
       PROVE  TypeInv'
  BY <1>15 DEF ContinueTransfer, Shown
<1>16. CASE ExecuteNothing
  BY <1>16 DEF ExecuteNothing
<1>17. CASE ExecuteChangeDirectory
  BY <1>17 DEF ExecuteChangeDirectory
<1>18. CASE ExecuteRefresh
  BY <1>18 DEF ExecuteRefresh
<1>19. ASSUME NEW w \in Workers, ExecuteAtOnce(w) PROVE TypeInv'
  <2>1. Flags'
    BY <1>19, Zenon DEF ExecuteAtOnce, Flags
  <2> QED
    BY <1>19, <2>1, SMT DEF ExecuteAtOnce, Spawn, DeleteOps, ArchiveOps, Flags
<1>20. ASSUME NEW w \in Workers, ExecuteTransfer(w) PROVE TypeInv'
  <2>1. Flags'
    BY <1>20, Zenon DEF ExecuteTransfer, Flags
  <2> QED
    BY <1>20, <2>1, SMT DEF ExecuteTransfer, Spawn, TransferOps, CopyOps, PasteOps, Flags
<1>21. CASE FinishLaunch
  BY <1>21 DEF FinishLaunch, FinishLaunchWith
<1>22. CASE LaunchFails
  <2>1. Flags'
    BY <1>22, Zenon DEF LaunchFails, Flags
  <2> QED
    BY <1>22, <2>1, SMT DEF LaunchFails, Flags
<1>23. ASSUME NEW w \in Workers, Start(w) PROVE TypeInv'
  BY <1>23 DEF Start, Goto
<1>24. ASSUME NEW w \in Workers, ExtractMkDirsFails(w) PROVE TypeInv'
  BY <1>24 DEF ExtractMkDirsFails, Goto, Forget
<1>25. ASSUME NEW w \in Workers, LoopEnds(w) PROVE TypeInv'
  BY <1>25 DEF LoopEnds, Goto
<1>26. ASSUME NEW w \in Workers, WorkOnFile(w) PROVE TypeInv'
  BY <1>26 DEF WorkOnFile, WorkOn, TakeFile, Goto
<1>27. ASSUME NEW w \in Workers, DecideAlone(w) PROVE TypeInv'
  BY <1>27 DEF DecideAlone, DecideFrom, TakeFile, Goto
<1>28. ASSUME NEW w \in Workers, MustAsk(w) PROVE TypeInv'
  BY <1>28 DEF MustAsk, TakeFile, Goto
<1>29. ASSUME NEW w \in Workers, Ask(w) PROVE TypeInv'
  BY <1>29 DEF Ask, AskWith, Goto
<1>30. ASSUME NEW w \in Workers, Capture(w) PROVE TypeInv'
  BY <1>30 DEF Capture, CaptureAs, Goto
<1>31. ASSUME NEW w \in Workers, Yield(w) PROVE TypeInv'
  <2>1. Flags'
    BY <1>31, Zenon DEF Yield, YieldWith, Flags
  <2> QED
    BY <1>31, <2>1, SMT DEF Yield, YieldWith, Goto, Flags
<1>32. ASSUME NEW w \in Workers, Poll(w) PROVE TypeInv'
  BY <1>32 DEF Poll, Goto
<1>33. ASSUME NEW w \in Workers, Resume(w) PROVE TypeInv'
  BY <1>33 DEF Resume, Goto
<1>34. ASSUME NEW w \in Workers, Restore(w) PROVE TypeInv'
  BY <1>34 DEF Restore, Goto
<1>35. ASSUME NEW w \in Workers, Decide(w) PROVE TypeInv'
  BY <1>35 DEF Decide, Goto
<1>36. ASSUME NEW w \in Workers, End(w) PROVE TypeInv'
  <2>1. Flags'
    BY <1>36, Zenon DEF End, Flags
  <2> QED
    BY <1>36, <2>1, SMT DEF End, Goto, Flags
<1>37. ASSUME NEW w \in Workers, Unlock(w) PROVE TypeInv'
  <2>1. Flags'
    BY <1>37, Zenon DEF Unlock, Flags
  <2> QED
    BY <1>37, <2>1, SMT DEF Unlock, Goto, Flags
<1>38. ASSUME NEW w \in Workers, Refresh(w) PROVE TypeInv'
  BY <1>38 DEF Refresh, Goto, Forget
<1>39. CASE UNCHANGED vars
  BY <1>39 DEF vars
<1>40. ASSUME NEW w \in Workers, SkipFile(w) PROVE TypeInv'
  BY <1>40 DEF SkipFile, Goto
<1> QED
  BY <1>1, <1>2, <1>3, <1>4, <1>5, <1>6, <1>7, <1>8, <1>9, <1>10, <1>11, <1>12, <1>13,
     <1>14, <1>15, <1>16, <1>17, <1>18, <1>19, <1>20, <1>21, <1>22, <1>23, <1>24, <1>25,
     <1>26, <1>27, <1>28, <1>29, <1>30, <1>31, <1>32, <1>33, <1>34, <1>35, <1>36, <1>37,
     <1>38, <1>39, <1>40
  DEF Next, UI, Work

\* The globals and the threads' locals stay within their types: in particular a
\* thread never handles more files than were selected, and Yes is only ever
\* answered to a question that somebody asked.
THEOREM TypeCorrect == Spec => []TypeOK
<1>1. TypeInv => TypeOK
  BY DEF TypeInv
<1> QED
  BY TypeInit, TypeStep, <1>1, PTL DEF Spec

-------------------------------------------------------------------------------
(* Safety, for a user who waits for the screen to settle and does not tick *)
(* "always use this option".                                               *)

Patient == HurriedUser = FALSE /\ AlwaysUse = {FALSE}

LaunchOps == DeleteOps \cup ArchiveOps

Nobody == \A w \in Workers : pc[w] \notin Working

\* No thread is busy and no question is open.
Quiet == Nobody /\ confirm_state # "WAIT"

\* Only the threads of transfers ask.
TransferAsks == \A w \in Workers : pc[w] \in HasFile => op[w] \in TransferOps

\* Whatever is about to launch a thread does so when all is quiet.
LaunchWhenQuiet ==
  /\ selected_action \in LaunchOps =>
       ui = "execute" /\ Quiet /\ confirm_transfer_state # "ask"
  /\ selected_action \in TransferOps /\ confirm_transfer_state = "continue" /\ ui # "launched" =>
       ui = "execute" /\ Quiet
  /\ dont_prompt_overwrite = FALSE

\* While the overwrite popup is open all stays quiet, and the menu and the confirm
\* popup are gone.
OptionsWhenQuiet ==
  confirm_transfer_state = "ask" => Quiet /\ popup \notin {"menu", "confirm"}

\* The answer that launched a transfer is used up.
OptionsUsedUp ==
  \A w \in Workers :
    pc[w] \in Working /\ op[w] \in TransferOps /\ ui # "launched" =>
      confirm_transfer_state # "continue"

\* A thread's question is open from "capture" until it is answered, and a busy
\* thread that has not asked leaves no question open.
QuestionOpen ==
  \A w \in Workers :
    /\ pc[w] \in {"capture", "yield"} => confirm_state = "WAIT"
    /\ pc[w] \in Working \ {"capture", "yield", "poll"} => confirm_state # "WAIT"

\* The question shown is the thread's own, and a Yes to it is its consent.
QuestionOwned ==
  \A w \in Workers :
    /\ pc[w] \in {"ask", "capture", "yield", "poll"} => confirm_message = w
    /\ pc[w] \in {"poll", "resume", "restore"} /\ confirm_state = "YES" => w \in consent

\* A question open without a thread is the delete question.
DeleteQuestion ==
  confirm_state = "WAIT" /\ Nobody =>
    action_to_take \in DeleteOps /\ confirm_message = action_to_take /\ popup # "menu"

\* What a thread has put aside launches nothing when it is put back.
PutAside ==
  \A w \in Workers :
    pc[w] \in {"yield", "poll", "resume", "restore"} =>
      action_to_take \notin LaunchOps \cup {"ACTION_CHANGE_DIRECTORY"}

\* A busy thread keeps the progress dialog up except while it polls.
ActiveUnlessPolling ==
  \A w \in Workers :
    pc[w] \in Working \ {"poll", "resume"} => activity_inprogess = TRUE

\* The confirm popup is up only with a question, and can be answered only when
\* the thread that asked polls.
AnswerWhilePolling ==
  popup = "confirm" =>
    /\ confirm_state = "WAIT"
    /\ ui = "dialogs" => \A w \in Workers : pc[w] \in Working => pc[w] = "poll"

\* The shown directory changes only when nobody is busy.
DirectoryKept ==
  /\ selected_action = "ACTION_CHANGE_DIRECTORY" => Nobody
  /\ \A w \in Workers : pc[w] \in Working => directory = target[w]

DeleteAgreed == selected_action \in DeleteOps => selected_action \in consent

\* While a cancelled thread is busy, stop_activity is set: no launch resets it.
CancelKept ==
  \A w \in Workers :
    /\ pc[w] = "idle" => cancelled[w] = "no"
    /\ pc[w] \in Working /\ cancelled[w] = "yes" => stop_activity = TRUE

SafeInv ==
  /\ SingleOperation
  /\ OverwriteConsent
  /\ TransferAsks
  /\ LaunchWhenQuiet
  /\ OptionsWhenQuiet
  /\ OptionsUsedUp
  /\ QuestionOpen
  /\ QuestionOwned
  /\ DeleteQuestion
  /\ PutAside
  /\ ActiveUnlessPolling
  /\ AnswerWhilePolling
  /\ DirectoryKept
  /\ DeleteAgreed
  /\ CancelKept
  /\ CancelHeeded

LEMMA SafeInit == ASSUME Init PROVE SafeInv
BY ActivityAssumption
DEF Init, SafeInv, SingleOperation, OverwriteConsent, TransferAsks, LaunchWhenQuiet,
    OptionsWhenQuiet, OptionsUsedUp, QuestionOpen, QuestionOwned, DeleteQuestion, PutAside,
    ActiveUnlessPolling, AnswerWhilePolling, DirectoryKept, DeleteAgreed, CancelKept, CancelHeeded,
    Busy, Working, HasFile,
    LaunchOps, DeleteOps, ArchiveOps, TransferOps, CopyOps, PasteOps, Nobody, Quiet

LEMMA SafeStep == ASSUME Patient, TypeInv, SafeInv, [Next]_vars PROVE SafeInv'
<1> USE ActivityAssumption
    DEF Patient, TypeInv, TypeOK, FileLeft, QuestionNamed, HasFile, Phases, Popups, Steps,
        Actions, OverwriteTypes, uiVars, question, options, progress, worker, SafeInv, SingleOperation,
        OverwriteConsent, TransferAsks, LaunchWhenQuiet, OptionsWhenQuiet, OptionsUsedUp,
        QuestionOpen, QuestionOwned, DeleteQuestion, PutAside, ActiveUnlessPolling,
        AnswerWhilePolling, DirectoryKept, DeleteAgreed, CancelKept, CancelHeeded, Busy, Working, LaunchOps, DeleteOps,
        ArchiveOps, TransferOps, CopyOps, PasteOps, Nobody, Quiet
<1>1. CASE ClickDirectory
  BY <1>1, SMT DEF ClickDirectory, ClickUnder, UserMayAct, Settled
<1>2. CASE NoInput
  BY <1>2, SMT DEF NoInput
<1>3. CASE CheckActivity
  BY <1>3, SMT DEF CheckActivity
<1>4. CASE ShowProgress
  BY <1>4, SMT DEF ShowProgress
<1>5. CASE ClickCancel
  BY <1>5, SMT DEF ClickCancel
<1>6. CASE NoDialogInput
  BY <1>6, SMT DEF NoDialogInput, Shown
<1>7. CASE OpenMenu
  BY <1>7, SMT DEF OpenMenu, Shown, UserMayAct, Settled
<1>8. CASE CloseMenu
  BY <1>8, SMT DEF CloseMenu, Shown
<1>9. ASSUME NEW a \in Operations \cap DeleteOps, ChooseDelete(a) PROVE SafeInv'
  BY <1>9, SMT DEF ChooseDelete, Shown, UserMayAct, Settled
<1>10. ASSUME NEW a \in Operations \cap TransferOps, ChooseTransfer(a) PROVE SafeInv'
  BY <1>10, SMT DEF ChooseTransfer, UserMayAct, Settled
<1>11. ASSUME NEW a \in Operations \cap ArchiveOps, ChooseArchive(a) PROVE SafeInv'
  BY <1>11, SMT DEF ChooseArchive, Shown, UserMayAct, Settled
<1>12. CASE AnswerNo
  BY <1>12, SMT DEF AnswerNo, Shown
<1>13. CASE AnswerYes
  BY <1>13, SMT DEF AnswerYes, Shown
<1>14. ASSUME NEW type \in OverwriteTypes, CancelTransfer(type) PROVE SafeInv'
  BY <1>14, SMT DEF CancelTransfer, Shown
<1>15. ASSUME NEW type \in OverwriteTypes, NEW always \in AlwaysUse,
              ContinueTransfer(type, always)
       PROVE  SafeInv'
  BY <1>15, SMT DEF ContinueTransfer, Shown
<1>16. CASE ExecuteNothing
  BY <1>16, SMT DEF ExecuteNothing
<1>17. CASE ExecuteChangeDirectory
  BY <1>17, SMT DEF ExecuteChangeDirectory
<1>18. CASE ExecuteRefresh
  BY <1>18, SMT DEF ExecuteRefresh
<1>19. ASSUME NEW w \in Workers, ExecuteAtOnce(w) PROVE SafeInv'
  BY <1>19, SMT DEF ExecuteAtOnce, Spawn
<1>20. ASSUME NEW w \in Workers, ExecuteTransfer(w) PROVE SafeInv'
  BY <1>20, SMT DEF ExecuteTransfer, Spawn
<1>21. CASE FinishLaunch
  BY <1>21, SMT DEF FinishLaunch, FinishLaunchWith
<1>22. CASE LaunchFails
  BY <1>22, SMT DEF LaunchFails
<1>23. ASSUME NEW w \in Workers, Start(w) PROVE SafeInv'
  BY <1>23, SMT DEF Start, Goto
<1>24. ASSUME NEW w \in Workers, ExtractMkDirsFails(w) PROVE SafeInv'
  BY <1>24, SMT DEF ExtractMkDirsFails, Goto, Forget
<1>25. ASSUME NEW w \in Workers, LoopEnds(w) PROVE SafeInv'
  BY <1>25, SMT DEF LoopEnds, Goto
<1>26. ASSUME NEW w \in Workers, WorkOnFile(w) PROVE SafeInv'
  BY <1>26, SMT DEF WorkOnFile, WorkOn, TakeFile, Goto
<1>27. ASSUME NEW w \in Workers, DecideAlone(w) PROVE SafeInv'
  BY <1>27, SMT DEF DecideAlone, DecideFrom, TakeFile, Goto
<1>28. ASSUME NEW w \in Workers, MustAsk(w) PROVE SafeInv'
  BY <1>28, SMT DEF MustAsk, TakeFile, Goto
<1>29. ASSUME NEW w \in Workers, Ask(w) PROVE SafeInv'
  BY <1>29, SMT DEF Ask, AskWith, Goto
<1>30. ASSUME NEW w \in Workers, Capture(w) PROVE SafeInv'
  BY <1>30, SMT DEF Capture, CaptureAs, Goto
<1>31. ASSUME NEW w \in Workers, Yield(w) PROVE SafeInv'
  BY <1>31, SMT DEF Yield, YieldWith, Goto
<1>32. ASSUME NEW w \in Workers, Poll(w) PROVE SafeInv'
  BY <1>32, SMT DEF Poll, Goto
<1>33. ASSUME NEW w \in Workers, Resume(w) PROVE SafeInv'
  BY <1>33, SMT DEF Resume, Goto
<1>34. ASSUME NEW w \in Workers, Restore(w) PROVE SafeInv'
  BY <1>34, SMT DEF Restore, Goto
<1>35. ASSUME NEW w \in Workers, Decide(w) PROVE SafeInv'
  BY <1>35, SMT DEF Decide, Goto
<1>36. ASSUME NEW w \in Workers, End(w) PROVE SafeInv'
  BY <1>36, SMT DEF End, Goto
<1>37. ASSUME NEW w \in Workers, Unlock(w) PROVE SafeInv'
  BY <1>37, SMT DEF Unlock, Goto
<1>38. ASSUME NEW w \in Workers, Refresh(w) PROVE SafeInv'
  BY <1>38, SMT DEF Refresh, Goto, Forget
<1>39. CASE UNCHANGED vars
  BY <1>39, SMT DEF vars
<1>40. ASSUME NEW w \in Workers, SkipFile(w) PROVE SafeInv'
  BY <1>40, SMT DEF SkipFile, Goto
<1> HIDE DEF SafeInv, TypeInv
<1> QED
  BY <1>1, <1>2, <1>3, <1>4, <1>5, <1>6, <1>7, <1>8, <1>9, <1>10, <1>11, <1>12, <1>13,
     <1>14, <1>15, <1>16, <1>17, <1>18, <1>19, <1>20, <1>21, <1>22, <1>23, <1>24, <1>25,
     <1>26, <1>27, <1>28, <1>29, <1>30, <1>31, <1>32, <1>33, <1>34, <1>35, <1>36, <1>37,
     <1>38, <1>39, <1>40
  DEF Next, UI, Work

\* The inductive invariant, for any number of threads and files.
LEMMA SafeAlways == ASSUME Patient PROVE Spec => [](TypeInv /\ SafeInv)
<1>1. Init => TypeInv /\ SafeInv
  BY TypeInit, SafeInit
<1>2. TypeInv /\ SafeInv /\ [Next]_vars => (TypeInv /\ SafeInv)'
  BY Patient, TypeStep, SafeStep
<1> QED
  BY <1>1, <1>2, PTL DEF Spec

\* No second thread is launched while one is busy with files.
THEOREM OneOperationAtATime == ASSUME Patient PROVE Spec => []SingleOperation
<1>1. SafeInv => SingleOperation
  BY DEF SafeInv
<1> QED
  BY SafeAlways, <1>1, PTL

\* No existing file is overwritten without "do not ask" or the file's own Yes.
THEOREM OverwritesAreAgreed == ASSUME Patient PROVE Spec => []OverwriteConsent
<1>1. SafeInv => OverwriteConsent
  BY DEF SafeInv
<1> QED
  BY SafeAlways, <1>1, PTL

\* A file is chosen and handled with the directory of the launch on the screen.
THEOREM TransfersStayInDirectory == ASSUME Patient PROVE Spec => []DestinationStable
<1>1. SafeInv => DestinationStable
  BY DEF SafeInv, DirectoryKept, DestinationStable, Working
<1> QED
  BY SafeAlways, <1>1, PTL

\* A thread that was busy when the user cancelled takes no further file: no launch
\* resets stop_activity before the thread has ended.
THEOREM CancelsAreHeeded == ASSUME Patient PROVE Spec => []CancelHeeded
<1>1. SafeInv => CancelHeeded
  BY DEF SafeInv
<1> QED
  BY SafeAlways, <1>1, PTL

LEMMA DeleteLaunch ==
  ASSUME TypeInv, SafeInv, [Next]_vars, NEW w \in Workers,
         pc[w] = "idle", pc'[w] = "start", op'[w] \in DeleteOps
  PROVE  op'[w] \in consent
<1> USE ActivityAssumption DEF TypeInv, TypeOK, Steps
<1>1. CASE \E v \in Workers : ExecuteAtOnce(v)
  <2> PICK v \in Workers : ExecuteAtOnce(v)
    BY <1>1
  <2>1. v = w
    BY DEF ExecuteAtOnce, Spawn
  <2>2. op'[w] = selected_action
    BY <2>1 DEF ExecuteAtOnce, Spawn
  <2> QED
    BY <2>2 DEF SafeInv, DeleteAgreed
<1>2. CASE \E v \in Workers : ExecuteTransfer(v)
  <2> PICK v \in Workers : ExecuteTransfer(v)
    BY <1>2
  <2>1. v = w
    BY DEF ExecuteTransfer, Spawn
  <2>2. op'[w] \in TransferOps
    BY <2>1 DEF ExecuteTransfer, Spawn
  <2> QED
    BY <2>2 DEF DeleteOps, TransferOps, CopyOps, PasteOps
<1>3. CASE UI /\ ~\E v \in Workers : ExecuteAtOnce(v) \/ ExecuteTransfer(v)
  <2>1. UNCHANGED pc
    BY <1>3
    DEF UI, ClickDirectory, ClickUnder, NoInput, CheckActivity, ShowProgress, ClickCancel,
        NoDialogInput, OpenMenu, CloseMenu, ChooseDelete, ChooseTransfer, ChooseArchive,
        AnswerNo, AnswerYes, CancelTransfer, ContinueTransfer, ExecuteNothing,
        ExecuteChangeDirectory, ExecuteRefresh, FinishLaunch, FinishLaunchWith, LaunchFails,
        worker
  <2> QED
    BY <2>1
<1>4. ASSUME NEW v \in Workers, Work(v) PROVE FALSE
  <2>1. \E from, to \in Steps \ {"start"} : Goto(v, from, to) \/ Goto(v, "start", to)
    BY <1>4
    DEF Work, Start, ExtractMkDirsFails, LoopEnds, SkipFile, WorkOnFile, WorkOn, DecideAlone, DecideFrom,
        MustAsk, Ask, AskWith, Capture, CaptureAs, Yield, YieldWith, Poll, Resume, Restore,
        Decide, End, Unlock, Refresh
  <2> QED
    BY <2>1 DEF Goto
<1>5. CASE UNCHANGED vars
  BY <1>5 DEF vars, worker
<1> QED
  BY <1>1, <1>2, <1>3, <1>4, <1>5 DEF Next

\* A delete is launched only on a Yes to its own question.
THEOREM DeletesAreAgreed == ASSUME Patient PROVE Spec => DeleteConsent
<1>1. TypeInv /\ SafeInv /\ [Next]_vars =>
        [\A w \in Workers :
           pc[w] = "idle" /\ pc'[w] = "start" /\ op'[w] \in DeleteOps => op'[w] \in consent]_vars
  BY DeleteLaunch
<1> QED
  BY SafeAlways, <1>1, PTL DEF Spec, DeleteConsent
===============================================================================
