------------------------------- MODULE Activity -------------------------------
(***************************************************************************)
(* The frame loop of the native user interface (gui.cpp, windows.cpp) and  *)
(* the background threads it starts for long operations (actions.cpp).     *)
(*                                                                         *)
(* The two sides share plain global variables.  The UI thread runs frames: *)
(* it takes input, draws the progress dialog, draws the action menu and    *)
(* the two question popups, and executes selected_action.  A worker walks  *)
(* over the chosen files and, when a destination exists and the overwrite  *)
(* mode is "ask", asks the user through confirm_state and polls it.        *)
(*                                                                         *)
(* Every assignment another thread can observe in between is a step of its *)
(* own.  Operations differ only in how they are confirmed and launched, so *)
(* remote variants of delete, extract and paste are not repeated.          *)
(***************************************************************************)
EXTENDS Naturals, FiniteSets

CONSTANTS
  Workers,      (* the threads that can be alive at the same time            *)
  Operations,   (* the operations the user may choose from the menu          *)
  MaxFiles,     (* bound: the most files one operation works on              *)
  AlwaysUse,    (* the values the "always use this option" box may be given  *)
  HurriedUser   (* may the user act on a screen that is about to change?     *)

DeleteOps   == {"ACTION_DELETE_LOCAL"}
CopyOps     == {"ACTION_UPLOAD", "ACTION_DOWNLOAD"}
PasteOps    == {"ACTION_LOCAL_PASTE"}
TransferOps == CopyOps \cup PasteOps
ArchiveOps  == {"ACTION_EXTRACT_LOCAL_ZIP", "ACTION_CREATE_LOCAL_ZIP"}

ASSUME ActivityAssumption ==
  /\ Operations \subseteq DeleteOps \cup TransferOps \cup ArchiveOps
  /\ MaxFiles \in Nat \ {0}
  /\ AlwaysUse \subseteq BOOLEAN
  /\ AlwaysUse # {}
  /\ HurriedUser \in BOOLEAN
  /\ Workers \cap {"none", "ACTION_DELETE_LOCAL"} = {}

VARIABLES
  ui,                      (* the step of the frame the UI thread is about to run *)
  popup,                   (* the modal popup drawn over the main window          *)
  paused,
  selected_action,
  action_to_take,
  confirm_state,
  confirm_message,         (* whose question the confirm popup shows              *)
  confirm_transfer_state,
  overwrite_type,
  dont_prompt_overwrite,
  activity_inprogess,
  stop_activity,
  directory,               (* the directory shown, where transfers write to       *)
  pc,                      (* worker -> its next step                             *)
  op,                      (* worker -> the operation it was started for          *)
  left,                    (* worker -> files not handled yet                     *)
  exists,                  (* worker -> does the destination of its file exist?   *)
  target,                  (* worker -> history: the directory at its launch      *)
  cancelled,               (* worker -> history: "yes" from the user's Cancel on,
                              "ignored" once it has gone on to another file       *)
  consent                  (* history: the questions answered "Yes" and not since
                              asked again or used up                              *)

uiVars == <<ui, popup, directory>>
question == <<confirm_state, confirm_message, action_to_take>>
options == <<confirm_transfer_state, overwrite_type, dont_prompt_overwrite>>
progress == <<activity_inprogess, stop_activity>>
worker == <<pc, op, left, exists, target, cancelled>>
vars == <<uiVars, paused, selected_action, question, options, progress, worker, consent>>

Actions == Operations \cup
  {"ACTION_NONE", "ACTION_CHANGE_DIRECTORY", "ACTION_REFRESH_FILES"}

OverwriteTypes == {"NONE", "PROMPT", "ALL"}

Phases == {"input", "progress", "modal", "dialogs", "execute", "launched"}
Popups == {"none", "progress", "menu", "confirm", "overwrite"}
Steps  == {"idle", "start", "loop", "ask", "capture", "yield", "poll", "resume",
           "restore", "decide", "end", "unlock", "refresh"}

\* The steps in which a thread is busy with files: from its creation until it
\* clears activity_inprogess.
Working == {"start", "loop", "ask", "capture", "yield", "poll", "resume",
            "restore", "decide", "end"}
Busy == {w \in Workers : pc[w] \in Working}

Init ==
  /\ ui = "input"
  /\ popup = "none"
  /\ paused = FALSE
  /\ selected_action = "ACTION_NONE"
  /\ action_to_take = "ACTION_NONE"
  /\ confirm_state = "NONE"
  /\ confirm_message = "none"
  /\ confirm_transfer_state = "unset"
  /\ overwrite_type = "PROMPT"
  /\ dont_prompt_overwrite = FALSE
  /\ activity_inprogess = FALSE
  /\ stop_activity = FALSE
  /\ directory = 0
  /\ pc = [w \in Workers |-> "idle"]
  /\ op = [w \in Workers |-> "ACTION_NONE"]
  /\ left = [w \in Workers |-> 0]
  /\ exists = [w \in Workers |-> FALSE]
  /\ target = [w \in Workers |-> 0]
  /\ cancelled = [w \in Workers |-> "no"]
  /\ consent = {}

-------------------------------------------------------------------------------
(* The UI thread: input and the progress dialog.                           *)

\* The screen shows what the threads are doing: a polling worker has its question
\* on the screen and has not been answered yet, any other has the progress dialog.
\* An unsettled screen lasts for a few frames and one poll interval (100 ms).
Settled ==
  \A w \in Busy :
    IF pc[w] = "poll" THEN confirm_state = "WAIT" /\ popup = "confirm"
                      ELSE popup = "progress"

UserMayAct == HurriedUser \/ Settled

ClickUnder(popups) ==
  /\ ui = "input"
  /\ popup \in popups
  /\ UserMayAct
  /\ selected_action' = "ACTION_CHANGE_DIRECTORY"
  /\ ui' = "progress"
  /\ UNCHANGED <<popup, directory, paused, question, options, progress, worker, consent>>

\* MUTANT of ClickDirectory: the progress dialog is an ordinary window.
ClickBesideProgress == ClickUnder({"none", "progress"})

\* BrowserPanel: selecting a directory entry.  A modal popup blocks the click.
ClickDirectory == ClickUnder({"none"})

NoInput ==
  /\ ui = "input"
  /\ ui' = "progress"
  /\ UNCHANGED <<popup, directory, paused, selected_action, question, options,
                 progress, worker, consent>>

\* ShowProgressDialog reads activity_inprogess first ...
CheckActivity ==
  /\ ui = "progress"
  /\ IF activity_inprogess
     THEN ui' = "modal" /\ UNCHANGED popup
     ELSE ui' = "dialogs" /\ popup' = IF popup = "progress" THEN "none" ELSE popup
  /\ UNCHANGED <<directory, paused, selected_action, question, options, progress,
                 worker, consent>>

\* ... then locks the window and opens the dialog, which displaces any other popup.
ShowProgress ==
  /\ ui = "modal"
  /\ paused' = TRUE
  /\ popup' = "progress"
  /\ ui' = "dialogs"
  /\ UNCHANGED <<directory, selected_action, question, options, progress, worker, consent>>

\* The Cancel button of a dialog that was already on the screen.
ClickCancel ==
  /\ ui = "modal"
  /\ popup = "progress"
  /\ stop_activity' = TRUE
  /\ paused' = FALSE
  /\ ui' = "dialogs"
  /\ cancelled' = [w \in Workers |-> IF w \in Busy /\ cancelled[w] = "no" THEN "yes"
                                     ELSE cancelled[w]]
  /\ UNCHANGED <<popup, directory, selected_action, question, options,
                 activity_inprogess, pc, op, left, exists, target, consent>>

-------------------------------------------------------------------------------
(* The UI thread: the action menu and the question popups.                 *)

\* The popup left on the screen when ShowActionsDialog returns: a pending
\* question is opened over whatever is there.
Shown(below, state, transfer) ==
  IF transfer = "ask" THEN "overwrite"
  ELSE IF state = "WAIT" THEN "confirm"
  ELSE IF below \in {"confirm", "overwrite"} THEN "none" ELSE below

NoDialogInput ==
  /\ ui = "dialogs"
  /\ popup' = Shown(popup, confirm_state, confirm_transfer_state)
  /\ ui' = "execute"
  /\ UNCHANGED <<directory, paused, selected_action, question, options, progress,
                 worker, consent>>

OpenMenu ==
  /\ ui = "dialogs"
  /\ ~paused
  /\ UserMayAct
  /\ paused' = TRUE
  /\ popup' = Shown("menu", confirm_state, confirm_transfer_state)
  /\ ui' = "execute"
  /\ UNCHANGED <<directory, selected_action, question, options, progress, worker, consent>>

CloseMenu ==
  /\ ui = "dialogs"
  /\ popup = "menu"
  /\ paused' = FALSE
  /\ popup' = Shown("none", confirm_state, confirm_transfer_state)
  /\ ui' = "execute"
  /\ UNCHANGED <<directory, selected_action, question, options, progress, worker, consent>>

ChooseDelete(a) ==
  /\ ui = "dialogs"
  /\ popup = "menu"
  /\ UserMayAct
  /\ confirm_state' = "WAIT"
  /\ confirm_message' = a
  /\ action_to_take' = a
  /\ popup' = Shown("menu", "WAIT", confirm_transfer_state)
  /\ ui' = "execute"
  /\ consent' = consent \ {a}
  /\ UNCHANGED <<directory, paused, selected_action, options, progress, worker>>

ChooseTransfer(a) ==
  /\ ui = "dialogs"
  /\ popup = "menu"
  /\ UserMayAct
  /\ paused' = FALSE
  /\ selected_action' = a
  /\ confirm_transfer_state' = "ask"
  /\ popup' = "overwrite"
  /\ ui' = "execute"
  /\ UNCHANGED <<directory, question, overwrite_type, dont_prompt_overwrite,
                 progress, worker, consent>>

\* Extract and Compress: the keyboard dialog that asks for the destination is
\* answered, and its callback selects the action.
ChooseArchive(a) ==
  /\ ui = "dialogs"
  /\ popup = "menu"
  /\ UserMayAct
  /\ paused' = FALSE
  /\ selected_action' = a
  /\ popup' = Shown("none", confirm_state, confirm_transfer_state)
  /\ ui' = "execute"
  /\ UNCHANGED <<directory, question, options, progress, worker, consent>>

\* The No button of a confirm popup that is on the screen.
AnswerNo ==
  /\ ui = "dialogs"
  /\ popup = "confirm"
  /\ confirm_state = "WAIT"
  /\ confirm_state' = "NO"
  /\ selected_action' = "ACTION_NONE"
  /\ paused' = FALSE
  /\ popup' = Shown("none", "NO", confirm_transfer_state)
  /\ ui' = "execute"
  /\ UNCHANGED <<directory, confirm_message, action_to_take, options, progress,
                 worker, consent>>

AnswerYes ==
  /\ ui = "dialogs"
  /\ popup = "confirm"
  /\ confirm_state = "WAIT"
  /\ confirm_state' = "YES"
  /\ selected_action' = action_to_take
  /\ paused' = FALSE
  /\ popup' = Shown("none", "YES", confirm_transfer_state)
  /\ ui' = "execute"
  /\ consent' = consent \cup {confirm_message}
  /\ UNCHANGED <<directory, confirm_message, action_to_take, options, progress, worker>>

\* The radio buttons write overwrite_type at once, so a cancelled popup keeps them.
CancelTransfer(type) ==
  /\ ui = "dialogs"
  /\ popup = "overwrite"
  /\ confirm_transfer_state = "ask"
  /\ confirm_transfer_state' = "cancel"
  /\ overwrite_type' = type
  /\ selected_action' = "ACTION_NONE"
  /\ popup' = Shown("none", confirm_state, "cancel")
  /\ ui' = "execute"
  /\ UNCHANGED <<directory, paused, question, dont_prompt_overwrite, progress, worker, consent>>

ContinueTransfer(type, always) ==
  /\ ui = "dialogs"
  /\ popup = "overwrite"
  /\ confirm_transfer_state = "ask"
  /\ confirm_transfer_state' = "continue"
  /\ overwrite_type' = type
  /\ dont_prompt_overwrite' = always
  /\ popup' = Shown("none", confirm_state, "continue")
  /\ ui' = "execute"
  /\ UNCHANGED <<directory, paused, selected_action, question, progress, worker, consent>>

-------------------------------------------------------------------------------
(* The UI thread: ExecuteActions.                                          *)

\* pthread_create succeeds: an idle slot of Workers becomes a thread.
Spawn(w, a) ==
  /\ pc[w] = "idle"
  /\ pc' = [pc EXCEPT ![w] = "start"]
  /\ op' = [op EXCEPT ![w] = a]
  /\ target' = [target EXCEPT ![w] = directory]
  /\ UNCHANGED <<left, exists, cancelled>>

ExecuteNothing ==
  /\ ui = "execute"
  /\ \/ selected_action = "ACTION_NONE"
     \/ /\ selected_action \in TransferOps
        /\ ~dont_prompt_overwrite
        /\ confirm_transfer_state # "continue"
  /\ ui' = "input"
  /\ UNCHANGED <<popup, directory, paused, selected_action, question, options,
                 progress, worker, consent>>

ExecuteChangeDirectory ==
  /\ ui = "execute"
  /\ selected_action = "ACTION_CHANGE_DIRECTORY"
  /\ directory' = 1 - directory
  /\ selected_action' = "ACTION_NONE"
  /\ ui' = "input"
  /\ UNCHANGED <<popup, paused, question, options, progress, worker, consent>>

ExecuteRefresh ==
  /\ ui = "execute"
  /\ selected_action = "ACTION_REFRESH_FILES"
  /\ selected_action' = "ACTION_NONE"
  /\ ui' = "input"
  /\ UNCHANGED <<popup, directory, paused, question, options, progress, worker, consent>>

\* Delete, extract and compress clear selected_action before they launch.
ExecuteAtOnce(w) ==
  /\ ui = "execute"
  /\ selected_action \in DeleteOps \cup ArchiveOps
  /\ activity_inprogess' = TRUE
  /\ stop_activity' = FALSE
  /\ selected_action' = "ACTION_NONE"
  /\ Spawn(w, selected_action)
  /\ consent' = consent \ {selected_action}
  /\ ui' = "input"
  /\ UNCHANGED <<popup, directory, paused, question, options>>

\* Upload, download and paste launch first: the assignments that follow the
\* launch are the next step, and the new thread may run before it.  Paste has
\* reset confirm_transfer_state by then.
ExecuteTransfer(w) ==
  /\ ui = "execute"
  /\ selected_action \in TransferOps
  /\ dont_prompt_overwrite \/ confirm_transfer_state = "continue"
  /\ activity_inprogess' = TRUE
  /\ stop_activity' = FALSE
  /\ confirm_transfer_state' =
       IF selected_action \in PasteOps THEN "unset" ELSE confirm_transfer_state
  /\ Spawn(w, selected_action)
  /\ ui' = "launched"
  /\ UNCHANGED <<popup, directory, paused, selected_action, question, overwrite_type,
                 dont_prompt_overwrite, consent>>

FinishLaunchWith(state) ==
  /\ ui = "launched"
  /\ confirm_transfer_state' = state
  /\ selected_action' = "ACTION_NONE"
  /\ ui' = "input"
  /\ UNCHANGED <<popup, directory, paused, question, overwrite_type,
                 dont_prompt_overwrite, progress, worker, consent>>

\* MUTANT of FinishLaunch: the answer to the overwrite popup is not reset.
FinishLaunchKeepsAnswer == FinishLaunchWith(confirm_transfer_state)

FinishLaunch == FinishLaunchWith("unset")

\* pthread_create fails: the launcher undoes the lock itself.
LaunchFails ==
  /\ ui = "execute"
  /\ \/ selected_action \in DeleteOps \cup ArchiveOps
     \/ selected_action \in TransferOps /\ (dont_prompt_overwrite \/ confirm_transfer_state = "continue")
  /\ activity_inprogess' = FALSE
  /\ stop_activity' = FALSE
  /\ paused' = FALSE
  /\ consent' = consent \ {selected_action}
  /\ selected_action' = IF selected_action \in DeleteOps THEN "ACTION_REFRESH_FILES" ELSE "ACTION_NONE"
  /\ confirm_transfer_state' = IF selected_action \in TransferOps THEN "unset" ELSE confirm_transfer_state
  /\ ui' = "input"
  /\ UNCHANGED <<popup, directory, question, overwrite_type, dont_prompt_overwrite,
                 worker>>

UI ==
  \/ ClickDirectory \/ NoInput
  \/ CheckActivity \/ ShowProgress \/ ClickCancel
  \/ NoDialogInput \/ OpenMenu \/ CloseMenu
  \/ \E a \in Operations \cap DeleteOps : ChooseDelete(a)
  \/ \E a \in Operations \cap TransferOps : ChooseTransfer(a)
  \/ \E a \in Operations \cap ArchiveOps : ChooseArchive(a)
  \/ AnswerNo \/ AnswerYes
  \/ \E type \in OverwriteTypes :
       \/ CancelTransfer(type)
       \/ \E always \in AlwaysUse : ContinueTransfer(type, always)
  \/ ExecuteNothing \/ ExecuteChangeDirectory \/ ExecuteRefresh
  \/ \E w \in Workers : ExecuteAtOnce(w) \/ ExecuteTransfer(w)
  \/ FinishLaunch \/ LaunchFails

-------------------------------------------------------------------------------
(* The workers.                                                            *)

Goto(w, from, to) ==
  /\ pc[w] = from
  /\ pc' = [pc EXCEPT ![w] = to]

\* The data of a thread that has returned.
Forget(w) ==
  /\ op' = [op EXCEPT ![w] = "ACTION_NONE"]
  /\ left' = [left EXCEPT ![w] = 0]
  /\ exists' = [exists EXCEPT ![w] = FALSE]
  /\ target' = [target EXCEPT ![w] = 0]
  /\ cancelled' = [cancelled EXCEPT ![w] = "no"]
  /\ consent' = consent \ {w}

\* The thread copies the selection into its own list of files.
Start(w) ==
  /\ Goto(w, "start", "loop")
  /\ \E n \in 1..MaxFiles : left' = [left EXCEPT ![w] = n]
  /\ UNCHANGED <<uiVars, paused, selected_action, question, options, progress,
                 op, exists, target, cancelled, consent>>

\* ExtractZipThread returns at once when it cannot create its destination, and
\* leaves activity_inprogess and paused as they are.
ExtractMkDirsFails(w) ==
  /\ op[w] = "ACTION_EXTRACT_LOCAL_ZIP"
  /\ Goto(w, "start", "idle")
  /\ Forget(w)
  /\ UNCHANGED <<uiVars, paused, selected_action, question, options, progress>>

\* No file is left, or the user cancelled.  The delete loop itself has no test
\* of stop_activity.
LoopEnds(w) ==
  /\ left[w] = 0 \/ (stop_activity /\ op[w] \notin DeleteOps)
  /\ Goto(w, "loop", "end")
  /\ UNCHANGED <<uiVars, paused, selected_action, question, options, progress,
                 op, left, exists, target, cancelled, consent>>

\* The thread has found stop_activity unset and takes its next file.
TakeFile(w) ==
  cancelled' = [cancelled EXCEPT ![w] = IF @ = "yes" THEN "ignored" ELSE @]

\* RmRecursive returns at once; the loop of the delete goes on.
SkipFile(w) ==
  /\ op[w] \in DeleteOps
  /\ left[w] > 0
  /\ stop_activity
  /\ Goto(w, "loop", "loop")
  /\ left' = [left EXCEPT ![w] = @ - 1]
  /\ UNCHANGED <<uiVars, paused, selected_action, question, options, progress,
                 op, exists, target, cancelled, consent>>

WorkOn(w, untested) ==
  /\ op[w] \notin TransferOps
  /\ left[w] > 0
  /\ untested \/ ~stop_activity
  /\ Goto(w, "loop", "loop")
  /\ \/ left' = [left EXCEPT ![w] = @ - 1]
     \/ op[w] = "ACTION_EXTRACT_LOCAL_ZIP" /\ left' = [left EXCEPT ![w] = 0]
  /\ TakeFile(w)
  /\ UNCHANGED <<uiVars, paused, selected_action, question, options, progress,
                 op, exists, target, consent>>

\* MUTANT of WorkOnFile: the thread does not look at stop_activity.
WorkOnUntested(w) == WorkOn(w, TRUE)

\* One file of a delete, an extraction or a compression; a failed extraction
\* ends the loop.
WorkOnFile(w) == WorkOn(w, FALSE)

DecideFrom(w, least) ==
  /\ op[w] \in TransferOps
  /\ left[w] >= least
  /\ ~stop_activity
  /\ Goto(w, "loop", "decide")
  /\ \E there \in BOOLEAN :
       /\ ~(there /\ overwrite_type = "PROMPT")
       /\ exists' = [exists EXCEPT ![w] = there]
       /\ confirm_state' = IF there /\ overwrite_type = "NONE" THEN "NO" ELSE "YES"
  /\ TakeFile(w)
  /\ UNCHANGED <<uiVars, paused, selected_action, confirm_message, action_to_take,
                 options, progress, op, left, target, consent>>

\* MUTANT of DecideAlone: one more file than was selected.
DecideBeyondEnd(w) == DecideFrom(w, 0)

\* The next file of a transfer whose destination is free or whose overwrite
\* mode answers for the user.
DecideAlone(w) == DecideFrom(w, 1)

\* The next file exists at the destination and the user is to be asked: five
\* assignments with the poll of confirm_state in the middle.
MustAsk(w) ==
  /\ op[w] \in TransferOps
  /\ left[w] > 0
  /\ ~stop_activity
  /\ overwrite_type = "PROMPT"
  /\ Goto(w, "loop", "ask")
  /\ exists' = [exists EXCEPT ![w] = TRUE]
  /\ confirm_message' = w
  /\ consent' = consent \ {w}
  /\ TakeFile(w)
  /\ UNCHANGED <<uiVars, paused, selected_action, confirm_state, action_to_take,
                 options, progress, op, left, target>>

AskWith(w, state) ==
  /\ Goto(w, "ask", "capture")
  /\ confirm_state' = state
  /\ UNCHANGED <<uiVars, paused, selected_action, confirm_message, action_to_take,
                 options, progress, op, left, exists, target, cancelled, consent>>

\* MUTANT of Ask: the last answer is not cleared.
AskWithLastAnswer(w) == AskWith(w, confirm_state)

Ask(w) == AskWith(w, "WAIT")

CaptureAs(w, action) ==
  /\ Goto(w, "capture", "yield")
  /\ action_to_take' = action
  /\ UNCHANGED <<uiVars, paused, selected_action, confirm_state, confirm_message,
                 options, progress, op, left, exists, target, cancelled, consent>>

\* MUTANT of Capture: action_to_take is left from the last question.
CaptureNothing(w) == CaptureAs(w, action_to_take)

Capture(w) == CaptureAs(w, selected_action)

YieldWith(w, active) ==
  /\ Goto(w, "yield", "poll")
  /\ activity_inprogess' = active
  /\ UNCHANGED <<uiVars, paused, selected_action, question, options, stop_activity,
                 op, left, exists, target, cancelled, consent>>

\* MUTANT of Yield: the progress dialog keeps the screen.
YieldNothing(w) == YieldWith(w, TRUE)

Yield(w) == YieldWith(w, FALSE)

Poll(w) ==
  /\ confirm_state # "WAIT"
  /\ Goto(w, "poll", "resume")
  /\ UNCHANGED <<uiVars, paused, selected_action, question, options, progress,
                 op, left, exists, target, cancelled, consent>>

Resume(w) ==
  /\ Goto(w, "resume", "restore")
  /\ activity_inprogess' = TRUE
  /\ UNCHANGED <<uiVars, paused, selected_action, question, options, stop_activity,
                 op, left, exists, target, cancelled, consent>>

Restore(w) ==
  /\ Goto(w, "restore", "decide")
  /\ selected_action' = action_to_take
  /\ UNCHANGED <<uiVars, paused, question, options, progress,
                 op, left, exists, target, cancelled, consent>>

\* The file is transferred if confirm_state says so and skipped otherwise.
Decide(w) ==
  /\ Goto(w, "decide", "loop")
  /\ left' = [left EXCEPT ![w] = @ - 1]
  /\ exists' = [exists EXCEPT ![w] = FALSE]
  /\ consent' = consent \ {w}
  /\ UNCHANGED <<uiVars, paused, selected_action, question, options, progress,
                 op, target, cancelled>>

\* The last assignments of every thread function.
End(w) ==
  /\ Goto(w, "end", "unlock")
  /\ activity_inprogess' = FALSE
  /\ UNCHANGED <<uiVars, paused, selected_action, question, options, stop_activity,
                 op, left, exists, target, cancelled, consent>>

Unlock(w) ==
  /\ Goto(w, "unlock", "refresh")
  /\ paused' = FALSE
  /\ UNCHANGED <<uiVars, selected_action, question, options, progress,
                 op, left, exists, target, cancelled, consent>>

\* The thread returns: its slot and its locals are free again.
Refresh(w) ==
  /\ Goto(w, "refresh", "idle")
  /\ selected_action' = "ACTION_REFRESH_FILES"
  /\ Forget(w)
  /\ UNCHANGED <<uiVars, paused, question, options, progress>>

Work(w) ==
  \/ Start(w) \/ ExtractMkDirsFails(w)
  \/ LoopEnds(w) \/ SkipFile(w) \/ WorkOnFile(w) \/ DecideAlone(w)
  \/ MustAsk(w) \/ Ask(w) \/ Capture(w) \/ Yield(w) \/ Poll(w) \/ Resume(w) \/ Restore(w)
  \/ Decide(w)
  \/ End(w) \/ Unlock(w) \/ Refresh(w)

Next == UI \/ \E w \in Workers : Work(w)

\* The render loop never stops and the scheduler runs every thread.  Nothing
\* is assumed of the user.
Fairness == WF_vars(UI) /\ \A w \in Workers : WF_vars(Work(w))

Spec == Init /\ [][Next]_vars

FairSpec == Spec /\ Fairness

-------------------------------------------------------------------------------
(* Properties.                                                             *)

\* The globals and the threads' own data keep the values the code gives them.
TypeOK ==
  /\ ui \in Phases
  /\ popup \in Popups
  /\ paused \in BOOLEAN
  /\ selected_action \in Actions
  /\ action_to_take \in Actions
  /\ confirm_state \in {"NONE", "WAIT", "YES", "NO"}
  /\ confirm_message \in {"none"} \cup DeleteOps \cup Workers
  /\ confirm_transfer_state \in {"unset", "ask", "continue", "cancel"}
  /\ overwrite_type \in OverwriteTypes
  /\ dont_prompt_overwrite \in BOOLEAN
  /\ activity_inprogess \in BOOLEAN
  /\ stop_activity \in BOOLEAN
  /\ directory \in {0, 1}
  /\ pc \in [Workers -> Steps]
  /\ op \in [Workers -> Operations \cup {"ACTION_NONE"}]
  /\ left \in [Workers -> 0..MaxFiles]
  /\ exists \in [Workers -> BOOLEAN]
  /\ target \in [Workers -> {0, 1}]
  /\ cancelled \in [Workers -> {"no", "yes", "ignored"}]
  /\ consent \subseteq DeleteOps \cup Workers

\* Only one operation runs at a time: the modal dialogs and the order in which
\* ExecuteActions and the threads write selected_action keep a second thread
\* from being launched while one is busy (README.md:7 says so).
SingleOperation == \A v, w \in Busy : v = w

\* A file that exists is overwritten only if the user chose "do not ask" or
\* answered Yes to the question about this file: an answer that belongs to
\* another question, or is left over from one, never decides it.
OverwriteConsent ==
  \A w \in Workers :
    pc[w] = "decide" /\ exists[w] /\ confirm_state = "YES" =>
      overwrite_type = "ALL" \/ w \in consent

\* Everything a thread transfers goes to the directory that was shown when it
\* was launched, although the thread reads the shown directory for each file.
DestinationStable ==
  \A w \in Workers : pc[w] = "decide" => directory = target[w]

\* A delete is launched only after a Yes to the delete question, and each Yes
\* launches one: the Yes to an overwrite question never launches a delete.
DeleteConsent ==
  [][\A w \in Workers :
       pc[w] = "idle" /\ pc'[w] = "start" /\ op'[w] \in DeleteOps =>
         op'[w] \in consent]_vars

\* A worker that polls for an answer is not left alone: the confirm popup gets
\* on the screen with its buttons live.
QuestionShown ==
  \A w \in Workers :
    pc[w] = "poll" /\ confirm_state = "WAIT" ~> ui = "dialogs" /\ popup = "confirm"

\* A Cancel is not lost: a thread that was busy when the user cancelled takes no
\* further file, although stop_activity is one flag for all threads, which every
\* launch resets, and each kind of thread looks at it in a place of its own.
CancelHeeded == \A w \in Workers : cancelled[w] # "ignored"
===============================================================================
