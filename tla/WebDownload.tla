------------------------------ MODULE WebDownload ------------------------------
(***************************************************************************)
(* The download_url handler of the web server (http_server.cpp) beside the *)
(* native interface.  It downloads in a thread of the server and uses the  *)
(* globals of the native operations to show it: it sets activity_inprogess *)
(* and locks the window, and takes both back when it ends, whatever the    *)
(* native interface is doing.                                              *)
(***************************************************************************)
EXTENDS Activity

VARIABLES
  web,       (* the next step of the handler                                 *)
  uncovered  (* history: the handler took the dialog or the lock away from a
                native operation                                             *)

webVars == <<vars, web, uncovered>>

WebInit ==
  /\ Init
  /\ web = "idle"
  /\ uncovered = FALSE

\* A request with a valid URL.  One that is not valid returns before this.
Request ==
  /\ web = "idle"
  /\ web' = "lock"
  /\ activity_inprogess' = TRUE
  /\ UNCHANGED <<uiVars, paused, selected_action, question, options, stop_activity,
                 worker, consent, uncovered>>

Lock ==
  /\ web = "lock"
  /\ web' = "download"
  /\ paused' = TRUE
  /\ UNCHANGED <<uiVars, selected_action, question, options, progress, worker, consent,
                 uncovered>>

\* The link was found or not, the file is there or not, and has been downloaded
\* or not: each way out ends with the same assignments.
Finish ==
  /\ web = "download"
  /\ web' = "unlock"
  /\ activity_inprogess' = FALSE
  /\ uncovered' = (uncovered \/ Busy # {})
  /\ UNCHANGED <<uiVars, paused, selected_action, question, options, stop_activity,
                 worker, consent>>

UnlockWindow ==
  /\ web = "unlock"
  /\ web' = "idle"
  /\ paused' = FALSE
  /\ uncovered' = (uncovered \/ Busy # {})
  /\ UNCHANGED <<uiVars, selected_action, question, options, progress, worker, consent>>

DownloadUrl == Request \/ Lock \/ Finish \/ UnlockWindow

\* The user, once the dialog is gone for the rest of a native operation: the
\* screen is what Settled waits for, and the dialog does not come back to it.
Hasty == INSTANCE Activity WITH HurriedUser <- TRUE

WebNext ==
  \/ Next /\ UNCHANGED <<web, uncovered>>
  \/ uncovered /\ Hasty!UI /\ UNCHANGED <<web, uncovered>>
  \/ DownloadUrl

WebSpec == WebInit /\ [][WebNext]_webVars

\* The property that fails here is SingleOperation of Activity: the end of a
\* download uncovers the menu beside a native operation that is still running,
\* and the user can start another (http_server.cpp:1042-1044).

===============================================================================
