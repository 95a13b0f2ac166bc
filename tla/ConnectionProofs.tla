--------------------------- MODULE ConnectionProofs ---------------------------
(***************************************************************************)
(* Proofs about Connection, for any number of connections, keep-alive      *)
(* threads and files, and any idle times: who may talk to a client, whose  *)
(* listing is on the screen, and what every bad pointer goes back to.      *)
(* And about Settings, which say where to connect, for any sites: what     *)
(* reading makes of a file it was given to write, that a save nothing has  *)
(* gone wrong with is loaded, and that the program connects where the user *)
(* said, but for the sites a start has converted from a damaged file.      *)
(***************************************************************************)
EXTENDS Connection, Settings, TLAPS, SequenceTheorems, WellFoundedInduction

-------------------------------------------------------------------------------
(* The inductive invariant.                                                *)

UI_Step == at["ui"]
WorkerStep == at["worker"]

\* While an operation runs, the frame loop has nothing to do but to draw.
WorkerAlone ==
  WorkerStep # "idle" =>
    selected_action = "ACTION_NONE" /\ UI_Step \in {"panel", "look", "input", "execute"}

\* Only a thread that has asked talks, and keep-alive threads never come to ask:
\* the difference of two microsecond fields does not reach the threshold.
WhoTalks ==
  /\ talking["ui"] # NULL => UI_Step \in {"connect", "chdir", "mkdir", "ping", "list"}
  /\ talking["worker"] # NULL => WorkerStep \in {"first", "answer"}
  /\ \A t \in KeepAlives : talking[t] = NULL

\* Steps that use the pointer without asking it have one, and a file under way is
\* counted.
Pointed ==
  /\ UI_Step \in {"connect", "chdir", "mkdir", "ping", "list", "delete"} => remoteclient # NULL
  /\ WorkerStep \in {"first", "answer", "delete"} => remoteclient # NULL
  /\ WorkerStep \in {"delete", "clear"} => remoteclient \in failed
  /\ WorkerStep = "answer" => left > 0

\* A session nobody has given up is that of the client of the screen.
Held(c) == client[c].session = "open" /\ c \notin failed

Sessions ==
  /\ \A c \in Clients : Held(c) => client[c].connected /\ remoteclient = c
  /\ \A c \in Clients : client[c].memory = "unused" => client[c].session = "none"
  /\ selected_action = "ACTION_CONNECT" => UI_Step \in
       {"execute", "connect", "refresh", "ping", "list", "connected", "delete", "clear"}
  /\ UI_Step = "connected" => selected_action = "ACTION_CONNECT"
  /\ UI_Step = "connect" =>
       client[remoteclient].session = "none" /\ client[remoteclient].memory = "live"
  /\ \/ selected_action = "ACTION_CONNECT" /\ UI_Step = "execute"
     \/ UI_Step \in {"delete", "clear"}
     => \A c \in Clients : ~Held(c)

\* The pointer leads to an open session of a client that is there, once it is
\* connected and until it is dropped, as long as no request has failed.
Fresh ==
  remoteclient # NULL /\ remoteclient \notin failed /\ UI_Step \notin {"connect", "delete", "clear"} =>
    client[remoteclient].memory = "live" /\ client[remoteclient].session = "open"

\* What is listed is open.
Listed ==
  remote_files # NULL /\ remote_files \notin failed => client[remote_files].session = "open"

\* The pointer leads to the client made last, if anywhere; clients are made in order.
Latest ==
  /\ remoteclient # NULL => Newest(remoteclient) /\ client[remoteclient].memory # "unused"
  /\ \A c \in Clients : client[c].memory = "unused" => Newest(c)

\* A request on the client made last has failed.
GivenUp == \E c \in failed : Newest(c)

\* As long as that is not so, whoever is about to use the pointer has one.
Explained ==
  ~GivenUp /\ ~blind =>
    /\ misuse \notin {"ui", "worker"}
    /\ \/ UI_Step = "look"
       \/ selected_action \in Operations
       \/ selected_action \in {"ACTION_CHANGE_REMOTE_DIRECTORY", "ACTION_NEW_REMOTE_FOLDER"}
       \/ selected_action = "ACTION_CONNECT" /\ UI_Step \in {"refresh", "ping", "list", "connected"}
       \/ remote_files # NULL
       \/ WorkerStep # "idle"
       => remoteclient # NULL
    /\ UI_Step \in {"delete", "clear"} =>
         /\ remote_files = NULL
         /\ selected_action \in
              {"ACTION_CONNECT", "ACTION_DISCONNECT", "ACTION_DISCONNECT_AND_EXIT"}

ConnInv ==
  /\ TypeOK
  /\ WorkerAlone
  /\ WhoTalks
  /\ Pointed
  /\ Sessions
  /\ Fresh
  /\ Listed
  /\ stale \subseteq failed
  /\ Latest
  /\ Explained

-------------------------------------------------------------------------------
(* Types.                                                                  *)

Steps == FrameSteps \cup WorkerSteps \cup DropSteps \cup KeepAliveSteps

\* The threads are different, and each has steps of its own.
LEMMA ThreadNames ==
  /\ "ui" \in Threads /\ "worker" \in Threads /\ KeepAlives \subseteq Threads
  /\ "ui" \notin KeepAlives /\ "worker" \notin KeepAlives /\ "none" \notin KeepAlives
BY ConnectionAssumption DEF Threads

\* What hanging up and a failing Ping do to a client.
LEMMA RecordChanges ==
  ASSUME NEW r \in Record
  PROVE  /\ Quit(r) \in Record /\ PingFailed(r) \in Record /\ HangUp(r) \in Record
         /\ Quit(r).memory = r.memory /\ PingFailed(r).memory = r.memory /\ HangUp(r).memory = r.memory
         /\ PingFailed(r).session = r.session
         /\ Quit(r).session = IF r.session = "open" THEN "closed" ELSE r.session
         /\ HangUp(r).session = IF r.connected /\ r.session = "open" THEN "closed" ELSE r.session
<1>1. /\ (r.connected /\ r.kind # "FTP") \in BOOLEAN
      /\ (r.connected /\ r.kind # "SFTP") \in BOOLEAN
      /\ (IF r.session = "open" THEN "closed" ELSE r.session) \in {"none", "open", "closed"}
  BY DEF Record
<1>2. Quit(r) = [r EXCEPT !.session = IF r.session = "open" THEN "closed" ELSE r.session,
                          !.connected = r.connected /\ r.kind # "FTP"]
  BY DEF Quit
<1>3. /\ Quit(r) \in Record /\ Quit(r).memory = r.memory
      /\ Quit(r).session = IF r.session = "open" THEN "closed" ELSE r.session
  BY <1>1, <1>2 DEF Record
<1>4. PingFailed(r) = [r EXCEPT !.connected = r.connected /\ r.kind # "SFTP"]
  BY DEF PingFailed
<1>5. PingFailed(r) \in Record /\ PingFailed(r).memory = r.memory /\ PingFailed(r).session = r.session
  BY <1>1, <1>4 DEF Record
<1>6. CASE r.connected
  BY <1>3, <1>5, <1>6 DEF HangUp
<1>7. CASE ~r.connected
  BY <1>3, <1>5, <1>7 DEF HangUp
<1> QED
  BY <1>6, <1>7

\* A new client, one that is connected, one that is deleted and one that has lost
\* its link are records too.
LEMMA RecordEdits ==
  ASSUME NEW r \in Record
  PROVE  /\ \A kind \in Kinds :
              LET s == [NoClient EXCEPT !.kind = kind, !.memory = "live"]
              IN  s \in Record /\ s.memory = "live" /\ s.session = "none"
         /\ \A answered, link \in BOOLEAN :
              LET s == [r EXCEPT !.session = "open", !.connected = answered, !.link = link]
              IN  s \in Record /\ s.memory = r.memory /\ s.session = "open" /\ s.connected = answered
         /\ LET s == [r EXCEPT !.memory = "deleted"]
            IN  /\ s \in Record /\ s.memory = "deleted" /\ s.session = r.session
                /\ s.connected = r.connected
         /\ LET s == [r EXCEPT !.link = FALSE]
            IN  /\ s \in Record /\ s.memory = r.memory /\ s.session = r.session
                /\ s.connected = r.connected
BY DEF Record, NoClient

\* Every step keeps the types.
LEMMA TypesStep == TypeOK /\ Pointed /\ [Next]_vars => TypeOK'
<1> SUFFICES ASSUME TypeOK, Pointed, [Next]_vars PROVE TypeOK'
  OBVIOUS
<1> USE DEF TypeOK, Steps
<1>0. /\ client \in [Clients -> Record] /\ remoteclient \in Clients \cup {NULL}
      /\ remote_files \in Clients \cup {NULL} /\ failed \subseteq Clients /\ stale \subseteq Clients
      /\ at \in [Threads -> Steps] /\ talking \in [Threads -> Clients \cup {NULL}]
      /\ selected_action \in Actions /\ op \in Operations \cup {"ACTION_NONE"}
      /\ left \in 0..MaxFiles /\ blind \in BOOLEAN /\ misuse \in Threads \cup {"none"}
      /\ Pointed
  OBVIOUS
<1>r. \A c \in Clients : client[c] \in Record /\ Quit(client[c]) \in Record
        /\ Quit(PingFailed(client[c])) \in Record /\ HangUp(client[c]) \in Record
        /\ HangUp(PingFailed(client[c])) \in Record
  BY RecordChanges
<1>n. \A c \in Clients :
        /\ \A kind \in Kinds : [NoClient EXCEPT !.kind = kind, !.memory = "live"] \in Record
        /\ \A answered, link \in BOOLEAN :
             [client[c] EXCEPT !.session = "open", !.connected = answered, !.link = link] \in Record
        /\ [client[c] EXCEPT !.memory = "deleted"] \in Record
        /\ [client[c] EXCEPT !.link = FALSE] \in Record
  BY RecordEdits
<1>t. "ui" \in Threads /\ "worker" \in Threads /\ KeepAlives \subseteq Threads
  BY ThreadNames
<1>1. CASE TestPanel
  BY <1>0, <1>1 DEF TestPanel, pointers, job, history, FrameSteps
<1>2. CASE LookPanel
  BY <1>0, <1>t, <1>2 DEF LookPanel, Misuse, pointers, job, history, FrameSteps
<1>3. CASE ClickButton
  BY <1>0, <1>3 DEF ClickButton, Choose, pointers, job, Actions, FrameSteps
<1>4. CASE ClickRefresh
  BY <1>0, <1>4 DEF ClickRefresh, Choose, pointers, job, Actions, FrameSteps
<1>5. CASE ClickExit
  BY <1>0, <1>5 DEF ClickExit, Choose, pointers, job, Actions, FrameSteps
<1>6. CASE ClickEntry
  BY <1>0, <1>6 DEF ClickEntry, Choose, pointers, job, Actions, FrameSteps
<1>7. CASE ChooseRemote
  BY <1>0, <1>7 DEF ChooseRemote, Choose, pointers, job, Actions, Operations, FrameSteps
<1>8. CASE ChooseUpload
  BY <1>0, <1>8 DEF ChooseUpload, Choose, pointers, job, Actions, Operations, FrameSteps
<1>9. CASE NoInput
  BY <1>0, <1>9 DEF NoInput, pointers, job, history, FrameSteps
<1>10. CASE ExecuteLocal
  BY <1>0, <1>10 DEF ExecuteLocal, Handled, pointers, job, history, Actions, FrameSteps
<1>11. CASE ExecuteConnect
  <2>1. PICK kind \in Kinds, c \in Clients :
          /\ client' = [client EXCEPT ![c] = [NoClient EXCEPT !.kind = kind, !.memory = "live"]]
          /\ remoteclient' = c
          /\ talking' = [talking EXCEPT !["ui"] = c]
    BY <1>11 DEF ExecuteConnect, Unused
  <2>2. client' \in [Clients -> Record]
    BY <1>0, <1>n, <2>1
  <2> QED
    BY <1>0, <1>11, <2>1, <2>2 DEF ExecuteConnect, job, history, FrameSteps
<1>12. CASE ConnectUnknown
  BY <1>0, <1>12 DEF ConnectUnknown, Handled, pointers, job, history, Actions, FrameSteps
<1>13. CASE ExecuteChange
  BY <1>0, <1>t, <1>13
     DEF ExecuteChange, Send, Misuse, StaleUse, Callable, Reaches, pointers, job,
         history, FrameSteps
<1>14. CASE ExecuteNewFolder
  BY <1>0, <1>t, <1>14
     DEF ExecuteNewFolder, Send, Misuse, StaleUse, Callable, Reaches, pointers, job,
         history, FrameSteps
<1>15. CASE ExecuteRefresh
  BY <1>0, <1>15 DEF ExecuteRefresh, pointers, job, history, FrameSteps
<1>16. CASE ExecuteOperation
  BY <1>0, <1>t, <1>16
     DEF ExecuteOperation, pointers, history, Actions, Unused, FrameSteps, WorkerSteps
<1>17. CASE ExecuteDisconnect
  BY <1>0, <1>r, <1>17 DEF ExecuteDisconnect, Cleared, job, history, DropSteps
<1>18. CASE ConnectSucceeds
  <2>1. client' \in [Clients -> Record]
    <3>1. PICK answered \in BOOLEAN, link \in BOOLEAN :
            client' = [client EXCEPT ![remoteclient].session = "open",
                                     ![remoteclient].connected = answered,
                                     ![remoteclient].link = link]
      BY <1>18 DEF ConnectSucceeds
    <3>2. remoteclient \in Clients
      BY <1>0, <1>18 DEF ConnectSucceeds, Pointed, UI_Step
    <3>3. client' = [client EXCEPT ![remoteclient] =
             [@ EXCEPT !.session = "open", !.connected = answered, !.link = link]]
      BY <3>1
    <3> QED
      BY <1>0, <1>n, <3>3
  <2> QED
    BY <1>0, <1>18, <2>1 DEF ConnectSucceeds, Answered, job, Pointed, UI_Step, FrameSteps
<1>19. CASE ConnectFails
  BY <1>0, <1>19 DEF ConnectFails, Answered, pointers, job, Pointed, UI_Step, DropSteps
<1>20. CASE ConnectReturns
  BY <1>0, <1>t, <1>20
     DEF ConnectReturns, Misuse, pointers, job, history, Actions, FrameSteps,
         KeepAliveSteps
<1>21. CASE ChangeAnswered
  BY <1>0, <1>r, <1>21 DEF ChangeAnswered, Answered, job, Pointed, UI_Step, FrameSteps
<1>22. CASE NewFolderAnswered
  BY <1>0, <1>22
     DEF NewFolderAnswered, Handled, pointers, job, Actions, Pointed, UI_Step, FrameSteps
<1>23. CASE RefreshWithoutClient
  BY <1>0, <1>23
     DEF RefreshWithoutClient, Returns, Handled, pointers, job, history, Actions,
         FrameSteps
<1>24. CASE RefreshAsks
  BY <1>0, <1>t, <1>24
     DEF RefreshAsks, Send, Misuse, StaleUse, pointers, job, history, FrameSteps
<1>25. CASE RefreshGoesOn
  BY <1>0, <1>25 DEF RefreshGoesOn, job, history, FrameSteps
<1>26. CASE RefreshDrops
  BY <1>0, <1>r, <1>26
     DEF RefreshDrops, Returns, Handled, job, Actions, Pointed, UI_Step, FrameSteps
<1>27. CASE RefreshLists
  BY <1>0, <1>27 DEF RefreshLists, Returns, Handled, job, history, Actions, FrameSteps
<1>28. CASE DeleteClient("ui")
  <2>1. client' \in [Clients -> Record]
    <3>1. client' = [client EXCEPT ![remoteclient] = [@ EXCEPT !.memory = "deleted"]]
      BY <1>28 DEF DeleteClient
    <3>2. remoteclient \in Clients
      BY <1>0, <1>28 DEF DeleteClient, Pointed, UI_Step
    <3> QED
      BY <1>0, <1>n, <3>1
  <2> QED
    BY <1>0, <1>28, <2>1 DEF DeleteClient, job, history, Pointed, UI_Step, DropSteps
<1>29. CASE DeleteClient("worker")
  <2>1. client' \in [Clients -> Record]
    <3>1. client' = [client EXCEPT ![remoteclient] = [@ EXCEPT !.memory = "deleted"]]
      BY <1>29 DEF DeleteClient
    <3>2. remoteclient \in Clients
      BY <1>0, <1>29 DEF DeleteClient, Pointed, WorkerStep
    <3> QED
      BY <1>0, <1>n, <3>1
  <2> QED
    BY <1>0, <1>29, <2>1 DEF DeleteClient, job, history, Pointed, WorkerStep, DropSteps
<1>30. CASE ClearPointer("ui")
  BY <1>0, <1>30 DEF ClearPointer, Dropped, job, history, Actions, FrameSteps
<1>31. CASE ClearPointer("worker")
  BY <1>0, <1>31 DEF ClearPointer, Dropped, job, history, WorkerSteps
<1>32. CASE WorkerAsks
  BY <1>0, <1>t, <1>32
     DEF WorkerAsks, Send, Misuse, StaleUse, Callable, Reaches, pointers, job, history,
         WorkerSteps
<1>33. CASE DeleteStarts
  BY <1>0, <1>33 DEF DeleteStarts, Answered, pointers, job, history, WorkerSteps
<1>34. CASE DeleteDisconnects
  BY <1>0, <1>r, <1>34
     DEF DeleteDisconnects, Answered, Cleared, job, Pointed, WorkerStep, DropSteps
<1>35. CASE FileDone
  BY <1>0, <1>t, <1>35, ConnectionAssumption
     DEF FileDone, Answered, pointers, history, Pointed, WorkerStep, WorkerSteps
<1>36. CASE FileFails
  BY <1>0, <1>r, <1>t, <1>36, ConnectionAssumption
     DEF FileFails, Answered, Pointed, WorkerStep, WorkerSteps
<1>37. CASE WorkerEnds
  BY <1>0, <1>37 DEF WorkerEnds, pointers, history, Actions, WorkerSteps
<1>38. ASSUME NEW t \in KeepAlives, KeepAliveNull(t) PROVE TypeOK'
  BY <1>0, <1>38 DEF KeepAliveNull, pointers, job, history, KeepAliveSteps
<1>39. ASSUME NEW t \in KeepAlives, KeepAliveType(t) PROVE TypeOK'
  BY <1>0, <1>t, <1>39 DEF KeepAliveType, Misuse, pointers, job, history, KeepAliveSteps
<1>40. ASSUME NEW t \in KeepAlives, KeepAliveState(t) PROVE TypeOK'
  BY <1>0, <1>t, <1>40 DEF KeepAliveState, Misuse, pointers, job, history, KeepAliveSteps
<1>41. ASSUME NEW t \in KeepAlives, KeepAliveAsk(t) PROVE TypeOK'
  BY <1>0, <1>t, <1>41 DEF KeepAliveAsk, Misuse, pointers, job, history, KeepAliveSteps
<1>42. ASSUME NEW t \in KeepAlives, KeepAliveSleep(t) PROVE TypeOK'
  BY <1>0, <1>r, <1>t, <1>42 DEF KeepAliveSleep, job, history, KeepAliveSteps
<1>43. ASSUME NEW c \in Clients, LinkGoesDown(c) PROVE TypeOK'
  <2>1. client' = [client EXCEPT ![c] = [@ EXCEPT !.link = FALSE]]
    BY <1>43 DEF LinkGoesDown
  <2>2. client' \in [Clients -> Record]
    BY <1>0, <1>n, <2>1
  <2> QED
    BY <1>0, <1>43, <2>2 DEF LinkGoesDown, TypeOK, job, history
<1>44. CASE UNCHANGED vars
  BY <1>0, <1>44 DEF TypeOK, vars, pointers, job, history
<1> QED
  BY <1>1, <1>2, <1>3, <1>4, <1>5, <1>6, <1>7, <1>8, <1>9, <1>10, <1>11, <1>12, <1>13,
     <1>14, <1>15, <1>16, <1>17, <1>18, <1>19, <1>20, <1>21, <1>22, <1>23, <1>24, <1>25,
     <1>26, <1>27, <1>28, <1>29, <1>30, <1>31, <1>32, <1>33, <1>34, <1>35, <1>36, <1>37,
     <1>38, <1>39, <1>40, <1>41, <1>42, <1>43, <1>44
     DEF Next, UI, Drop, Worker, KeepAlive, Ended

\* Everything but the types.
RestInv ==
  /\ WorkerAlone /\ WhoTalks /\ Pointed /\ Sessions /\ Fresh /\ Listed
  /\ stale \subseteq failed /\ Explained /\ Latest

\* The idle time of a keep-alive thread, the difference of two numbers of microseconds
\* below a second, is never over the threshold, a minute.
LEMMA IdleIsShort == \A idle \in GetIdleTime : ~(idle > Threshold)
BY ConnectionAssumption DEF GetIdleTime

\* The client made last stays so until Connect makes another.
LEMMA LatestStep ==
  ASSUME ConnInv, [Next]_vars
  PROVE  /\ Latest'
         /\ remoteclient \in failed => GivenUp
         /\ ~ExecuteConnect =>
              /\ failed' = failed => (GivenUp' <=> GivenUp)
              /\ failed' = failed \cup {remoteclient} /\ remoteclient # NULL => GivenUp'
<1>0. /\ client \in [Clients -> Record] /\ remoteclient \in Clients \cup {NULL}
      /\ failed \subseteq Clients /\ NULL \notin Clients /\ Clients \subseteq Int
      /\ talking \in [Threads -> Clients \cup {NULL}]
      /\ Pointed /\ Latest
  BY ConnectionAssumption DEF ConnInv, TypeOK, NULL, Clients
<1>1. remoteclient \in failed => GivenUp
  BY <1>0 DEF Latest, GivenUp
<1>2. CASE ExecuteConnect
  <2>1. PICK kind \in Kinds, c \in Unused :
          /\ \A d \in Unused : c <= d
          /\ client' = [client EXCEPT ![c] = [NoClient EXCEPT !.kind = kind, !.memory = "live"]]
          /\ remoteclient' = c
    BY <1>2 DEF ExecuteConnect
  <2>2. c \in Clients /\ client[c].memory = "unused"
    BY DEF Unused
  <2>3. client'[c].memory = "live"
    BY <1>0, <2>1, <2>2 DEF NoClient
  <2>4. \A d \in Clients : d # c => client'[d] = client[d]
    BY <1>0, <2>1, <2>2
  <2>5. \A d \in Clients : d > c => client'[d].memory = "unused"
    <3>1. Newest(c)
      BY <1>0, <2>2 DEF Latest
    <3>2. c \in Int /\ \A d \in Clients : d \in Int
      BY <1>0, <2>2
    <3>3. ASSUME NEW d \in Clients, d > c PROVE client'[d].memory = "unused"
      <4>1. d # c
        BY <3>2, <3>3
      <4>2. client'[d] = client[d]
        BY <2>4, <4>1
      <4>3. client[d].memory = "unused"
        BY <3>1, <3>3 DEF Newest
      <4> QED
        BY <4>2, <4>3
    <3> QED
      BY <3>3
  <2>6. ASSUME NEW d \in Clients, client'[d].memory = "unused", NEW e \in Clients, e > d
        PROVE  client'[e].memory = "unused"
    <3>1. d # c /\ client[d].memory = "unused"
      BY <2>3, <2>4, <2>6
    <3>2. c <= d
      BY <2>1, <3>1 DEF Unused
    <3> QED
      BY <1>0, <2>2, <2>5, <2>6, <3>2
  <2> QED
    BY <1>1, <1>2, <2>1, <2>2, <2>3, <2>5, <2>6 DEF Latest, Newest
<1>3. CASE ~ExecuteConnect
  <2>1. /\ \A c \in Clients : client'[c].memory = "unused" <=> client[c].memory = "unused"
        /\ remoteclient' \in {remoteclient, NULL}
    <3> DEFINE Same == /\ \A c \in Clients :
                            client'[c].memory = "unused" <=> client[c].memory = "unused"
                       /\ remoteclient' \in {remoteclient, NULL}
    <3>q. \A c \in Clients :
            /\ Quit(client[c]).memory = client[c].memory
            /\ Quit(PingFailed(client[c])).memory = client[c].memory
            /\ HangUp(client[c]).memory = client[c].memory
            /\ HangUp(PingFailed(client[c])).memory = client[c].memory
      <4>1. ASSUME NEW c \in Clients PROVE client[c] \in Record /\ PingFailed(client[c]) \in Record
        BY <1>0, RecordChanges
      <4> QED
        BY <4>1, RecordChanges
    <3>e. ASSUME NEW c \in Clients, NEW record, client' = [client EXCEPT ![c] = record],
                 record.memory = client[c].memory
          PROVE  \A d \in Clients : client'[d].memory = client[d].memory
      BY <1>0, <3>e
    <3>1. CASE UI
      <4>1. CASE ExecuteDisconnect
        BY <1>0, <3>q, <3>e, <4>1 DEF ExecuteDisconnect
      <4>2. CASE ConnectSucceeds
        <5>1. PICK answered \in BOOLEAN, link \in BOOLEAN :
                client' = [client EXCEPT ![remoteclient] =
                  [@ EXCEPT !.session = "open", !.connected = answered, !.link = link]]
          BY <4>2 DEF ConnectSucceeds
        <5>2. remoteclient \in Clients /\ remoteclient' = remoteclient
          BY <1>0, <4>2 DEF ConnectSucceeds, Pointed, UI_Step
        <5>3. client[remoteclient] \in Record
          BY <1>0, <5>2
        <5>4. [client[remoteclient] EXCEPT !.session = "open", !.connected = answered,
                                           !.link = link].memory = client[remoteclient].memory
          BY <5>3 DEF Record
        <5> QED
          BY <1>0, <3>e, <5>1, <5>2, <5>4
      <4>3. CASE ChangeAnswered
        BY <1>0, <3>q, <3>e, <4>3 DEF ChangeAnswered, Pointed, UI_Step
      <4>4. CASE RefreshDrops
        BY <1>0, <3>q, <3>e, <4>4 DEF RefreshDrops, Pointed, UI_Step
      <4>5. CASE UNCHANGED <<client, remoteclient>>
        BY <4>5
      <4> QED
        BY <1>3, <3>1, <4>1, <4>2, <4>3, <4>4, <4>5
           DEF UI, TestPanel, LookPanel, ClickButton, ClickRefresh, ClickExit, ClickEntry,
               ChooseRemote, ChooseUpload, NoInput, ExecuteLocal, ConnectUnknown, ExecuteChange,
               ExecuteNewFolder, ExecuteRefresh, ExecuteOperation, ConnectFails, ConnectReturns,
               NewFolderAnswered, RefreshWithoutClient, RefreshAsks, RefreshGoesOn,
               RefreshLists, Choose, Misuse, pointers
    <3>2. CASE Drop
      <4>1. PICK t \in {"ui", "worker"} : DeleteClient(t) \/ ClearPointer(t)
        BY <3>2 DEF Drop
      <4>2. CASE DeleteClient(t)
        <5>1. client' = [client EXCEPT ![remoteclient] = [@ EXCEPT !.memory = "deleted"]]
          BY <4>2 DEF DeleteClient
        <5>2. remoteclient \in Clients /\ remoteclient' = remoteclient
          BY <1>0, <4>2 DEF DeleteClient, Pointed, UI_Step, WorkerStep
        <5>3. client[remoteclient].memory # "unused" /\ client[remoteclient] \in Record
          BY <1>0, <5>2 DEF Latest
        <5>4. [client[remoteclient] EXCEPT !.memory = "deleted"].memory = "deleted"
          BY <5>3 DEF Record
        <5> QED
          BY <1>0, <5>1, <5>2, <5>3, <5>4
      <4>3. CASE ClearPointer(t)
        BY <4>3 DEF ClearPointer, Dropped
      <4> QED
        BY <4>1, <4>2, <4>3
    <3>3. CASE Worker
      <4>1. CASE DeleteDisconnects
        BY <1>0, <3>q, <3>e, <4>1 DEF DeleteDisconnects, Pointed, WorkerStep
      <4>2. CASE FileFails
        BY <1>0, <3>q, <3>e, <4>2 DEF FileFails, Pointed, WorkerStep
      <4> QED
        BY <3>3, <4>1, <4>2
           DEF Worker, WorkerAsks, DeleteStarts, FileDone, WorkerEnds, Misuse, pointers
    <3>4. ASSUME NEW t \in KeepAlives, KeepAlive(t) PROVE Same
      <4>1. CASE KeepAliveSleep(t)
        <5>1. t \in Threads
          BY ThreadNames
        <5> QED
          BY <1>0, <3>q, <3>e, <4>1, <5>1 DEF KeepAliveSleep
      <4> QED
        BY <3>4, <4>1
           DEF KeepAlive, KeepAliveNull, KeepAliveType, KeepAliveState, KeepAliveAsk, Misuse, pointers
    <3>5. ASSUME NEW c \in Clients, LinkGoesDown(c) PROVE Same
      <4>1. client' = [client EXCEPT ![c] = [@ EXCEPT !.link = FALSE]] /\ remoteclient' = remoteclient
        BY <3>5 DEF LinkGoesDown
      <4>2. client[c] \in Record
        BY <1>0
      <4>3. [client[c] EXCEPT !.link = FALSE].memory = client[c].memory
        BY <4>2 DEF Record
      <4> QED
        BY <3>e, <4>1, <4>3
    <3>6. CASE UNCHANGED vars
      BY <3>6 DEF vars, pointers
    <3> QED
      BY <3>1, <3>2, <3>3, <3>4, <3>5, <3>6 DEF Next, Ended
  <2>2. \A c \in Clients : Newest(c)' <=> Newest(c)
    BY <2>1 DEF Newest
  <2>3. Latest'
    BY <1>0, <2>1, <2>2 DEF Latest
  <2>4. failed' = failed => (GivenUp' <=> GivenUp)
    BY <1>0, <2>2 DEF GivenUp
  <2>5. failed' = failed \cup {remoteclient} /\ remoteclient # NULL => GivenUp'
    BY <1>0, <2>2 DEF GivenUp, Latest
  <2> QED
    BY <1>1, <1>3, <2>3, <2>4, <2>5
<1> QED
  BY <1>2, <1>3

\* Connect makes a client, to which the pointer leads.
LEMMA ConnectStep == ASSUME ConnInv, ExecuteConnect, [Next]_vars PROVE RestInv'
<1> USE DEF RestInv, WorkerAlone, WhoTalks, Pointed, Sessions, Held, Fresh, Listed, Explained,
            UI_Step, WorkerStep
<1>0. /\ client \in [Clients -> Record] /\ remoteclient \in Clients \cup {NULL}
      /\ remote_files \in Clients \cup {NULL} /\ failed \subseteq Clients
      /\ at \in [Threads -> Steps] /\ talking \in [Threads -> Clients \cup {NULL}]
      /\ NULL \notin Clients
      /\ WorkerAlone /\ WhoTalks /\ Pointed /\ Sessions /\ Fresh /\ Listed
      /\ stale \subseteq failed /\ Latest'
  BY ConnectionAssumption, LatestStep DEF ConnInv, TypeOK, Steps, NULL, Clients
<1>t. /\ "ui" \in Threads /\ "worker" \in Threads /\ KeepAlives \subseteq Threads
      /\ "ui" \notin KeepAlives /\ "worker" \notin KeepAlives /\ "none" \notin KeepAlives
  BY ThreadNames
<1>1. PICK kind \in Kinds, c \in Clients :
        /\ client[c].memory = "unused" /\ remoteclient' = c
        /\ client' = [client EXCEPT ![c] = [NoClient EXCEPT !.kind = kind, !.memory = "live"]]
  BY DEF ExecuteConnect, Unused
<1>2. /\ client'[c].session = "none" /\ client'[c].memory = "live"
      /\ \A d \in Clients : d # c => client'[d] = client[d]
  BY <1>0, <1>1 DEF NoClient
<1>3. misuse' \notin {"ui", "worker"}
  <2>1. ~UNCHANGED vars
    <3>1. at' # at
      BY <1>0, <1>t DEF ExecuteConnect, Executes
    <3> QED
      BY <3>1 DEF vars
  <2>2. misuse = "none"
    BY <2>1 DEF Next, Ended
  <2> QED
    BY <2>2 DEF ExecuteConnect
<1> QED
  BY <1>0, <1>t, <1>1, <1>2, <1>3 DEF ExecuteConnect, Executes, pointers, history

\* Most steps of the frame loop and of the worker leave the clients alone; where a step
\* does not, <2>0 says what becomes of them.
LEMMA OtherStep == ASSUME ConnInv, [Next]_vars, ~ExecuteConnect PROVE RestInv'
<1> USE DEF RestInv, WorkerAlone, WhoTalks, Pointed, Sessions, Held, Fresh, Listed, Explained,
            UI_Step, WorkerStep
<1>0. /\ client \in [Clients -> Record] /\ remoteclient \in Clients \cup {NULL}
      /\ remote_files \in Clients \cup {NULL} /\ failed \subseteq Clients /\ stale \subseteq Clients
      /\ at \in [Threads -> Steps] /\ talking \in [Threads -> Clients \cup {NULL}]
      /\ left \in 0..MaxFiles /\ NULL \notin Clients
      /\ WorkerAlone /\ WhoTalks /\ Pointed /\ Sessions /\ Fresh /\ Listed
      /\ stale \subseteq failed /\ Explained
      /\ (remoteclient \in failed => GivenUp) /\ Latest'
      /\ failed' = failed => (GivenUp' <=> GivenUp)
      /\ failed' = failed \cup {remoteclient} /\ remoteclient # NULL => GivenUp'
  BY ConnectionAssumption, LatestStep DEF ConnInv, TypeOK, Steps, NULL, Clients
<1>r. \A c \in Clients :
        /\ client[c] \in Record
        /\ Quit(client[c]).session =
             IF client[c].session = "open" THEN "closed" ELSE client[c].session
        /\ Quit(client[c]).memory = client[c].memory
        /\ Quit(PingFailed(client[c])).session =
             IF client[c].session = "open" THEN "closed" ELSE client[c].session
        /\ Quit(PingFailed(client[c])).memory = client[c].memory
        /\ HangUp(client[c]).session =
             IF client[c].connected /\ client[c].session = "open" THEN "closed"
             ELSE client[c].session
        /\ HangUp(client[c]).memory = client[c].memory
        /\ ~client[c].connected => HangUp(client[c]) = client[c]
        /\ client[c].session = "none" => HangUp(PingFailed(client[c])).session = "none"
        /\ HangUp(PingFailed(client[c])).memory = client[c].memory
  <2>1. ASSUME NEW c \in Clients PROVE client[c] \in Record /\ PingFailed(client[c]) \in Record
    BY <1>0, RecordChanges
  <2>2. \A r \in Record : ~r.connected => HangUp(r) = r
    BY DEF HangUp
  <2> QED
    BY <2>1, <2>2, RecordChanges
<1>n. /\ \A c \in Clients :
           /\ \A answered, link \in BOOLEAN :
                LET s == [client[c] EXCEPT !.session = "open", !.connected = answered, !.link = link]
                IN  s.memory = client[c].memory /\ s.session = "open" /\ s.connected = answered
           /\ LET s == [client[c] EXCEPT !.memory = "deleted"]
              IN  /\ s.memory = "deleted" /\ s.session = client[c].session
                  /\ s.connected = client[c].connected
           /\ LET s == [client[c] EXCEPT !.link = FALSE]
              IN  /\ s.memory = client[c].memory /\ s.session = client[c].session
                  /\ s.connected = client[c].connected
  <2>1. ASSUME NEW c \in Clients PROVE client[c] \in Record
    BY <1>0
  <2> QED
    BY <2>1 DEF NoClient
<1>t. /\ "ui" \in Threads /\ "worker" \in Threads /\ KeepAlives \subseteq Threads
      /\ "ui" \notin KeepAlives /\ "worker" \notin KeepAlives /\ "none" \notin KeepAlives
  BY ThreadNames
<1>1. CASE TestPanel
  BY <1>0, <1>1 DEF TestPanel, pointers, job, history
<1>2. CASE LookPanel
  BY <1>0, <1>t, <1>2 DEF LookPanel, Misuse, Reaches, pointers, job, history
<1>3. CASE ClickButton
  BY <1>0, <1>t, <1>3 DEF ClickButton, Choose, IsConnected, Operations, pointers
<1>4. CASE ClickRefresh
  BY <1>0, <1>4 DEF ClickRefresh, Choose, Operations, pointers
<1>5. CASE ClickExit
  BY <1>0, <1>5 DEF ClickExit, Choose, Operations, pointers
<1>6. CASE ClickEntry
  BY <1>0, <1>6 DEF ClickEntry, Choose, pointers
<1>7. CASE ChooseRemote
  BY <1>0, <1>7 DEF ChooseRemote, Choose, pointers
<1>8. CASE ChooseUpload
  BY <1>0, <1>t, <1>8 DEF ChooseUpload, Choose, pointers
<1>9. CASE NoInput
  BY <1>0, <1>9 DEF NoInput, pointers, job, history
<1>10. CASE ExecuteLocal
  BY <1>0, <1>10 DEF ExecuteLocal, Handled, Operations, pointers, job, history
<1>12. CASE ConnectUnknown
  BY <1>0, <1>12 DEF ConnectUnknown, Executes, Handled, Operations, pointers, history
<1>13. CASE ExecuteChange
  BY <1>0, <1>t, <1>13
     DEF ExecuteChange, Executes, Send, Misuse, StaleUse, Callable, Reaches, pointers,
         history
<1>14. CASE ExecuteNewFolder
  BY <1>0, <1>t, <1>14
     DEF ExecuteNewFolder, Executes, Send, Misuse, StaleUse, Callable, Reaches, pointers,
         history
<1>15. CASE ExecuteRefresh
  BY <1>0, <1>15 DEF ExecuteRefresh, Executes, pointers, history
<1>16. CASE ExecuteOperation
  BY <1>0, <1>t, <1>16 DEF ExecuteOperation, Operations, pointers, history
<1>17. CASE ExecuteDisconnect
  <2>0. (remoteclient = NULL /\ UNCHANGED client) \/
         /\ remoteclient \in Clients
         /\ client[remoteclient].connected => client'[remoteclient].session # "open"
         /\ ~client[remoteclient].connected => client'[remoteclient] = client[remoteclient]
         /\ client[remoteclient].session = "none" => client'[remoteclient].session = "none"
         /\ client'[remoteclient].memory = client[remoteclient].memory
         /\ \A d \in Clients : d # remoteclient => client'[d] = client[d]
    BY <1>0, <1>r, <1>17 DEF ExecuteDisconnect
  <2> QED
    BY <1>0, <1>t, <1>17, <2>0 DEF ExecuteDisconnect, Cleared, pointers, history
<1>18. CASE ConnectSucceeds
  <2>0. /\ remoteclient \in Clients
        /\ client'[remoteclient].session = "open"
        /\ client'[remoteclient].memory = client[remoteclient].memory
        /\ client'[remoteclient].connected \/ remoteclient \in failed'
        /\ failed' \in {failed, failed \cup {remoteclient}}
        /\ \A d \in Clients : d # remoteclient => client'[d] = client[d]
    <3>1. PICK answered \in BOOLEAN, link \in BOOLEAN :
            /\ client' = [client EXCEPT ![remoteclient].session = "open",
                                        ![remoteclient].connected = answered,
                                        ![remoteclient].link = link]
            /\ failed' = IF answered THEN failed ELSE failed \cup {remoteclient}
      BY <1>18 DEF ConnectSucceeds
    <3>2. remoteclient \in Clients
      BY <1>0, <1>18 DEF ConnectSucceeds
    <3>3. client' = [client EXCEPT ![remoteclient] =
             [@ EXCEPT !.session = "open", !.connected = answered, !.link = link]]
      BY <3>1
    <3> QED
      BY <1>0, <3>1, <3>2
  <2> QED
    BY <1>0, <1>t, <1>18, <2>0 DEF ConnectSucceeds, Answered, pointers
<1>19. CASE ConnectFails
  BY <1>0, <1>19 DEF ConnectFails, Answered, pointers
<1>20. CASE ConnectReturns
  BY <1>0, <1>t, <1>20 DEF ConnectReturns, Misuse, Reaches, pointers, history
<1>21. CASE ChangeAnswered
  <2>0. UNCHANGED <<client, failed>> \/
         /\ remoteclient \in Clients /\ client'[remoteclient].session # "open"
         /\ client[remoteclient].session = "none" => client'[remoteclient].session = "none"
         /\ client'[remoteclient].memory = client[remoteclient].memory
         /\ \A d \in Clients : d # remoteclient => client'[d] = client[d]
         /\ failed' = failed \cup {remoteclient}
    BY <1>0, <1>r, <1>21 DEF ChangeAnswered
  <2> QED
    BY <1>0, <1>t, <1>21, <2>0 DEF ChangeAnswered, Answered, pointers
<1>22. CASE NewFolderAnswered
  <2>0. /\ failed' = failed \/ failed' = failed \cup {remoteclient}
        /\ remoteclient # NULL
    BY <1>0, <1>22 DEF NewFolderAnswered
  <2> QED
    BY <1>0, <1>t, <1>22, <2>0 DEF NewFolderAnswered, Handled, pointers
<1>23. CASE RefreshWithoutClient
  BY <1>0, <1>t, <1>23
     DEF RefreshWithoutClient, Returns, Handled, Operations, pointers, history
<1>24. CASE RefreshAsks
  BY <1>0, <1>t, <1>24
     DEF RefreshAsks, Send, Misuse, StaleUse, Callable, Reaches, pointers, history
<1>25. CASE RefreshGoesOn
  BY <1>0, <1>25 DEF RefreshGoesOn, pointers, history
<1>26. CASE RefreshDrops
  <2>0. /\ remoteclient \in Clients /\ client'[remoteclient].session # "open"
        /\ client[remoteclient].session = "none" => client'[remoteclient].session = "none"
        /\ client'[remoteclient].memory = client[remoteclient].memory
        /\ \A d \in Clients : d # remoteclient => client'[d] = client[d]
    BY <1>0, <1>r, <1>26 DEF RefreshDrops
  <2> QED
    BY <1>0, <1>t, <1>26, <2>0 DEF RefreshDrops, Returns, Handled, pointers
<1>27. CASE RefreshLists
  BY <1>0, <1>t, <1>27 DEF RefreshLists, Returns, Handled, pointers, history
<1>28. CASE DeleteClient("ui")
  <2>0. /\ remoteclient \in Clients
        /\ client'[remoteclient].memory = "deleted"
        /\ \A d \in Clients :
             /\ client'[d].session = client[d].session /\ client'[d].connected = client[d].connected
             /\ d # remoteclient => client'[d] = client[d]
    <3>1. client' = [client EXCEPT ![remoteclient] = [@ EXCEPT !.memory = "deleted"]]
      BY <1>28 DEF DeleteClient
    <3>2. remoteclient \in Clients
      BY <1>0, <1>28 DEF DeleteClient, Pointed
    <3> QED
      BY <1>0, <3>1, <3>2
  <2> QED
    BY <1>0, <1>28, <2>0 DEF DeleteClient, pointers, history
<1>29. CASE DeleteClient("worker")
  <2>0. /\ remoteclient \in Clients
        /\ client'[remoteclient].memory = "deleted"
        /\ \A d \in Clients :
             /\ client'[d].session = client[d].session /\ client'[d].connected = client[d].connected
             /\ d # remoteclient => client'[d] = client[d]
    <3>1. client' = [client EXCEPT ![remoteclient] = [@ EXCEPT !.memory = "deleted"]]
      BY <1>29 DEF DeleteClient
    <3>2. remoteclient \in Clients
      BY <1>0, <1>29 DEF DeleteClient, Pointed
    <3> QED
      BY <1>0, <3>1, <3>2
  <2> QED
    BY <1>0, <1>29, <2>0 DEF DeleteClient, pointers, history
<1>30. CASE ClearPointer("ui")
  BY <1>0, <1>t, <1>30 DEF ClearPointer, Dropped, Operations, pointers, history
<1>31. CASE ClearPointer("worker")
  BY <1>0, <1>t, <1>31 DEF ClearPointer, Dropped, pointers, history
<1>32. CASE WorkerAsks
  BY <1>0, <1>t, <1>32
     DEF WorkerAsks, Send, Misuse, StaleUse, More, Callable, Reaches, pointers, job,
         history
<1>33. CASE DeleteStarts
  BY <1>0, <1>33 DEF DeleteStarts, Answered, pointers, history
<1>34. CASE DeleteDisconnects
  <2>0. /\ remoteclient \in Clients
        /\ client'[remoteclient].memory = client[remoteclient].memory
        /\ client[remoteclient].session = "none" => client'[remoteclient].session = "none"
        /\ \A d \in Clients : d # remoteclient => client'[d] = client[d]
        /\ failed' = failed \cup {remoteclient}
    BY <1>0, <1>r, <1>34 DEF DeleteDisconnects
  <2> QED
    BY <1>0, <1>34, <2>0 DEF DeleteDisconnects, Answered, Cleared, pointers
<1>35. CASE FileDone
  BY <1>0, <1>t, <1>35 DEF FileDone, Answered, pointers, history
<1>36. CASE FileFails
  <2>0. /\ remoteclient \in Clients /\ client'[remoteclient].session # "open"
        /\ client[remoteclient].session = "none" => client'[remoteclient].session = "none"
        /\ client'[remoteclient].memory = client[remoteclient].memory
        /\ \A d \in Clients : d # remoteclient => client'[d] = client[d]
    BY <1>0, <1>r, <1>36 DEF FileFails
  <2> QED
    BY <1>0, <1>t, <1>36, <2>0 DEF FileFails, Answered, pointers
<1>37. CASE WorkerEnds
  BY <1>0, <1>t, <1>37 DEF WorkerEnds, pointers, history
<1>38. ASSUME NEW t \in KeepAlives, KeepAlive(t) PROVE RestInv'
  <2>1. /\ UNCHANGED <<client, remoteclient, remote_files, selected_action, left, failed, stale, blind>>
        /\ at'["ui"] = at["ui"] /\ at'["worker"] = at["worker"]
        /\ talking'["ui"] = talking["ui"] /\ talking'["worker"] = talking["worker"]
        /\ \A u \in KeepAlives : talking'[u] = NULL
        /\ misuse' \in {misuse, t}
    <3>1. CASE KeepAliveNull(t)
      BY <1>0, <1>t, <1>38, <3>1 DEF KeepAliveNull, pointers, job, history
    <3>2. CASE KeepAliveType(t)
      BY <1>0, <1>t, <1>38, <3>2 DEF KeepAliveType, Misuse, pointers, job, history
    <3>3. CASE KeepAliveState(t)
      BY <1>0, <1>t, <1>38, <3>3 DEF KeepAliveState, Misuse, pointers, job, history
    <3>4. CASE KeepAliveAsk(t)
      BY <1>0, <1>t, <1>38, <3>4, IdleIsShort
         DEF KeepAliveAsk, Misuse, pointers, job, history
    <3>5. CASE KeepAliveSleep(t)
      BY <1>0, <1>t, <1>38, <3>5 DEF KeepAliveSleep, job, history
    <3> QED
      BY <1>38, <3>1, <3>2, <3>3, <3>4, <3>5 DEF KeepAlive
  <2> QED
    BY <1>0, <1>t, <1>38, <2>1
<1>39. ASSUME NEW c \in Clients, LinkGoesDown(c) PROVE RestInv'
  <2>1. client' = [client EXCEPT ![c] = [@ EXCEPT !.link = FALSE]]
    BY <1>39 DEF LinkGoesDown
  <2>2. \A d \in Clients : /\ client'[d].memory = client[d].memory /\ client'[d].session = client[d].session
                           /\ client'[d].connected = client[d].connected
    BY <1>0, <2>1
  <2> QED
    BY <1>0, <1>39, <2>2 DEF LinkGoesDown, job, history
<1>40. CASE UNCHANGED vars
  BY <1>0, <1>40 DEF vars, pointers, job, history
<1> QED
  BY <1>1, <1>2, <1>3, <1>4, <1>5, <1>6, <1>7, <1>8, <1>9, <1>10, <1>12, <1>13,
     <1>14, <1>15, <1>16, <1>17, <1>18, <1>19, <1>20, <1>21, <1>22, <1>23, <1>24, <1>25,
     <1>26, <1>27, <1>28, <1>29, <1>30, <1>31, <1>32, <1>33, <1>34, <1>35, <1>36, <1>37,
     <1>38, <1>39, <1>40
     DEF Next, UI, Drop, Worker, Ended

LEMMA RestStep == ConnInv /\ [Next]_vars => RestInv'
  BY ConnectStep, OtherStep

\* At the start nobody is connected and nobody talks.
LEMMA ConnInit == Init => ConnInv
<1> SUFFICES ASSUME Init PROVE ConnInv
  OBVIOUS
<1>1. TypeOK
  <2>1. NoClient \in Record
    BY DEF NoClient, Record
  <2>2. client \in [Clients -> Record]
    BY <2>1 DEF Init
  <2>3. at \in [Threads -> FrameSteps \cup WorkerSteps \cup DropSteps \cup KeepAliveSteps]
    BY DEF Init, FrameSteps, WorkerSteps
  <2>4. talking \in [Threads -> Clients \cup {NULL}]
    BY DEF Init
  <2>5. /\ selected_action \in Actions /\ op \in Operations \cup {"ACTION_NONE"}
        /\ left \in 0..MaxFiles /\ misuse \in Threads \cup {"none"}
    BY ConnectionAssumption DEF Init, Actions
  <2>6. blind \in BOOLEAN
    BY Zenon DEF Init
  <2> QED
    BY <2>2, <2>3, <2>4, <2>5, <2>6 DEF Init, TypeOK
<1>2. /\ at["ui"] = "panel" /\ at["worker"] = "idle"
      /\ \A t \in Threads : talking[t] = NULL
      /\ \A c \in Clients : client[c].memory = "unused" /\ client[c].session = "none"
  BY ThreadNames DEF Init, NoClient
<1> QED
  BY <1>1, <1>2, ThreadNames
     DEF Init, ConnInv, WorkerAlone, WhoTalks, Pointed, Sessions, Held, Fresh, Listed, Explained,
         Latest, Newest, UI_Step, WorkerStep, Operations

-------------------------------------------------------------------------------
(* Theorems.                                                               *)

\* The strengthened invariant holds of every state the program reaches.
THEOREM ConnectionInvariant == Spec => []ConnInv
<1>1. ConnInv /\ [Next]_vars => ConnInv'
  BY TypesStep, RestStep DEF ConnInv, RestInv
<1> QED
  BY ConnInit, <1>1, PTL DEF Spec

\* Frame loop, worker and keep-alive threads never have requests on the same client
\* at once: nothing locks the control connection, but the frame loop only starts a
\* handler when no operation runs, and the idle time of a keep-alive thread, which
\* is never as long as a second, never makes it ask.
THEOREM RequestsTakeTurns == Spec => []OneRequestAtATime
<1>1. ConnInv => OneRequestAtATime
  <2> SUFFICES ASSUME ConnInv, NEW t \in Threads, NEW u \in Threads,
                      t # u, talking[t] # NULL, talking[u] # NULL
               PROVE  FALSE
    BY DEF OneRequestAtATime
  <2>1. t \in {"ui", "worker"} /\ u \in {"ui", "worker"}
    BY DEF ConnInv, WhoTalks, Threads
  <2>2. talking["ui"] # NULL /\ talking["worker"] # NULL
    BY <2>1
  <2> QED
    BY <2>2 DEF ConnInv, WhoTalks, WorkerAlone, UI_Step, WorkerStep
<1> QED
  BY ConnectionInvariant, <1>1, PTL

\* Connect and Disconnect never lose a client whose session is open and on which no
\* request has failed: remoteclient points to it.
THEOREM SessionIsKept == Spec => []SessionKept
<1>1. ConnInv => SessionKept
  BY DEF ConnInv, Sessions, Held, SessionKept
<1> QED
  BY ConnectionInvariant, <1>1, PTL

\* The entries on the screen are those of the current client, unless a request on
\* theirs has failed.
THEOREM ListingIsCurrent == Spec => []ListingCurrent
<1>1. ConnInv => ListingCurrent
  BY DEF ConnInv, TypeOK, Listed, Sessions, Held, ListingCurrent
<1> QED
  BY ConnectionInvariant, <1>1, PTL

\* The frame loop and the worker follow a null or freed pointer, and an FTP client
\* writes to a closed control connection, only after a request on the client made last, or on
\* this FTP client, has failed, or in an upload started without a connection.
THEOREM MisuseIsExplained == Spec => []MisuseExplained
<1>1. ConnInv => MisuseExplained
  BY DEF ConnInv, Explained, GivenUp, MisuseExplained
<1> QED
  BY ConnectionInvariant, <1>1, PTL

-------------------------------------------------------------------------------
(* Finding sections and keys in the lines of a file (inifile.c).           *)

\* A set of numbers that is not empty has a smallest one.
LEMMA Smallest == ASSUME NEW I \in SUBSET Nat, I # {} PROVE \E i \in I : \A j \in I : i <= j
<1>1. \E i \in I : \A j \in I : <<j, i>> \notin OpToRel(<, Nat)
  BY NatLessThanWellFounded, WFMin
<1>2. PICK i \in I : \A j \in I : <<j, i>> \notin OpToRel(<, Nat)
  BY <1>1
<1>3. \A j \in I : ~(j < i)
  BY <1>2 DEF OpToRel
<1> QED
  BY <1>3

\* Min, as the searches of inifile.c use it: the smallest number of the set.
LEMMA MinIs ==
  ASSUME NEW I \in SUBSET Nat, I # {}
  PROVE  \E m \in I : m = Min(I) /\ \A j \in I : m <= j
  BY Smallest DEF Min

\* FindSection finds the first line of the section, and no other line is one when it
\* finds none.
LEMMA FindSectionIs ==
  ASSUME NEW lines, Len(lines) \in Nat, NEW S
  PROVE  LET f == FindSection(lines, S) IN
         /\ f \in 0..Len(lines)
         /\ f # 0 => lines[f] = SectionLine(S)
         /\ \A j \in 1..Len(lines) : lines[j] = SectionLine(S) => f # 0 /\ f <= j
<1> DEFINE I == {j \in 1..Len(lines) : lines[j] = SectionLine(S)}
<1>1. FindSection(lines, S) = IF I # {} THEN Min(I) ELSE 0
  BY DEF FindSection, SelectInSeq
<1>2. I \in SUBSET Nat
  OBVIOUS
<1>3. CASE I = {}
  BY <1>1, <1>3
<1>4. CASE I # {}
  <2>1. \E m \in I : m = Min(I) /\ \A j \in I : m <= j
    <3> HIDE DEF I
    <3> QED
      BY <1>2, <1>4, MinIs
  <2>2. PICK m \in I : m = Min(I) /\ \A j \in I : m <= j
    BY <2>1
  <2>3. FindSection(lines, S) = m
    BY <1>1, <1>4, <2>2
  <2>4. m \in 1..Len(lines) /\ lines[m] = SectionLine(S)
    OBVIOUS
  <2>5. \A j \in 1..Len(lines) : lines[j] = SectionLine(S) => m <= j
    BY <2>2
  <2> HIDE DEF I
  <2> QED
    BY <2>3, <2>4, <2>5
<1> QED
  BY <1>3, <1>4

\* The converse: the first line of the section is the one found.
LEMMA FindSectionAt ==
  ASSUME NEW lines, Len(lines) \in Nat, NEW S, NEW f \in 1..Len(lines),
         lines[f] = SectionLine(S), \A j \in 1..Len(lines) : j < f => lines[j] # SectionLine(S)
  PROVE  FindSection(lines, S) = f
  BY FindSectionIs

\* A section ends before the next section line, or with the file.
LEMMA SectionEndIs ==
  ASSUME NEW lines, Len(lines) \in Nat, NEW S
  PROVE  LET f == FindSection(lines, S)
             e == SectionEnd(lines, S)
         IN  /\ e \in f..Len(lines)
             /\ \A j \in 1..Len(lines) : f < j /\ j <= e => lines[j].type # "section"
             /\ e < Len(lines) => lines[e + 1].type = "section"
<1> DEFINE f == FindSection(lines, S)
           I == {j \in f + 1..Len(lines) : lines[j].type = "section"}
           next == IF I # {} THEN Min(I) ELSE 0
<1>1. SectionEnd(lines, S) = IF next = 0 THEN Len(lines) ELSE next - 1
  BY DEF SectionEnd, SelectInSubSeq
<1>2. f \in 0..Len(lines)
  BY FindSectionIs
<1>3. I \in SUBSET Nat
  BY <1>2
<1>4. CASE I = {}
  BY <1>1, <1>2, <1>4
<1>5. CASE I # {}
  <2>1. \E m \in I : m = Min(I) /\ \A j \in I : m <= j
    <3> HIDE DEF I
    <3> QED
      BY <1>3, <1>5, MinIs
  <2>2. PICK m \in I : m = Min(I) /\ \A j \in I : m <= j
    BY <2>1
  <2>3. SectionEnd(lines, S) = m - 1
    BY <1>1, <1>2, <1>5, <2>2
  <2>4. m \in 1..Len(lines) /\ f < m /\ lines[m].type = "section"
    BY <1>2
  <2>5. \A j \in 1..Len(lines) : f < j /\ j < m => lines[j].type # "section"
    BY <1>2, <2>2
  <2> HIDE DEF I
  <2> QED
    BY <1>2, <2>3, <2>4, <2>5
<1> QED
  BY <1>4, <1>5

\* A line that gives the key a value.
IsKey(line, K) == line.type = "key" /\ line.name = K

\* Line k is the first of its section to give the key a value.
KeyAt(lines, S, K, k) ==
  LET f == FindSection(lines, S) IN
  /\ f # 0 /\ f < k
  /\ IsKey(lines[k], K)
  /\ \A j \in 1..Len(lines) : f < j /\ j < k => lines[j].type # "section" /\ ~IsKey(lines[j], K)

\* FindpKey finds that line, and no line is one when it finds none.
LEMMA FindpKeyIs ==
  ASSUME NEW lines, Len(lines) \in Nat, NEW S, NEW K
  PROVE  /\ FindpKey(lines, S, K) \in 0..Len(lines)
         /\ \A k \in 1..Len(lines) : KeyAt(lines, S, K, k) <=> FindpKey(lines, S, K) = k
<1> DEFINE f == FindSection(lines, S)
           e == SectionEnd(lines, S)
           I == {j \in f + 1..e : IsKey(lines[j], K)}
<1>1. FindpKey(lines, S, K) = IF f = 0 \/ I = {} THEN 0 ELSE Min(I)
  BY DEF FindpKey, KeyIn, KeyBetween, SelectInSubSeq, IsKey
<1>2. f \in 0..Len(lines)
  BY FindSectionIs
<1>3. /\ e \in f..Len(lines)
      /\ \A j \in 1..Len(lines) : f < j /\ j <= e => lines[j].type # "section"
      /\ e < Len(lines) => lines[e + 1].type = "section"
  BY SectionEndIs
<1>4. I \in SUBSET Nat
  BY <1>2, <1>3
<1>5. f = 0 \/ I = {} => FindpKey(lines, S, K) = 0
  BY <1>1
<1>6. f # 0 /\ I # {} => FindpKey(lines, S, K) \in I /\ \A j \in I : FindpKey(lines, S, K) <= j
  <2>1. I # {} => \E m \in I : m = Min(I) /\ \A j \in I : m <= j
    <3> HIDE DEF I
    <3> QED
      BY <1>4, MinIs
  <2> HIDE DEF I, f
  <2> QED
    BY <1>1, <2>1
<1>7. ASSUME NEW k \in 1..Len(lines), KeyAt(lines, S, K, k) PROVE FindpKey(lines, S, K) = k
  <2>1. f # 0 /\ f < k /\ IsKey(lines[k], K)
    BY <1>7 DEF KeyAt
  <2>2. \A j \in 1..Len(lines) : f < j /\ j < k => lines[j].type # "section" /\ ~IsKey(lines[j], K)
    BY <1>7 DEF KeyAt
  <2>3. k <= e
    <3> SUFFICES ASSUME e < k PROVE FALSE
      BY <1>2, <1>3
    <3>1. lines[e + 1].type = "section"
      BY <1>2, <1>3
    <3>2. e + 1 # k
      BY <2>1, <3>1 DEF IsKey
    <3>3. e + 1 \in 1..Len(lines) /\ f < e + 1 /\ e + 1 < k
      BY <1>2, <1>3, <3>2
    <3> QED
      BY <2>2, <3>1, <3>3
  <2>4. k \in I
    BY <1>2, <1>3, <2>1, <2>3
  <2>5. \A j \in I : k <= j
    BY <1>2, <1>3, <2>2
  <2>6. FindpKey(lines, S, K) \in I /\ FindpKey(lines, S, K) <= k
    <3> HIDE DEF I, f
    <3> QED
      BY <1>6, <2>1, <2>4
  <2>7. FindpKey(lines, S, K) \in Nat /\ k <= FindpKey(lines, S, K)
    <3> HIDE DEF I
    <3> QED
      BY <1>4, <2>5, <2>6
  <2> QED
    BY <2>6, <2>7
<1>8. ASSUME NEW k \in 1..Len(lines), FindpKey(lines, S, K) = k PROVE KeyAt(lines, S, K, k)
  <2>1. f # 0 /\ k \in I /\ \A j \in I : k <= j
    <3> HIDE DEF I, f
    <3> QED
      BY <1>5, <1>6, <1>8
  <2>2. f < k /\ k <= e /\ IsKey(lines[k], K)
    BY <1>2, <1>3, <2>1
  <2>3. \A j \in 1..Len(lines) : f < j /\ j < k => lines[j].type # "section" /\ ~IsKey(lines[j], K)
    BY <1>2, <1>3, <2>1
  <2> QED
    BY <2>1, <2>2, <2>3 DEF KeyAt
<1>9. FindpKey(lines, S, K) \in 0..Len(lines)
  <2>1. I \subseteq 0..Len(lines)
    BY <1>2, <1>3
  <2>2. CASE f = 0 \/ I = {}
    BY <1>5, <2>2
  <2>3. CASE f # 0 /\ I # {}
    <3> HIDE DEF I, f
    <3> QED
      BY <1>6, <2>1, <2>3
  <2> QED
    BY <2>2, <2>3
<1> QED
  BY <1>7, <1>8, <1>9

\* The fields of a section line.
LEMMA SectionLineIs ==
  ASSUME NEW S PROVE SectionLine(S).type = "section" /\ SectionLine(S).name = S
  BY DEF SectionLine, Line

\* The first n lines are the same.
Agree(lines, lines2, n) ==
  /\ Len(lines) \in Nat /\ Len(lines2) \in Nat
  /\ n \in 0..Len(lines) /\ n \in 0..Len(lines2)
  /\ \A j \in 1..n : lines2[j] = lines[j]

\* A section among the lines that are the same is found at the same place.
LEMMA PrefixSections ==
  ASSUME NEW lines, NEW lines2, NEW n, Agree(lines, lines2, n), NEW S,
         FindSection(lines, S) \in 1..n
  PROVE  FindSection(lines2, S) = FindSection(lines, S)
<1> DEFINE f == FindSection(lines, S)
<1>1. f \in 1..n /\ lines[f] = SectionLine(S) /\ \A j \in 1..Len(lines) : lines[j] = SectionLine(S) => f <= j
  BY FindSectionIs DEF Agree
<1> HIDE DEF f
<1>2. n \in Nat /\ n <= Len(lines) /\ n <= Len(lines2) /\ Len(lines) \in Nat /\ Len(lines2) \in Nat
  BY DEF Agree
<1>3. f \in 1..Len(lines2) /\ lines2[f] = SectionLine(S)
  BY <1>1, <1>2 DEF Agree
<1>4. \A j \in 1..Len(lines2) : j < f => lines2[j] # SectionLine(S)
  <2> SUFFICES ASSUME NEW j \in 1..Len(lines2), j < f PROVE lines2[j] # SectionLine(S)
    OBVIOUS
  <2>1. j \in 1..n /\ j \in 1..Len(lines)
    BY <1>1, <1>2
  <2>2. lines2[j] = lines[j]
    BY <2>1 DEF Agree
  <2> QED
    BY <1>1, <1>2, <2>1, <2>2
<1>5. FindSection(lines2, S) = f
  BY <1>2, <1>3, <1>4, FindSectionAt
<1> QED
  BY <1>5 DEF f

\* So is a key.
LEMMA PrefixKeys ==
  ASSUME NEW lines, NEW lines2, NEW n, Agree(lines, lines2, n), NEW S, NEW K,
         FindpKey(lines, S, K) \in 1..n
  PROVE  FindpKey(lines2, S, K) = FindpKey(lines, S, K)
<1> DEFINE f == FindSection(lines, S)
           k == FindpKey(lines, S, K)
<1>0. n \in Nat /\ n <= Len(lines) /\ n <= Len(lines2) /\ Len(lines) \in Nat /\ Len(lines2) \in Nat
  BY DEF Agree
<1>1. k \in 1..n /\ k \in 1..Len(lines) /\ k \in 1..Len(lines2)
  BY <1>0
<1>2. KeyAt(lines, S, K, k)
  BY <1>0, <1>1, FindpKeyIs
<1>3. f \in 1..n /\ f < k
  BY <1>0, <1>1, <1>2, FindSectionIs DEF KeyAt
<1>4. FindSection(lines2, S) = f
  BY <1>3, PrefixSections
<1>5. KeyAt(lines2, S, K, k)
  <2> HIDE DEF k, f
  <2>1. f # 0 /\ f < k /\ IsKey(lines2[k], K)
    BY <1>1, <1>2, <1>3 DEF KeyAt, Agree
  <2>2. ASSUME NEW j \in 1..Len(lines2), f < j, j < k
        PROVE  lines2[j].type # "section" /\ ~IsKey(lines2[j], K)
    <3>1. j \in 1..n /\ j \in 1..Len(lines)
      BY <1>0, <1>1, <2>2
    <3>2. lines2[j] = lines[j]
      BY <3>1 DEF Agree
    <3> QED
      BY <1>2, <2>2, <3>1, <3>2 DEF KeyAt, f
  <2> QED
    BY <1>4, <2>1, <2>2 DEF KeyAt
<1>6. FindpKey(lines2, S, K) = k
  <2> HIDE DEF k
  <2> QED
    BY <1>0, <1>1, <1>5, FindpKeyIs
<1> QED
  BY <1>6

\* The same lines but for the values of keys.
SameShape(lines, lines2) ==
  /\ Len(lines) \in Nat /\ Len(lines2) = Len(lines)
  /\ \A j \in 1..Len(lines) :
       lines2[j] = lines[j] \/ (lines2[j].type = "key" /\ lines[j].type = "key" /\ lines2[j].name = lines[j].name)

\* The value of a key does not matter to where sections and keys are found.
LEMMA SameShapeFinds ==
  ASSUME NEW lines, NEW lines2, SameShape(lines, lines2), NEW S, NEW K
  PROVE  /\ FindSection(lines2, S) = FindSection(lines, S)
         /\ FindpKey(lines2, S, K) = FindpKey(lines, S, K)
<1>0. Len(lines) \in Nat /\ Len(lines2) \in Nat /\ Len(lines2) = Len(lines)
  BY DEF SameShape
<1>1. \A j \in 1..Len(lines) :
        /\ lines2[j] = SectionLine(S) <=> lines[j] = SectionLine(S)
        /\ IsKey(lines2[j], K) <=> IsKey(lines[j], K)
        /\ lines2[j].type = "section" <=> lines[j].type = "section"
  <2> SUFFICES ASSUME NEW j \in 1..Len(lines)
               PROVE  /\ lines2[j] = SectionLine(S) <=> lines[j] = SectionLine(S)
                      /\ IsKey(lines2[j], K) <=> IsKey(lines[j], K)
                      /\ lines2[j].type = "section" <=> lines[j].type = "section"
    OBVIOUS
  <2>1. CASE lines2[j] = lines[j]
    BY <2>1
  <2>2. CASE /\ lines2[j].type = "key" /\ lines[j].type = "key"
             /\ lines2[j].name = lines[j].name
    BY <2>2, SectionLineIs DEF IsKey
  <2> QED
    BY <2>1, <2>2 DEF SameShape
<1>2. FindSection(lines2, S) = FindSection(lines, S)
  <2>1. CASE FindSection(lines, S) = 0
    BY <1>0, <1>1, <2>1, FindSectionIs
  <2>2. CASE FindSection(lines, S) # 0
    BY <1>0, <1>1, <2>2, FindSectionIs
  <2> QED
    BY <2>1, <2>2
<1>3. \A k \in 1..Len(lines) : KeyAt(lines2, S, K, k) <=> KeyAt(lines, S, K, k)
  BY <1>0, <1>1, <1>2 DEF KeyAt
<1>4. FindpKey(lines2, S, K) = FindpKey(lines, S, K)
  BY <1>0, <1>3, FindpKeyIs
<1> QED
  BY <1>2, <1>4

\* A line is inserted after line p.
Inserted(lines, lines2, p, line) ==
  /\ Len(lines) \in Nat /\ Len(lines2) = Len(lines) + 1 /\ p \in 1..Len(lines)
  /\ \A j \in 1..Len(lines) : j <= p => lines2[j] = lines[j]
  /\ lines2[p + 1] = line
  /\ \A j \in 1..Len(lines) : p < j => lines2[j + 1] = lines[j]

\* Where a line has gone then.
Moved(p, j) == IF j <= p THEN j ELSE j + 1

\* Sections move with their lines when a key is inserted.
LEMMA InsertedSections ==
  ASSUME NEW lines, NEW lines2, NEW p, NEW line, Inserted(lines, lines2, p, line),
         line.type = "key", NEW S
  PROVE  FindSection(lines2, S) = Moved(p, FindSection(lines, S))
<1> DEFINE f == FindSection(lines, S)
           g == FindSection(lines2, S)
<1>0. Len(lines) \in Nat /\ Len(lines2) \in Nat /\ Len(lines2) = Len(lines) + 1 /\ p \in 1..Len(lines)
  BY DEF Inserted
<1>1. lines2[p + 1] # SectionLine(S)
  BY SectionLineIs DEF Inserted
<1>2. /\ f \in 0..Len(lines)
      /\ f # 0 => lines[f] = SectionLine(S)
      /\ \A j \in 1..Len(lines) : lines[j] = SectionLine(S) => f # 0 /\ f <= j
  BY <1>0, FindSectionIs
<1>3. /\ g \in 0..Len(lines2)
      /\ g # 0 => lines2[g] = SectionLine(S)
      /\ \A j \in 1..Len(lines2) : lines2[j] = SectionLine(S) => g # 0 /\ g <= j
  BY <1>0, FindSectionIs
<1>4. \A j \in 1..Len(lines) : Moved(p, j) \in 1..Len(lines2) /\ lines2[Moved(p, j)] = lines[j]
  BY <1>0 DEF Inserted, Moved
<1>5. ASSUME NEW i \in 1..Len(lines2), i # p + 1
      PROVE  \E j \in 1..Len(lines) : i = Moved(p, j) /\ lines[j] = lines2[i]
  <2>1. CASE i <= p
    <3>1. i \in 1..Len(lines) /\ i = Moved(p, i)
      BY <1>0, <2>1 DEF Moved
    <3> QED
      BY <1>4, <3>1
  <2>2. CASE i > p
    <3>1. i - 1 \in 1..Len(lines) /\ i = Moved(p, i - 1)
      BY <1>0, <1>5, <2>2 DEF Moved
    <3> QED
      BY <1>4, <3>1
  <2> QED
    BY <1>0, <2>1, <2>2
<1> HIDE DEF f, g
<1>6. CASE f = 0
  <2>1. g = 0
    BY <1>1, <1>2, <1>3, <1>5, <1>6
  <2> QED
    BY <1>0, <1>6, <2>1 DEF Moved, f, g
<1>7. CASE f # 0
  <2>1. g # 0 /\ g <= Moved(p, f)
    BY <1>2, <1>3, <1>4, <1>7
  <2>2. PICK j \in 1..Len(lines) : g = Moved(p, j) /\ lines[j] = SectionLine(S)
    BY <1>1, <1>3, <1>5, <2>1
  <2>3. f <= j
    BY <1>2, <2>2
  <2>4. Moved(p, f) <= Moved(p, j)
    BY <1>0, <1>2, <2>3 DEF Moved
  <2>5. g = Moved(p, f)
    BY <1>0, <1>2, <1>7, <2>1, <2>2, <2>4 DEF Moved
  <2> QED
    BY <2>5 DEF f, g
<1> QED
  BY <1>6, <1>7

\* A key inserted after the line of its section is found there, and every other key
\* moves with its line: the new one belongs to no other section.
LEMMA InsertedKeys ==
  ASSUME NEW lines, NEW lines2, NEW S, NEW K, NEW line,
         FindSection(lines, S) # 0,
         Inserted(lines, lines2, FindSection(lines, S), line), IsKey(line, K)
  PROVE  /\ FindpKey(lines2, S, K) = FindSection(lines, S) + 1
         /\ \A S2, K2 : S2 # S \/ K2 # K =>
              FindpKey(lines2, S2, K2) = Moved(FindSection(lines, S), FindpKey(lines, S2, K2))
<1> DEFINE p == FindSection(lines, S)
<1>0. Len(lines) \in Nat /\ Len(lines2) \in Nat /\ Len(lines2) = Len(lines) + 1 /\ p \in 1..Len(lines)
  BY DEF Inserted
<1>1. lines[p] = SectionLine(S) /\ lines[p].type = "section"
  BY <1>0, FindSectionIs, SectionLineIs
<1>2. \A S2 : FindSection(lines2, S2) = Moved(p, FindSection(lines, S2))
  BY InsertedSections DEF IsKey
<1>3. lines2[p + 1] = line /\ lines2[p] = lines[p]
  BY <1>0 DEF Inserted
<1>4. \A j \in 1..Len(lines) : Moved(p, j) \in 1..Len(lines2) /\ lines2[Moved(p, j)] = lines[j]
  BY <1>0 DEF Inserted, Moved
<1>5. ASSUME NEW i \in 1..Len(lines2), i # p + 1
      PROVE  \E j \in 1..Len(lines) : i = Moved(p, j) /\ lines[j] = lines2[i]
  <2>1. CASE i <= p
    <3>1. i \in 1..Len(lines) /\ i = Moved(p, i)
      BY <1>0, <2>1 DEF Moved
    <3> QED
      BY <1>4, <3>1
  <2>2. CASE i > p
    <3>1. i - 1 \in 1..Len(lines) /\ i = Moved(p, i - 1)
      BY <1>0, <1>5, <2>2 DEF Moved
    <3> QED
      BY <1>4, <3>1
  <2> QED
    BY <1>0, <2>1, <2>2
<1>6. \A i, j \in 0..Len(lines) : i < j <=> Moved(p, i) < Moved(p, j)
  BY <1>0 DEF Moved
<1>7. FindpKey(lines2, S, K) = p + 1
  <2>1. FindSection(lines2, S) = p
    BY <1>0, <1>2 DEF Moved
  <2>2. p + 1 \in 1..Len(lines2) /\ p # 0 /\ p < p + 1
    BY <1>0
  <2>3. KeyAt(lines2, S, K, p + 1)
    <3> HIDE DEF p
    <3>1. \A j \in 1..Len(lines2) : ~(p < j /\ j < p + 1)
      BY <1>0
    <3> QED
      BY <1>3, <2>1, <2>2, <3>1 DEF KeyAt
  <2> QED
    BY <1>0, <2>2, <2>3, FindpKeyIs
<1>8. ASSUME NEW S2, NEW K2, S2 # S \/ K2 # K
      PROVE  FindpKey(lines2, S2, K2) = Moved(p, FindpKey(lines, S2, K2))
  <2> DEFINE f == FindSection(lines, S2)
  <2>1. f \in 0..Len(lines) /\ (f # 0 => lines[f] = SectionLine(S2))
    BY <1>0, FindSectionIs
  <2>2. FindSection(lines2, S2) = Moved(p, f)
    BY <1>2
  <2>3. f # 0 /\ f = p => S2 = S
    BY <1>1, <2>1, SectionLineIs
  <2>4. Moved(p, f) = 0 <=> f = 0
    BY <1>0, <2>1 DEF Moved
  <2> HIDE DEF f, p
  <2>5. ASSUME NEW k \in 1..Len(lines), KeyAt(lines, S2, K2, k)
        PROVE  KeyAt(lines2, S2, K2, Moved(p, k))
    <3>1. /\ f # 0 /\ f < k /\ IsKey(lines[k], K2)
          /\ \A j \in 1..Len(lines) : f < j /\ j < k => lines[j].type # "section" /\ ~IsKey(lines[j], K2)
      BY <2>5 DEF KeyAt, f
    <3>2. ASSUME NEW i \in 1..Len(lines2), Moved(p, f) < i, i < Moved(p, k)
          PROVE  lines2[i].type # "section" /\ ~IsKey(lines2[i], K2)
      <4>1. CASE i = p + 1
        <5>1. f <= p /\ p < k
          BY <1>0, <2>1, <3>2, <4>1 DEF Moved
        <5>2. f = p
          BY <1>0, <1>1, <2>1, <3>1, <5>1
        <5>3. K2 # K
          BY <1>8, <2>3, <3>1, <5>2
        <5> QED
          BY <1>3, <4>1, <5>3 DEF IsKey
      <4>2. CASE i # p + 1
        <5>1. PICK j \in 1..Len(lines) : i = Moved(p, j) /\ lines[j] = lines2[i]
          BY <1>5, <4>2
        <5>2. f < j /\ j < k
          BY <1>0, <2>1, <3>2, <5>1 DEF Moved
        <5> QED
          BY <3>1, <5>1, <5>2
      <4> QED
        BY <4>1, <4>2
    <3>3. Moved(p, f) # 0 /\ Moved(p, f) < Moved(p, k) /\ IsKey(lines2[Moved(p, k)], K2)
      BY <1>0, <1>4, <1>6, <2>1, <2>4, <3>1
    <3> QED
      BY <2>2, <3>2, <3>3 DEF KeyAt
  <2>6. ASSUME NEW i \in 1..Len(lines2), KeyAt(lines2, S2, K2, i)
        PROVE  \E k \in 1..Len(lines) : i = Moved(p, k) /\ KeyAt(lines, S2, K2, k)
    <3>1. /\ Moved(p, f) # 0 /\ Moved(p, f) < i /\ IsKey(lines2[i], K2)
          /\ \A j \in 1..Len(lines2) :
               Moved(p, f) < j /\ j < i => lines2[j].type # "section" /\ ~IsKey(lines2[j], K2)
      BY <2>2, <2>6 DEF KeyAt
    <3>2. i # p + 1
      <4> SUFFICES ASSUME i = p + 1 PROVE FALSE
        OBVIOUS
      <4>1. K2 = K
        BY <1>3, <3>1 DEF IsKey
      <4>2. f <= p
        BY <1>0, <2>1, <3>1 DEF Moved
      <4>3. f = p
        <5> SUFFICES ASSUME f < p PROVE FALSE
          BY <1>0, <2>1, <4>2
        <5>1. Moved(p, f) < p /\ p < i /\ p \in 1..Len(lines2)
          BY <1>0, <2>1 DEF Moved
        <5> QED
          BY <1>1, <1>3, <3>1, <5>1
      <4> QED
        BY <1>8, <2>3, <2>4, <3>1, <4>1, <4>3
    <3>3. PICK k \in 1..Len(lines) : i = Moved(p, k) /\ lines[k] = lines2[i]
      BY <1>5, <3>2
    <3>4. f # 0 /\ f < k /\ IsKey(lines[k], K2)
      BY <1>6, <2>1, <2>4, <3>1, <3>3
    <3>5. ASSUME NEW j \in 1..Len(lines), f < j, j < k
          PROVE  lines[j].type # "section" /\ ~IsKey(lines[j], K2)
      <4>1. Moved(p, f) < Moved(p, j) /\ Moved(p, j) < i
        BY <1>6, <2>1, <3>3, <3>5
      <4> QED
        BY <1>4, <3>1, <4>1
    <3>6. KeyAt(lines, S2, K2, k)
      BY <3>4, <3>5 DEF KeyAt, f
    <3> QED
      BY <3>3, <3>6
  <2>7. CASE FindpKey(lines, S2, K2) = 0
    <3>1. Moved(p, FindpKey(lines, S2, K2)) = 0
      BY <1>0, <2>7 DEF Moved
    <3>2. \A k \in 1..Len(lines) : ~KeyAt(lines, S2, K2, k)
      BY <1>0, <2>7, FindpKeyIs
    <3>3. \A i \in 1..Len(lines2) : ~KeyAt(lines2, S2, K2, i)
      BY <2>6, <3>2
    <3>4. FindpKey(lines2, S2, K2) \in 0..Len(lines2)
      BY <1>0, FindpKeyIs
    <3>5. FindpKey(lines2, S2, K2) \notin 1..Len(lines2)
      BY <1>0, <3>3, FindpKeyIs
    <3> QED
      BY <1>0, <3>1, <3>4, <3>5
  <2>8. CASE FindpKey(lines, S2, K2) # 0
    <3> DEFINE k == FindpKey(lines, S2, K2)
    <3>1. k \in 1..Len(lines)
      BY <1>0, <2>8, FindpKeyIs
    <3>2. KeyAt(lines, S2, K2, k)
      BY <1>0, <3>1, FindpKeyIs
    <3>3. KeyAt(lines2, S2, K2, Moved(p, k)) /\ Moved(p, k) \in 1..Len(lines2)
      BY <1>4, <2>5, <3>1, <3>2
    <3> HIDE DEF k
    <3>4. FindpKey(lines2, S2, K2) = Moved(p, k)
      BY <1>0, <3>3, FindpKeyIs
    <3> QED
      BY <3>4 DEF k
  <2> QED
    BY <2>7, <2>8
<1> QED
  BY <1>7, <1>8

\* A section and its first key behind the first c lines, the only ones with sections.
Appended(lines, lines2, c, S, line) ==
  /\ Agree(lines, lines2, c)
  /\ Len(lines2) = c + 2 /\ lines2[c + 1] = SectionLine(S) /\ lines2[c + 2] = line
  /\ \A j \in 1..Len(lines) : c < j => lines[j].type # "section"
  /\ FindSection(lines, S) = 0

\* A section that is appended is found at its line and the others where they were,
\* which was not behind the first c lines.
LEMMA AppendedSections ==
  ASSUME NEW lines, NEW lines2, NEW c, NEW S, NEW line, Appended(lines, lines2, c, S, line),
         line.type = "key"
  PROVE  /\ FindSection(lines2, S) = c + 1
         /\ \A S2 : S2 # S => FindSection(lines2, S2) = FindSection(lines, S2)
         /\ \A S2 : FindSection(lines, S2) \in 0..c
<1>0. /\ Len(lines) \in Nat /\ Len(lines2) \in Nat /\ c \in Nat /\ c <= Len(lines)
      /\ Len(lines2) = c + 2 /\ c \in 0..Len(lines2)
      /\ lines2[c + 1] = SectionLine(S) /\ lines2[c + 2] = line
      /\ \A j \in 1..c : lines2[j] = lines[j]
      /\ \A j \in 1..Len(lines) : c < j => lines[j].type # "section"
      /\ FindSection(lines, S) = 0
  BY DEF Appended, Agree
<1>1. \A S2 : FindSection(lines, S2) \in 0..c
  <2> SUFFICES ASSUME NEW S2 PROVE FindSection(lines, S2) \in 0..c
    OBVIOUS
  <2> DEFINE f == FindSection(lines, S2)
  <2>1. f \in 0..Len(lines) /\ (f # 0 => lines[f] = SectionLine(S2))
    BY <1>0, FindSectionIs
  <2>2. f # 0 => lines[f].type = "section"
    BY <2>1, SectionLineIs
  <2> HIDE DEF f
  <2>3. f \in 0..c
    BY <1>0, <2>1, <2>2
  <2> QED
    BY <2>3 DEF f
<1>2. FindSection(lines2, S) = c + 1
  <2>1. \A j \in 1..Len(lines2) : j < c + 1 => lines2[j] # SectionLine(S)
    <3> SUFFICES ASSUME NEW j \in 1..Len(lines2), j < c + 1 PROVE lines2[j] # SectionLine(S)
      OBVIOUS
    <3>1. j \in 1..c /\ j \in 1..Len(lines)
      BY <1>0
    <3> QED
      BY <1>0, <3>1, FindSectionIs
  <2>2. c + 1 \in 1..Len(lines2)
    BY <1>0
  <2> QED
    BY <1>0, <2>1, <2>2, FindSectionAt
<1>3. ASSUME NEW S2, S2 # S PROVE FindSection(lines2, S2) = FindSection(lines, S2)
  <2>1. CASE FindSection(lines, S2) # 0
    <3>1. FindSection(lines, S2) \in 1..c
      BY <1>0, <1>1, <2>1
    <3> QED
      BY <3>1, PrefixSections DEF Appended
  <2>2. CASE FindSection(lines, S2) = 0
    <3> DEFINE f == FindSection(lines2, S2)
    <3>1. f \in 0..Len(lines2) /\ (f # 0 => lines2[f] = SectionLine(S2))
      BY <1>0, FindSectionIs
    <3>2. f # c + 1
      BY <1>0, <1>3, <3>1, SectionLineIs
    <3>3. f # c + 2
      BY <1>0, <3>1, SectionLineIs
    <3>4. f \notin 1..c
      <4> SUFFICES ASSUME f \in 1..c PROVE FALSE
        OBVIOUS
      <4>1. f \in 1..Len(lines) /\ lines[f] = SectionLine(S2)
        BY <1>0, <3>1
      <4> HIDE DEF f
      <4> QED
        BY <1>0, <2>2, <4>1, FindSectionIs
    <3> HIDE DEF f
    <3>5. f = 0
      BY <1>0, <3>1, <3>2, <3>3, <3>4
    <3> QED
      BY <2>2, <3>5 DEF f
  <2> QED
    BY <2>1, <2>2
<1> QED
  BY <1>1, <1>2, <1>3

\* Its first key is found after it, and of the other keys those of the first c lines.
LEMMA AppendedKeys ==
  ASSUME NEW lines, NEW lines2, NEW c, NEW S, NEW K, NEW line,
         Appended(lines, lines2, c, S, line), IsKey(line, K)
  PROVE  /\ FindpKey(lines2, S, K) = c + 2
         /\ \A S2, K2 : S2 # S \/ K2 # K =>
              FindpKey(lines2, S2, K2) =
                IF FindpKey(lines, S2, K2) <= c THEN FindpKey(lines, S2, K2) ELSE 0
<1>0. /\ Len(lines) \in Nat /\ Len(lines2) \in Nat /\ c \in Nat /\ c <= Len(lines)
      /\ Len(lines2) = c + 2
      /\ lines2[c + 1] = SectionLine(S) /\ lines2[c + 2] = line
      /\ FindSection(lines, S) = 0
  BY DEF Appended, Agree
<1>1. /\ FindSection(lines2, S) = c + 1
      /\ \A S2 : S2 # S => FindSection(lines2, S2) = FindSection(lines, S2)
      /\ \A S2 : FindSection(lines, S2) \in 0..c
  BY AppendedSections DEF IsKey
<1>2. lines2[c + 1].type = "section"
  BY <1>0, SectionLineIs
<1>3. FindpKey(lines2, S, K) = c + 2
  <2>1. \A j \in 1..Len(lines2) : ~(c + 1 < j /\ j < c + 2)
    BY <1>0
  <2>2. c + 1 # 0 /\ c + 1 < c + 2 /\ c + 2 \in 1..Len(lines2)
    BY <1>0
  <2>3. KeyAt(lines2, S, K, c + 2)
    BY <1>0, <1>1, <2>1, <2>2 DEF KeyAt
  <2> QED
    BY <1>0, <2>2, <2>3, FindpKeyIs
<1>4. ASSUME NEW S2, NEW K2, S2 # S \/ K2 # K
      PROVE  FindpKey(lines2, S2, K2) =
               IF FindpKey(lines, S2, K2) <= c THEN FindpKey(lines, S2, K2) ELSE 0
  <2> DEFINE k == FindpKey(lines, S2, K2)
             i == FindpKey(lines2, S2, K2)
  <2>1. k \in 0..Len(lines) /\ i \in 0..Len(lines2)
    BY <1>0, FindpKeyIs
  <2>2. i \in 0..c
    <3> SUFFICES ASSUME i \in {c + 1, c + 2} PROVE FALSE
      BY <1>0, <2>1
    <3>1. i \in 1..Len(lines2)
      BY <1>0
    <3>2. KeyAt(lines2, S2, K2, i)
      BY <1>0, <3>1, FindpKeyIs
    <3> HIDE DEF i
    <3>3. i = c + 2
      BY <1>0, <1>2, <3>2 DEF KeyAt, IsKey
    <3>4. K2 = K
      BY <1>0, <3>2, <3>3 DEF KeyAt, IsKey
    <3>5. S2 # S
      BY <1>4, <3>4
    <3>6. FindSection(lines2, S2) \in 0..c
      BY <1>1, <3>5
    <3>7. FindSection(lines2, S2) < c + 1 /\ c + 1 < i /\ c + 1 \in 1..Len(lines2)
      BY <1>0, <3>3, <3>6
    <3> QED
      BY <1>2, <3>2, <3>7 DEF KeyAt
  <2>3. CASE k \in 1..c
    <3>1. i = k
      BY <2>3, PrefixKeys DEF Appended
    <3> QED
      BY <1>0, <2>3, <3>1
  <2>4. CASE i \in 1..c
    <3>1. Agree(lines2, lines, c)
      BY DEF Appended, Agree
    <3>2. k = i
      BY <2>4, <3>1, PrefixKeys
    <3> QED
      BY <1>0, <2>4, <3>2
  <2>5. CASE k \notin 1..c /\ i \notin 1..c
    <3>1. i = 0 /\ (k = 0 \/ ~(k <= c))
      <4> HIDE DEF i, k
      <4> QED
        BY <1>0, <2>1, <2>2, <2>5
    <3> QED
      BY <1>0, <3>1
  <2> QED
    BY <2>3, <2>4, <2>5
<1> QED
  BY <1>3, <1>4

-------------------------------------------------------------------------------
(* Writing a key.                                                          *)

\* What the names of sections and keys are, the texts of values, the values, the lines,
\* and the lists with their last entry.
FileNames  == Sites \cup {"", "Global", "url", "password", "directory", "version", "temp_folder",
                        "local_directory", "last_site"}
FileTexts  == Sites \cup Urls \cup Passwords \cup Directories \cup {"0", "1"}
FileValues == [cipher : BOOLEAN, text : FileTexts]

\* A version and a site have no brackets.
ValueFits(K, v) == v.text \in Bracketed => K \notin {"version", "last_site"}
ValuesOf(K)     == {v \in FileValues : ValueFits(K, v)}

FileLines  ==
  {line \in [type : {"key", "section", "comment"}, name : FileNames, value : FileValues] :
     /\ line.type = "section" => line.value = Plain("") \/ line.value.text \in Bracketed
     /\ ValueFits(line.name, line.value)}
Texts      == [lines : Seq(FileLines), CurEntry : Nat]

\* The section "Global" is not the last line.
GlobalFilled(lines) ==
  LET g == FindSection(lines, "Global") IN g # 0 => g < Len(lines)

\* No key has a value with brackets.
Clean(lines) ==
  \A i \in 1..Len(lines) : lines[i].value.text \in Bracketed => lines[i].type = "section"

\* A list OpenIniFile and the writes make.  Behind its last entry there may be keys, of
\* the section that is the last entry, and that section is not "Global": the next section
\* appended cuts them off (AddItem).
TextOk(text) ==
  /\ text \in Texts
  /\ text.CurEntry <= Len(text.lines)
  /\ \A j \in 1..Len(text.lines) : text.CurEntry < j => text.lines[j].type # "section"
  /\ text.CurEntry < Len(text.lines) =>
       text.CurEntry # 0 /\ text.lines[text.CurEntry].type = "section"
  /\ GlobalFilled(text.lines)
  /\ FindSection(text.lines, "Global") = text.CurEntry => text.CurEntry = 0

\* The section whose keys the next section appended cuts off.
Pending(text, S) == text.CurEntry # 0 /\ FindSection(text.lines, S) = text.CurEntry

\* The fields of the lines that are written.
LEMMA LineIs ==
  ASSUME NEW K, NEW v
  PROVE  /\ IsKey(Line("key", K, v), K)
         /\ Line("key", K, v).value = v
         /\ K \in FileNames /\ v \in ValuesOf(K) => Line("key", K, v) \in FileLines
         /\ K \in FileNames => SectionLine(K) \in FileLines
<1>1. IsKey(Line("key", K, v), K) /\ Line("key", K, v).value = v
  BY DEF IsKey, Line
<1>2. ASSUME K \in FileNames, v \in ValuesOf(K) PROVE Line("key", K, v) \in FileLines
  BY <1>2 DEF Line, FileLines, ValuesOf
<1>3. Plain("") \in FileValues /\ Plain("").text \notin Bracketed
  BY DEF Plain, FileValues, FileTexts, Urls, Bracketed
<1>4. ASSUME K \in FileNames PROVE SectionLine(K) \in FileLines
  BY <1>3, <1>4 DEF SectionLine, Line, FileLines, ValueFits
<1> QED
  BY <1>1, <1>2, <1>4

\* A write of a key that is there changes the value of its line.
LEMMA WriteReplaces ==
  ASSUME NEW text \in Texts, NEW S \in FileNames, NEW K \in FileNames, NEW v \in ValuesOf(K),
         FindpKey(text.lines, S, K) # 0
  PROVE  LET new == WriteString(text, S, K, v)
             k   == FindpKey(text.lines, S, K)
         IN  /\ new \in Texts /\ new.CurEntry = text.CurEntry
             /\ SameShape(text.lines, new.lines)
             /\ k \in 1..Len(text.lines) /\ new.lines[k].value = v
             /\ \A j \in 1..Len(text.lines) : j # k => new.lines[j] = text.lines[j]
<1> DEFINE new == WriteString(text, S, K, v)
           k == FindpKey(text.lines, S, K)
           line == Line("key", K, v)
<1>1. new = [text EXCEPT !.lines = [@ EXCEPT ![k] = line]]
  BY DEF WriteString
<1>2. text.lines \in Seq(FileLines) /\ Len(text.lines) \in Nat
  BY DEF Texts
<1>3. k \in 1..Len(text.lines)
  BY <1>2, FindpKeyIs
<1>4. KeyAt(text.lines, S, K, k)
  BY <1>2, <1>3, FindpKeyIs
<1>5. IsKey(text.lines[k], K)
  BY <1>4 DEF KeyAt
<1>6. line \in FileLines /\ IsKey(line, K) /\ line.value = v
  BY LineIs
<1> HIDE DEF new, k, line
<1>7. new.lines = [text.lines EXCEPT ![k] = line] /\ new.CurEntry = text.CurEntry
  BY <1>1 DEF Texts
<1>8. new.lines \in Seq(FileLines) /\ Len(new.lines) = Len(text.lines)
  BY <1>2, <1>3, <1>6, <1>7
<1>9. new \in Texts
  BY <1>1, <1>2, <1>7, <1>8 DEF Texts
<1>10. new.lines[k] = line /\ \A j \in 1..Len(text.lines) : j # k => new.lines[j] = text.lines[j]
  BY <1>2, <1>3, <1>7
<1>11. SameShape(text.lines, new.lines)
  BY <1>2, <1>5, <1>6, <1>8, <1>10 DEF SameShape, IsKey
<1> QED
  BY <1>3, <1>6, <1>7, <1>9, <1>10, <1>11 DEF new, k

\* InsertAt of the community modules inserts after line p what is to be line p + 1.
LEMMA InsertAtIs ==
  ASSUME NEW lines \in Seq(FileLines), NEW p \in 1..Len(lines), NEW line \in FileLines,
         NEW i, i = p + 1
  PROVE  /\ InsertAt(lines, i, line) \in Seq(FileLines)
         /\ Inserted(lines, InsertAt(lines, i, line), p, line)
<1> DEFINE a == SubSeq(lines, 1, p)
           b == SubSeq(lines, p + 1, Len(lines))
           new == a \o <<line>> \o b
<1>0. i - 1 = p
  OBVIOUS
<1>1. InsertAt(lines, i, line) = new
  BY <1>0 DEF InsertAt
<1>2. a \in Seq(FileLines) /\ Len(a) = p /\ \A j \in 1..p : a[j] = lines[j]
  OBVIOUS
<1>3. b \in Seq(FileLines) /\ Len(b) = Len(lines) - p /\ \A j \in 1..Len(lines) - p : b[j] = lines[p + j]
  OBVIOUS
<1> HIDE DEF a, b
<1>4. /\ a \o <<line>> \in Seq(FileLines) /\ Len(a \o <<line>>) = p + 1
      /\ \A j \in 1..p : (a \o <<line>>)[j] = lines[j]
      /\ (a \o <<line>>)[p + 1] = line
  BY <1>2
<1>5. /\ new \in Seq(FileLines) /\ Len(new) = Len(lines) + 1
      /\ \A j \in 1..p + 1 : new[j] = (a \o <<line>>)[j]
      /\ \A j \in 1..Len(lines) - p : new[p + 1 + j] = b[j]
  <2> DEFINE d == a \o <<line>>
  <2>1. new = d \o b /\ d \in Seq(FileLines) /\ Len(d) = p + 1
    BY <1>4
  <2> HIDE DEF d, new
  <2>2. /\ d \o b \in Seq(FileLines) /\ Len(d \o b) = p + 1 + (Len(lines) - p)
        /\ \A j \in 1..p + 1 : (d \o b)[j] = d[j]
    <3>1. Len(lines) - p \in Nat
      OBVIOUS
    <3>2. d \o b \in Seq(FileLines)
      BY <1>3, <2>1
    <3>3. Len(d \o b) = Len(d) + Len(b)
      BY <1>3, <2>1, ConcatProperties
    <3>4. \A j \in 1..p + 1 : (d \o b)[j] = d[j]
      BY <1>3, <2>1
    <3> QED
      BY <1>3, <2>1, <3>2, <3>3, <3>4
  <2>3. \A j \in 1..Len(lines) - p : (d \o b)[p + 1 + j] = b[j]
    BY <1>3, <2>1
  <2>4. p + 1 + (Len(lines) - p) = Len(lines) + 1
    OBVIOUS
  <2> QED
    BY <2>1, <2>2, <2>3, <2>4 DEF d
<1> HIDE DEF new
<1>6. ASSUME NEW j \in 1..Len(lines), p < j PROVE new[j + 1] = lines[j]
  <2>1. j - p \in 1..Len(lines) - p /\ p + 1 + (j - p) = j + 1 /\ p + (j - p) = j
    BY <1>6
  <2>2. new[p + 1 + (j - p)] = lines[p + (j - p)]
    BY <1>3, <1>5, <2>1
  <2> QED
    BY <2>1, <2>2
<1>7. \A j \in 1..Len(lines) : j <= p => new[j] = lines[j]
  BY <1>4, <1>5
<1>8. new[p + 1] = line
  BY <1>4, <1>5
<1>9. Inserted(lines, new, p, line)
  BY <1>5, <1>6, <1>7, <1>8 DEF Inserted
<1> QED
  BY <1>1, <1>5, <1>9

\* A write of a key its section lacks inserts a line after that of the section.
LEMMA WriteInserts ==
  ASSUME NEW text \in Texts, NEW S \in FileNames, NEW K \in FileNames, NEW v \in ValuesOf(K),
         FindpKey(text.lines, S, K) = 0, FindSection(text.lines, S) # 0
  PROVE  LET new == WriteString(text, S, K, v)
             p   == FindSection(text.lines, S)
         IN  /\ new \in Texts /\ new.CurEntry = Moved(p, text.CurEntry)
             /\ Inserted(text.lines, new.lines, p, Line("key", K, v))
<1> DEFINE new == WriteString(text, S, K, v)
           p == FindSection(text.lines, S)
           line == Line("key", K, v)
<1>1. new = AddItemAt(text, p, line)
  BY DEF WriteString
<1>2. text.lines \in Seq(FileLines) /\ Len(text.lines) \in Nat /\ text.CurEntry \in Nat
  BY DEF Texts
<1>3. p \in 1..Len(text.lines)
  BY <1>2, FindSectionIs
<1>4. line \in FileLines
  BY LineIs
<1> HIDE DEF new, p, line
<1>5. new.lines = InsertAt(text.lines, p + 1, line) /\ new.CurEntry = Moved(p, text.CurEntry)
  BY <1>1, <1>2, <1>3 DEF AddItemAt, Moved
<1>6. new.lines \in Seq(FileLines) /\ Inserted(text.lines, new.lines, p, line)
  BY <1>2, <1>3, <1>4, <1>5, InsertAtIs
<1>7. new.CurEntry \in Nat
  BY <1>2, <1>5 DEF Moved
<1>8. new \in Texts
  BY <1>1, <1>6, <1>7 DEF AddItemAt, Texts
<1> QED
  BY <1>5, <1>6, <1>8 DEF new, p, line

\* AddItem drops what follows the last entry and makes the new line the last one.
LEMMA AddItemIs ==
  ASSUME NEW text \in Texts, text.CurEntry <= Len(text.lines), NEW line \in FileLines
  PROVE  LET new == AddItem(text, line) IN
         /\ new \in Texts /\ new.CurEntry = text.CurEntry + 1
         /\ Len(new.lines) = text.CurEntry + 1
         /\ new.lines[text.CurEntry + 1] = line
         /\ \A j \in 1..text.CurEntry : new.lines[j] = text.lines[j]
<1> DEFINE new == AddItem(text, line)
           a == SubSeq(text.lines, 1, text.CurEntry)
<1>1. new = [lines |-> Append(a, line), CurEntry |-> text.CurEntry + 1]
  BY DEF AddItem, AddItemMoving
<1>2. text.lines \in Seq(FileLines) /\ text.CurEntry \in Nat
  BY DEF Texts
<1>3. a \in Seq(FileLines) /\ Len(a) = text.CurEntry /\ \A j \in 1..text.CurEntry : a[j] = text.lines[j]
  BY <1>2
<1> HIDE DEF a
<1>4. /\ Append(a, line) \in Seq(FileLines)
      /\ Len(Append(a, line)) = text.CurEntry + 1
      /\ Append(a, line)[text.CurEntry + 1] = line
      /\ \A j \in 1..text.CurEntry : Append(a, line)[j] = text.lines[j]
  BY <1>2, <1>3
<1> QED
  BY <1>1, <1>2, <1>4 DEF Texts

\* A write to a section that is not there drops what follows the last entry and appends
\* the section and the key.
LEMMA WriteAppends ==
  ASSUME NEW text \in Texts, TextOk(text), NEW S \in FileNames, NEW K \in FileNames, NEW v \in ValuesOf(K),
         FindSection(text.lines, S) = 0
  PROVE  LET new == WriteString(text, S, K, v)
         IN  /\ new \in Texts /\ new.CurEntry = text.CurEntry + 2
             /\ Appended(text.lines, new.lines, text.CurEntry, S, Line("key", K, v))
<1> DEFINE new == WriteString(text, S, K, v)
           line == Line("key", K, v)
           one == AddItem(text, SectionLine(S))
           c == text.CurEntry
<1>1. new = AddItem(one, line)
  BY DEF WriteString, AddSectionAndpKey, FindpKey
<1>2. line \in FileLines /\ SectionLine(S) \in FileLines
  BY LineIs
<1>3. c \in Nat /\ c <= Len(text.lines) /\ Len(text.lines) \in Nat
  BY DEF Texts, TextOk
<1> HIDE DEF new, line
<1>4. /\ one \in Texts /\ one.CurEntry = c + 1 /\ Len(one.lines) = c + 1
      /\ one.lines[c + 1] = SectionLine(S)
      /\ \A j \in 1..c : one.lines[j] = text.lines[j]
  BY <1>2, <1>3, AddItemIs
<1> HIDE DEF one
<1>5. /\ new \in Texts /\ new.CurEntry = c + 1 + 1 /\ Len(new.lines) = c + 1 + 1
      /\ new.lines[c + 1 + 1] = line
      /\ \A j \in 1..c + 1 : new.lines[j] = one.lines[j]
  <2>1. one.CurEntry <= Len(one.lines)
    BY <1>3, <1>4
  <2> QED
    BY <1>1, <1>2, <1>4, <2>1, AddItemIs
<1>6. new.CurEntry = c + 2 /\ Len(new.lines) = c + 2 /\ new.lines[c + 2] = line
  BY <1>3, <1>5
<1>7. new.lines[c + 1] = SectionLine(S) /\ \A j \in 1..c : new.lines[j] = text.lines[j]
  <2>1. c + 1 \in 1..c + 1 /\ \A j \in 1..c : j \in 1..c + 1
    BY <1>3
  <2> QED
    BY <1>4, <1>5, <2>1
<1>8. Appended(text.lines, new.lines, c, S, line)
  BY <1>3, <1>6, <1>7 DEF Appended, Agree, TextOk
<1> QED
  BY <1>5, <1>6, <1>8 DEF new, line

-------------------------------------------------------------------------------
(* Read over write.                                                        *)

\* The key is in both files with the same value, or in neither.
Same(lines, lines2, S, K) ==
  LET k  == FindpKey(lines, S, K)
      k2 == FindpKey(lines2, S, K)
  IN  /\ k2 = 0 <=> k = 0
      /\ k # 0 => lines2[k2].value = lines[k].value

\* What a write keeps of the other keys.
Keeps(text, new, S, K) ==
  \A S2, K2 : S2 # S \/ K2 # K =>
    IF FindSection(text.lines, S) = 0 /\ Pending(text, S2)
    THEN FindpKey(new.lines, S2, K2) = 0
    ELSE Same(text.lines, new.lines, S2, K2)

\* A write makes no section pending, and none is when it has appended one.
StillPending(text, new, S) ==
  \A S2 : Pending(new, S2) => Pending(text, S2) /\ FindSection(text.lines, S) # 0

\* The key is in the file, with the value.
Reads(lines, S, K, v) == FindpKey(lines, S, K) # 0 /\ lines[FindpKey(lines, S, K)].value = v

\* What a write of the value v does to a list.
Wrote(text, new, S, K, v) ==
  /\ TextOk(new)
  /\ Reads(new.lines, S, K, v)
  /\ Keeps(text, new, S, K)
  /\ StillPending(text, new, S)
  /\ \A S2 : FindSection(new.lines, S2) = 0 <=> FindSection(text.lines, S2) = 0 /\ S2 # S
  /\ Clean(text.lines) /\ v.text \notin Bracketed => Clean(new.lines)

\* Keys of different names or sections have different lines.
LEMMA OneKey ==
  ASSUME NEW lines, Len(lines) \in Nat, NEW S, NEW K, NEW S2, NEW K2,
         FindpKey(lines, S, K) # 0, FindpKey(lines, S2, K2) = FindpKey(lines, S, K)
  PROVE  S2 = S /\ K2 = K
<1> DEFINE k == FindpKey(lines, S, K)
           f == FindSection(lines, S)
           g == FindSection(lines, S2)
<1>1. k \in 1..Len(lines)
  BY FindpKeyIs
<1>2. KeyAt(lines, S, K, k) /\ KeyAt(lines, S2, K2, k)
  BY <1>1, FindpKeyIs
<1>3. f \in 0..Len(lines) /\ g \in 0..Len(lines)
  BY FindSectionIs
<1>4. f # 0 /\ g # 0 => lines[f] = SectionLine(S) /\ lines[g] = SectionLine(S2)
  BY FindSectionIs
<1>5. (f # 0 => SectionLine(S).type = "section") /\ (g # 0 => SectionLine(S2).type = "section")
  BY SectionLineIs
<1> HIDE DEF k
<1>6. /\ f # 0 /\ f < k /\ g # 0 /\ g < k
      /\ IsKey(lines[k], K) /\ IsKey(lines[k], K2)
      /\ \A j \in 1..Len(lines) : f < j /\ j < k => lines[j].type # "section"
      /\ \A j \in 1..Len(lines) : g < j /\ j < k => lines[j].type # "section"
  BY <1>2 DEF KeyAt
<1> HIDE DEF f, g
<1>7. f = g
  BY <1>1, <1>3, <1>4, <1>5, <1>6
<1>8. SectionLine(S).name = S /\ SectionLine(S2).name = S2
  BY SectionLineIs
<1> QED
  BY <1>4, <1>6, <1>7, <1>8 DEF IsKey

\* A list has a number of lines.
LEMMA TextIs ==
  ASSUME NEW text \in Texts
  PROVE  /\ text.lines \in Seq(FileLines) /\ Len(text.lines) \in Nat /\ text.CurEntry \in Nat
         /\ text = [lines |-> text.lines, CurEntry |-> text.CurEntry]
  BY DEF Texts

\* Wrote, of a key that is there.
LEMMA WroteReplacing ==
  ASSUME NEW text \in Texts, TextOk(text), NEW S \in FileNames, NEW K \in FileNames,
         NEW v \in ValuesOf(K), FindpKey(text.lines, S, K) # 0
  PROVE  Wrote(text, WriteString(text, S, K, v), S, K, v)
<1> DEFINE new == WriteString(text, S, K, v)
           k == FindpKey(text.lines, S, K)
<1>1. /\ new \in Texts /\ new.CurEntry = text.CurEntry
      /\ SameShape(text.lines, new.lines)
      /\ k \in 1..Len(text.lines) /\ new.lines[k].value = v
      /\ \A j \in 1..Len(text.lines) : j # k => new.lines[j] = text.lines[j]
  BY WriteReplaces
<1> HIDE DEF new
<1>2. Len(text.lines) \in Nat /\ Len(new.lines) = Len(text.lines)
  BY <1>1, TextIs DEF SameShape
<1>3. \A S2, K2 : /\ FindSection(new.lines, S2) = FindSection(text.lines, S2)
                  /\ FindpKey(new.lines, S2, K2) = FindpKey(text.lines, S2, K2)
  BY <1>1, SameShapeFinds
<1>4. \A j \in 1..Len(text.lines) : new.lines[j].type = text.lines[j].type
  BY <1>1 DEF SameShape
<1>5. TextOk(new)
  <2>1. GlobalFilled(new.lines)
    BY <1>2, <1>3 DEF TextOk, GlobalFilled
  <2>2. text.CurEntry \in Nat
    BY TextIs
  <2> QED
    BY <1>1, <1>2, <1>3, <1>4, <2>1, <2>2 DEF TextOk
<1>6. Reads(new.lines, S, K, v)
  BY <1>1, <1>3 DEF Reads
<1>7. Keeps(text, new, S, K)
  <2> SUFFICES ASSUME NEW S2, NEW K2, S2 # S \/ K2 # K
               PROVE  Same(text.lines, new.lines, S2, K2)
    <3>1. FindSection(text.lines, S) # 0
      BY DEF FindpKey
    <3> QED
      BY <3>1 DEF Keeps
  <2> DEFINE i == FindpKey(text.lines, S2, K2)
  <2>1. i # 0 => i \in 1..Len(text.lines) /\ i # k
    BY <1>2, OneKey, FindpKeyIs
  <2>2. FindpKey(new.lines, S2, K2) = i
    BY <1>3
  <2> HIDE DEF i, k
  <2>3. i # 0 => new.lines[i] = text.lines[i]
    BY <1>1, <2>1
  <2> QED
    BY <2>2, <2>3 DEF Same, i
<1>8. FindSection(text.lines, S) # 0
  BY DEF FindpKey
<1>9. StillPending(text, new, S)
  BY <1>1, <1>3, <1>8 DEF StillPending, Pending
<1>10. ASSUME Clean(text.lines), v.text \notin Bracketed PROVE Clean(new.lines)
  <2> SUFFICES ASSUME NEW j \in 1..Len(text.lines), new.lines[j].value.text \in Bracketed
               PROVE  new.lines[j].type = "section"
    BY <1>2 DEF Clean
  <2>1. j # k
    BY <1>1, <1>10
  <2> HIDE DEF k
  <2> QED
    BY <1>1, <1>10, <2>1 DEF Clean
<1> QED
  BY <1>3, <1>5, <1>6, <1>7, <1>8, <1>9, <1>10 DEF Wrote, new

\* Wrote, of a key its section lacks.
LEMMA WroteInserting ==
  ASSUME NEW text \in Texts, TextOk(text), NEW S \in FileNames, NEW K \in FileNames,
         NEW v \in ValuesOf(K), FindpKey(text.lines, S, K) = 0, FindSection(text.lines, S) # 0
  PROVE  Wrote(text, WriteString(text, S, K, v), S, K, v)
<1> DEFINE new == WriteString(text, S, K, v)
           p == FindSection(text.lines, S)
           line == Line("key", K, v)
           n == Len(text.lines)
           c == text.CurEntry
<1>1. new \in Texts /\ new.CurEntry = Moved(p, c) /\ Inserted(text.lines, new.lines, p, line)
  BY WriteInserts
<1>2. IsKey(line, K) /\ line.value = v /\ line.type = "key"
  BY LineIs DEF IsKey
<1>3. n \in Nat /\ c \in Nat
  BY TextIs
<1>4. p \in 1..n /\ text.lines[p].type = "section"
  BY <1>3, FindSectionIs, SectionLineIs
<1>5. /\ FindpKey(new.lines, S, K) = p + 1
      /\ \A S2, K2 : S2 # S \/ K2 # K =>
           FindpKey(new.lines, S2, K2) = Moved(p, FindpKey(text.lines, S2, K2))
  <2> HIDE DEF new, line
  <2> QED
    BY <1>1, <1>2, InsertedKeys
<1>6. \A S2 : FindSection(new.lines, S2) = Moved(p, FindSection(text.lines, S2))
  BY <1>1, <1>2, InsertedSections
<1>7. /\ c <= n
      /\ \A j \in 1..n : c < j => text.lines[j].type # "section"
      /\ c < n => c # 0 /\ text.lines[c].type = "section"
      /\ FindSection(text.lines, "Global") = c => c = 0
  BY DEF TextOk
<1>8. /\ Len(new.lines) = n + 1
      /\ \A j \in 1..n : j <= p => new.lines[j] = text.lines[j]
      /\ new.lines[p + 1] = line
      /\ \A j \in 1..n : p < j => new.lines[j + 1] = text.lines[j]
  BY <1>1 DEF Inserted
<1>9. \A S2 : FindSection(text.lines, S2) \in 0..n
  BY <1>3, FindSectionIs
<1>10. \A i, j \in 0..n : Moved(p, i) \in 0..n + 1 /\ (Moved(p, i) = Moved(p, j) => i = j)
  BY <1>3, <1>4 DEF Moved
<1>11. Moved(p, 0) = 0
  BY <1>4 DEF Moved
<1>12. \A j \in 1..n : new.lines[Moved(p, j)] = text.lines[j]
  <2> HIDE DEF new, line, p, n, c
  <2> QED
    BY <1>3, <1>4, <1>8 DEF Moved
<1>13. p <= c
  BY <1>3, <1>4, <1>7
<1> DEFINE g == FindSection(text.lines, "Global")
<1>14. g # 0 => g < n
  BY DEF TextOk, GlobalFilled
<1> HIDE DEF new, p, line, c, g, n
<1>15. GlobalFilled(new.lines)
  <2>1. FindSection(new.lines, "Global") = Moved(p, g) /\ g \in 0..n
    BY <1>6, <1>9 DEF g
  <2>2. CASE g = 0
    BY <1>11, <2>1, <2>2 DEF GlobalFilled
  <2>3. CASE g # 0
    <3>1. Moved(p, g) < n + 1
      BY <1>3, <1>14, <2>1, <2>3 DEF Moved
    <3> QED
      BY <1>8, <2>1, <3>1 DEF GlobalFilled
  <2> QED
    BY <2>2, <2>3
<1>16. TextOk(new)
  <2>1. new.CurEntry = IF c = p THEN c ELSE c + 1
    BY <1>1, <1>3, <1>4, <1>13 DEF Moved
  <2>2. new.CurEntry <= n + 1
    BY <1>3, <1>7, <2>1
  <2>3. ASSUME NEW j \in 1..n + 1, new.CurEntry < j PROVE new.lines[j].type # "section"
    <3>1. CASE j = p + 1
      BY <1>2, <1>8, <3>1
    <3>2. CASE j # p + 1
      <4>1. j - 1 \in 1..n /\ p < j - 1 /\ c < j - 1 /\ j - 1 + 1 = j
        BY <1>3, <1>4, <1>13, <2>1, <2>3, <3>2
      <4> QED
        BY <1>7, <1>8, <4>1
    <3> QED
      BY <3>1, <3>2
  <2>4. ASSUME new.CurEntry < n + 1
        PROVE  new.CurEntry # 0 /\ new.lines[new.CurEntry].type = "section"
    <3>1. CASE c = p
      BY <1>4, <1>8, <2>1, <3>1
    <3>2. CASE c # p
      <4>1. c < n /\ p < c /\ c \in 1..n
        BY <1>3, <1>4, <1>7, <1>13, <2>1, <2>4, <3>2
      <4> QED
        BY <1>3, <1>7, <1>8, <2>1, <3>2, <4>1
    <3> QED
      BY <3>1, <3>2
  <2>5. FindSection(new.lines, "Global") = new.CurEntry => new.CurEntry = 0
    <3>1. g \in 0..n /\ c \in 0..n
      BY <1>3, <1>7, <1>9 DEF g
    <3>2. FindSection(new.lines, "Global") = Moved(p, g)
      BY <1>6 DEF g
    <3>3. Moved(p, g) = Moved(p, c) => g = c
      BY <1>10, <3>1
    <3>4. g = c => c = 0
      BY <1>7 DEF g
    <3> QED
      BY <1>1, <1>11, <3>2, <3>3, <3>4
  <2> QED
    BY <1>1, <1>8, <1>15, <2>2, <2>3, <2>4, <2>5 DEF TextOk
<1>17. Reads(new.lines, S, K, v)
  BY <1>2, <1>4, <1>3, <1>5, <1>8 DEF Reads
<1>18. Keeps(text, new, S, K)
  <2> SUFFICES ASSUME NEW S2, NEW K2, S2 # S \/ K2 # K
               PROVE  Same(text.lines, new.lines, S2, K2)
    BY <1>4, <1>3 DEF Keeps, p
  <2> DEFINE i == FindpKey(text.lines, S2, K2)
  <2>1. i \in 0..n
    BY <1>3, FindpKeyIs DEF n
  <2>2. FindpKey(new.lines, S2, K2) = Moved(p, i)
    BY <1>5
  <2> HIDE DEF i
  <2>3. i # 0 => i \in 1..n /\ Moved(p, i) # 0
    BY <1>3, <1>4, <2>1 DEF Moved
  <2>4. i # 0 => new.lines[Moved(p, i)] = text.lines[i]
    BY <1>12, <2>3
  <2> QED
    BY <1>11, <2>2, <2>3, <2>4 DEF Same, i
<1>19. StillPending(text, new, S)
  <2> SUFFICES ASSUME NEW S2, Pending(new, S2) PROVE Pending(text, S2)
    BY <1>4, <1>3 DEF StillPending, p
  <2>1. new.CurEntry # 0 /\ Moved(p, FindSection(text.lines, S2)) = Moved(p, c)
    BY <1>1, <1>6 DEF Pending
  <2>2. FindSection(text.lines, S2) \in 0..n /\ c \in 0..n
    BY <1>3, <1>7, <1>9
  <2>3. FindSection(text.lines, S2) = c
    BY <1>10, <2>1, <2>2
  <2>4. c # 0
    BY <1>1, <1>11, <2>1
  <2> QED
    BY <2>3, <2>4 DEF Pending, c
<1>20. \A S2 : FindSection(new.lines, S2) = 0 <=> FindSection(text.lines, S2) = 0 /\ S2 # S
  <2> SUFFICES ASSUME NEW S2
               PROVE FindSection(new.lines, S2) = 0 <=> FindSection(text.lines, S2) = 0 /\ S2 # S
    OBVIOUS
  <2>1. FindSection(new.lines, S2) = Moved(p, FindSection(text.lines, S2))
    BY <1>6
  <2>2. FindSection(text.lines, S2) \in 0..n
    BY <1>9
  <2>3. Moved(p, FindSection(text.lines, S2)) = 0 <=> FindSection(text.lines, S2) = 0
    BY <1>3, <1>4, <2>2 DEF Moved
  <2>4. S2 = S => FindSection(text.lines, S2) # 0
    BY <1>4, <1>3 DEF p
  <2> QED
    BY <2>1, <2>3, <2>4
<1>21. ASSUME Clean(text.lines), v.text \notin Bracketed PROVE Clean(new.lines)
  <2> SUFFICES ASSUME NEW i \in 1..n + 1, new.lines[i].value.text \in Bracketed
               PROVE  new.lines[i].type = "section"
    BY <1>8 DEF Clean
  <2>1. i # p + 1
    BY <1>2, <1>8, <1>21
  <2>2. \E j \in 1..n : new.lines[i] = text.lines[j]
    <3>1. CASE i <= p
      BY <1>3, <1>4, <1>8, <3>1
    <3>2. CASE i > p
      <4>1. i - 1 \in 1..n /\ p < i - 1 /\ i - 1 + 1 = i
        BY <1>3, <1>4, <2>1, <3>2
      <4> QED
        BY <1>8, <4>1
    <3> QED
      BY <1>4, <3>1, <3>2
  <2> QED
    BY <1>21, <2>2 DEF Clean, n
<1> QED
  BY <1>16, <1>17, <1>18, <1>19, <1>20, <1>21 DEF Wrote, new

\* Wrote, of a key whose section is not there.
LEMMA WroteAppending ==
  ASSUME NEW text \in Texts, TextOk(text), NEW S \in FileNames, NEW K \in FileNames,
         NEW v \in ValuesOf(K), FindSection(text.lines, S) = 0
  PROVE  Wrote(text, WriteString(text, S, K, v), S, K, v)
<1> DEFINE new == WriteString(text, S, K, v)
           line == Line("key", K, v)
           n == Len(text.lines)
           c == text.CurEntry
<1>1. new \in Texts /\ new.CurEntry = c + 2 /\ Appended(text.lines, new.lines, c, S, line)
  BY WriteAppends
<1>2. IsKey(line, K) /\ line.value = v /\ line.type = "key"
  BY LineIs DEF IsKey
<1>3. n \in Nat /\ c \in Nat
  BY TextIs
<1>4. /\ FindpKey(new.lines, S, K) = c + 2
      /\ \A S2, K2 : S2 # S \/ K2 # K =>
           FindpKey(new.lines, S2, K2) =
             IF FindpKey(text.lines, S2, K2) <= c THEN FindpKey(text.lines, S2, K2) ELSE 0
  BY <1>1, <1>2, AppendedKeys
<1>5. /\ FindSection(new.lines, S) = c + 1
      /\ \A S2 : S2 # S => FindSection(new.lines, S2) = FindSection(text.lines, S2)
      /\ \A S2 : FindSection(text.lines, S2) \in 0..c
  BY <1>1, <1>2, AppendedSections
<1>6. /\ c <= n
      /\ \A j \in 1..n : c < j => text.lines[j].type # "section"
      /\ c < n => c # 0 /\ text.lines[c].type = "section"
      /\ FindSection(text.lines, "Global") = c => c = 0
  BY DEF TextOk
<1>7. /\ Len(new.lines) = c + 2
      /\ new.lines[c + 1] = SectionLine(S) /\ new.lines[c + 2] = line
      /\ \A j \in 1..c : new.lines[j] = text.lines[j]
  BY <1>1 DEF Appended, Agree
<1> DEFINE g == FindSection(text.lines, "Global")
<1> HIDE DEF new, line, c, g, n
<1>9. GlobalFilled(new.lines)
  <2>1. CASE S = "Global"
    BY <1>3, <1>5, <1>7, <2>1 DEF GlobalFilled
  <2>2. CASE S # "Global"
    <3>1. FindSection(new.lines, "Global") = g /\ g \in 0..c
      BY <1>5, <2>2 DEF g
    <3> QED
      BY <1>3, <1>7, <3>1 DEF GlobalFilled
  <2> QED
    BY <2>1, <2>2
<1>10. \A S2 : FindSection(new.lines, S2) \in 0..c + 1
  BY <1>3, <1>5
<1>11. TextOk(new)
  <2>1. new.CurEntry = Len(new.lines) /\ new.CurEntry \in Nat
    BY <1>1, <1>3, <1>7
  <2>2. FindSection(new.lines, "Global") # new.CurEntry
    BY <1>1, <1>3, <1>10
  <2> QED
    BY <1>1, <1>9, <2>1, <2>2 DEF TextOk
<1>12. Reads(new.lines, S, K, v)
  BY <1>2, <1>3, <1>4, <1>7 DEF Reads
<1>13. Keeps(text, new, S, K)
  <2> SUFFICES ASSUME NEW S2, NEW K2, S2 # S \/ K2 # K
               PROVE  IF Pending(text, S2) THEN FindpKey(new.lines, S2, K2) = 0
                                           ELSE Same(text.lines, new.lines, S2, K2)
    BY DEF Keeps
  <2> DEFINE i == FindpKey(text.lines, S2, K2)
             f == FindSection(text.lines, S2)
  <2>1. i \in 0..n /\ f \in 0..c
    BY <1>3, <1>5, FindpKeyIs DEF n
  <2>2. FindpKey(new.lines, S2, K2) = IF i <= c THEN i ELSE 0
    BY <1>4
  <2>3. i # 0 => KeyAt(text.lines, S2, K2, i)
    <3>1. i # 0 => i \in 1..n
      BY <1>3, <2>1
    <3> QED
      BY <1>3, <3>1, FindpKeyIs DEF n
  <2> HIDE DEF i
  <2>4. i # 0 => /\ f # 0 /\ f < i
                 /\ \A j \in 1..n : f < j /\ j < i => text.lines[j].type # "section"
    BY <2>3 DEF KeyAt, n
  <2> HIDE DEF f
  <2>5. Pending(text, S2) <=> c # 0 /\ f = c
    BY DEF Pending, c, f
  <2>6. CASE Pending(text, S2)
    <3>1. IF i <= c THEN i = 0 ELSE TRUE
      BY <1>3, <2>1, <2>4, <2>5, <2>6
    <3> QED
      BY <2>2, <2>6, <3>1
  <2>7. CASE ~Pending(text, S2)
    <3>1. i <= c
      <4> SUFFICES ASSUME c < i PROVE FALSE
        BY <1>3, <2>1
      <4>1. i # 0 /\ c < n /\ c \in 1..n
        BY <1>3, <1>6, <2>1
      <4>2. f < c
        BY <1>3, <2>1, <2>5, <2>7, <4>1
      <4> QED
        BY <1>6, <2>4, <4>1, <4>2
    <3>2. FindpKey(new.lines, S2, K2) = i
      BY <2>2, <3>1
    <3>3. i # 0 => new.lines[i] = text.lines[i]
      BY <1>3, <1>7, <2>1, <3>1
    <3>4. Same(text.lines, new.lines, S2, K2)
      BY <3>2, <3>3 DEF Same, i
    <3> QED
      BY <2>7, <3>4
  <2> QED
    BY <2>6, <2>7
<1>14. StillPending(text, new, S)
  <2>1. \A S2 : ~Pending(new, S2)
    BY <1>1, <1>3, <1>10 DEF Pending
  <2> QED
    BY <2>1 DEF StillPending
<1>15. \A S2 : FindSection(new.lines, S2) = 0 <=> FindSection(text.lines, S2) = 0 /\ S2 # S
  BY <1>3, <1>5
<1>16. ASSUME Clean(text.lines), v.text \notin Bracketed PROVE Clean(new.lines)
  <2> SUFFICES ASSUME NEW i \in 1..c + 2, new.lines[i].value.text \in Bracketed
               PROVE  new.lines[i].type = "section"
    BY <1>7 DEF Clean
  <2>1. i # c + 2
    BY <1>2, <1>7, <1>16
  <2>2. CASE i = c + 1
    BY <1>7, <2>2, SectionLineIs
  <2>3. CASE i \in 1..c
    <3>1. new.lines[i] = text.lines[i] /\ i \in 1..n
      BY <1>3, <1>6, <1>7, <2>3
    <3> QED
      BY <1>16, <3>1 DEF Clean, n
  <2> QED
    BY <1>3, <2>1, <2>2, <2>3
<1> QED
  BY <1>11, <1>12, <1>13, <1>14, <1>15, <1>16 DEF Wrote, new

\* Read over write (inifile.c): what WriteString writes is read back, and every other key
\* reads as before, but for those of a section that stands last in the file without
\* having been read with a line: they are lost when the next section is appended.
THEOREM WriteIsRead ==
  ASSUME NEW text \in Texts, TextOk(text), NEW S \in FileNames, NEW K \in FileNames,
         NEW v \in ValuesOf(K)
  PROVE  Wrote(text, WriteString(text, S, K, v), S, K, v)
<1>1. CASE FindpKey(text.lines, S, K) # 0
  BY <1>1, WroteReplacing
<1>2. CASE FindpKey(text.lines, S, K) = 0 /\ FindSection(text.lines, S) # 0
  BY <1>2, WroteInserting
<1>3. CASE FindSection(text.lines, S) = 0
  BY <1>3, WroteAppending
<1> QED
  BY <1>1, <1>2, <1>3

-------------------------------------------------------------------------------
(* The loop over the sites, a recursive function.                          *)

\* Induction, for a set of numbers.
LEMMA SetInduction ==
  ASSUME NEW P \in SUBSET Nat, 0 \in P, \A n \in P : n + 1 \in P
  PROVE  P = Nat
<1> SUFFICES ASSUME Nat \ P # {} PROVE FALSE
  OBVIOUS
<1>1. PICK m \in Nat \ P : \A j \in Nat \ P : m <= j
  <2>1. Nat \ P \in SUBSET Nat
    OBVIOUS
  <2> QED
    BY <2>1, Smallest
<1>2. m # 0 /\ m - 1 \in Nat
  BY <1>1
<1>3. m - 1 \in P
  BY <1>1, <1>2
<1>4. m - 1 + 1 \in P
  BY <1>3
<1> QED
  BY <1>1, <1>2, <1>4

\* The texts of the loop that writes the sites, up to site m.
StagesUpTo(text, settings, f, m) ==
  f = [n \in 0..m |-> IF n = 0 THEN text
                      ELSE WriteSite(f[n - 1], sites[n], settings[sites[n]])]

\* There are such texts, however many sites there are.
LEMMA StagesExist ==
  ASSUME NEW text, NEW settings
  PROVE  \A m \in Nat : \E f : StagesUpTo(text, settings, f, m)
<1> DEFINE P == {m \in Nat : \E f : StagesUpTo(text, settings, f, m)}
<1>1. 0 \in P
  <2> DEFINE f == [n \in 0..0 |-> text]
  <2>1. StagesUpTo(text, settings, f, 0)
    <3>1. \A n \in 0..0 : n = 0
      OBVIOUS
    <3> QED
      BY <3>1 DEF StagesUpTo
  <2> QED
    BY <2>1
<1>2. ASSUME NEW m \in P PROVE m + 1 \in P
  <2>1. PICK f : StagesUpTo(text, settings, f, m)
    OBVIOUS
  <2> DEFINE last == WriteSite(f[m], sites[m + 1], settings[sites[m + 1]])
             g == [n \in 0..m + 1 |-> IF n <= m THEN f[n] ELSE last]
  <2>2. m \in Nat
    OBVIOUS
  <2>3. \A n \in 0..m : f[n] = IF n = 0 THEN text
                               ELSE WriteSite(f[n - 1], sites[n], settings[sites[n]])
    BY <2>1 DEF StagesUpTo
  <2>4. ASSUME NEW n \in 0..m + 1
        PROVE  g[n] = IF n = 0 THEN text ELSE WriteSite(g[n - 1], sites[n], settings[sites[n]])
    <3>1. CASE n = 0
      <4>1. g[n] = f[n] /\ n \in 0..m
        BY <2>2, <3>1
      <4> QED
        BY <2>3, <3>1, <4>1
    <3>2. CASE n # 0 /\ n <= m
      <4>1. g[n] = f[n] /\ g[n - 1] = f[n - 1] /\ n \in 0..m
        BY <2>2, <3>2
      <4> HIDE DEF g
      <4> QED
        BY <2>3, <3>2, <4>1
    <3>3. CASE n = m + 1
      <4>1. n - 1 = m /\ n # 0
        BY <2>2, <3>3
      <4>2. g[n] = last /\ g[m] = f[m]
        BY <2>2, <3>3
      <4> HIDE DEF g
      <4> QED
        BY <3>3, <4>1, <4>2
    <3> QED
      BY <2>2, <3>1, <3>2, <3>3
  <2>5. StagesUpTo(text, settings, g, m + 1)
    <3>1. DOMAIN g = 0..m + 1 /\ g = [n \in DOMAIN g |-> g[n]]
      OBVIOUS
    <3> HIDE DEF g
    <3> QED
      BY <2>4, <3>1 DEF StagesUpTo
  <2> QED
    BY <2>2, <2>5
<1> HIDE DEF P
<1>3. P = Nat
  <2>1. P \in SUBSET Nat
    BY DEF P
  <2> QED
    BY <1>1, <1>2, <2>1, SetInduction
<1> QED
  BY <1>3 DEF P

\* WriteSites is the last of them.
LEMMA WriteSitesIs ==
  ASSUME NEW text, NEW settings, Len(sites) \in Nat
  PROVE  \E f : StagesUpTo(text, settings, f, Len(sites)) /\ WriteSites(text, settings) = f[Len(sites)]
<1> DEFINE G(f) == f = [n \in 0..Len(sites) |->
                          IF n = 0 THEN text
                          ELSE WriteSite(f[n - 1], sites[n], settings[sites[n]])]
           F == CHOOSE f : G(f)
<1>1. WriteSites(text, settings) = F[Len(sites)]
  BY DEF WriteSites
<1>2. \E f : G(f)
  <2>1. PICK f : StagesUpTo(text, settings, f, Len(sites))
    BY StagesExist
  <2>2. G(f)
    BY <2>1 DEF StagesUpTo
  <2> HIDE DEF G
  <2> QED
    BY <2>2
<1>3. G(F)
  <2> HIDE DEF G
  <2> QED
    BY <1>2, Zenon
<1>4. StagesUpTo(text, settings, F, Len(sites))
  <2> HIDE DEF F
  <2> QED
    BY <1>3 DEF StagesUpTo
<1> HIDE DEF F
<1> QED
  BY <1>1, <1>4

-------------------------------------------------------------------------------
(* Writing back what was loaded.                                           *)

\* All a start takes from a file.
SiteSettings == [url : FileTexts, password : FileTexts, directory : FileTexts]
AllSettings  == [sites : [Sites -> SiteSettings], last : Sites, folder : FileTexts]

\* None of it has brackets.
CleanSite(setting) == {setting.url, setting.password, setting.directory} \cap Bracketed = {}
CleanAll(all) == all.folder \notin Bracketed /\ \A s \in Sites : CleanSite(all.sites[s])

\* The names of the sites: there is one, none is "Global", and none has brackets.
LEMMA SitesAre ==
  /\ Len(sites) \in Nat /\ Len(sites) # 0 /\ sites \in [1..Len(sites) -> Sites]
  /\ \A s \in Sites : \E i \in 1..Len(sites) : sites[i] = s
  /\ "Global" \notin Sites /\ FirstSite \in Sites
  /\ \A s \in Sites : s \notin Bracketed
<1> DEFINE Others == {"Global"} \cup Bracketed
<1>1. sites \in Seq(STRING \ Others) /\ sites # <<>>
  BY SettingsAssumption DEF SettingsAssumption
<1> HIDE DEF Others
<1>2. Len(sites) \in Nat /\ Len(sites) # 0 /\ DOMAIN sites = 1..Len(sites)
      /\ sites \in [1..Len(sites) -> STRING \ Others]
  BY <1>1
<1>3. Sites = {sites[i] : i \in 1..Len(sites)}
  BY <1>2 DEF Sites, ToSet
<1>4. sites \in [1..Len(sites) -> Sites]
  BY <1>2, <1>3
<1>5. \A s \in Sites : \E i \in 1..Len(sites) : sites[i] = s
  BY <1>3
<1>6. "Global" \notin Sites /\ \A s \in Sites : s \notin Bracketed
  <2>1. \A s \in Sites : s \notin Others
    BY <1>2, <1>3
  <2> QED
    BY <2>1 DEF Others
<1>7. FirstSite \in Sites
  BY <1>2, <1>4 DEF FirstSite
<1> QED
  BY <1>2, <1>4, <1>5, <1>6, <1>7

\* The names and texts of the file.
LEMMA NamesAre ==
  /\ {"", "Global", "url", "password", "directory", "version", "temp_folder", "local_directory",
      "last_site"} \subseteq FileNames
  /\ Sites \subseteq FileNames /\ Sites \subseteq FileTexts
  /\ {"", "0", "1", "default", "chosen", "cut"} \subseteq FileTexts
  /\ Urls \subseteq FileTexts /\ Passwords \subseteq FileTexts /\ Directories \subseteq FileTexts
  BY DEF FileNames, FileTexts, Urls, Passwords, Directories

\* The texts without brackets that the code names.
LEMMA CleanTexts == {"", "0", "1", "default", "chosen", "cut", "webdav"} \cap Bracketed = {}
  BY DEF Bracketed

\* The keys whose values may have brackets.
Open(K) == K \notin {"version", "last_site"}
LEMMA OpenKeys ==
  /\ Open("url") /\ Open("password") /\ Open("directory") /\ Open("temp_folder")
  /\ Open("local_directory")
  BY DEF Open

\* A text is stored as a value, encrypted or plain.
LEMMA ValuesAre ==
  ASSUME NEW t \in FileTexts
  PROVE  /\ Plain(t) \in FileValues /\ Encrypt(t) \in FileValues
         /\ Plain(t).text = t /\ Encrypt(t).text = t
         /\ \A K : Open(K) \/ t \notin Bracketed => Plain(t) \in ValuesOf(K) /\ Encrypt(t) \in ValuesOf(K)
<1>1. Plain(t) \in FileValues /\ Plain(t).text = t
  BY DEF Plain, FileValues
<1>2. Encrypt(t) \in FileValues /\ Encrypt(t).text = t
  BY DEF Encrypt, FileValues
<1> QED
  BY <1>1, <1>2 DEF ValuesOf, ValueFits, Open

\* Keys that are the same read the same.
LEMMA SameReads ==
  ASSUME NEW lines, NEW lines2, NEW S, NEW K, Same(lines, lines2, S, K)
  PROVE  /\ \A d : ReadString(lines2, S, K, d) = ReadString(lines, S, K, d)
         /\ \A v : Reads(lines, S, K, v) => Reads(lines2, S, K, v)
         /\ FindpKey(lines2, S, K) = 0 <=> FindpKey(lines, S, K) = 0
  BY DEF Same, ReadString, Reads

\* Same over two writes.
LEMMA SameTransitive ==
  ASSUME NEW a, NEW b, NEW c, NEW S, NEW K, Same(a, b, S, K), Same(b, c, S, K)
  PROVE  Same(a, c, S, K)
  BY DEF Same

\* A key of the file is not read as its default.
LEMMA ReadsRead ==
  ASSUME NEW lines, NEW S, NEW K, NEW v, Reads(lines, S, K, v)
  PROVE  \A d : ReadString(lines, S, K, d) = v
  BY DEF Reads, ReadString

\* What a write does to a text that has the section.
LEMMA WroteThere ==
  ASSUME NEW text, NEW new, NEW S, NEW K, NEW v, Wrote(text, new, S, K, v),
         FindSection(text.lines, S) # 0
  PROVE  \A S2, K2 : S2 # S \/ K2 # K => Same(text.lines, new.lines, S2, K2)
  BY DEF Wrote, Keeps

\* No section appended cuts off "Global".
LEMMA GlobalNotPending ==
  ASSUME NEW text \in Texts, TextOk(text) PROVE ~Pending(text, "Global")
  BY DEF TextOk, Pending

\* The file says this of the site.
SiteReads(lines, s, setting) ==
  /\ ReadString(lines, s, "url", Plain("")) = Plain(setting.url)
  /\ ReadString(lines, s, "password", Plain("")) = Encrypt(setting.password)
  /\ ReadString(lines, s, "directory", Plain("default")) = Plain(setting.directory)

\* The file has the keys of the site.
SiteComplete(lines, s) == \A key \in {"url", "password", "directory"} : FindpKey(lines, s, key) # 0

\* What the writes of a site do.
LEMMA WriteSiteIs ==
  ASSUME NEW text \in Texts, TextOk(text),
         NEW s \in Sites, NEW setting \in SiteSettings
  PROVE  LET new == WriteSite(text, s, setting) IN
         /\ new \in Texts /\ TextOk(new)
         /\ FindSection(new.lines, "Global") = 0 <=> FindSection(text.lines, "Global") = 0
         /\ SiteReads(new.lines, s, setting) /\ SiteComplete(new.lines, s)
         /\ \A K : Same(text.lines, new.lines, "Global", K)
         /\ \A S2, K2 : S2 # s =>
              IF FindSection(text.lines, s) = 0 /\ Pending(text, S2)
              THEN FindpKey(new.lines, S2, K2) = 0
              ELSE Same(text.lines, new.lines, S2, K2)
         /\ \A S2 : Pending(new, S2) => Pending(text, S2)
         /\ Clean(text.lines) /\ CleanSite(setting) => Clean(new.lines)
<1> DEFINE one == WriteString(text, s, "url", Plain(setting.url))
           two == WriteString(one, s, "password", Encrypt(setting.password))
           new == WriteString(two, s, "directory", Plain(setting.directory))
<1>1. WriteSite(text, s, setting) = new
  BY DEF WriteSite
<1>2. s \in FileNames /\ "url" \in FileNames /\ "password" \in FileNames /\ "directory" \in FileNames
  BY NamesAre
<1>3. /\ Plain(setting.url) \in ValuesOf("url") /\ Plain(setting.url).text = setting.url
      /\ Encrypt(setting.password) \in ValuesOf("password")
      /\ Encrypt(setting.password).text = setting.password
      /\ Plain(setting.directory) \in ValuesOf("directory")
      /\ Plain(setting.directory).text = setting.directory
  <2>1. setting.url \in FileTexts /\ setting.password \in FileTexts /\ setting.directory \in FileTexts
    BY DEF SiteSettings
  <2> QED
    BY <2>1, OpenKeys, ValuesAre
<1>4. Wrote(text, one, s, "url", Plain(setting.url))
  BY <1>2, <1>3, WriteIsRead
<1> HIDE DEF one
<1>5. TextOk(one) /\ one \in Texts /\ FindSection(one.lines, s) # 0
  BY <1>4 DEF Wrote, TextOk
<1>6. Wrote(one, two, s, "password", Encrypt(setting.password))
  BY <1>2, <1>3, <1>5, WriteIsRead
<1> HIDE DEF two
<1>7. TextOk(two) /\ two \in Texts /\ FindSection(two.lines, s) # 0
  BY <1>5, <1>6 DEF Wrote, TextOk
<1>8. Wrote(two, new, s, "directory", Plain(setting.directory))
  BY <1>2, <1>3, <1>7, WriteIsRead
<1> HIDE DEF new
<1>9. TextOk(new) /\ new \in Texts
  BY <1>8 DEF Wrote, TextOk
<1>10. FindSection(new.lines, "Global") = 0 <=> FindSection(text.lines, "Global") = 0
  <2>1. "Global" # s
    BY SitesAre
  <2>2. FindSection(one.lines, "Global") = 0 <=> FindSection(text.lines, "Global") = 0
    BY <1>4, <2>1 DEF Wrote
  <2>3. FindSection(two.lines, "Global") = 0 <=> FindSection(one.lines, "Global") = 0
    BY <1>6, <2>1 DEF Wrote
  <2>4. FindSection(new.lines, "Global") = 0 <=> FindSection(two.lines, "Global") = 0
    BY <1>8, <2>1 DEF Wrote
  <2> QED
    BY <2>2, <2>3, <2>4
<1>11. \A S2, K2 : S2 # s \/ K2 # "password" => Same(one.lines, two.lines, S2, K2)
  BY <1>5, <1>6, WroteThere
<1>12. \A S2, K2 : S2 # s \/ K2 # "directory" => Same(two.lines, new.lines, S2, K2)
  BY <1>7, <1>8, WroteThere
<1>13. Reads(new.lines, s, "directory", Plain(setting.directory))
  BY <1>8 DEF Wrote
<1>14. Reads(new.lines, s, "password", Encrypt(setting.password))
  <2>1. Reads(two.lines, s, "password", Encrypt(setting.password))
    BY <1>6 DEF Wrote
  <2>2. Same(two.lines, new.lines, s, "password")
    BY <1>12
  <2> QED
    BY <2>1, <2>2, SameReads
<1>15. Reads(new.lines, s, "url", Plain(setting.url))
  <2>1. Reads(one.lines, s, "url", Plain(setting.url))
    BY <1>4 DEF Wrote
  <2>2. Same(one.lines, two.lines, s, "url") /\ Same(two.lines, new.lines, s, "url")
    BY <1>11, <1>12
  <2>3. Same(one.lines, new.lines, s, "url")
    BY <2>2, SameTransitive
  <2> QED
    BY <2>1, <2>3, SameReads
<1>16. SiteReads(new.lines, s, setting)
  BY <1>13, <1>14, <1>15, ReadsRead DEF SiteReads
<1>17. SiteComplete(new.lines, s)
  BY <1>13, <1>14, <1>15 DEF SiteComplete, Reads
<1>18. ASSUME NEW S2, NEW K2, S2 # s
       PROVE  IF FindSection(text.lines, s) = 0 /\ Pending(text, S2)
              THEN FindpKey(new.lines, S2, K2) = 0
              ELSE Same(text.lines, new.lines, S2, K2)
  <2>1. Same(one.lines, new.lines, S2, K2)
    BY <1>11, <1>12, <1>18, SameTransitive
  <2>2. IF FindSection(text.lines, s) = 0 /\ Pending(text, S2)
        THEN FindpKey(one.lines, S2, K2) = 0
        ELSE Same(text.lines, one.lines, S2, K2)
    BY <1>4, <1>18 DEF Wrote, Keeps
  <2> QED
    BY <2>1, <2>2, SameReads, SameTransitive
<1>19. \A K : Same(text.lines, new.lines, "Global", K)
  <2>1. "Global" # s
    BY SitesAre
  <2>2. ~Pending(text, "Global")
    BY GlobalNotPending
  <2> QED
    BY <1>18, <2>1, <2>2
<1>20. \A S2 : Pending(new, S2) => Pending(text, S2)
  BY <1>4, <1>6, <1>8 DEF Wrote, StillPending
<1>21. ASSUME Clean(text.lines), CleanSite(setting) PROVE Clean(new.lines)
  <2>1. /\ setting.url \notin Bracketed /\ setting.password \notin Bracketed
        /\ setting.directory \notin Bracketed
    BY <1>21 DEF CleanSite
  <2>2. Clean(one.lines)
    BY <1>3, <1>4, <1>21, <2>1 DEF Wrote
  <2>3. Clean(two.lines)
    BY <1>3, <1>6, <2>1, <2>2 DEF Wrote
  <2> QED
    BY <1>3, <1>8, <2>1, <2>3 DEF Wrote
<1> QED
  BY <1>1, <1>9, <1>10, <1>16, <1>17, <1>18, <1>19, <1>20, <1>21

\* Nothing is to be written of a site that is pending.  The file has a section for it and
\* no line in it, so nothing has been read of it either.
EmptyWherePending(text0, loaded) ==
  \A s \in Sites : Pending(text0, s) =>
    /\ loaded.sites[s].url = "" /\ loaded.sites[s].password = ""
    /\ loaded.sites[s].directory = "default"

\* The text after the first n sites have been written back to text0.
Stage(text0, text, loaded, n) ==
  /\ text \in Texts /\ TextOk(text)
  /\ FindSection(text.lines, "Global") # 0
  /\ Reads(text.lines, "Global", "version", Plain("1"))
  /\ Reads(text.lines, "Global", "temp_folder", Plain(loaded.folder))
  /\ FindpKey(text.lines, "Global", "local_directory") # 0
  /\ \A S2 : Pending(text, S2) => Pending(text0, S2)
  /\ \A i \in 1..n : SiteReads(text.lines, sites[i], loaded.sites[sites[i]])
  /\ (\A S2 : ~Pending(text0, S2)) => \A i \in 1..n : SiteComplete(text.lines, sites[i])
  /\ Clean(text0.lines) /\ CleanAll(loaded) => Clean(text.lines)

\* From one site to the next.  What an appended section cuts off of a pending site is
\* what had been written of it, which is what is read where nothing is.
LEMMA StageStep ==
  ASSUME NEW text0, NEW text, NEW loaded \in AllSettings, NEW n \in Nat, n < Len(sites),
         Stage(text0, text, loaded, n),
         EmptyWherePending(text0, loaded)
  PROVE  Stage(text0, WriteSite(text, sites[n + 1], loaded.sites[sites[n + 1]]), loaded, n + 1)
<1> DEFINE s == sites[n + 1]
           setting == loaded.sites[s]
           new == WriteSite(text, s, setting)
<1>1. n + 1 \in 1..Len(sites) /\ s \in Sites /\ \A i \in 1..n : sites[i] \in Sites
  <2>1. Len(sites) \in Nat /\ \A i \in 1..Len(sites) : sites[i] \in Sites
    BY SitesAre
  <2>2. n + 1 \in 1..Len(sites) /\ \A i \in 1..n : i \in 1..Len(sites)
    BY <2>1
  <2> QED
    BY <2>1, <2>2
<1>2. setting \in SiteSettings /\ (CleanAll(loaded) => CleanSite(setting))
  BY <1>1 DEF AllSettings, CleanAll
<1>3. text \in Texts /\ TextOk(text) /\ FindSection(text.lines, "Global") # 0
  BY DEF Stage
<1> HIDE DEF s, setting
<1>4. /\ new \in Texts /\ TextOk(new) /\ FindSection(new.lines, "Global") # 0
      /\ SiteReads(new.lines, s, setting) /\ SiteComplete(new.lines, s)
      /\ \A K : Same(text.lines, new.lines, "Global", K)
      /\ \A S2, K2 : S2 # s =>
           IF FindSection(text.lines, s) = 0 /\ Pending(text, S2)
           THEN FindpKey(new.lines, S2, K2) = 0
           ELSE Same(text.lines, new.lines, S2, K2)
      /\ \A S2 : Pending(new, S2) => Pending(text, S2)
      /\ Clean(text.lines) /\ CleanSite(setting) => Clean(new.lines)
  BY <1>1, <1>2, <1>3, WriteSiteIs
<1> HIDE DEF new
<1>5. /\ Reads(new.lines, "Global", "version", Plain("1"))
      /\ Reads(new.lines, "Global", "temp_folder", Plain(loaded.folder))
      /\ FindpKey(new.lines, "Global", "local_directory") # 0
  BY <1>4, SameReads DEF Stage
<1>6. \A S2 : Pending(new, S2) => Pending(text0, S2)
  BY <1>4 DEF Stage
<1>7. ASSUME NEW i \in 1..n + 1 PROVE SiteReads(new.lines, sites[i], loaded.sites[sites[i]])
  <2>1. CASE sites[i] = s
    BY <1>4, <2>1 DEF setting
  <2>2. CASE sites[i] # s
    <3>0. i # n + 1
      BY <2>2 DEF s
    <3>1. i \in 1..n
      BY <3>0
    <3>2. SiteReads(text.lines, sites[i], loaded.sites[sites[i]])
      BY <3>1 DEF Stage
    <3>3. CASE FindSection(text.lines, s) = 0 /\ Pending(text, sites[i])
      <4>1. /\ loaded.sites[sites[i]].url = "" /\ loaded.sites[sites[i]].password = ""
            /\ loaded.sites[sites[i]].directory = "default"
        BY <1>1, <3>1, <3>3 DEF Stage, EmptyWherePending
      <4>2. /\ FindpKey(new.lines, sites[i], "url") = 0
            /\ FindpKey(new.lines, sites[i], "password") = 0
            /\ FindpKey(new.lines, sites[i], "directory") = 0
        BY <1>4, <2>2, <3>3
      <4>3. /\ ReadString(new.lines, sites[i], "url", Plain("")) = Plain("")
            /\ ReadString(new.lines, sites[i], "password", Plain("")) = Plain("")
            /\ ReadString(new.lines, sites[i], "directory", Plain("default")) = Plain("default")
        BY <4>2 DEF ReadString
      <4>4. Encrypt("") = Plain("")
        BY DEF Encrypt, Plain
      <4> QED
        BY <4>1, <4>3, <4>4 DEF SiteReads
    <3>4. CASE ~(FindSection(text.lines, s) = 0 /\ Pending(text, sites[i]))
      <4>1. /\ Same(text.lines, new.lines, sites[i], "url")
            /\ Same(text.lines, new.lines, sites[i], "password")
            /\ Same(text.lines, new.lines, sites[i], "directory")
        BY <1>4, <2>2, <3>4
      <4>2. \A d : ReadString(new.lines, sites[i], "url", d) =
                   ReadString(text.lines, sites[i], "url", d)
        BY <4>1, SameReads
      <4>3. \A d : ReadString(new.lines, sites[i], "password", d) =
                   ReadString(text.lines, sites[i], "password", d)
        BY <4>1, SameReads
      <4>4. \A d : ReadString(new.lines, sites[i], "directory", d) =
                   ReadString(text.lines, sites[i], "directory", d)
        BY <4>1, SameReads
      <4> QED
        BY <3>2, <4>2, <4>3, <4>4 DEF SiteReads
    <3> QED
      BY <3>3, <3>4
  <2> QED
    BY <2>1, <2>2
<1>8. ASSUME \A S2 : ~Pending(text0, S2), NEW i \in 1..n + 1
      PROVE  SiteComplete(new.lines, sites[i])
  <2>1. CASE sites[i] = s
    BY <1>4, <2>1
  <2>2. CASE sites[i] # s
    <3>0. i # n + 1
      BY <2>2 DEF s
    <3>1. i \in 1..n
      BY <3>0
    <3>2. SiteComplete(text.lines, sites[i])
      BY <1>8, <3>1 DEF Stage
    <3>3. ~Pending(text, sites[i])
      BY <1>8 DEF Stage
    <3>4. \A K : Same(text.lines, new.lines, sites[i], K)
      BY <1>4, <2>2, <3>3
    <3> QED
      BY <3>2, <3>4, SameReads DEF SiteComplete
  <2> QED
    BY <2>1, <2>2
<1>9. Clean(text0.lines) /\ CleanAll(loaded) => Clean(new.lines)
  BY <1>2, <1>4 DEF Stage
<1>10. Stage(text0, new, loaded, n + 1)
  BY <1>4, <1>5, <1>6, <1>7, <1>8, <1>9 DEF Stage
<1> QED
  BY <1>10 DEF new, s, setting

\* The writes to "Global" before the loop.
LEMMA StageBegin ==
  ASSUME NEW text0 \in Texts, TextOk(text0), NEW loaded \in AllSettings
  PROVE  Stage(text0, WriteFolder(WriteLocal(WriteVersion(text0), "default"), loaded.folder), loaded, 0)
<1> DEFINE one == WriteVersion(text0)
           two == WriteLocal(one, "default")
           new == WriteFolder(two, loaded.folder)
<1>1. /\ Plain("1") \in ValuesOf("version") /\ Plain("default") \in ValuesOf("local_directory")
      /\ Plain(loaded.folder) \in ValuesOf("temp_folder")
  <2>1. "1" \in FileTexts /\ "default" \in FileTexts /\ loaded.folder \in FileTexts
    BY NamesAre DEF AllSettings
  <2>2. "1" \notin Bracketed
    BY CleanTexts
  <2>3. Plain("1") \in ValuesOf("version")
    BY <2>1, <2>2, ValuesAre
  <2> QED
    BY <2>1, <2>3, OpenKeys, ValuesAre
<1>2. /\ "Global" \in FileNames /\ "version" \in FileNames /\ "local_directory" \in FileNames
      /\ "temp_folder" \in FileNames
  BY NamesAre
<1>3. Wrote(text0, one, "Global", "version", Plain("1"))
  BY <1>1, <1>2, WriteIsRead DEF WriteVersion
<1> HIDE DEF one
<1>4. one \in Texts /\ TextOk(one) /\ FindSection(one.lines, "Global") # 0
  BY <1>3 DEF Wrote, TextOk
<1>5. Wrote(one, two, "Global", "local_directory", Plain("default"))
  BY <1>1, <1>2, <1>4, WriteIsRead DEF WriteLocal
<1> HIDE DEF two
<1>6. two \in Texts /\ TextOk(two) /\ FindSection(two.lines, "Global") # 0
  BY <1>4, <1>5 DEF Wrote, TextOk
<1>7. Wrote(two, new, "Global", "temp_folder", Plain(loaded.folder))
  BY <1>1, <1>2, <1>6, WriteIsRead DEF WriteFolder
<1> HIDE DEF new
<1>8. new \in Texts /\ TextOk(new) /\ FindSection(new.lines, "Global") # 0
  BY <1>6, <1>7 DEF Wrote, TextOk
<1>9. Same(one.lines, two.lines, "Global", "version")
  BY <1>4, <1>5, WroteThere
<1>10. Same(two.lines, new.lines, "Global", "version") /\ Same(two.lines, new.lines, "Global", "local_directory")
  BY <1>6, <1>7, WroteThere
<1>11. Reads(new.lines, "Global", "version", Plain("1"))
  <2>1. Reads(one.lines, "Global", "version", Plain("1"))
    BY <1>3 DEF Wrote
  <2>2. Reads(two.lines, "Global", "version", Plain("1"))
    BY <1>9, <2>1, SameReads
  <2> QED
    BY <1>10, <2>2, SameReads
<1>12. FindpKey(new.lines, "Global", "local_directory") # 0
  <2>1. FindpKey(two.lines, "Global", "local_directory") # 0
    BY <1>5 DEF Wrote, Reads
  <2> QED
    BY <1>10, <2>1, SameReads
<1>13. Reads(new.lines, "Global", "temp_folder", Plain(loaded.folder))
  BY <1>7 DEF Wrote
<1>14. \A S2 : Pending(new, S2) => Pending(text0, S2)
  BY <1>3, <1>5, <1>7 DEF Wrote, StillPending
<1>15. 1..0 = {}
  OBVIOUS
<1>16. ASSUME Clean(text0.lines), CleanAll(loaded) PROVE Clean(new.lines)
  <2>1. Plain("1").text \notin Bracketed /\ Plain("default").text \notin Bracketed
    BY CleanTexts DEF Plain
  <2>2. Plain(loaded.folder).text \notin Bracketed
    BY <1>16 DEF Plain, CleanAll
  <2>3. Clean(one.lines)
    BY <1>3, <1>16, <2>1 DEF Wrote
  <2>4. Clean(two.lines)
    BY <1>5, <2>1, <2>3 DEF Wrote
  <2> QED
    BY <1>7, <2>2, <2>4 DEF Wrote
<1>17. Stage(text0, new, loaded, 0)
  BY <1>8, <1>11, <1>12, <1>13, <1>14, <1>15, <1>16 DEF Stage
<1> QED
  BY <1>17 DEF new, two, one

\* The loop, by induction over the sites.
LEMMA StageOfSites ==
  ASSUME NEW text0, NEW text, NEW loaded \in AllSettings, Stage(text0, text, loaded, 0),
         EmptyWherePending(text0, loaded)
  PROVE  Stage(text0, WriteSites(text, loaded.sites), loaded, Len(sites))
<1> DEFINE N == Len(sites)
<1>1. N \in Nat
  BY SitesAre
<1>2. PICK f : StagesUpTo(text, loaded.sites, f, N) /\ WriteSites(text, loaded.sites) = f[N]
  BY <1>1, WriteSitesIs
<1> HIDE DEF N
<1>3. \A n \in 0..N : f[n] = IF n = 0 THEN text
                             ELSE WriteSite(f[n - 1], sites[n], loaded.sites[sites[n]])
  BY <1>2 DEF StagesUpTo
<1> DEFINE P == {n \in Nat : n <= N => Stage(text0, f[n], loaded, n)}
<1>4. 0 \in P
  <2>1. 0 \in 0..N
    BY <1>1
  <2>2. f[0] = text
    BY <1>3, <2>1
  <2> QED
    BY <2>2
<1>5. ASSUME NEW n \in Nat, n + 1 <= N, Stage(text0, f[n], loaded, n)
      PROVE  Stage(text0, f[n + 1], loaded, n + 1)
  <2> HIDE DEF P
  <2>1. n < N /\ n + 1 \in 0..N /\ n + 1 # 0 /\ n + 1 - 1 = n
    BY <1>1, <1>5
  <2>2. f[n + 1] = WriteSite(f[n], sites[n + 1], loaded.sites[sites[n + 1]])
    <3>1. f[n + 1] = IF n + 1 = 0 THEN text
                     ELSE WriteSite(f[n + 1 - 1], sites[n + 1], loaded.sites[sites[n + 1]])
      BY <1>3, <2>1
    <3>2. f[n + 1 - 1] = f[n]
      BY <2>1
    <3> QED
      BY <2>1, <3>1, <3>2
  <2>3. Stage(text0, WriteSite(f[n], sites[n + 1], loaded.sites[sites[n + 1]]), loaded, n + 1)
    BY <1>5, <2>1, StageStep DEF N
  <2> QED
    BY <2>2, <2>3
<1>6. P = Nat
  <2>1. P \in SUBSET Nat
    OBVIOUS
  <2>2. ASSUME NEW n \in P PROVE n + 1 \in P
    <3>1. n \in Nat /\ n + 1 \in Nat /\ (n <= N => Stage(text0, f[n], loaded, n))
      OBVIOUS
    <3>2. n + 1 <= N => n <= N
      BY <1>1, <3>1
    <3>3. n + 1 <= N => Stage(text0, f[n + 1], loaded, n + 1)
      <4> HIDE DEF P
      <4> QED
        BY <1>5, <3>1, <3>2
    <3> QED
      BY <3>1, <3>3
  <2> HIDE DEF P
  <2> QED
    BY <1>4, <2>1, <2>2, SetInduction
<1>7. Stage(text0, f[N], loaded, N)
  <2>1. N \in P /\ N <= N
    <3> HIDE DEF P
    <3> QED
      BY <1>1, <1>6
  <2> QED
    BY <2>1
<1> QED
  BY <1>2, <1>7 DEF N

\* WrittenBack writes the sites and "Global" as they were loaded.
LEMMA WrittenBackIs ==
  ASSUME NEW text0 \in Texts, TextOk(text0), NEW loaded \in AllSettings,
         EmptyWherePending(text0, loaded)
  PROVE  LET new == WrittenBack(text0, loaded) IN
         /\ Stage(text0, new, loaded, Len(sites))
         /\ Reads(new.lines, "Global", "last_site", Plain(loaded.last))
<1> DEFINE text == WriteSites(WriteFolder(WriteLocal(WriteVersion(text0), "default"), loaded.folder),
                               loaded.sites)
           new == WriteLastSite(text, loaded.last)
<1>1. WrittenBack(text0, loaded) = new
  BY DEF WrittenBack
<1>2. Stage(text0, text, loaded, Len(sites))
  BY StageBegin, StageOfSites
<1> HIDE DEF text
<1>3. /\ text \in Texts /\ TextOk(text) /\ FindSection(text.lines, "Global") # 0
  BY <1>2 DEF Stage
<1>4. Plain(loaded.last) \in ValuesOf("last_site") /\ Plain(loaded.last).text \notin Bracketed
  <2>1. loaded.last \in FileTexts /\ loaded.last \notin Bracketed
    BY NamesAre, SitesAre DEF AllSettings
  <2> QED
    BY <2>1, ValuesAre
<1>5. "Global" \in FileNames /\ "last_site" \in FileNames
  BY NamesAre
<1>6. Wrote(text, new, "Global", "last_site", Plain(loaded.last))
  BY <1>3, <1>4, <1>5, WriteIsRead DEF WriteLastSite
<1> HIDE DEF new
<1>7. new \in Texts /\ TextOk(new) /\ FindSection(new.lines, "Global") # 0
  BY <1>3, <1>6 DEF Wrote, TextOk
<1>8. \A S2, K2 : S2 # "Global" \/ K2 # "last_site" => Same(text.lines, new.lines, S2, K2)
  BY <1>3, <1>6, WroteThere
<1>9. /\ Reads(new.lines, "Global", "version", Plain("1"))
      /\ Reads(new.lines, "Global", "temp_folder", Plain(loaded.folder))
      /\ FindpKey(new.lines, "Global", "local_directory") # 0
  <2>1. /\ Same(text.lines, new.lines, "Global", "version")
        /\ Same(text.lines, new.lines, "Global", "temp_folder")
        /\ Same(text.lines, new.lines, "Global", "local_directory")
    BY <1>8
  <2> QED
    BY <1>2, <2>1, SameReads DEF Stage
<1>10. \A S2 : Pending(new, S2) => Pending(text0, S2)
  BY <1>2, <1>6 DEF Stage, Wrote, StillPending
<1>11. \A i \in 1..Len(sites) : \A K : Same(text.lines, new.lines, sites[i], K)
  <2>1. \A i \in 1..Len(sites) : sites[i] # "Global"
    BY SitesAre
  <2> QED
    BY <1>8, <2>1
<1>12. ASSUME NEW i \in 1..Len(sites)
       PROVE  SiteReads(new.lines, sites[i], loaded.sites[sites[i]])
  <2>1. SiteReads(text.lines, sites[i], loaded.sites[sites[i]])
    BY <1>2 DEF Stage
  <2>2. \A K, d : ReadString(new.lines, sites[i], K, d) = ReadString(text.lines, sites[i], K, d)
    BY <1>11, SameReads
  <2> QED
    BY <2>1, <2>2 DEF SiteReads
<1>13. ASSUME \A S2 : ~Pending(text0, S2), NEW i \in 1..Len(sites)
       PROVE  SiteComplete(new.lines, sites[i])
  <2>1. SiteComplete(text.lines, sites[i])
    BY <1>2, <1>13 DEF Stage
  <2>2. \A K : FindpKey(new.lines, sites[i], K) = 0 <=> FindpKey(text.lines, sites[i], K) = 0
    BY <1>11, SameReads
  <2> QED
    BY <2>1, <2>2 DEF SiteComplete
<1>14. Reads(new.lines, "Global", "last_site", Plain(loaded.last))
  BY <1>6 DEF Wrote
<1>15. Clean(text0.lines) /\ CleanAll(loaded) => Clean(new.lines)
  BY <1>2, <1>4, <1>6 DEF Stage, Wrote
<1> QED
  BY <1>1, <1>7, <1>9, <1>10, <1>12, <1>13, <1>14, <1>15 DEF Stage

-------------------------------------------------------------------------------
(* Files, and what is loaded from them.                                    *)

\* A file the program writes: its lines are of its kind, "Global" is not the last of them,
\* and the last site is one of the sites.
FileOk(lines) ==
  /\ lines \in Seq(FileLines) /\ GlobalFilled(lines)
  /\ LoadedLastSite(lines) \in Sites

\* An empty file has no keys.
LEMMA NoKeys ==
  /\ \A S, K : FindSection(<<>>, S) = 0 /\ FindpKey(<<>>, S, K) = 0
  /\ \A S, K, d : ReadString(<<>>, S, K, d) = d
<1>1. Len(<<>>) = 0 /\ Len(<<>>) \in Nat
  OBVIOUS
<1>2. ASSUME NEW S PROVE FindSection(<<>>, S) = 0
  <2>1. FindSection(<<>>, S) \in 0..Len(<<>>)
    BY <1>1, FindSectionIs
  <2> QED
    BY <1>1, <2>1
<1>3. \A S, K : FindpKey(<<>>, S, K) = 0
  BY <1>2 DEF FindpKey
<1> QED
  BY <1>2, <1>3 DEF ReadString

\* An empty file will do.
LEMMA NoFileOk == FileOk(<<>>)
<1>1. GlobalFilled(<<>>)
  BY NoKeys DEF GlobalFilled
<1>2. LoadedLastSite(<<>>) \in Sites
  BY NoKeys, SitesAre DEF LoadedLastSite, Plain
<1> QED
  BY <1>1, <1>2 DEF FileOk

\* Opening a file changes the types of lines with brackets, to sections of no name.
LEMMA OpenedIs ==
  ASSUME NEW file \in Seq(FileLines)
  PROVE  /\ Opened(file) \in Seq(FileLines) /\ Len(Opened(file)) = Len(file) /\ Len(file) \in Nat
         /\ \A i \in 1..Len(file) :
              /\ Opened(file)[i].type = "section" <=>
                   file[i].type = "section" \/ file[i].value.text \in Bracketed
              /\ Opened(file)[i].type # "section" => Opened(file)[i] = file[i]
              /\ \A S : Opened(file)[i] = SectionLine(S) <=> file[i] = SectionLine(S)
         /\ Clean(Opened(file))
         /\ Clean(file) => Opened(file) = file
<1> DEFINE o == Opened(file)
           n == Len(file)
           LineTypes == {"key", "section", "comment"}
<1>1. n \in Nat /\ DOMAIN file = 1..n /\ \A i \in 1..n : file[i] \in FileLines
  OBVIOUS
<1>2. o = [i \in 1..n |-> [file[i] EXCEPT !.type = TypeRead(file[i])]]
  BY <1>1 DEF Opened, TextOf, Retyped
<1> HIDE DEF o
<1>3. ASSUME NEW line \in FileLines
      PROVE  LET read == [line EXCEPT !.type = TypeRead(line)] IN
             /\ read \in FileLines /\ read.value = line.value
             /\ read.type = "section" <=> line.type = "section" \/ line.value.text \in Bracketed
             /\ read.type # "section" => read = line
             /\ line.type = "section" => read = line
             /\ \A S : read = SectionLine(S) <=> line = SectionLine(S)
  <2> DEFINE read == [line EXCEPT !.type = TypeRead(line)]
  <2>1. line \in [type : LineTypes, name : FileNames, value : FileValues]
    BY DEF FileLines
  <2>2. line.type = "section" => line.value = Plain("") \/ line.value.text \in Bracketed
    BY DEF FileLines
  <2>3. ValueFits(line.name, line.value)
    BY DEF FileLines
  <2>4. CASE line.value.text \in Bracketed
    <3>1. TypeRead(line) = "section"
      BY <2>4 DEF TypeRead
    <3>2. /\ read \in [type : LineTypes, name : FileNames, value : FileValues]
          /\ read.type = "section" /\ read.value = line.value /\ read.name = line.name
      BY <2>1, <3>1
    <3> HIDE DEF read
    <3>3. read \in FileLines
      BY <2>3, <2>4, <3>2 DEF FileLines
    <3>4. \A S : SectionLine(S).value.text \notin Bracketed
      BY DEF SectionLine, Line, Plain, Bracketed
    <3>5. line.type = "section" => read = line
      BY <2>1, <3>2
    <3> QED
      BY <2>4, <3>2, <3>3, <3>4, <3>5 DEF read
  <2>5. CASE line.value.text \notin Bracketed
    <3>1. TypeRead(line) = line.type
      BY <2>5 DEF TypeRead
    <3>2. read = line
      BY <2>1, <3>1
    <3> QED
      BY <2>5, <3>2
  <2> QED
    BY <2>4, <2>5
<1>4. ASSUME NEW i \in 1..n
      PROVE  /\ o[i] \in FileLines /\ o[i].value = file[i].value
             /\ o[i].type = "section" <=> file[i].type = "section" \/ file[i].value.text \in Bracketed
             /\ o[i].type # "section" => o[i] = file[i]
             /\ file[i].type = "section" => o[i] = file[i]
             /\ \A S : o[i] = SectionLine(S) <=> file[i] = SectionLine(S)
  BY <1>1, <1>2, <1>3
<1>5. o \in Seq(FileLines) /\ Len(o) = n
  <2>1. o \in [1..n -> FileLines]
    BY <1>2, <1>4
  <2> QED
    BY <1>1, <2>1
<1>6. Clean(o)
  BY <1>4, <1>5 DEF Clean
<1>7. ASSUME Clean(file) PROVE o = file
  <2>1. \A i \in 1..n : o[i] = file[i]
    BY <1>4, <1>7 DEF Clean
  <2>2. file \in [1..n -> FileLines]
    BY <1>1
  <2> HIDE DEF n
  <2> QED
    BY <1>2, <2>1, <2>2
<1> QED
  BY <1>1, <1>4, <1>5, <1>6, <1>7 DEF o

\* So it finds the same sections, and the same key or none, as the search for it ends at
\* the first line with brackets.
LEMMA OpenedFinds ==
  ASSUME NEW file \in Seq(FileLines), NEW S, NEW K
  PROVE  /\ FindSection(Opened(file), S) = FindSection(file, S)
         /\ LET k == FindpKey(Opened(file), S, K) IN
              k # 0 => /\ k \in 1..Len(file) /\ FindpKey(file, S, K) = k
                       /\ Opened(file)[k] = file[k]
<1> DEFINE o == Opened(file)
           n == Len(file)
           k == FindpKey(o, S, K)
<1>1. /\ o \in Seq(FileLines) /\ Len(o) = n /\ n \in Nat
      /\ \A i \in 1..n :
           /\ o[i].type = "section" <=> file[i].type = "section" \/ file[i].value.text \in Bracketed
           /\ o[i].type # "section" => o[i] = file[i]
           /\ \A S2 : o[i] = SectionLine(S2) <=> file[i] = SectionLine(S2)
  BY OpenedIs
<1> HIDE DEF o, n
<1>2. FindSection(o, S) = FindSection(file, S)
  <2>1. CASE FindSection(file, S) = 0
    BY <1>1, <2>1, FindSectionIs DEF n
  <2>2. CASE FindSection(file, S) # 0
    BY <1>1, <2>2, FindSectionIs DEF n
  <2> QED
    BY <2>1, <2>2
<1>3. ASSUME k # 0 PROVE k \in 1..n /\ FindpKey(file, S, K) = k /\ o[k] = file[k]
  <2>1. k \in 1..n
    BY <1>1, <1>3, FindpKeyIs
  <2>2. KeyAt(o, S, K, k)
    BY <1>1, <2>1, FindpKeyIs
  <2> HIDE DEF k
  <2> DEFINE f == FindSection(file, S)
  <2>3. /\ f # 0 /\ f < k /\ IsKey(o[k], K)
        /\ \A j \in 1..n : f < j /\ j < k => o[j].type # "section" /\ ~IsKey(o[j], K)
    BY <1>1, <1>2, <2>2 DEF KeyAt
  <2> HIDE DEF f
  <2>4. o[k] = file[k]
    BY <1>1, <2>1, <2>3 DEF IsKey
  <2>5. \A j \in 1..n : f < j /\ j < k => file[j].type # "section" /\ ~IsKey(file[j], K)
    BY <1>1, <2>3
  <2>6. KeyAt(file, S, K, k)
    BY <2>3, <2>4, <2>5 DEF KeyAt, f, n
  <2> QED
    BY <1>1, <2>1, <2>4, <2>6, FindpKeyIs DEF n
<1> QED
  BY <1>2, <1>3 DEF o, n

\* A key reads as in the file, or as if it were not there.
LEMMA OpenedReads ==
  ASSUME NEW file \in Seq(FileLines), NEW S, NEW K, NEW d
  PROVE  ReadString(Opened(file), S, K, d) = ReadString(file, S, K, d)
         \/ ReadString(Opened(file), S, K, d) = d
  BY OpenedFinds DEF ReadString

\* What a start will find in a file it can read.
LEMMA OpenedOk ==
  ASSUME NEW file, FileOk(file)
  PROVE  /\ FileOk(Opened(file)) /\ Clean(Opened(file))
         /\ Clean(file) => Opened(file) = file
         /\ ConversionNeeded(file) => ConversionNeeded(Opened(file))
         /\ \A s : StoredUrl(Opened(file), s) = StoredUrl(file, s) \/ StoredUrl(Opened(file), s) = ""
<1>1. file \in Seq(FileLines)
  BY DEF FileOk
<1>2. GlobalFilled(Opened(file))
  BY <1>1, OpenedIs, OpenedFinds DEF FileOk, GlobalFilled
<1>3. LoadedLastSite(Opened(file)) \in Sites
  <2>1. Plain(FirstSite).text \in Sites
    BY SitesAre DEF Plain
  <2> QED
    BY <1>1, <2>1, OpenedReads DEF FileOk, LoadedLastSite
<1>4. ConversionNeeded(file) => ConversionNeeded(Opened(file))
  BY <1>1, OpenedReads DEF ConversionNeeded
<1>5. ASSUME NEW s
      PROVE  StoredUrl(Opened(file), s) = StoredUrl(file, s) \/ StoredUrl(Opened(file), s) = ""
  <2>0. \A K, d : \/ ReadString(Opened(file), s, K, d) = ReadString(file, s, K, d)
                  \/ ReadString(Opened(file), s, K, d) = d
    BY <1>1, OpenedReads
  <2> DEFINE d == Plain("")
             old == ReadString(file, s, "url", d)
             new == ReadString(Opened(file), s, "url", d)
  <2>1. d.text = ""
    BY DEF Plain
  <2>2. new = old \/ new = d
    BY <2>0
  <2>3. StoredUrl(file, s) = old.text /\ StoredUrl(Opened(file), s) = new.text
    BY DEF StoredUrl
  <2> HIDE DEF d, old, new
  <2> QED
    BY <2>1, <2>2, <2>3
<1> QED
  BY <1>1, <1>2, <1>3, <1>4, <1>5, OpenedIs DEF FileOk

\* There is nothing to open in an empty file.
LEMMA NothingOpened == Opened(<<>>) = <<>>
<1>1. <<>> \in Seq(FileLines) /\ Clean(<<>>)
  BY NoFileOk DEF FileOk, Clean
<1> QED
  BY <1>1, OpenedIs

\* The list of a file that is opened.  Only the section the file ends in is pending.
LEMMA TextOfIs ==
  ASSUME NEW file, FileOk(file)
  PROVE  LET lines == Opened(file) IN
         /\ TextOf(file) \in Texts /\ TextOk(TextOf(file))
         /\ TextOf(file).lines = lines
         /\ \A S, K : Pending(TextOf(file), S) => FindpKey(lines, S, K) = 0
         /\ \A S : Pending(TextOf(file), S) => EndsInSection(lines)
<1> DEFINE t == TextOf(file)
           lines == Opened(file)
<1>1. /\ t.lines = lines /\ t.CurEntry = Len(lines) /\ t \in Texts /\ Len(lines) \in Nat
      /\ GlobalFilled(lines)
  <2>1. lines = Retyped(file) /\ t = [lines |-> Retyped(file), CurEntry |-> Len(file)]
    BY DEF TextOf, Opened
  <2>2. lines \in Seq(FileLines) /\ Len(lines) = Len(file) /\ GlobalFilled(lines)
    BY OpenedOk, OpenedIs DEF FileOk
  <2> HIDE DEF t, lines
  <2> QED
    BY <2>1, <2>2 DEF Texts
<1> HIDE DEF t, lines
<1>2. FindSection(lines, "Global") = Len(lines) => Len(lines) = 0
  BY <1>1 DEF GlobalFilled
<1>3. TextOk(t)
  BY <1>1, <1>2 DEF TextOk
<1>4. ASSUME NEW S, NEW K, Pending(t, S) PROVE FindpKey(lines, S, K) = 0
  <2>1. Len(lines) # 0 /\ FindSection(lines, S) = Len(lines)
    BY <1>1, <1>4 DEF Pending
  <2> DEFINE k == FindpKey(lines, S, K)
  <2>2. k \in 0..Len(lines)
    BY <1>1, FindpKeyIs
  <2>3. k \in 1..Len(lines) => KeyAt(lines, S, K, k)
    BY <1>1, FindpKeyIs
  <2> HIDE DEF k
  <2>4. k \in 1..Len(lines) => Len(lines) < k
    BY <2>1, <2>3 DEF KeyAt
  <2>5. k = 0
    BY <1>1, <2>2, <2>4
  <2> QED
    BY <2>5 DEF k
<1>5. ASSUME NEW S, Pending(t, S) PROVE EndsInSection(lines)
  <2>1. Len(lines) # 0 /\ FindSection(lines, S) = Len(lines)
    BY <1>1, <1>5 DEF Pending
  <2>2. lines[Len(lines)].type = "section"
    BY <1>1, <2>1, FindSectionIs, SectionLineIs
  <2>3. lines # <<>> /\ Last(lines) = lines[Len(lines)]
    BY <2>1 DEF Last
  <2> QED
    BY <2>2, <2>3 DEF EndsInSection
<1> QED
  BY <1>1, <1>3, <1>4, <1>5 DEF t, lines

\* A list is written as a file of the right kind.
LEMMA TextOkFile ==
  ASSUME NEW text \in Texts, TextOk(text)
  PROVE  text.lines \in Seq(FileLines) /\ GlobalFilled(text.lines)
  BY DEF Texts, TextOk

\* Values are read, or the default.
LEMMA ReadTyped ==
  ASSUME NEW lines \in Seq(FileLines), NEW S, NEW K, NEW d \in FileValues
  PROVE  ReadString(lines, S, K, d) \in FileValues
<1>1. Len(lines) \in Nat /\ FindpKey(lines, S, K) \in 0..Len(lines)
  BY FindpKeyIs
<1>2. FindpKey(lines, S, K) # 0 => lines[FindpKey(lines, S, K)] \in FileLines
  BY <1>1
<1> QED
  BY <1>2 DEF ReadString, FileLines

\* The password and the directory of LoadedSite.
LoadedPassword(lines, s)  == Decrypt(ReadString(lines, s, "password", Plain("")))
LoadedDirectory(lines, s) == ReadString(lines, s, "directory", Plain("default")).text

\* What is loaded, field by field.
LEMMA LoadedTypes ==
  ASSUME NEW lines, FileOk(lines)
  PROVE  /\ Loaded(lines) \in AllSettings
         /\ Loaded(lines).last = LoadedLastSite(lines)
         /\ Loaded(lines).folder = LoadedFolder(lines)
         /\ \A s \in Sites : /\ Loaded(lines).sites[s].url = LoadedUrl(lines, s)
                             /\ Loaded(lines).sites[s].password = LoadedPassword(lines, s)
                             /\ Loaded(lines).sites[s].directory = LoadedDirectory(lines, s)
<1>1. lines \in Seq(FileLines)
  BY DEF FileOk
<1>2. Plain("") \in FileValues /\ Plain("default") \in FileValues
  BY ValuesAre, NamesAre
<1>3. \A v \in FileValues : v.text \in FileTexts /\ Decrypt(v) \in FileTexts
  BY NamesAre DEF FileValues, Decrypt
<1>4. \A u \in FileTexts : Converted(u) \in FileTexts
  BY DEF Converted, FileTexts, Urls
<1>5. ASSUME NEW s PROVE LoadedUrl(lines, s) \in FileTexts
  <2>1. StoredUrl(lines, s) \in FileTexts
    BY <1>1, <1>2, <1>3, ReadTyped DEF StoredUrl
  <2> QED
    BY <1>4, <2>1 DEF LoadedUrl
<1>6. ASSUME NEW s PROVE LoadedPassword(lines, s) \in FileTexts
  BY <1>1, <1>2, <1>3, ReadTyped DEF LoadedPassword
<1>7. ASSUME NEW s PROVE LoadedDirectory(lines, s) \in FileTexts
  BY <1>1, <1>2, <1>3, ReadTyped DEF LoadedDirectory
<1>8. LoadedFolder(lines) \in FileTexts
  BY <1>1, <1>2, <1>3, ReadTyped DEF LoadedFolder
<1>9. LoadedLastSite(lines) \in Sites
  BY DEF FileOk
<1> DEFINE map == [s \in Sites |-> [url |-> LoadedUrl(lines, s),
                                   password |-> LoadedPassword(lines, s),
                                   directory |-> LoadedDirectory(lines, s)]]
<1>10. Loaded(lines) = [sites |-> map, last |-> LoadedLastSite(lines), folder |-> LoadedFolder(lines)]
  BY DEF Loaded, LoadedSite, LoadedPassword, LoadedDirectory
<1>11. map \in [Sites -> SiteSettings]
  BY <1>5, <1>6, <1>7 DEF SiteSettings
<1>12. \A s \in Sites : /\ map[s].url = LoadedUrl(lines, s)
                        /\ map[s].password = LoadedPassword(lines, s)
                        /\ map[s].directory = LoadedDirectory(lines, s)
  OBVIOUS
<1> HIDE DEF map
<1> QED
  BY <1>8, <1>9, <1>10, <1>11, <1>12 DEF AllSettings

\* What is read of a file without values in brackets has none.
LEMMA LoadedClean ==
  ASSUME NEW lines, FileOk(lines), Clean(lines)
  PROVE  CleanAll(Loaded(lines))
<1>1. ASSUME NEW S, NEW K, NEW d, d.text \notin Bracketed
      PROVE  ReadString(lines, S, K, d).text \notin Bracketed
  <2> DEFINE k == FindpKey(lines, S, K)
  <2>1. CASE k = 0
    BY <1>1, <2>1 DEF ReadString
  <2>2. CASE k # 0
    <3>1. Len(lines) \in Nat
      BY DEF FileOk
    <3>2. k \in 1..Len(lines)
      BY <2>2, <3>1, FindpKeyIs
    <3>3. KeyAt(lines, S, K, k)
      BY <3>1, <3>2, FindpKeyIs
    <3> HIDE DEF k
    <3>4. lines[k].type # "section"
      BY <3>3 DEF KeyAt, IsKey
    <3>5. lines[k].value.text \notin Bracketed
      BY <3>2, <3>4 DEF Clean
    <3> QED
      BY <2>2, <3>5 DEF ReadString, k
  <2> QED
    BY <2>1, <2>2
<1>2. Plain("").text \notin Bracketed /\ Plain("default").text \notin Bracketed
  BY CleanTexts DEF Plain
<1>3. ASSUME NEW s PROVE LoadedUrl(lines, s) \notin Bracketed
  <2>1. StoredUrl(lines, s) \notin Bracketed
    BY <1>1, <1>2 DEF StoredUrl
  <2> QED
    BY <2>1, CleanTexts DEF LoadedUrl, Converted
<1>4. ASSUME NEW s PROVE LoadedPassword(lines, s) \notin Bracketed
  <2>1. ReadString(lines, s, "password", Plain("")).text \notin Bracketed
    BY <1>1, <1>2
  <2> QED
    BY <2>1, CleanTexts DEF LoadedPassword, Decrypt
<1>5. ASSUME NEW s PROVE LoadedDirectory(lines, s) \notin Bracketed
  BY <1>1, <1>2 DEF LoadedDirectory
<1>6. LoadedFolder(lines) \notin Bracketed
  BY <1>1, <1>2 DEF LoadedFolder
<1>7. \A s \in Sites : CleanSite(Loaded(lines).sites[s])
  BY <1>3, <1>4, <1>5, LoadedTypes DEF CleanSite
<1> QED
  BY <1>6, <1>7, LoadedTypes DEF CleanAll

\* The password of Kept.
KeptPassword(password) == IF password = "long" THEN "cut" ELSE password

\* What a file of today's version says, as SavedIsLoaded puts it.
KeptAll(all) == [all EXCEPT !.sites = [s \in Sites |-> Kept(@[s])]]

\* The same field by field: the file says all of it.
LoadedIs(lines, all) ==
  /\ \A s \in Sites : /\ LoadedUrl(lines, s) = all.sites[s].url
                      /\ LoadedPassword(lines, s) = KeptPassword(all.sites[s].password)
                      /\ LoadedDirectory(lines, s) = all.sites[s].directory
  /\ LoadedLastSite(lines) = all.last
  /\ LoadedFolder(lines) = all.folder

\* The fields of KeptAll.
LEMMA KeptAllIs ==
  ASSUME NEW all \in AllSettings
  PROVE  /\ KeptAll(all).last = all.last /\ KeptAll(all).folder = all.folder
         /\ \A s \in Sites : /\ KeptAll(all).sites[s].url = all.sites[s].url
                             /\ KeptAll(all).sites[s].password = KeptPassword(all.sites[s].password)
                             /\ KeptAll(all).sites[s].directory = all.sites[s].directory
         /\ KeptAll(all) \in AllSettings
<1> DEFINE map == [s \in Sites |-> Kept(all.sites[s])]
<1>1. KeptAll(all) = [all EXCEPT !.sites = map]
  BY DEF KeptAll
<1>2. all.sites \in [Sites -> SiteSettings]
  BY DEF AllSettings
<1>3. ASSUME NEW s \in Sites
      PROVE  /\ map[s] \in SiteSettings
             /\ map[s].url = all.sites[s].url
             /\ map[s].password = KeptPassword(all.sites[s].password)
             /\ map[s].directory = all.sites[s].directory
  <2>1. map[s] = Kept(all.sites[s]) /\ all.sites[s] \in SiteSettings
    BY <1>2
  <2> HIDE DEF map
  <2>2. map[s] = [url |-> all.sites[s].url, password |-> KeptPassword(all.sites[s].password),
                  directory |-> all.sites[s].directory]
    BY <2>1 DEF Kept, KeptPassword, SiteSettings
  <2>3. /\ all.sites[s].url \in FileTexts /\ KeptPassword(all.sites[s].password) \in FileTexts
        /\ all.sites[s].directory \in FileTexts
    BY <2>1, NamesAre DEF KeptPassword, SiteSettings
  <2> QED
    BY <2>2, <2>3 DEF SiteSettings
<1>4. map = [s \in Sites |-> map[s]]
  OBVIOUS
<1> HIDE DEF map
<1>5. map \in [Sites -> SiteSettings]
  BY <1>3, <1>4
<1>6. /\ [all EXCEPT !.sites = map] \in AllSettings
      /\ [all EXCEPT !.sites = map].sites = map
      /\ [all EXCEPT !.sites = map].last = all.last
      /\ [all EXCEPT !.sites = map].folder = all.folder
  BY <1>5 DEF AllSettings
<1> QED
  BY <1>1, <1>3, <1>6

\* Settings are equal when their fields are.
LEMMA AllEqual ==
  ASSUME NEW a \in AllSettings, NEW b \in AllSettings, a.last = b.last, a.folder = b.folder,
         \A s \in Sites : /\ a.sites[s].url = b.sites[s].url
                         /\ a.sites[s].password = b.sites[s].password
                         /\ a.sites[s].directory = b.sites[s].directory
  PROVE  a = b
<1>1. \A s \in Sites : a.sites[s] = b.sites[s]
  BY DEF AllSettings, SiteSettings
<1>2. a.sites = b.sites
  BY <1>1 DEF AllSettings
<1> QED
  BY <1>2 DEF AllSettings

\* LoadedIs is what SavedIsLoaded says of today's version.
LEMMA LoadedIsKept ==
  ASSUME NEW lines, FileOk(lines), NEW all \in AllSettings
  PROVE  LoadedIs(lines, all) <=> Loaded(lines) = KeptAll(all)
<1>1. ASSUME LoadedIs(lines, all) PROVE Loaded(lines) = KeptAll(all)
  BY <1>1, AllEqual, KeptAllIs, LoadedTypes DEF LoadedIs
<1>2. ASSUME Loaded(lines) = KeptAll(all) PROVE LoadedIs(lines, all)
  BY <1>2, KeptAllIs, LoadedTypes DEF LoadedIs
<1> QED
  BY <1>1, <1>2

\* Keys of "Global" are there only in a file with the section.
LEMMA VersionThere ==
  ASSUME NEW lines, ~ConversionNeeded(lines) PROVE FindSection(lines, "Global") # 0
  BY DEF ConversionNeeded, ReadString, FindpKey

\* The fields of a plain value.
LEMMA PlainIs ==
  ASSUME NEW t PROVE Plain(t).text = t /\ Plain(t).cipher = FALSE
  BY DEF Plain

\* A file of version "1" is not converted.
LEMMA VersionOne ==
  ASSUME NEW lines, Reads(lines, "Global", "version", Plain("1")) PROVE ~ConversionNeeded(lines)
<1>1. ReadString(lines, "Global", "version", Plain("0")) = Plain("1")
  BY ReadsRead
<1>2. Plain("1") # Plain("0")
  BY PlainIs
<1> QED
  BY <1>1, <1>2 DEF ConversionNeeded

\* CONFIG::Decrypt undoes CONFIG::Encrypt but for long passwords.
LEMMA CipherUndone ==
  ASSUME NEW password PROVE Decrypt(Encrypt(password)) = KeptPassword(password)
<1>1. CASE password = ""
  <2>1. Encrypt(password).cipher = FALSE /\ Encrypt(password).text = ""
    BY <1>1 DEF Encrypt
  <2> QED
    BY <1>1, <2>1 DEF Decrypt, KeptPassword
<1>2. CASE password # ""
  <2>1. Encrypt(password).cipher = TRUE /\ Encrypt(password).text = password
    BY <1>2 DEF Encrypt
  <2> QED
    BY <2>1 DEF Decrypt, KeptPassword
<1> QED
  BY <1>1, <1>2

\* A start loads from the file it has written back what it loaded before.
LEMMA WrittenBackLoads ==
  ASSUME NEW file, FileOk(file)
  PROVE  LET lines == Opened(file)
             new == WrittenBack(TextOf(file), Loaded(lines)).lines
         IN
         /\ FileOk(new) /\ Opened(new) = new /\ ~ConversionNeeded(new)
         /\ FindpKey(new, "Global", "version") # 0
         /\ LoadedIs(new, Loaded(lines))
         /\ ~EndsInSection(lines) => Complete(new)
<1> DEFINE lines == Opened(file)
           text == TextOf(file)
           loaded == Loaded(lines)
           back == WrittenBack(text, loaded)
           new == back.lines
<1>0. FileOk(lines) /\ Clean(lines)
  BY OpenedOk
<1>1. text \in Texts /\ TextOk(text) /\ text.lines = lines
  BY TextOfIs
<1>2. loaded \in AllSettings /\ CleanAll(loaded)
  BY <1>0, LoadedTypes, LoadedClean
<1>3. EmptyWherePending(text, loaded)
  <2> SUFFICES ASSUME NEW s \in Sites, Pending(text, s)
               PROVE  /\ loaded.sites[s].url = "" /\ loaded.sites[s].password = ""
                      /\ loaded.sites[s].directory = "default"
    BY DEF EmptyWherePending
  <2>1. /\ FindpKey(lines, s, "url") = 0 /\ FindpKey(lines, s, "password") = 0
        /\ FindpKey(lines, s, "directory") = 0
    BY TextOfIs
  <2> HIDE DEF lines
  <2>2. /\ ReadString(lines, s, "url", Plain("")) = Plain("")
        /\ ReadString(lines, s, "password", Plain("")) = Plain("")
        /\ ReadString(lines, s, "directory", Plain("default")) = Plain("default")
    BY <2>1 DEF ReadString
  <2>3. StoredUrl(lines, s) = ""
    BY <2>2, PlainIs DEF StoredUrl
  <2>4. LoadedUrl(lines, s) = ""
    BY <2>3 DEF LoadedUrl, Converted
  <2>5. LoadedPassword(lines, s) = ""
    BY <2>2, PlainIs DEF LoadedPassword, Decrypt
  <2>6. LoadedDirectory(lines, s) = "default"
    BY <2>2, PlainIs DEF LoadedDirectory
  <2> QED
    BY <1>0, <2>4, <2>5, <2>6, LoadedTypes
<1> HIDE DEF text, loaded, lines
<1>4. Stage(text, back, loaded, Len(sites)) /\ Reads(back.lines, "Global", "last_site", Plain(loaded.last))
  BY <1>1, <1>2, <1>3, WrittenBackIs
<1> HIDE DEF back
<1>5. new \in Seq(FileLines) /\ GlobalFilled(new)
  BY <1>4, TextOkFile DEF Stage
<1>6. LoadedLastSite(new) = loaded.last
  <2>1. ReadString(new, "Global", "last_site", Plain(FirstSite)) = Plain(loaded.last)
    BY <1>4, ReadsRead
  <2> QED
    BY <2>1, PlainIs DEF LoadedLastSite
<1>7. FileOk(new) /\ Opened(new) = new
  <2>1. FileOk(new)
    BY <1>2, <1>5, <1>6 DEF FileOk, AllSettings
  <2>2. Clean(new)
    BY <1>0, <1>1, <1>2, <1>4 DEF Stage
  <2> QED
    BY <2>1, <2>2, OpenedOk
<1>8. ~ConversionNeeded(new)
  BY <1>4, VersionOne DEF Stage
<1>9. LoadedFolder(new) = loaded.folder
  <2>1. Reads(new, "Global", "temp_folder", Plain(loaded.folder))
    BY <1>4 DEF Stage
  <2>2. ReadString(new, "Global", "temp_folder", Plain("default")) = Plain(loaded.folder)
    BY <2>1, ReadsRead
  <2> QED
    BY <2>2, PlainIs DEF LoadedFolder
<1>10. ASSUME NEW s \in Sites
       PROVE  /\ LoadedUrl(new, s) = loaded.sites[s].url
              /\ LoadedPassword(new, s) = KeptPassword(loaded.sites[s].password)
              /\ LoadedDirectory(new, s) = loaded.sites[s].directory
  <2>1. PICK i \in 1..Len(sites) : sites[i] = s
    BY SitesAre
  <2>2. SiteReads(new, s, loaded.sites[s])
    BY <1>4, <2>1 DEF Stage
  <2>3. LoadedUrl(new, s) = loaded.sites[s].url
    BY <1>8, <2>2, PlainIs DEF LoadedUrl, StoredUrl, SiteReads
  <2>4. LoadedPassword(new, s) = KeptPassword(loaded.sites[s].password)
    BY <2>2, CipherUndone DEF LoadedPassword, SiteReads
  <2>5. LoadedDirectory(new, s) = loaded.sites[s].directory
    BY <2>2, PlainIs DEF LoadedDirectory, SiteReads
  <2> QED
    BY <2>3, <2>4, <2>5
<1>11. LoadedIs(new, loaded)
  BY <1>6, <1>9, <1>10 DEF LoadedIs
<1>12. ASSUME ~EndsInSection(lines) PROVE Complete(new)
  <2>1. \A S2 : ~Pending(text, S2)
    BY <1>12, TextOfIs DEF text, lines
  <2>2. \A i \in 1..Len(sites) : SiteComplete(new, sites[i])
    BY <1>4, <2>1 DEF Stage
  <2>3. \A s \in Sites : SiteComplete(new, s)
    BY <2>2, SitesAre
  <2>4. \A key \in {"version", "temp_folder", "local_directory", "last_site"} :
          FindpKey(new, "Global", key) # 0
    BY <1>4 DEF Stage, Reads
  <2> QED
    BY <2>3, <2>4 DEF Complete, SiteComplete
<1>13. FindpKey(new, "Global", "version") # 0
  BY <1>4 DEF Stage, Reads
<1> QED
  BY <1>7, <1>8, <1>11, <1>12, <1>13 DEF new, back, text, loaded, lines

-------------------------------------------------------------------------------
(* Files whose writing is cut off.                                         *)

\* What can be left of a value.
TornValues == {Plain(v) : v \in {"", "cut"}}

\* What can be left of a line.
Torn(line, rest) ==
  /\ rest.type # "section"
  /\ rest.type = "key" => /\ line.type = "key" \/ line.value.text \in Bracketed
                         /\ rest.name = line.name
                         /\ rest.value \in TornValues

\* A file that is cut off after n lines, with something left of the next line or nothing.
CutAt(lines, cut, n) ==
  /\ n \in Nat /\ SectionEnd(lines, "Global") <= n
  /\ Agree(lines, cut, n)
  /\ cut \in Seq(FileLines)
  /\ \/ Len(cut) = n
     \/ Len(cut) = n + 1 /\ n < Len(lines) /\ Torn(lines[n + 1], cut[n + 1])

\* A file whose writing is cut off is empty or holds the first lines, all of "Global" among
\* them, and what is left of the next.
LEMMA CutIs ==
  ASSUME NEW lines \in Seq(FileLines), NEW cut \in CutFiles(lines)
  PROVE  cut = <<>> \/ \E n \in Nat : CutAt(lines, cut, n)
<1> DEFINE e == SectionEnd(lines, "Global")
<1>1. Len(lines) \in Nat /\ e \in 0..Len(lines)
  <2>1. Len(lines) \in Nat /\ FindSection(lines, "Global") \in 0..Len(lines)
    BY FindSectionIs
  <2> QED
    BY <2>1, SectionEndIs
<1>2. \/ cut = <<>>
      \/ \E n \in e..Len(lines) : cut = SubSeq(lines, 1, n)
      \/ \E n \in e..Len(lines) \ {Len(lines)} :
           \E rest \in CutLine(lines[n + 1]) : cut = Append(SubSeq(lines, 1, n), rest)
  BY DEF CutFiles, FirstPiece
<1> HIDE DEF e
<1>3. ASSUME NEW n \in e..Len(lines)
      PROVE  /\ n \in Nat /\ e <= n /\ n <= Len(lines)
             /\ SubSeq(lines, 1, n) \in Seq(FileLines) /\ Len(SubSeq(lines, 1, n)) = n
             /\ \A j \in 1..n : SubSeq(lines, 1, n)[j] = lines[j]
  <2>1. n \in Nat /\ e <= n /\ n <= Len(lines)
    BY <1>1
  <2> QED
    BY <2>1
<1>4. ASSUME NEW n \in e..Len(lines), cut = SubSeq(lines, 1, n) PROVE CutAt(lines, cut, n)
  BY <1>1, <1>3, <1>4 DEF CutAt, Agree, e
<1>5. ASSUME NEW n \in e..Len(lines), n # Len(lines), NEW rest \in CutLine(lines[n + 1]),
             cut = Append(SubSeq(lines, 1, n), rest)
      PROVE  CutAt(lines, cut, n)
  <2>1. n + 1 \in 1..Len(lines) /\ n < Len(lines)
    BY <1>1, <1>3, <1>5
  <2>2. lines[n + 1] \in FileLines
    BY <2>1
  <2>3. rest \in FileLines /\ Torn(lines[n + 1], rest)
    <3> DEFINE line == lines[n + 1]
    <3> DEFINE WasKey == line.type = "key" \/ line.value.text \in Bracketed
    <3>1. \/ rest = Comment
          \/ WasKey /\ \E v \in {"", "cut"} : rest = [line EXCEPT !.type = "key", !.value = Plain(v)]
      BY DEF CutLine
    <3>2. line \in [type : {"key", "section", "comment"}, name : FileNames, value : FileValues]
      BY <2>2 DEF FileLines
    <3>3. \A v \in {"", "cut"} : Plain(v) \in FileValues /\ Plain(v).text \notin Bracketed
      BY ValuesAre, NamesAre, CleanTexts
    <3>4. CASE rest = Comment
      <4>1. Comment = [type |-> "comment", name |-> "", value |-> Plain("")]
        BY DEF Comment, Line
      <4>2. Comment.type = "comment"
        BY <4>1
      <4>3. Comment \in FileLines
        BY <3>3, <4>1, NamesAre DEF FileLines, ValueFits
      <4> QED
        BY <3>4, <4>2, <4>3 DEF Torn
    <3>5. CASE WasKey /\ \E v \in {"", "cut"} : rest = [line EXCEPT !.type = "key", !.value = Plain(v)]
      <4>1. PICK v \in {"", "cut"} : rest = [line EXCEPT !.type = "key", !.value = Plain(v)]
        BY <3>5
      <4>0. WasKey
        BY <3>5
      <4> HIDE DEF line, WasKey
      <4>2. rest \in [type : {"key", "section", "comment"}, name : FileNames, value : FileValues]
        BY <3>2, <3>3, <4>1
      <4>3. rest.type = "key" /\ rest.name = line.name /\ rest.value = Plain(v)
        BY <3>2, <4>1
      <4>5. Plain(v).text \notin Bracketed
        BY <3>3
      <4>4. rest \in FileLines
        BY <4>2, <4>3, <4>5 DEF FileLines, ValueFits
      <4> QED
        BY <4>0, <4>1, <4>3, <4>4 DEF WasKey, line, Torn, TornValues
    <3> QED
      BY <3>1, <3>4, <3>5
  <2> DEFINE a == SubSeq(lines, 1, n)
  <2>4. a \in Seq(FileLines) /\ Len(a) = n /\ n \in Nat /\ \A j \in 1..n : a[j] = lines[j]
    BY <1>3
  <2> HIDE DEF a
  <2>5. /\ Append(a, rest) \in Seq(FileLines) /\ Len(Append(a, rest)) = n + 1
        /\ Append(a, rest)[n + 1] = rest /\ \A j \in 1..n : Append(a, rest)[j] = lines[j]
    BY <2>3, <2>4
  <2>6. cut = Append(a, rest)
    BY <1>5 DEF a
  <2> QED
    BY <1>1, <1>3, <2>1, <2>3, <2>5, <2>6 DEF CutAt, Agree, e
<1> QED
  BY <1>2, <1>3, <1>4, <1>5

\* A file cut off reads as before, or as if the key were not there, or a piece of its value.
LEMMA CutReads ==
  ASSUME NEW lines \in Seq(FileLines), NEW cut, NEW n, CutAt(lines, cut, n), NEW S, NEW K, NEW d
  PROVE  \/ ReadString(cut, S, K, d) = ReadString(lines, S, K, d) \/ ReadString(cut, S, K, d) = d
         \/ ReadString(cut, S, K, d) \in TornValues
<1> DEFINE i == FindpKey(cut, S, K)
<1>1. Len(lines) \in Nat /\ Len(cut) \in Nat /\ n \in Nat /\ Len(cut) \in {n, n + 1} /\ n <= Len(lines)
  BY DEF CutAt, Agree
<1>2. i \in 0..Len(cut)
  BY <1>1, FindpKeyIs
<1>3. i \in 1..Len(cut) => KeyAt(cut, S, K, i)
  BY <1>1, FindpKeyIs
<1>4. CASE i \in 1..n
  <2>1. Agree(cut, lines, n)
    BY DEF CutAt, Agree
  <2>2. FindpKey(lines, S, K) = i
    BY <1>4, <2>1, PrefixKeys
  <2> HIDE DEF i
  <2>3. cut[i] = lines[i]
    BY <1>4 DEF CutAt, Agree
  <2> QED
    BY <1>4, <2>2, <2>3 DEF ReadString, i
<1>5. CASE i = 0
  BY <1>5 DEF ReadString
<1>6. CASE i = n + 1
  <2> HIDE DEF i
  <2>1. i \in 1..Len(cut) /\ i # 0 /\ Len(cut) = n + 1
    BY <1>1, <1>2, <1>6
  <2>2. cut[i].type = "key"
    BY <1>3, <2>1 DEF KeyAt, IsKey
  <2>3. cut[i].value \in TornValues
    BY <1>1, <1>6, <2>1, <2>2 DEF CutAt, Torn
  <2> QED
    BY <2>1, <2>3 DEF ReadString, i
<1> QED
  <2> HIDE DEF i
  <2>1. i \in 1..n \/ i = 0 \/ i = n + 1
    BY <1>1, <1>2
  <2> QED
    BY <2>1, <1>4, <1>5, <1>6

\* A section that has a key ends behind it.
LEMMA KeyInSection ==
  ASSUME NEW lines, Len(lines) \in Nat, NEW S, NEW K, FindpKey(lines, S, K) # 0
  PROVE  LET g == FindSection(lines, S)
             k == FindpKey(lines, S, K)
         IN  g \in 1..Len(lines) /\ g < k /\ k <= SectionEnd(lines, S) /\ k \in 1..Len(lines)
<1> DEFINE g == FindSection(lines, S)
           k == FindpKey(lines, S, K)
           e == SectionEnd(lines, S)
<1>1. k \in 1..Len(lines) /\ g \in 0..Len(lines)
  BY FindpKeyIs, FindSectionIs
<1>2. KeyAt(lines, S, K, k)
  BY <1>1, FindpKeyIs
<1>3. /\ e \in g..Len(lines)
      /\ e < Len(lines) => lines[e + 1].type = "section"
  BY SectionEndIs
<1> HIDE DEF k, e
<1>4. /\ g # 0 /\ g < k /\ lines[k].type = "key"
      /\ \A j \in 1..Len(lines) : g < j /\ j < k => lines[j].type # "section"
  BY <1>2 DEF KeyAt, IsKey
<1> HIDE DEF g
<1>5. ~(e < k)
  <2> SUFFICES ASSUME e < k PROVE FALSE
    OBVIOUS
  <2>1. e < Len(lines) /\ e + 1 \in 1..Len(lines) /\ g < e + 1 /\ e + 1 <= k
    BY <1>1, <1>3
  <2>2. lines[e + 1].type = "section"
    BY <1>3, <2>1
  <2>3. e + 1 # k
    BY <1>4, <2>2
  <2> QED
    BY <1>1, <1>3, <1>4, <2>1, <2>2, <2>3
<1> QED
  BY <1>1, <1>3, <1>4, <1>5 DEF g, k, e

\* The section "Global" of a file the program writes, which has a key, is not cut: the version
\* and the last site read as before.
LEMMA CutGlobal ==
  ASSUME NEW lines \in Seq(FileLines), NEW K0, FindpKey(lines, "Global", K0) # 0,
         NEW cut, NEW n, CutAt(lines, cut, n)
  PROVE  /\ GlobalFilled(cut)
         /\ \A K \in {"version", "last_site"} : \A d :
              ReadString(cut, "Global", K, d) = ReadString(lines, "Global", K, d)
<1> DEFINE g == FindSection(lines, "Global")
           e == SectionEnd(lines, "Global")
<1>1. /\ Len(lines) \in Nat /\ Len(cut) \in Nat /\ n \in Nat /\ Len(cut) \in {n, n + 1}
      /\ n <= Len(lines) /\ \A j \in 1..n : cut[j] = lines[j]
  BY DEF CutAt, Agree
<1>2. e <= n /\ e \in g..Len(lines) /\ (e < Len(lines) => lines[e + 1].type = "section")
  BY <1>1, SectionEndIs DEF CutAt
<1>3. g \in 1..Len(lines) /\ g < e
  <2> DEFINE k0 == FindpKey(lines, "Global", K0)
  <2>1. g \in 1..Len(lines) /\ g < k0 /\ k0 <= e /\ k0 \in 1..Len(lines)
    BY <1>1, KeyInSection
  <2> HIDE DEF k0, g, e
  <2> QED
    BY <1>1, <1>2, <2>1
<1> HIDE DEF g, e
<1>4. g \in 1..n /\ g < Len(cut) /\ e \in 1..n
  BY <1>1, <1>2, <1>3
<1>5. FindSection(cut, "Global") = g
  BY <1>4, PrefixSections DEF g, CutAt
<1>6. GlobalFilled(cut)
  BY <1>4, <1>5 DEF GlobalFilled
<1>7. Len(cut) = n + 1 => n < Len(lines) /\ Torn(lines[n + 1], cut[n + 1])
  BY <1>1 DEF CutAt
<1>8. ASSUME NEW K \in {"version", "last_site"}, NEW d
      PROVE  ReadString(cut, "Global", K, d) = ReadString(lines, "Global", K, d)
  <2> DEFINE k == FindpKey(lines, "Global", K)
             i == FindpKey(cut, "Global", K)
  <2>1. k \in 0..Len(lines) /\ i \in 0..Len(cut)
    BY <1>1, FindpKeyIs
  <2>2. k # 0 => k <= e
    BY <1>1, KeyInSection DEF e
  <2>3. i \in 1..Len(cut) => KeyAt(cut, "Global", K, i)
    BY <1>1, FindpKeyIs
  <2>4. k \in 1..n => i = k
    BY PrefixKeys DEF CutAt
  <2>5. i \in 1..n => k = i
    <3>1. Agree(cut, lines, n)
      BY DEF CutAt, Agree
    <3> QED
      BY <3>1, PrefixKeys
  <2> HIDE DEF k, i
  <2>6. i # n + 1
    <3> SUFFICES ASSUME i = n + 1 PROVE FALSE
      OBVIOUS
    <3>1. n + 1 \in 1..Len(cut) /\ Len(cut) = n + 1 /\ n < Len(lines) /\ n + 1 \in 1..Len(lines)
      BY <1>1, <1>7, <2>1
    <3>2. KeyAt(cut, "Global", K, n + 1)
      BY <2>3, <3>1
    <3>3. /\ IsKey(cut[n + 1], K)
          /\ \A j \in 1..Len(cut) : g < j /\ j < n + 1 => cut[j].type # "section"
      BY <1>5, <3>2 DEF KeyAt
    <3>4. /\ lines[n + 1].type = "key" \/ lines[n + 1].value.text \in Bracketed
          /\ lines[n + 1].name = K
      BY <1>7, <3>1, <3>3 DEF Torn, IsKey
    <3>5. lines[n + 1].type = "key"
      <4>1. lines[n + 1] \in FileLines
        BY <3>1
      <4>2. ValueFits(lines[n + 1].name, lines[n + 1].value)
        BY <4>1 DEF FileLines
      <4> QED
        BY <3>4, <4>2 DEF ValueFits
    <3>6. e < Len(lines) /\ e + 1 <= n + 1
      BY <1>1, <1>2, <1>4, <3>1
    <3>7. lines[e + 1].type = "section"
      BY <1>2, <3>6
    <3>8. e # n
      BY <3>5, <3>7
    <3>9. e + 1 \in 1..n /\ e + 1 \in 1..Len(cut) /\ g < e + 1 /\ e + 1 < n + 1
      BY <1>1, <1>2, <1>3, <1>4, <3>1, <3>8
    <3>10. cut[e + 1].type = "section"
      BY <1>1, <3>7, <3>9
    <3> QED
      BY <3>3, <3>9, <3>10
  <2>7. CASE k \in 1..n
    <3>1. i = k /\ k # 0 /\ cut[k] = lines[k]
      BY <1>1, <2>4, <2>7
    <3> QED
      BY <3>1 DEF ReadString, k, i
  <2>8. CASE k \notin 1..n
    <3>1. k = 0 /\ i = 0
      BY <1>1, <1>4, <2>1, <2>2, <2>5, <2>6, <2>8
    <3> QED
      BY <3>1 DEF ReadString, k, i
  <2> QED
    BY <2>7, <2>8
<1> QED
  BY <1>6, <1>8

\* Nor is the version when the file is read again.
LEMMA CutOpened ==
  ASSUME NEW lines \in Seq(FileLines), NEW cut, NEW n, CutAt(lines, cut, n),
         ~ConversionNeeded(Opened(lines))
  PROVE  ~ConversionNeeded(Opened(cut))
<1> DEFINE a == Opened(lines)
           b == Opened(cut)
           k == FindpKey(a, "Global", "version")
<1>1. /\ Len(lines) \in Nat /\ Len(cut) \in Nat /\ n \in Nat /\ n <= Len(lines) /\ n <= Len(cut)
      /\ \A j \in 1..n : cut[j] = lines[j]
      /\ cut \in Seq(FileLines) /\ SectionEnd(lines, "Global") <= n
  BY DEF CutAt, Agree
<1>2. /\ Len(a) = Len(lines) /\ Len(b) = Len(cut)
  BY <1>1, OpenedIs
<1>3. \A j \in 1..n : b[j] = a[j]
  <2>1. /\ \A j \in 1..Len(lines) : a[j] = [lines[j] EXCEPT !.type = TypeRead(lines[j])]
        /\ \A j \in 1..Len(cut) : b[j] = [cut[j] EXCEPT !.type = TypeRead(cut[j])]
    <3>1. DOMAIN lines = 1..Len(lines) /\ DOMAIN cut = 1..Len(cut)
      BY <1>1
    <3> QED
      BY <3>1 DEF Opened, TextOf, Retyped
  <2> HIDE DEF a, b
  <2>2. \A j \in 1..n : j \in 1..Len(lines) /\ j \in 1..Len(cut)
    BY <1>1
  <2> QED
    BY <1>1, <2>1, <2>2
<1>4. k # 0
  <2> SUFFICES ASSUME k = 0 PROVE FALSE
    OBVIOUS
  <2> QED
    BY DEF ConversionNeeded, ReadString
<1>5. k \in 1..Len(lines) /\ FindpKey(lines, "Global", "version") = k
  BY <1>4, OpenedFinds
<1>6. k <= SectionEnd(lines, "Global")
  BY <1>1, <1>4, <1>5, KeyInSection
<1>7. k \in 1..n
  <2> DEFINE e == SectionEnd(lines, "Global")
  <2>1. e \in Nat
    <3>1. FindSection(lines, "Global") \in 0..Len(lines)
      BY <1>1, FindSectionIs
    <3>2. e \in FindSection(lines, "Global")..Len(lines)
      BY <1>1, SectionEndIs
    <3> HIDE DEF e
    <3> QED
      BY <1>1, <3>1, <3>2
  <2> HIDE DEF k, e
  <2>2. k <= e /\ e <= n
    BY <1>1, <1>6 DEF e
  <2> QED
    BY <1>1, <1>5, <2>1, <2>2
<1> HIDE DEF a, b
<1>8. Agree(a, b, n)
  BY <1>1, <1>2, <1>3 DEF Agree
<1>9. FindpKey(b, "Global", "version") = k
  BY <1>7, <1>8, PrefixKeys
<1>10. b[k] = a[k]
  <2> HIDE DEF k
  <2> QED
    BY <1>3, <1>7
<1>11. \A d : ReadString(b, "Global", "version", d) = ReadString(a, "Global", "version", d)
  BY <1>4, <1>9, <1>10 DEF ReadString
<1> QED
  BY <1>11 DEF ConversionNeeded, a, b

\* It will do for a start, no address reads otherwise than before, empty or cut, and unless
\* nothing is left the version is as before.
LEMMA CutOk ==
  ASSUME NEW lines, FileOk(lines), NEW K0, FindpKey(lines, "Global", K0) # 0,
         NEW cut \in CutFiles(lines)
  PROVE  /\ FileOk(cut)
         /\ \A s : StoredUrl(cut, s) \in {StoredUrl(lines, s), "", "cut"}
         /\ \/ cut = <<>>
            \/ /\ ConversionNeeded(cut) <=> ConversionNeeded(lines)
               /\ ~ConversionNeeded(Opened(lines)) => ~ConversionNeeded(Opened(cut))
<1>1. CASE cut = <<>>
  <2>1. ASSUME NEW s PROVE StoredUrl(cut, s) = ""
    <3>1. ReadString(cut, s, "url", Plain("")) = Plain("")
      BY <1>1, NoKeys
    <3> QED
      BY <3>1, PlainIs DEF StoredUrl
  <2> QED
    BY <1>1, <2>1, NoFileOk
<1>2. CASE cut # <<>>
  <2>1. PICK n \in Nat : CutAt(lines, cut, n)
    BY <1>2, CutIs DEF FileOk
  <2>2. lines \in Seq(FileLines)
    BY DEF FileOk
  <2>3. /\ GlobalFilled(cut)
        /\ \A K \in {"version", "last_site"} : \A d :
             ReadString(cut, "Global", K, d) = ReadString(lines, "Global", K, d)
    BY <2>1, <2>2, CutGlobal
  <2>4. /\ LoadedLastSite(cut) = LoadedLastSite(lines)
        /\ ConversionNeeded(cut) <=> ConversionNeeded(lines)
    BY <2>3 DEF LoadedLastSite, ConversionNeeded
  <2>5. cut \in Seq(FileLines)
    BY <2>1 DEF CutAt
  <2>6. FileOk(cut)
    BY <2>3, <2>4, <2>5 DEF FileOk
  <2>7. ASSUME NEW s PROVE StoredUrl(cut, s) \in {StoredUrl(lines, s), "", "cut"}
    <3>0. \A d : \/ ReadString(cut, s, "url", d) = ReadString(lines, s, "url", d)
                 \/ ReadString(cut, s, "url", d) = d
                 \/ ReadString(cut, s, "url", d) \in TornValues
      BY <2>1, <2>2, CutReads
    <3> DEFINE d == Plain("")
               new == ReadString(cut, s, "url", d)
               old == ReadString(lines, s, "url", d)
    <3>1. d.text = "" /\ \A v \in TornValues : v.text \in {"", "cut"}
      BY PlainIs DEF TornValues
    <3>2. StoredUrl(cut, s) = new.text /\ StoredUrl(lines, s) = old.text
      BY DEF StoredUrl
    <3>3. new = old \/ new = d \/ new \in TornValues
      BY <3>0
    <3> HIDE DEF d, new, old
    <3>4. new.text \in {old.text, "", "cut"}
      BY <3>1, <3>3
    <3> QED
      BY <3>2, <3>4
  <2>8. ~ConversionNeeded(Opened(lines)) => ~ConversionNeeded(Opened(cut))
    BY <2>1, <2>2, CutOpened
  <2> QED
    BY <2>4, <2>6, <2>7, <2>8
<1> QED
  BY <1>1, <1>2

-------------------------------------------------------------------------------
(* The file of the older version.                                          *)

\* A line of the older version: no version, and no cipher.
LEMMA OldLineIs ==
  ASSUME NEW line \in FileLines
  PROVE  /\ OldLine(line) \in FileLines
         /\ \A S : OldLine(line) = SectionLine(S) <=> line = SectionLine(S)
         /\ OldLine(line).type = "section" <=> line.type = "section"
         /\ \A K : IsKey(OldLine(line), K) <=> IsKey(line, K) /\ K # "version"
         /\ \A K : IsKey(line, K) /\ K # "version" =>
              OldLine(line).value = Plain(line.value.text)
<1>1. /\ line \in [type : {"key", "section", "comment"}, name : FileNames, value : FileValues]
      /\ line.type = "section" => line.value = Plain("") \/ line.value.text \in Bracketed
      /\ ValueFits(line.name, line.value)
  BY DEF FileLines
<1>2. CASE line.type = "key" /\ line.name = "version"
  <2>1. OldLine(line) = Comment
    BY <1>2 DEF OldLine
  <2>2. Comment = [type |-> "comment", name |-> "", value |-> Plain("")]
    BY DEF Comment, Line
  <2>3. Plain("") \in FileValues /\ "" \in FileNames
    BY ValuesAre, NamesAre
  <2>4. Comment.type = "comment"
    BY <2>2
  <2>7. Plain("").text \notin Bracketed
    BY PlainIs, CleanTexts
  <2>5. Comment \in FileLines
    BY <2>2, <2>3, <2>7 DEF FileLines, ValueFits
  <2>6. \A S : Comment # SectionLine(S) /\ line # SectionLine(S)
    <3> SUFFICES ASSUME NEW S PROVE Comment # SectionLine(S) /\ line # SectionLine(S)
      OBVIOUS
    <3>1. SectionLine(S).type = "section"
      BY SectionLineIs
    <3> QED
      BY <1>2, <2>4, <3>1
  <2> QED
    BY <1>2, <2>1, <2>4, <2>5, <2>6 DEF IsKey
<1>3. CASE ~(line.type = "key" /\ line.name = "version")
  <2> DEFINE v == Plain(line.value.text)
             old == [line EXCEPT !.value = v]
  <2>1. OldLine(line) = old
    BY <1>3 DEF OldLine
  <2>2. v \in FileValues
    <3>1. line.value.text \in FileTexts
      BY <1>1 DEF FileValues
    <3> QED
      BY <3>1, ValuesAre
  <2>3. v.text = line.value.text /\ (line.value = Plain("") => v = line.value)
    BY PlainIs
  <2>10. \A S : SectionLine(S).value = Plain("")
    BY DEF SectionLine, Line
  <2> HIDE DEF v
  <2>4. /\ old \in [type : {"key", "section", "comment"}, name : FileNames, value : FileValues]
        /\ old.type = line.type /\ old.name = line.name /\ old.value = v
    BY <1>1, <2>2
  <2>5. line.value = Plain("") => old = line
    BY <1>1, <2>3
  <2>11. \A S : old = SectionLine(S) => v = Plain("")
    BY <2>4, <2>10
  <2> HIDE DEF old
  <2>6. old \in FileLines
    <3>1. old.type = "section" => old.value = Plain("") \/ old.value.text \in Bracketed
      BY <1>1, <2>3, <2>4
    <3>2. ValueFits(old.name, old.value)
      BY <1>1, <2>3, <2>4 DEF ValueFits
    <3> QED
      BY <2>4, <3>1, <3>2 DEF FileLines
  <2>7. ASSUME NEW S PROVE old = SectionLine(S) <=> line = SectionLine(S)
    <3>1. ASSUME line = SectionLine(S) PROVE old = SectionLine(S)
      BY <2>5, <2>10, <3>1
    <3>2. ASSUME old = SectionLine(S) PROVE line = SectionLine(S)
      <4>1. v.text = "" /\ line.type = "section"
        <5>1. v = Plain("") /\ SectionLine(S).type = "section"
          BY <2>11, <3>2, SectionLineIs
        <5> QED
          BY <2>4, <3>2, <5>1, PlainIs
      <4>2. line.value.text \notin Bracketed
        BY <2>3, <4>1, CleanTexts
      <4>3. line.value = Plain("")
        BY <1>1, <4>1, <4>2
      <4> QED
        BY <2>5, <3>2, <4>3
    <3> QED
      BY <3>1, <3>2
  <2>8. \A K : IsKey(old, K) <=> IsKey(line, K)
    BY <2>4 DEF IsKey
  <2>9. \A K : IsKey(line, K) => K # "version"
    BY <1>3 DEF IsKey
  <2> QED
    BY <2>1, <2>4, <2>6, <2>7, <2>8, <2>9 DEF v
<1> QED
  BY <1>2, <1>3

\* The list of a file that cannot be read.
LEMMA NoTextIs ==
  /\ NoText \in Texts /\ TextOk(NoText) /\ NoText.lines = <<>> /\ NoText = TextOf(<<>>)
  /\ \A S : ~Pending(NoText, S)
<1>1. ~EndsInSection(<<>>)
  BY DEF EndsInSection
<1>2. NoText = TextOf(<<>>)
  BY DEF NoText
<1> QED
  BY <1>1, <1>2, NoFileOk, NothingOpened, TextOfIs

\* The file of the older version: no version, and the settings of Old.
LEMMA OldFileIs ==
  LET lines == [i \in DOMAIN OldFile |-> OldLine(OldFile[i])] IN
  /\ FileOk(lines) /\ ConversionNeeded(lines)
  /\ \A s \in Sites : StoredUrl(lines, s) = Old[s].url
<1> DEFINE all == [sites |-> Old, last |-> FirstSite, folder |-> "chosen"]
           back == WrittenBack(NoText, all)
           was == back.lines
           lines == [i \in DOMAIN was |-> OldLine(was[i])]
<1>1. OldFile = was
  BY DEF OldFile
<1>2. NoText \in Texts /\ TextOk(NoText) /\ \A S : ~Pending(NoText, S)
  BY NoTextIs
<1>3. Old \in [Sites -> SiteSettings]
  <2> DEFINE U == Urls \ {"cut"}
             P == Passwords \ {"cut"}
             D == Directories \ {"cut"}
  <2>1. Old \in [Sites -> [url : U, password : P, directory : D]]
    BY SettingsAssumption DEF SettingsAssumption
  <2>2. U \subseteq FileTexts /\ P \subseteq FileTexts /\ D \subseteq FileTexts
    BY NamesAre
  <2> HIDE DEF U, P, D
  <2>3. [url : U, password : P, directory : D] \subseteq SiteSettings
    BY <2>2 DEF SiteSettings
  <2> QED
    BY <2>1, <2>3
<1>4. all \in AllSettings
  BY <1>3, SitesAre, NamesAre DEF AllSettings
<1>5. all.sites = Old /\ all.last = FirstSite
  OBVIOUS
<1>6. EmptyWherePending(NoText, all)
  BY <1>2 DEF EmptyWherePending
<1> HIDE DEF all
<1>7. Stage(NoText, back, all, Len(sites)) /\ Reads(was, "Global", "last_site", Plain(FirstSite))
  BY <1>2, <1>4, <1>5, <1>6, WrittenBackIs
<1> HIDE DEF back
<1>8. was \in Seq(FileLines) /\ GlobalFilled(was)
  BY <1>7, TextOkFile DEF Stage
<1> HIDE DEF was
<1>9. /\ Len(was) \in Nat /\ DOMAIN was = 1..Len(was)
      /\ \A i \in 1..Len(was) : was[i] \in FileLines
  BY <1>8
<1>10. \A i \in 1..Len(was) : OldLine(was[i]) \in FileLines
  BY <1>9, OldLineIs
<1>11. lines \in Seq(FileLines) /\ Len(lines) = Len(was) /\ \A i \in 1..Len(was) : lines[i] = OldLine(was[i])
  <2>1. lines \in [1..Len(was) -> FileLines]
    BY <1>9, <1>10
  <2>2. \A i \in 1..Len(was) : lines[i] = OldLine(was[i])
    BY <1>9
  <2> HIDE DEF lines
  <2> QED
    BY <1>9, <2>1, <2>2
<1> HIDE DEF lines
<1>12. \A i \in 1..Len(was) :
         /\ \A S : lines[i] = SectionLine(S) <=> was[i] = SectionLine(S)
         /\ lines[i].type = "section" <=> was[i].type = "section"
         /\ \A K : IsKey(lines[i], K) <=> IsKey(was[i], K) /\ K # "version"
         /\ \A K : IsKey(was[i], K) /\ K # "version" => lines[i].value = Plain(was[i].value.text)
  BY <1>9, <1>11, OldLineIs
<1>13. ASSUME NEW S PROVE FindSection(lines, S) = FindSection(was, S)
  <2>1. CASE FindSection(was, S) = 0
    BY <1>9, <1>11, <1>12, <2>1, FindSectionIs
  <2>2. CASE FindSection(was, S) # 0
    BY <1>9, <1>11, <1>12, <2>2, FindSectionIs
  <2> QED
    BY <2>1, <2>2
<1>14. ASSUME NEW S, NEW K, K # "version" PROVE FindpKey(lines, S, K) = FindpKey(was, S, K)
  <2>1. \A k \in 1..Len(was) : KeyAt(lines, S, K, k) <=> KeyAt(was, S, K, k)
    BY <1>9, <1>11, <1>12, <1>13, <1>14 DEF KeyAt
  <2> QED
    BY <1>9, <1>11, <2>1, FindpKeyIs
<1>15. FindpKey(lines, "Global", "version") = 0
  <2>1. \A k \in 1..Len(was) : ~KeyAt(lines, "Global", "version", k)
    BY <1>12 DEF KeyAt
  <2> QED
    BY <1>9, <1>11, <2>1, FindpKeyIs
<1>16. ConversionNeeded(lines)
  BY <1>15 DEF ConversionNeeded, ReadString
<1>17. ASSUME NEW S, NEW K, K # "version", NEW d, d.cipher = FALSE, d = Plain(d.text)
       PROVE  ReadString(lines, S, K, d).text = ReadString(was, S, K, d).text
  <2> DEFINE k == FindpKey(was, S, K)
  <2>1. FindpKey(lines, S, K) = k
    BY <1>14, <1>17
  <2>2. CASE k = 0
    BY <2>1, <2>2 DEF ReadString
  <2>3. CASE k # 0
    <3>1. k \in 1..Len(was)
      BY <1>9, <2>3, FindpKeyIs
    <3>2. IsKey(was[k], K)
      <4>1. KeyAt(was, S, K, k)
        BY <1>9, <3>1, FindpKeyIs
      <4> QED
        BY <4>1 DEF KeyAt
    <3> HIDE DEF k
    <3>3. lines[k].value = Plain(was[k].value.text)
      BY <1>12, <1>17, <3>1, <3>2
    <3>4. lines[k].value.text = was[k].value.text
      BY <3>3, PlainIs
    <3> QED
      BY <2>1, <2>3, <3>4 DEF ReadString, k
  <2> QED
    BY <2>2, <2>3
<1>18. \A t : Plain(t).cipher = FALSE /\ Plain(t) = Plain(Plain(t).text)
  BY PlainIs
<1>19. LoadedLastSite(lines) = FirstSite
  <2>1. ReadString(was, "Global", "last_site", Plain(FirstSite)) = Plain(FirstSite)
    BY <1>7, ReadsRead
  <2>2. ReadString(lines, "Global", "last_site", Plain(FirstSite)).text =
          ReadString(was, "Global", "last_site", Plain(FirstSite)).text
    BY <1>17, <1>18
  <2> QED
    BY <2>1, <2>2, PlainIs DEF LoadedLastSite
<1>20. GlobalFilled(lines)
  BY <1>8, <1>11, <1>13 DEF GlobalFilled
<1>21. ASSUME NEW s \in Sites PROVE StoredUrl(lines, s) = Old[s].url
  <2>1. PICK i \in 1..Len(sites) : sites[i] = s
    BY SitesAre
  <2>2. SiteReads(was, s, Old[s])
    BY <1>5, <1>7, <2>1 DEF Stage, was
  <2>3. ReadString(was, s, "url", Plain("")) = Plain(Old[s].url)
    BY <2>2 DEF SiteReads
  <2>4. ReadString(lines, s, "url", Plain("")).text = ReadString(was, s, "url", Plain("")).text
    BY <1>17, <1>18
  <2> QED
    BY <2>3, <2>4, PlainIs DEF StoredUrl
<1>22. FileOk(lines)
  BY <1>11, <1>19, <1>20, SitesAre DEF FileOk
<1> QED
  BY <1>1, <1>16, <1>21, <1>22 DEF lines

-------------------------------------------------------------------------------
(* The saves.                                                              *)

\* A write to "Global".
LEMMA WriteGlobalIs ==
  ASSUME NEW text \in Texts, TextOk(text), NEW K \in FileNames, NEW t \in FileTexts,
         Open(K) \/ t \notin Bracketed
  PROVE  LET new == WriteString(text, "Global", K, Plain(t)) IN
         /\ new \in Texts /\ TextOk(new)
         /\ Reads(new.lines, "Global", K, Plain(t))
         /\ \A K2 : K2 # K => Same(text.lines, new.lines, "Global", K2)
         /\ \A S2, K2 : S2 # "Global" =>
              IF FindSection(text.lines, "Global") = 0 /\ Pending(text, S2)
              THEN FindpKey(new.lines, S2, K2) = 0
              ELSE Same(text.lines, new.lines, S2, K2)
<1> DEFINE v == Plain(t)
           new == WriteString(text, "Global", K, v)
<1>1. v \in ValuesOf(K) /\ "Global" \in FileNames
  BY ValuesAre, NamesAre
<1> HIDE DEF v
<1>2. Wrote(text, new, "Global", K, v)
  BY <1>1, WriteIsRead
<1> HIDE DEF new
<1>3. new \in Texts /\ TextOk(new) /\ Reads(new.lines, "Global", K, v)
  BY <1>2 DEF Wrote, TextOk
<1>4. \A K2 : K2 # K => Same(text.lines, new.lines, "Global", K2)
  BY <1>2, GlobalNotPending DEF Wrote, Keeps
<1>5. \A S2, K2 : S2 # "Global" =>
        IF FindSection(text.lines, "Global") = 0 /\ Pending(text, S2)
        THEN FindpKey(new.lines, S2, K2) = 0
        ELSE Same(text.lines, new.lines, S2, K2)
  BY <1>2 DEF Wrote, Keeps
<1> QED
  BY <1>3, <1>4, <1>5 DEF new, v

\* What a save of some lines leaves of the others.
LEMMA SameLoads ==
  ASSUME NEW lines, NEW new
  PROVE  /\ Same(lines, new, "Global", "version") =>
              (ConversionNeeded(new) <=> ConversionNeeded(lines))
         /\ Same(lines, new, "Global", "temp_folder") => LoadedFolder(new) = LoadedFolder(lines)
         /\ Same(lines, new, "Global", "last_site") => LoadedLastSite(new) = LoadedLastSite(lines)
         /\ \A s : Same(lines, new, s, "url") =>
              /\ StoredUrl(new, s) = StoredUrl(lines, s)
              /\ (ConversionNeeded(new) <=> ConversionNeeded(lines)) =>
                   LoadedUrl(new, s) = LoadedUrl(lines, s)
         /\ \A s : Same(lines, new, s, "password") => LoadedPassword(new, s) = LoadedPassword(lines, s)
         /\ \A s : Same(lines, new, s, "directory") => LoadedDirectory(new, s) = LoadedDirectory(lines, s)
<1>1. ASSUME NEW S, NEW K, Same(lines, new, S, K)
      PROVE  \A d : ReadString(new, S, K, d) = ReadString(lines, S, K, d)
  BY <1>1, SameReads
<1>2. Same(lines, new, "Global", "version") => (ConversionNeeded(new) <=> ConversionNeeded(lines))
  BY <1>1 DEF ConversionNeeded
<1>3. Same(lines, new, "Global", "temp_folder") => LoadedFolder(new) = LoadedFolder(lines)
  BY <1>1 DEF LoadedFolder
<1>4. Same(lines, new, "Global", "last_site") => LoadedLastSite(new) = LoadedLastSite(lines)
  BY <1>1 DEF LoadedLastSite
<1>5. ASSUME NEW s, Same(lines, new, s, "url") PROVE StoredUrl(new, s) = StoredUrl(lines, s)
  BY <1>1, <1>5 DEF StoredUrl
<1>6. ASSUME NEW s, Same(lines, new, s, "url"), ConversionNeeded(new) <=> ConversionNeeded(lines)
      PROVE  LoadedUrl(new, s) = LoadedUrl(lines, s)
  BY <1>5, <1>6 DEF LoadedUrl
<1>7. \A s : Same(lines, new, s, "password") => LoadedPassword(new, s) = LoadedPassword(lines, s)
  BY <1>1 DEF LoadedPassword
<1>8. \A s : Same(lines, new, s, "directory") => LoadedDirectory(new, s) = LoadedDirectory(lines, s)
  BY <1>1 DEF LoadedDirectory
<1> QED
  BY <1>2, <1>3, <1>4, <1>5, <1>6, <1>7, <1>8

\* What a save makes of a file: it does not touch the version, and an address stays, is that
\* of the program, or is lost.
SaveOk(lines, new) ==
  /\ FileOk(new)
  /\ \E K : FindpKey(new, "Global", K) # 0
  /\ ConversionNeeded(new) <=> ConversionNeeded(lines)
  /\ \A s \in Sites : StoredUrl(new, s) \in {StoredUrl(lines, s), site_settings[s].url, ""}

\* The save of a key of "Global" that is not the version or the last site.
LEMMA SaveKeyIs ==
  ASSUME NEW file, FileOk(file), NEW K \in FileNames, Open(K), NEW t \in FileTexts
  PROVE  LET lines == Opened(file)
             new == WriteString(TextOf(file), "Global", K, Plain(t)).lines
         IN
         /\ SaveOk(lines, new)
         /\ Reads(new, "Global", K, Plain(t))
         /\ \A S2, K2 : S2 # "Global" \/ K2 # K => Same(lines, new, S2, K2)
<1> DEFINE lines == Opened(file)
           text == TextOf(file)
           back == WriteString(text, "Global", K, Plain(t))
           new == back.lines
<1>1. /\ text \in Texts /\ TextOk(text) /\ text.lines = lines
      /\ \A S2, K2 : Pending(text, S2) => FindpKey(lines, S2, K2) = 0
  BY TextOfIs
<1>2. FileOk(lines)
  BY OpenedOk
<1> HIDE DEF text, lines
<1>3. /\ back \in Texts /\ TextOk(back)
      /\ Reads(back.lines, "Global", K, Plain(t))
      /\ \A K2 : K2 # K => Same(lines, back.lines, "Global", K2)
      /\ \A S2, K2 : S2 # "Global" =>
           IF FindSection(lines, "Global") = 0 /\ Pending(text, S2)
           THEN FindpKey(back.lines, S2, K2) = 0
           ELSE Same(lines, back.lines, S2, K2)
  BY <1>1, WriteGlobalIs
<1> HIDE DEF back
<1>4. ASSUME NEW S2, NEW K2, S2 # "Global" \/ K2 # K PROVE Same(lines, new, S2, K2)
  <2>1. CASE S2 = "Global"
    BY <1>3, <1>4, <2>1
  <2>2. CASE S2 # "Global"
    BY <1>1, <1>3, <2>2 DEF Same
  <2> QED
    BY <2>1, <2>2
<1>5. K # "version" /\ K # "last_site"
  BY DEF Open
<1>6. Same(lines, new, "Global", "version") /\ Same(lines, new, "Global", "last_site")
  BY <1>3, <1>5
<1>7. LoadedLastSite(new) = LoadedLastSite(lines) /\ (ConversionNeeded(new) <=> ConversionNeeded(lines))
  BY <1>6, SameLoads
<1>8. FileOk(new)
  BY <1>2, <1>3, <1>7, TextOkFile DEF FileOk
<1>9. ASSUME NEW s \in Sites PROVE StoredUrl(new, s) = StoredUrl(lines, s)
  <2>1. s # "Global"
    BY SitesAre
  <2>2. Same(lines, new, s, "url")
    BY <1>4, <2>1
  <2> QED
    BY <2>2, SameLoads
<1>10. FindpKey(new, "Global", K) # 0
  BY <1>3 DEF Reads
<1>11. SaveOk(lines, new)
  BY <1>7, <1>8, <1>9, <1>10 DEF SaveOk
<1> QED
  BY <1>3, <1>4, <1>11 DEF back, text, lines

\* What is loaded of the sites then is what was.
LEMMA SameSites ==
  ASSUME NEW lines, NEW new, NEW all,
         \A s \in Sites : /\ Same(lines, new, s, "url") /\ Same(lines, new, s, "password")
                          /\ Same(lines, new, s, "directory"),
         ConversionNeeded(new) <=> ConversionNeeded(lines),
         LoadedIs(lines, all)
  PROVE  \A s \in Sites : /\ LoadedUrl(new, s) = all.sites[s].url
                          /\ LoadedPassword(new, s) = KeptPassword(all.sites[s].password)
                          /\ LoadedDirectory(new, s) = all.sites[s].directory
<1> SUFFICES ASSUME NEW s \in Sites
             PROVE  /\ LoadedUrl(new, s) = all.sites[s].url
                    /\ LoadedPassword(new, s) = KeptPassword(all.sites[s].password)
                    /\ LoadedDirectory(new, s) = all.sites[s].directory
  OBVIOUS
<1>1. /\ LoadedUrl(new, s) = LoadedUrl(lines, s)
      /\ LoadedPassword(new, s) = LoadedPassword(lines, s)
      /\ LoadedDirectory(new, s) = LoadedDirectory(lines, s)
  BY SameLoads
<1> QED
  BY <1>1 DEF LoadedIs

\* SaveGlobalConfig: the folder is saved, and the rest as it was.
LEMMA SaveFolderIs ==
  ASSUME NEW file, FileOk(file), NEW folder \in FileTexts
  PROVE  LET lines == Opened(file)
             new == WriteFolder(TextOf(file), folder).lines
         IN
         /\ SaveOk(lines, new)
         /\ \A all \in AllSettings :
              LoadedIs(lines, all) => LoadedIs(new, [all EXCEPT !.folder = folder])
<1> DEFINE lines == Opened(file)
           new == WriteFolder(TextOf(file), folder).lines
<1>1. "temp_folder" \in FileNames /\ Open("temp_folder")
  BY NamesAre, OpenKeys
<1>2. /\ SaveOk(lines, new)
      /\ Reads(new, "Global", "temp_folder", Plain(folder))
      /\ \A S2, K2 : S2 # "Global" \/ K2 # "temp_folder" => Same(lines, new, S2, K2)
  BY <1>1, SaveKeyIs DEF WriteFolder
<1> HIDE DEF new, lines
<1>3. LoadedFolder(new) = folder
  <2>1. ReadString(new, "Global", "temp_folder", Plain("default")) = Plain(folder)
    BY <1>2, ReadsRead
  <2> QED
    BY <2>1, PlainIs DEF LoadedFolder
<1>4. Same(lines, new, "Global", "last_site") /\ Same(lines, new, "Global", "version")
  BY <1>2
<1>5. LoadedLastSite(new) = LoadedLastSite(lines) /\ (ConversionNeeded(new) <=> ConversionNeeded(lines))
  BY <1>4, SameLoads
<1>6. \A s \in Sites : \A K2 : Same(lines, new, s, K2)
  <2>1. \A s \in Sites : s # "Global"
    BY SitesAre
  <2> QED
    BY <1>2, <2>1
<1>7. ASSUME NEW all \in AllSettings, LoadedIs(lines, all)
      PROVE  LoadedIs(new, [all EXCEPT !.folder = folder])
  <2> DEFINE now == [all EXCEPT !.folder = folder]
  <2>1. now.sites = all.sites /\ now.last = all.last /\ now.folder = folder
    BY DEF AllSettings
  <2> HIDE DEF now
  <2>2. \A s \in Sites : /\ LoadedUrl(new, s) = all.sites[s].url
                         /\ LoadedPassword(new, s) = KeptPassword(all.sites[s].password)
                         /\ LoadedDirectory(new, s) = all.sites[s].directory
    BY <1>5, <1>6, <1>7, SameSites
  <2>3. LoadedLastSite(new) = all.last
    BY <1>5, <1>7 DEF LoadedIs
  <2>4. LoadedIs(new, now)
    BY <1>3, <2>1, <2>2, <2>3 DEF LoadedIs
  <2> QED
    BY <2>4 DEF now
<1> QED
  BY <1>2, <1>7 DEF new, lines

\* SaveLocalDirecotry: nothing else changes.
LEMMA SaveLocalIs ==
  ASSUME NEW file, FileOk(file), NEW directory \in FileTexts
  PROVE  LET lines == Opened(file)
             new == WriteLocal(TextOf(file), directory).lines
         IN
         /\ SaveOk(lines, new)
         /\ \A all \in AllSettings : LoadedIs(lines, all) => LoadedIs(new, all)
<1> DEFINE lines == Opened(file)
           new == WriteLocal(TextOf(file), directory).lines
<1>1. "local_directory" \in FileNames /\ Open("local_directory")
  BY NamesAre, OpenKeys
<1>2. /\ SaveOk(lines, new)
      /\ \A S2, K2 : S2 # "Global" \/ K2 # "local_directory" => Same(lines, new, S2, K2)
  BY <1>1, SaveKeyIs DEF WriteLocal
<1> HIDE DEF new, lines
<1>4. /\ Same(lines, new, "Global", "last_site") /\ Same(lines, new, "Global", "version")
      /\ Same(lines, new, "Global", "temp_folder")
  BY <1>2
<1>5. /\ LoadedLastSite(new) = LoadedLastSite(lines) /\ (ConversionNeeded(new) <=> ConversionNeeded(lines))
      /\ LoadedFolder(new) = LoadedFolder(lines)
  BY <1>4, SameLoads
<1>6. \A s \in Sites : \A K2 : Same(lines, new, s, K2)
  <2>1. \A s \in Sites : s # "Global"
    BY SitesAre
  <2> QED
    BY <1>2, <2>1
<1>7. ASSUME NEW all \in AllSettings, LoadedIs(lines, all) PROVE LoadedIs(new, all)
  <2>2. \A s \in Sites : /\ LoadedUrl(new, s) = all.sites[s].url
                         /\ LoadedPassword(new, s) = KeptPassword(all.sites[s].password)
                         /\ LoadedDirectory(new, s) = all.sites[s].directory
    BY <1>5, <1>6, <1>7, SameSites
  <2> QED
    BY <1>5, <1>7, <2>2 DEF LoadedIs
<1> QED
  BY <1>2, <1>7 DEF new, lines

\* SaveSite: one site is saved and selected, and no other touched.
LEMMA SaveSiteIs ==
  ASSUME NEW file, FileOk(file), NEW s \in Sites,
         NEW setting \in SiteSettings, setting.url = site_settings[s].url
  PROVE  LET lines == Opened(file)
             new == WriteLastSite(WriteSite(TextOf(file), s, setting), s).lines
         IN
         /\ SaveOk(lines, new)
         /\ \A all \in AllSettings :
              ~ConversionNeeded(lines) /\ LoadedIs(lines, all) =>
                LoadedIs(new, [all EXCEPT !.sites[s] = setting, !.last = s])
<1> DEFINE lines == Opened(file)
           text == TextOf(file)
           one == WriteSite(text, s, setting)
           back == WriteLastSite(one, s)
           new == back.lines
<1>1. /\ text \in Texts /\ TextOk(text) /\ text.lines = lines
      /\ \A S, K : Pending(text, S) => FindpKey(lines, S, K) = 0
  BY TextOfIs
<1>0. FileOk(lines)
  BY OpenedOk
<1> HIDE DEF text, lines
<1>2. /\ one \in Texts /\ TextOk(one)
      /\ FindSection(one.lines, "Global") = 0 <=> FindSection(lines, "Global") = 0
      /\ SiteReads(one.lines, s, setting)
      /\ \A K : Same(lines, one.lines, "Global", K)
      /\ \A S2, K2 : S2 # s =>
           IF FindSection(lines, s) = 0 /\ Pending(text, S2)
           THEN FindpKey(one.lines, S2, K2) = 0
           ELSE Same(lines, one.lines, S2, K2)
      /\ \A S2 : Pending(one, S2) => Pending(text, S2)
  BY <1>1, WriteSiteIs
<1> HIDE DEF one
<1>3. \A S2, K2 : S2 # s => Same(lines, one.lines, S2, K2)
  BY <1>1, <1>2 DEF Same
<1>4. "last_site" \in FileNames /\ s \in FileTexts /\ s \notin Bracketed /\ s # "Global"
  BY NamesAre, SitesAre
<1>5. /\ back \in Texts /\ TextOk(back)
      /\ Reads(back.lines, "Global", "last_site", Plain(s))
      /\ \A K2 : K2 # "last_site" => Same(one.lines, back.lines, "Global", K2)
      /\ \A S2, K2 : S2 # "Global" =>
           IF FindSection(one.lines, "Global") = 0 /\ Pending(one, S2)
           THEN FindpKey(back.lines, S2, K2) = 0
           ELSE Same(one.lines, back.lines, S2, K2)
  BY <1>2, <1>4, WriteGlobalIs DEF WriteLastSite
<1> HIDE DEF back
<1>6. LoadedLastSite(new) = s
  <2>1. ReadString(new, "Global", "last_site", Plain(FirstSite)) = Plain(s)
    BY <1>5, ReadsRead
  <2> QED
    BY <2>1, PlainIs DEF LoadedLastSite
<1>7. FileOk(new)
  BY <1>5, <1>6, TextOkFile DEF FileOk
<1>8. Same(lines, new, "Global", "version") /\ Same(lines, new, "Global", "temp_folder")
  <2>1. Same(one.lines, new, "Global", "version") /\ Same(one.lines, new, "Global", "temp_folder")
    BY <1>5
  <2> QED
    BY <1>2, <2>1, SameTransitive
<1>9. (ConversionNeeded(new) <=> ConversionNeeded(lines)) /\ LoadedFolder(new) = LoadedFolder(lines)
  BY <1>8, SameLoads
<1>10. ASSUME ~ConversionNeeded(lines)
       PROVE  \A S2, K2 : S2 # "Global" => Same(one.lines, new, S2, K2)
  BY <1>2, <1>5, <1>10, VersionThere
<1>11. ASSUME Same(one.lines, new, s, "url")
       PROVE  /\ ReadString(new, s, "url", Plain("")) = Plain(setting.url)
              /\ StoredUrl(new, s) = setting.url
  <2>1. \A d : ReadString(new, s, "url", d) = ReadString(one.lines, s, "url", d)
    BY <1>11, SameReads
  <2>2. ReadString(new, s, "url", Plain("")) = Plain(setting.url)
    BY <1>2, <2>1 DEF SiteReads
  <2> QED
    BY <2>2, PlainIs DEF StoredUrl
<1>12. ASSUME ~ConversionNeeded(lines)
       PROVE  /\ LoadedUrl(new, s) = setting.url
              /\ LoadedPassword(new, s) = KeptPassword(setting.password)
              /\ LoadedDirectory(new, s) = setting.directory
  <2>1. /\ Same(one.lines, new, s, "url") /\ Same(one.lines, new, s, "password")
        /\ Same(one.lines, new, s, "directory")
    BY <1>4, <1>10, <1>12
  <2>2. /\ \A d : ReadString(new, s, "password", d) = ReadString(one.lines, s, "password", d)
        /\ \A d : ReadString(new, s, "directory", d) = ReadString(one.lines, s, "directory", d)
    BY <2>1, SameReads
  <2>3. /\ ReadString(new, s, "password", Plain("")) = Encrypt(setting.password)
        /\ ReadString(new, s, "directory", Plain("default")) = Plain(setting.directory)
    BY <1>2, <2>2 DEF SiteReads
  <2>4. LoadedUrl(new, s) = setting.url
    BY <1>9, <1>11, <1>12, <2>1 DEF LoadedUrl
  <2>5. LoadedPassword(new, s) = KeptPassword(setting.password)
    BY <2>3, CipherUndone DEF LoadedPassword
  <2>6. LoadedDirectory(new, s) = setting.directory
    BY <2>3, PlainIs DEF LoadedDirectory
  <2> QED
    BY <2>4, <2>5, <2>6
<1>13. ASSUME ~ConversionNeeded(lines), NEW all, LoadedIs(lines, all), NEW s2 \in Sites \ {s}
       PROVE  /\ LoadedUrl(new, s2) = all.sites[s2].url
              /\ LoadedPassword(new, s2) = KeptPassword(all.sites[s2].password)
              /\ LoadedDirectory(new, s2) = all.sites[s2].directory
  <2>1. s2 # "Global" /\ s2 # s
    BY SitesAre
  <2>2. \A K : Same(one.lines, new, s2, K) /\ Same(lines, one.lines, s2, K)
    BY <1>3, <1>10, <1>13, <2>1
  <2>3. \A K : Same(lines, new, s2, K)
    BY <2>2, SameTransitive
  <2>4. /\ LoadedUrl(new, s2) = LoadedUrl(lines, s2)
        /\ LoadedPassword(new, s2) = LoadedPassword(lines, s2)
        /\ LoadedDirectory(new, s2) = LoadedDirectory(lines, s2)
    BY <1>9, <2>3, SameLoads
  <2> QED
    BY <1>13, <2>4 DEF LoadedIs
<1>14. ASSUME NEW s2 \in Sites
       PROVE  StoredUrl(new, s2) \in {StoredUrl(lines, s2), site_settings[s2].url, ""}
  <2>1. s2 # "Global"
    BY SitesAre
  <2>2. CASE s2 = s
    <3>1. CASE Same(one.lines, new, s, "url")
      BY <1>11, <2>2, <3>1
    <3>2. CASE FindpKey(new, s, "url") = 0
      <4>1. ReadString(new, s, "url", Plain("")) = Plain("")
        BY <3>2 DEF ReadString
      <4>2. StoredUrl(new, s) = ""
        BY <4>1, PlainIs DEF StoredUrl
      <4> QED
        BY <2>2, <4>2
    <3> QED
      BY <1>4, <1>5, <3>1, <3>2
  <2>3. CASE s2 # s
    <3>1. Same(lines, one.lines, s2, "url")
      BY <1>3, <2>3
    <3>2. Same(one.lines, new, s2, "url")
      <4>1. Pending(one, s2) => FindpKey(one.lines, s2, "url") = 0
        <5>1. Pending(one, s2) => FindpKey(lines, s2, "url") = 0
          BY <1>1, <1>2
        <5> QED
          BY <3>1, <5>1 DEF Same
      <4> QED
        BY <1>5, <2>1, <4>1 DEF Same
    <3>3. Same(lines, new, s2, "url")
      BY <3>1, <3>2, SameTransitive
    <3>4. StoredUrl(new, s2) = StoredUrl(lines, s2)
      BY <3>3, SameLoads
    <3> QED
      BY <3>4
  <2> QED
    BY <2>2, <2>3
<1>15. SaveOk(lines, new)
  <2>1. FindpKey(new, "Global", "last_site") # 0
    BY <1>5 DEF Reads
  <2> QED
    BY <1>7, <1>9, <1>14, <2>1 DEF SaveOk
<1>16. ASSUME NEW all \in AllSettings, ~ConversionNeeded(lines), LoadedIs(lines, all)
       PROVE  LoadedIs(new, [all EXCEPT !.sites[s] = setting, !.last = s])
  <2> DEFINE now == [all EXCEPT !.sites[s] = setting, !.last = s]
  <2>1. /\ now.last = s /\ now.folder = all.folder
        /\ now.sites[s] = setting
        /\ \A s2 \in Sites \ {s} : now.sites[s2] = all.sites[s2]
    BY DEF AllSettings
  <2> HIDE DEF now
  <2>2. ASSUME NEW s2 \in Sites
        PROVE  /\ LoadedUrl(new, s2) = now.sites[s2].url
               /\ LoadedPassword(new, s2) = KeptPassword(now.sites[s2].password)
               /\ LoadedDirectory(new, s2) = now.sites[s2].directory
    <3>1. CASE s2 = s
      BY <1>12, <1>16, <2>1, <3>1
    <3>2. CASE s2 # s
      BY <1>13, <1>16, <2>1, <3>2
    <3> QED
      BY <3>1, <3>2
  <2>3. LoadedFolder(lines) = all.folder
    BY <1>16 DEF LoadedIs
  <2>4. LoadedIs(new, now)
    BY <1>6, <1>9, <2>1, <2>2, <2>3 DEF LoadedIs
  <2> QED
    BY <2>4 DEF now
<1> QED
  BY <1>15, <1>16 DEF back, one, text, lines

-------------------------------------------------------------------------------
(* The inductive invariant of the settings.                                *)

\* The types of the variables.
SettingsTypes ==
  /\ running \in BOOLEAN /\ damaged \in BOOLEAN /\ versionLost \in BOOLEAN
  /\ mishaps \in [Mishaps -> Nat]
  /\ site_settings \in [Sites -> SiteSettings]
  /\ last_site \in Sites /\ temp_folder \in FileTexts
  /\ saved \in AllSettings

\* How often the writing of the file was cut off.
Cuts == mishaps["cut"] + mishaps["full"]

\* The program runs on a file without a version only when one was lost.
VersionKnown == running /\ ConversionNeeded(Opened(disk)) => damaged /\ versionLost

\* A file that has none and has lost none is of the older version, or of no site.
OldOnly ==
  ConversionNeeded(Opened(disk)) /\ ~versionLost =>
    \A s \in Sites : StoredUrl(Opened(disk), s) = "" \/ StoredUrl(Opened(disk), s) = Old[s].url

\* The address was entered for the site, or converted from the one it had.
Chosen(s, url) == url \in Typed[s] \/ url = "" \/ url = Converted(Old[s].url)

\* The address is a piece of one.
IsCut(url) == url = "cut"

\* It was converted from one entered for the site.
IsTurned(s, url) == \E typed \in Typed[s] : url = Converted(typed)

\* What OnlyEntered lets an address be.
Entered(s, url, cuts, t) ==
  Chosen(s, url) \/ (IsCut(url) /\ cuts > 0) \/ (s \in t /\ IsTurned(s, url))

\* What a file may say of a site: that, or what the older version said.
UrlOk(lines, s, cuts, t) ==
  \/ Entered(s, StoredUrl(lines, s), cuts, t)
  \/ ConversionNeeded(lines) /\ StoredUrl(lines, s) = Old[s].url

\* OnlyEntered, of the program and of the file it will load.
AllEntered ==
  \A s \in Sites : /\ Entered(s, site_settings[s].url, Cuts, turned)
                   /\ UrlOk(Opened(disk), s, Cuts, turned)

\* The inductive invariant.
SettingsInv ==
  SettingsTypes /\ FileOk(disk) /\ VersionKnown /\ OldOnly /\ SavedIsLoaded /\ AllEntered

\* The settings of a program that does not run.
LEMMA NotRunningIs ==
  /\ NotRunning \in AllSettings
  /\ NotRunning.sites \in [Sites -> SiteSettings]
  /\ NotRunning.last \in Sites /\ NotRunning.folder \in FileTexts
  /\ \A s \in Sites : NotRunning.sites[s].url = ""
<1> DEFINE map == [s \in Sites |-> [url |-> "", password |-> "", directory |-> ""]]
<1>1. NotRunning = [sites |-> map, last |-> FirstSite, folder |-> "default"]
  BY DEF NotRunning
<1>2. map \in [Sites -> SiteSettings]
  BY NamesAre DEF SiteSettings
<1>3. \A s \in Sites : map[s].url = ""
  OBVIOUS
<1>4. FirstSite \in Sites /\ "default" \in FileTexts
  BY NamesAre, SitesAre
<1> HIDE DEF map
<1> QED
  BY <1>1, <1>2, <1>3, <1>4 DEF AllSettings

\* A mishap is counted.
LEMMA HappensIs ==
  ASSUME SettingsTypes, NEW kind \in Mishaps, Happens(kind)
  PROVE  /\ mishaps' \in [Mishaps -> Nat]
         /\ mishaps'[kind] = mishaps[kind] + 1
         /\ \A k \in Mishaps : k # kind => mishaps'[k] = mishaps[k]
  BY DEF SettingsTypes, Happens

\* Most mishaps cut no file off.
LEMMA NotCut ==
  ASSUME SettingsTypes, NEW kind \in {"unread", "unwritten", "brackets"}, Happens(kind)
  PROVE  mishaps' \in [Mishaps -> Nat] /\ Cuts' = Cuts
  BY HappensIs DEF Mishaps, Cuts

\* The others count.
LEMMA CutCounts ==
  ASSUME SettingsTypes, NEW kind \in {"cut", "full"}, Happens(kind)
  PROVE  /\ mishaps' \in [Mishaps -> Nat]
         /\ Cuts \in Nat /\ Cuts' \in Nat /\ Cuts <= Cuts' /\ Cuts' > 0
<1>1. /\ mishaps' \in [Mishaps -> Nat]
      /\ mishaps'[kind] = mishaps[kind] + 1
      /\ \A k \in Mishaps : k # kind => mishaps'[k] = mishaps[k]
  BY HappensIs DEF Mishaps
<1>2. /\ mishaps["cut"] \in Nat /\ mishaps["full"] \in Nat
      /\ mishaps'["cut"] \in Nat /\ mishaps'["full"] \in Nat
  BY <1>1 DEF SettingsTypes, Mishaps
<1>3. CASE kind = "cut"
  <2>1. mishaps'["cut"] = mishaps["cut"] + 1 /\ mishaps'["full"] = mishaps["full"]
    BY <1>1, <1>3 DEF Mishaps
  <2> QED
    BY <1>1, <1>2, <2>1 DEF Cuts
<1>4. CASE kind = "full"
  <2>1. mishaps'["full"] = mishaps["full"] + 1 /\ mishaps'["cut"] = mishaps["cut"]
    BY <1>1, <1>4 DEF Mishaps
  <2> QED
    BY <1>1, <1>2, <2>1 DEF Cuts
<1> QED
  BY <1>3, <1>4

\* What Damages records.
LEMMA DamagesIs ==
  ASSUME NEW lines, Damages(lines), versionLost \in BOOLEAN
  PROVE  /\ damaged' = TRUE /\ saved' = NotRunning
         /\ versionLost' \in BOOLEAN
         /\ versionLost => versionLost'
         /\ ConversionNeeded(Opened(lines)) => versionLost'
<1>1. versionLost' = (versionLost \/ ConversionNeeded(Opened(lines)))
  BY DEF Damages
<1>2. CASE versionLost \/ ConversionNeeded(Opened(lines))
  <2>1. versionLost' = TRUE
    BY <1>1, <1>2, Zenon
  <2> QED
    BY <2>1 DEF Damages
<1>3. CASE ~(versionLost \/ ConversionNeeded(Opened(lines)))
  <2>1. versionLost' = FALSE
    BY <1>1, <1>3, Zenon
  <2> QED
    BY <1>3, <2>1 DEF Damages
<1> QED
  BY <1>2, <1>3

\* SavedIsLoaded in terms of what is loaded.
LEMMA SavedIs ==
  ASSUME SettingsTypes, FileOk(disk)
  PROVE  SavedIsLoaded <=>
           (~damaged => IF ConversionNeeded(Opened(disk)) THEN Loaded(Opened(disk)) = saved
                                                          ELSE LoadedIs(Opened(disk), saved))
<1>1. saved \in AllSettings /\ FileOk(Opened(disk))
  BY OpenedOk DEF SettingsTypes
<1>2. LoadedIs(Opened(disk), saved) <=> Loaded(Opened(disk)) = KeptAll(saved)
  BY <1>1, LoadedIsKept
<1> QED
  BY <1>2 DEF SavedIsLoaded, KeptAll

\* There is no file at first or one of the older version.
LEMMA SettingsInitInv == SettingsInit => SettingsInv
<1> SUFFICES ASSUME SettingsInit PROVE SettingsInv
  OBVIOUS
<1>1. /\ FileOk(disk) /\ ConversionNeeded(Opened(disk))
      /\ \A s \in Sites : StoredUrl(Opened(disk), s) = "" \/ StoredUrl(Opened(disk), s) = Old[s].url
  <2>1. CASE disk = <<>>
    <3>1. ConversionNeeded(<<>>)
      BY NoKeys DEF ConversionNeeded
    <3>2. ASSUME NEW s \in Sites PROVE StoredUrl(<<>>, s) = ""
      <4>1. ReadString(<<>>, s, "url", Plain("")) = Plain("")
        BY NoKeys
      <4> QED
        BY <4>1, PlainIs DEF StoredUrl
    <3> QED
      BY <2>1, <3>1, <3>2, NoFileOk, NothingOpened
  <2>2. CASE disk = [i \in DOMAIN OldFile |-> OldLine(OldFile[i])]
    <3>1. /\ FileOk(disk) /\ ConversionNeeded(disk)
          /\ \A s \in Sites : StoredUrl(disk, s) = Old[s].url
      BY <2>2, OldFileIs
    <3>2. /\ ConversionNeeded(Opened(disk))
          /\ \A s : StoredUrl(Opened(disk), s) = StoredUrl(disk, s) \/ StoredUrl(Opened(disk), s) = ""
      BY <3>1, OpenedOk
    <3>3. ASSUME NEW s \in Sites
          PROVE  StoredUrl(Opened(disk), s) = "" \/ StoredUrl(Opened(disk), s) = Old[s].url
      BY <3>1, <3>2
    <3> QED
      BY <3>1, <3>2, <3>3
  <2> QED
    BY <2>1, <2>2 DEF SettingsInit
<1>2. /\ running = FALSE /\ damaged = FALSE /\ versionLost = FALSE /\ saved = Loaded(Opened(disk))
      /\ site_settings = NotRunning.sites /\ last_site = NotRunning.last
      /\ temp_folder = NotRunning.folder /\ mishaps = [kind \in Mishaps |-> 0]
  BY DEF SettingsInit
<1>3. SettingsTypes
  <2>1. saved \in AllSettings
    BY <1>1, <1>2, OpenedOk, LoadedTypes
  <2> QED
    BY <1>2, <2>1, NotRunningIs DEF SettingsTypes
<1>4. VersionKnown /\ OldOnly
  BY <1>1, <1>2 DEF VersionKnown, OldOnly
<1>5. SavedIsLoaded
  BY <1>1, <1>2 DEF SavedIsLoaded
<1>6. AllEntered
  <2> SUFFICES ASSUME NEW s \in Sites
               PROVE  /\ Entered(s, site_settings[s].url, Cuts, turned)
                      /\ UrlOk(Opened(disk), s, Cuts, turned)
    BY DEF AllEntered
  <2>1. \A url : url = "" => Chosen(s, url)
    BY DEF Chosen
  <2>2. site_settings[s].url = ""
    BY <1>2, NotRunningIs
  <2> QED
    BY <1>1, <2>1, <2>2 DEF Entered, UrlOk
<1> QED
  BY <1>1, <1>3, <1>4, <1>5, <1>6 DEF SettingsInv

-------------------------------------------------------------------------------
(* Addresses over mishaps.                                                 *)

\* No address has been entered always.
LEMMA NothingEntered ==
  ASSUME NEW s, NEW url, url = "", NEW cuts, NEW t PROVE Entered(s, url, cuts, t)
<1>1. Chosen(s, url)
  BY DEF Chosen
<1> QED
  BY <1>1 DEF Entered

\* An address that was cut off, or converted, stays one.
LEMMA EnteredLater ==
  ASSUME NEW s, NEW url, NEW cuts \in Nat, NEW more \in Nat, cuts <= more,
         NEW t, NEW later, t \subseteq later, Entered(s, url, cuts, t)
  PROVE  Entered(s, url, more, later)
  BY DEF Entered

\* So does what a file says.
LEMMA UrlOkLater ==
  ASSUME NEW lines, NEW s, NEW cuts \in Nat, NEW more \in Nat, cuts <= more,
         NEW t, NEW later, t \subseteq later, UrlOk(lines, s, cuts, t)
  PROVE  UrlOk(lines, s, more, later)
  BY EnteredLater DEF UrlOk

\* Opening a file adds no address.
LEMMA OpenedUrlOk ==
  ASSUME NEW file, FileOk(file), NEW s, NEW cuts, NEW t, UrlOk(file, s, cuts, t)
  PROVE  UrlOk(Opened(file), s, cuts, t)
<1>1. StoredUrl(Opened(file), s) = StoredUrl(file, s) \/ StoredUrl(Opened(file), s) = ""
  BY OpenedOk
<1>2. ConversionNeeded(file) => ConversionNeeded(Opened(file))
  BY OpenedOk
<1>3. CASE StoredUrl(Opened(file), s) = ""
  BY <1>3, NothingEntered DEF UrlOk
<1>4. CASE StoredUrl(Opened(file), s) = StoredUrl(file, s)
  BY <1>2, <1>4 DEF UrlOk
<1> QED
  BY <1>1, <1>3, <1>4

\* A file that is cut off has pieces of addresses.
LEMMA CutUrlOk ==
  ASSUME NEW lines, FileOk(lines), NEW K0, FindpKey(lines, "Global", K0) # 0,
         NEW cut \in CutFiles(lines),
         NEW s, NEW cuts \in Nat, NEW more \in Nat, cuts <= more, more > 0, NEW t,
         UrlOk(lines, s, cuts, t)
  PROVE  UrlOk(Opened(cut), s, more, t)
<1>1. /\ FileOk(cut)
      /\ StoredUrl(cut, s) \in {StoredUrl(lines, s), "", "cut"}
      /\ cut = <<>> \/ (ConversionNeeded(cut) <=> ConversionNeeded(lines))
  BY CutOk
<1>2. CASE StoredUrl(cut, s) = ""
  <2>1. UrlOk(cut, s, more, t)
    BY <1>2, NothingEntered DEF UrlOk
  <2> QED
    BY <1>1, <2>1, OpenedUrlOk
<1>3. CASE StoredUrl(cut, s) = "cut"
  <2>1. IsCut(StoredUrl(cut, s))
    BY <1>3 DEF IsCut
  <2>2. UrlOk(cut, s, more, t)
    BY <2>1 DEF UrlOk, Entered
  <2> QED
    BY <1>1, <2>2, OpenedUrlOk
<1>4. CASE StoredUrl(cut, s) = StoredUrl(lines, s) /\ StoredUrl(cut, s) # ""
  <2>1. UrlOk(lines, s, more, t)
    BY UrlOkLater
  <2>2. cut # <<>>
    <3> SUFFICES ASSUME cut = <<>> PROVE FALSE
      OBVIOUS
    <3>1. ReadString(cut, s, "url", Plain("")) = Plain("")
      BY NoKeys
    <3>2. StoredUrl(cut, s) = ""
      BY <3>1, PlainIs DEF StoredUrl
    <3> QED
      BY <1>4, <3>2
  <2>3. UrlOk(cut, s, more, t)
    BY <1>1, <1>4, <2>1, <2>2 DEF UrlOk
  <2> QED
    BY <1>1, <2>3, OpenedUrlOk
<1> QED
  BY <1>1, <1>2, <1>3, <1>4

\* A file that is not what was saved last need not be loaded as it.
LEMMA DamagedKeeps ==
  ASSUME SettingsTypes', FileOk(disk'), damaged',
         running' /\ ConversionNeeded(Opened(disk')) => versionLost',
         OldOnly', AllEntered'
  PROVE  SettingsInv'
  BY DEF SettingsInv, VersionKnown, SavedIsLoaded

\* What the writing of a file leaves when it is cut off.
LEMMA CutKeeps ==
  ASSUME SettingsTypes, NEW kind \in {"cut", "full"}, Happens(kind),
         NEW lines, FileOk(lines), NEW K0, FindpKey(lines, "Global", K0) # 0,
         disk' \in CutFiles(lines),
         \A s \in Sites : UrlOk(lines, s, Cuts, turned')
  PROVE  /\ FileOk(disk') /\ mishaps' \in [Mishaps -> Nat]
         /\ \A s \in Sites : UrlOk(Opened(disk'), s, Cuts', turned')
         /\ \A s, url : Entered(s, url, Cuts, turned') => Entered(s, url, Cuts', turned')
<1>1. /\ mishaps' \in [Mishaps -> Nat]
      /\ Cuts \in Nat /\ Cuts' \in Nat /\ Cuts <= Cuts' /\ Cuts' > 0
  BY CutCounts
<1>2. FileOk(disk')
  BY CutOk
<1>3. \A s \in Sites : UrlOk(Opened(disk'), s, Cuts', turned')
  BY <1>1, CutUrlOk
<1>4. \A s, url : Entered(s, url, Cuts, turned') => Entered(s, url, Cuts', turned')
  <2>1. turned' \subseteq turned'
    OBVIOUS
  <2> QED
    BY <1>1, <2>1, EnteredLater
<1> QED
  BY <1>1, <1>2, <1>3, <1>4

\* A program that dies writing leaves a file whose version is known if it was, or nothing.
LEMMA DiesKeeps ==
  ASSUME SettingsTypes, NEW lines, FileOk(lines), NEW K0, FindpKey(lines, "Global", K0) # 0,
         DiesWriting(lines),
         \A s \in Sites : UrlOk(lines, s, Cuts, turned')
  PROVE  SettingsInv'
<1>1. /\ Happens("cut") /\ disk' \in CutFiles(lines) /\ running' = FALSE /\ Damages(lines)
      /\ site_settings' = NotRunning.sites /\ last_site' = NotRunning.last
      /\ temp_folder' = NotRunning.folder
  BY DEF DiesWriting, Remember
<1>2. /\ FileOk(disk') /\ mishaps' \in [Mishaps -> Nat]
      /\ \A s \in Sites : UrlOk(Opened(disk'), s, Cuts', turned')
  BY <1>1, CutKeeps
<1>3. /\ damaged' = TRUE /\ saved' = NotRunning /\ versionLost' \in BOOLEAN
      /\ ConversionNeeded(Opened(lines)) => versionLost'
  BY <1>1, DamagesIs DEF SettingsTypes
<1>4. SettingsTypes'
  BY <1>1, <1>2, <1>3, NotRunningIs DEF SettingsTypes
<1>5. OldOnly'
  <2> SUFFICES ASSUME ConversionNeeded(Opened(disk')), ~versionLost', NEW s \in Sites
               PROVE  StoredUrl(Opened(disk'), s) = ""
    BY DEF OldOnly
  <2>1. ~ConversionNeeded(Opened(lines))
    BY <1>3
  <2>2. disk' = <<>>
    BY <1>1, <2>1, CutOk
  <2>3. ReadString(<<>>, s, "url", Plain("")) = Plain("")
    BY NoKeys
  <2>4. StoredUrl(<<>>, s) = ""
    BY <2>3, PlainIs DEF StoredUrl
  <2> QED
    BY <2>2, <2>4, NothingOpened
<1>6. AllEntered'
  <2> SUFFICES ASSUME NEW s \in Sites PROVE Entered(s, site_settings'[s].url, Cuts', turned')
    BY <1>2 DEF AllEntered
  <2>1. site_settings'[s].url = ""
    BY <1>1, NotRunningIs
  <2> QED
    BY <2>1, NothingEntered
<1> QED
  BY <1>1, <1>2, <1>3, <1>4, <1>5, <1>6, DamagedKeeps

\* A program that goes on after the disk was full knows whether the version was lost.
LEMMA PartKeeps ==
  ASSUME SettingsTypes, NEW lines, FileOk(lines), NEW K0, FindpKey(lines, "Global", K0) # 0,
         WrittenInPart(lines),
         \A s \in Sites : UrlOk(lines, s, Cuts, turned'),
         running' \in BOOLEAN, last_site' \in Sites, temp_folder' \in FileTexts,
         site_settings' \in [Sites -> SiteSettings],
         \A s \in Sites : Entered(s, site_settings'[s].url, Cuts, turned')
  PROVE  SettingsInv'
<1>1. Happens("full") /\ disk' \in CutFiles(lines) /\ Damages(disk')
  BY DEF WrittenInPart
<1>2. /\ FileOk(disk') /\ mishaps' \in [Mishaps -> Nat]
      /\ \A s \in Sites : UrlOk(Opened(disk'), s, Cuts', turned')
      /\ \A s, url : Entered(s, url, Cuts, turned') => Entered(s, url, Cuts', turned')
  BY <1>1, CutKeeps
<1>3. /\ damaged' = TRUE /\ saved' = NotRunning /\ versionLost' \in BOOLEAN
      /\ ConversionNeeded(Opened(disk')) => versionLost'
  BY <1>1, DamagesIs DEF SettingsTypes
<1>4. SettingsTypes'
  BY <1>2, <1>3, NotRunningIs DEF SettingsTypes
<1>5. OldOnly'
  BY <1>3 DEF OldOnly
<1>6. AllEntered'
  BY <1>2 DEF AllEntered
<1> QED
  BY <1>2, <1>3, <1>4, <1>5, <1>6, DamagedKeeps

-------------------------------------------------------------------------------
(* The saves keep the invariant.                                           *)

\* What a save writes has addresses that were entered.
LEMMA SaveUrlOk ==
  ASSUME AllEntered, NEW lines, lines = Opened(disk) \/ lines = <<>>,
         NEW edit, SaveOk(lines, edit), NEW s \in Sites
  PROVE  UrlOk(edit, s, Cuts, turned)
<1>1. StoredUrl(edit, s) \in {StoredUrl(lines, s), site_settings[s].url, ""}
  BY DEF SaveOk
<1>2. UrlOk(lines, s, Cuts, turned)
  <2>1. CASE lines = Opened(disk)
    BY <2>1 DEF AllEntered
  <2>2. CASE lines = <<>>
    <3>1. ReadString(<<>>, s, "url", Plain("")) = Plain("")
      BY NoKeys
    <3>2. StoredUrl(<<>>, s) = ""
      BY <3>1, PlainIs DEF StoredUrl
    <3> QED
      BY <2>2, <3>2, NothingEntered DEF UrlOk
  <2> QED
    BY <2>1, <2>2
<1>3. CASE StoredUrl(edit, s) = StoredUrl(lines, s)
  <2>1. ConversionNeeded(edit) <=> ConversionNeeded(lines)
    BY DEF SaveOk
  <2> QED
    BY <1>2, <1>3, <2>1 DEF UrlOk
<1>4. CASE StoredUrl(edit, s) = site_settings[s].url
  BY <1>4 DEF AllEntered, UrlOk
<1>5. CASE StoredUrl(edit, s) = ""
  BY <1>5, NothingEntered DEF UrlOk
<1> QED
  BY <1>1, <1>3, <1>4, <1>5

\* Every save whose edit leaves alone what it does not save.
LEMMA SaveKeeps ==
  ASSUME SettingsInv, NEW edit, NEW none, NEW now,
         NEW settings \in [Sites -> SiteSettings], Save(edit, none, now, settings),
         \A s \in Sites : settings[s].url = site_settings[s].url,
         SaveOk(Opened(disk), edit), SaveOk(<<>>, none), now \in AllSettings,
         ~ConversionNeeded(Opened(disk)) /\ LoadedIs(Opened(disk), saved) => LoadedIs(edit, now)
  PROVE  SettingsInv'
<1>0. /\ SettingsTypes /\ running /\ FileOk(disk) /\ VersionKnown /\ SavedIsLoaded /\ AllEntered
      /\ turned' = turned
  BY DEF SettingsInv, Save
<1>1. ConversionNeeded(Opened(disk)) => damaged /\ versionLost
  BY <1>0 DEF VersionKnown
<1>2. PICK K0 : FindpKey(edit, "Global", K0) # 0
  BY DEF SaveOk
<1>3. FileOk(edit) /\ FileOk(none) /\ (ConversionNeeded(edit) <=> ConversionNeeded(Opened(disk)))
  BY DEF SaveOk
<1>4. \A s \in Sites : UrlOk(edit, s, Cuts, turned')
  BY <1>0, SaveUrlOk
<1>5. \A s \in Sites : UrlOk(none, s, Cuts, turned')
  BY <1>0, SaveUrlOk
<1>6. CASE DiesWriting(edit)
  BY <1>0, <1>2, <1>3, <1>4, <1>6, DiesKeeps
<1> DEFINE Goes == site_settings' = settings /\ UNCHANGED <<running, last_site, temp_folder>>
<1>7. ASSUME Goes
      PROVE  /\ running' \in BOOLEAN /\ last_site' \in Sites /\ temp_folder' \in FileTexts
             /\ site_settings' \in [Sites -> SiteSettings] /\ running'
             /\ \A s \in Sites : Entered(s, site_settings'[s].url, Cuts, turned')
  BY <1>0, <1>7 DEF SettingsTypes, AllEntered
<1>8. CASE Goes /\ WrittenInPart(edit)
  BY <1>0, <1>2, <1>3, <1>4, <1>7, <1>8, PartKeeps
<1>9. CASE /\ Goes /\ Settled(edit) /\ disk' = edit /\ saved' = (IF damaged THEN saved ELSE now)
           /\ UNCHANGED <<damaged, versionLost, mishaps>>
  <2>0. Opened(disk') = edit /\ Opened(disk') = disk'
    BY <1>9 DEF Settled
  <2>1. SettingsTypes'
    BY <1>0, <1>7, <1>9 DEF SettingsTypes
  <2>2. FileOk(disk')
    BY <1>3, <1>9
  <2>3. VersionKnown' /\ OldOnly'
    BY <1>1, <1>3, <1>9, <2>0 DEF VersionKnown, OldOnly
  <2>4. SavedIsLoaded'
    <3>1. ASSUME ~damaged'
          PROVE  ~ConversionNeeded(Opened(disk')) /\ LoadedIs(Opened(disk'), saved')
      <4>1. ~damaged /\ saved' = now /\ ~ConversionNeeded(Opened(disk))
        BY <1>1, <1>9, <3>1
      <4>2. LoadedIs(Opened(disk), saved)
        BY <1>0, <4>1, SavedIs
      <4> QED
        BY <1>3, <2>0, <4>1, <4>2
    <3>2. saved' \in AllSettings
      BY <2>1 DEF SettingsTypes
    <3>3. FileOk(Opened(disk'))
      BY <2>0, <2>2
    <3>4. ~damaged' => Loaded(Opened(disk')) = KeptAll(saved')
      BY <3>1, <3>2, <3>3, LoadedIsKept
    <3> QED
      BY <3>1, <3>4 DEF SavedIsLoaded, KeptAll
  <2>5. AllEntered'
    <3>1. Cuts' = Cuts
      BY <1>9 DEF Cuts
    <3> QED
      BY <1>4, <1>7, <1>9, <2>0, <3>1 DEF AllEntered
  <2> QED
    BY <2>1, <2>2, <2>3, <2>4, <2>5 DEF SettingsInv
<1>10. ASSUME NEW kind \in {"unread", "brackets"}, NEW file, Goes, Happens(kind), disk' = file,
              Damages(file), FileOk(file), \A s \in Sites : UrlOk(file, s, Cuts, turned')
       PROVE  SettingsInv'
  <2>1. mishaps' \in [Mishaps -> Nat] /\ Cuts' = Cuts
    BY <1>0, <1>10, NotCut
  <2>2. /\ damaged' = TRUE /\ saved' = NotRunning /\ versionLost' \in BOOLEAN
        /\ ConversionNeeded(Opened(disk')) => versionLost'
    BY <1>0, <1>10, DamagesIs DEF SettingsTypes
  <2>3. SettingsTypes'
    BY <1>7, <1>10, <2>1, <2>2, NotRunningIs DEF SettingsTypes
  <2>4. OldOnly'
    BY <2>2 DEF OldOnly
  <2>5. \A s \in Sites : UrlOk(Opened(disk'), s, Cuts', turned')
    BY <1>10, <2>1, OpenedUrlOk
  <2>6. AllEntered'
    BY <1>7, <1>10, <2>1, <2>5 DEF AllEntered
  <2> QED
    BY <1>10, <2>2, <2>3, <2>4, <2>6, DamagedKeeps
<1>11. CASE Goes /\ Happens("brackets") /\ disk' = edit /\ Damages(edit)
  BY <1>3, <1>4, <1>10, <1>11
<1>12. CASE Goes /\ Happens("unread") /\ disk' = none /\ Damages(disk')
  <2>1. Damages(none)
    BY <1>12 DEF Damages
  <2> QED
    BY <1>3, <1>5, <1>10, <1>12, <2>1
<1>13. CASE Goes /\ NotWritten /\ UNCHANGED <<saved, damaged, versionLost>>
  <2>0. Happens("unwritten") /\ disk' = disk
    BY <1>13 DEF NotWritten
  <2>1. mishaps' \in [Mishaps -> Nat] /\ Cuts' = Cuts
    BY <1>0, <2>0, NotCut
  <2>2. SettingsTypes'
    BY <1>0, <1>7, <1>13, <2>1 DEF SettingsTypes
  <2>3. FileOk(disk') /\ VersionKnown' /\ OldOnly'
    BY <1>0, <1>1, <1>13, <2>0 DEF VersionKnown, OldOnly
  <2>4. SavedIsLoaded'
    BY <1>0, <1>13, <2>0 DEF SavedIsLoaded
  <2>5. AllEntered'
    BY <1>0, <1>7, <1>13, <2>0, <2>1 DEF AllEntered
  <2> QED
    BY <2>2, <2>3, <2>4, <2>5 DEF SettingsInv
<1> QED
  <2>1. \/ DiesWriting(edit)
        \/ /\ Goes
           /\ \/ Settled(edit) /\ disk' = edit /\ saved' = (IF damaged THEN saved ELSE now)
                 /\ UNCHANGED <<damaged, versionLost, mishaps>>
              \/ Happens("brackets") /\ disk' = edit /\ Damages(edit)
              \/ Happens("unread") /\ disk' = none /\ Damages(disk')
              \/ NotWritten /\ UNCHANGED <<saved, damaged, versionLost>>
              \/ WrittenInPart(edit)
    BY DEF Save
  <2> HIDE DEF Goes
  <2> QED
    BY <1>6, <1>8, <1>9, <1>11, <1>12, <1>13, <2>1

\* SaveSite is such a save.
LEMMA SaveSiteKeeps ==
  ASSUME SettingsInv, NEW settings \in [Sites -> SiteSettings],
         \A s \in Sites : settings[s].url = site_settings[s].url,
         SaveSite(settings)
  PROVE  SettingsInv'
<1> DEFINE setting == settings[last_site]
           edit == WriteLastSite(WriteSite(TextOf(disk), last_site, setting), last_site).lines
           none == WriteLastSite(WriteSite(NoText, last_site, setting), last_site).lines
           now == [saved EXCEPT !.sites[last_site] = setting, !.last = last_site]
<1>0. SettingsTypes /\ FileOk(disk)
  BY DEF SettingsInv
<1>1. Save(edit, none, now, settings)
  BY DEF SaveSite
<1>2. /\ last_site \in Sites /\ setting \in SiteSettings /\ saved \in AllSettings
      /\ setting.url = site_settings[last_site].url
  BY <1>0 DEF SettingsTypes
<1> HIDE DEF setting
<1>3. SaveOk(<<>>, none)
  BY <1>2, NoFileOk, NothingOpened, NoTextIs, SaveSiteIs
<1>4. /\ SaveOk(Opened(disk), edit)
      /\ \A all \in AllSettings :
           ~ConversionNeeded(Opened(disk)) /\ LoadedIs(Opened(disk), all) =>
             LoadedIs(edit, [all EXCEPT !.sites[last_site] = setting, !.last = last_site])
  BY <1>0, <1>2, SaveSiteIs
<1>5. now \in AllSettings
  BY <1>2 DEF AllSettings
<1>6. ~ConversionNeeded(Opened(disk)) /\ LoadedIs(Opened(disk), saved) => LoadedIs(edit, now)
  BY <1>2, <1>4
<1> HIDE DEF now, edit, none
<1> QED
  BY <1>1, <1>3, <1>4, <1>5, <1>6, SaveKeeps

\* SaveConfig and SetDefaultRemoteFolder are.
LEMMA SaveConfigKeeps == ASSUME SettingsInv, SaveConfig PROVE SettingsInv'
<1>1. site_settings \in [Sites -> SiteSettings]
  BY DEF SettingsInv, SettingsTypes
<1> QED
  BY <1>1, SaveSiteKeeps DEF SaveConfig

LEMMA SetDefaultKeeps == ASSUME SettingsInv, SetDefaultRemoteFolder PROVE SettingsInv'
<1>1. PICK directory \in Visited[last_site] :
        SaveSite([site_settings EXCEPT ![last_site].directory = directory])
  BY DEF SetDefaultRemoteFolder
<1>2. last_site \in Sites /\ site_settings \in [Sites -> SiteSettings]
  BY DEF SettingsInv, SettingsTypes
<1>3. directory \in FileTexts
  <2>1. Visited[last_site] \subseteq Directories
    BY <1>2, SettingsAssumption DEF SettingsAssumption
  <2> QED
    BY <2>1, NamesAre
<1> DEFINE other == [site_settings[last_site] EXCEPT !.directory = directory]
           settings == [site_settings EXCEPT ![last_site] = other]
<1>4. [site_settings EXCEPT ![last_site].directory = directory] = settings
  OBVIOUS
<1>5. other \in SiteSettings /\ other.url = site_settings[last_site].url
  BY <1>2, <1>3 DEF SiteSettings
<1> HIDE DEF other
<1>6. /\ settings \in [Sites -> SiteSettings]
      /\ \A s \in Sites : settings[s].url = site_settings[s].url
  BY <1>2, <1>5
<1>7. SaveSite(settings)
  BY <1>1, <1>4
<1> HIDE DEF settings
<1> QED
  BY <1>6, <1>7, SaveSiteKeeps

\* SaveGlobalConfig is one.
LEMMA SaveGlobalKeeps == ASSUME SettingsInv, SaveGlobalConfig PROVE SettingsInv'
<1> DEFINE edit == WriteFolder(TextOf(disk), temp_folder).lines
           none == WriteFolder(NoText, temp_folder).lines
           now == [saved EXCEPT !.folder = temp_folder]
<1>0. SettingsTypes /\ FileOk(disk)
  BY DEF SettingsInv
<1>1. Save(edit, none, now, site_settings)
  BY DEF SaveGlobalConfig
<1>2. /\ temp_folder \in FileTexts /\ saved \in AllSettings
      /\ site_settings \in [Sites -> SiteSettings]
  BY <1>0 DEF SettingsTypes
<1>3. SaveOk(<<>>, none)
  BY <1>2, NoFileOk, NothingOpened, NoTextIs, SaveFolderIs
<1>4. /\ SaveOk(Opened(disk), edit)
      /\ \A all \in AllSettings :
           LoadedIs(Opened(disk), all) => LoadedIs(edit, [all EXCEPT !.folder = temp_folder])
  BY <1>0, <1>2, SaveFolderIs
<1>5. now \in AllSettings
  BY <1>2 DEF AllSettings
<1>6. LoadedIs(Opened(disk), saved) => LoadedIs(edit, now)
  BY <1>2, <1>4
<1> HIDE DEF now, edit, none
<1> QED
  BY <1>1, <1>2, <1>3, <1>4, <1>5, <1>6, SaveKeeps

\* SaveLocalDirecotry is one.
LEMMA SaveLocalKeeps == ASSUME SettingsInv, SaveLocalDirecotry PROVE SettingsInv'
<1>0. SettingsTypes /\ FileOk(disk)
  BY DEF SettingsInv
<1>1. PICK directory \in Folders :
        Save(WriteLocal(TextOf(disk), directory).lines, WriteLocal(NoText, directory).lines,
                 saved, site_settings)
  BY DEF SaveLocalDirecotry
<1> DEFINE edit == WriteLocal(TextOf(disk), directory).lines
           none == WriteLocal(NoText, directory).lines
<1>2. /\ saved \in AllSettings /\ site_settings \in [Sites -> SiteSettings]
      /\ directory \in FileTexts
  <2>1. Folders \subseteq FileTexts
    BY SettingsAssumption, NamesAre DEF SettingsAssumption
  <2> QED
    BY <1>0, <2>1 DEF SettingsTypes
<1>3. SaveOk(<<>>, none)
  BY <1>2, NoFileOk, NothingOpened, NoTextIs, SaveLocalIs
<1>4. /\ SaveOk(Opened(disk), edit)
      /\ \A all \in AllSettings : LoadedIs(Opened(disk), all) => LoadedIs(edit, all)
  BY <1>0, <1>2, SaveLocalIs
<1>5. Save(edit, none, saved, site_settings)
  BY <1>1
<1> HIDE DEF edit, none
<1> QED
  BY <1>2, <1>3, <1>4, <1>5, SaveKeeps

-------------------------------------------------------------------------------
(* The start, and every step.                                              *)

\* A start that reads lines and writes new.
LoadStep(misread, lines, loaded, new) ==
  /\ turned' = turned \cup Turned(lines)
  /\ \/ /\ running' = TRUE
        /\ Remember(loaded)
        /\ \/ /\ IF misread THEN Happens("unread") ELSE UNCHANGED mishaps
              /\ disk' = new
              /\ saved' = IF misread \/ damaged THEN loaded ELSE saved
              /\ damaged' = FALSE
              /\ versionLost' = FALSE
           \/ /\ ~misread
              /\ NotWritten
              /\ IF ConversionNeeded(lines) THEN Damages(disk)
                 ELSE UNCHANGED <<saved, damaged, versionLost>>
           \/ ~misread /\ WrittenInPart(new)
     \/ ~misread /\ DiesWriting(new)

\* LoadConfig is such a start: it reads the file or nothing, and writes back what it has
\* loaded.
LEMMA LoadIs ==
  ASSUME FileOk(disk), LoadConfig
  PROVE  ~running /\ \E misread, file, new :
           /\ misread \in BOOLEAN
           /\ FileOk(file)
           /\ (misread => file = <<>>)
           /\ (~misread => file = disk)
           /\ LoadStep(misread, Opened(file), Loaded(Opened(file)), new)
           /\ FileOk(new) /\ Opened(new) = new /\ ~ConversionNeeded(new)
           /\ FindpKey(new, "Global", "version") # 0
           /\ LoadedIs(new, Loaded(Opened(file)))
           /\ (~EndsInSection(Opened(file)) => Complete(new))
<1>1. PICK misread \in BOOLEAN :
        LET text   == IF misread THEN NoText ELSE TextOf(disk)
            loaded == Loaded(text.lines)
            new    == WrittenBack(text, loaded).lines
        IN  LoadStep(misread, text.lines, loaded, new)
  BY DEF LoadConfig, LoadStep
<1> DEFINE file == IF misread THEN <<>> ELSE disk
           text == IF misread THEN NoText ELSE TextOf(disk)
           new == WrittenBack(TextOf(file), Loaded(Opened(file))).lines
<1>2. FileOk(file) /\ (misread => file = <<>>) /\ (~misread => file = disk)
  BY NoFileOk
<1>3. text = TextOf(file)
  BY NoTextIs
<1>4. text.lines = Opened(file)
  BY <1>2, <1>3, TextOfIs
<1>5. LoadStep(misread, Opened(file), Loaded(Opened(file)), new)
  BY <1>1, <1>3, <1>4
<1> HIDE DEF file
<1>6. /\ FileOk(new) /\ Opened(new) = new /\ ~ConversionNeeded(new)
      /\ FindpKey(new, "Global", "version") # 0
      /\ LoadedIs(new, Loaded(Opened(file)))
      /\ (~EndsInSection(Opened(file)) => Complete(new))
  BY <1>2, WrittenBackLoads
<1> HIDE DEF new
<1>7. ~running
  BY DEF LoadConfig
<1> QED
  BY <1>2, <1>5, <1>6, <1>7

\* The addresses a start loads were entered, or it has converted them.
LEMMA LoadedEntered ==
  ASSUME SettingsTypes, FileOk(disk), OldOnly, AllEntered, NEW file, file = disk \/ file = <<>>,
         turned' = turned \cup Turned(Opened(file)), NEW s \in Sites
  PROVE  Entered(s, LoadedUrl(Opened(file), s), Cuts, turned')
<1>0. Cuts \in Nat /\ turned \subseteq turned'
  BY DEF SettingsTypes, Mishaps, Cuts
<1>1. CASE file = <<>>
  <2>1. ReadString(<<>>, s, "url", Plain("")) = Plain("")
    BY NoKeys
  <2>2. StoredUrl(<<>>, s) = ""
    BY <2>1, PlainIs DEF StoredUrl
  <2>3. LoadedUrl(<<>>, s) = ""
    BY <2>2 DEF LoadedUrl, Converted
  <2> QED
    BY <1>1, <2>3, NothingEntered, NothingOpened
<1>2. CASE file = disk
  <2> DEFINE lines == Opened(disk)
             u == StoredUrl(lines, s)
             l == LoadedUrl(lines, s)
  <2>1. UrlOk(lines, s, Cuts, turned)
    BY DEF AllEntered
  <2>2. /\ ConversionNeeded(lines) => l = Converted(u)
        /\ ~ConversionNeeded(lines) => l = u
    BY DEF LoadedUrl
  <2>3. /\ ConversionNeeded(lines) /\ ~versionLost => u = "" \/ u = Old[s].url
        /\ versionLost /\ l # u => s \in turned'
        /\ UrlOk(lines, s, Cuts, turned) =>
             \/ Entered(s, u, Cuts, turned)
             \/ ConversionNeeded(lines) /\ u = Old[s].url
    <3>1. ConversionNeeded(lines) /\ ~versionLost => u = "" \/ u = Old[s].url
      BY DEF OldOnly
    <3>2. versionLost /\ l # u => s \in turned'
      BY <1>2 DEF Turned
    <3>3. UrlOk(lines, s, Cuts, turned) =>
             \/ Entered(s, u, Cuts, turned)
             \/ ConversionNeeded(lines) /\ u = Old[s].url
      BY DEF UrlOk
    <3> QED
      BY <3>1, <3>2, <3>3
  <2> HIDE DEF u, l, lines
  <2>4. /\ Converted("") = "" /\ Converted("cut") = "cut"
        /\ \A url : Converted(Converted(url)) = Converted(url)
    BY DEF Converted
  <2>5. ASSUME ConversionNeeded(lines) /\ u = Old[s].url
        PROVE  Entered(s, l, Cuts, turned')
    BY <2>2, <2>5 DEF Entered, Chosen
  <2>6. ASSUME Entered(s, u, Cuts, turned) /\ l = u
        PROVE  Entered(s, l, Cuts, turned')
    BY <1>0, <2>6, EnteredLater
  <2>7. ASSUME /\ Entered(s, u, Cuts, turned)
               /\ l # u /\ ~(ConversionNeeded(lines) /\ u = Old[s].url)
        PROVE  Entered(s, l, Cuts, turned')
    <3>1. ConversionNeeded(lines) /\ l = Converted(u)
      BY <2>2, <2>7
    <3>2. u # ""
      BY <2>4, <2>7, <3>1
    <3>3. s \in turned'
      BY <2>3, <2>7, <3>1, <3>2
    <3>4. u # Converted(Old[s].url) /\ ~IsCut(u) /\ ~IsTurned(s, u)
      BY <2>4, <2>7, <3>1 DEF IsCut, IsTurned
    <3>5. u \in Typed[s]
      BY <2>7, <3>2, <3>4 DEF Entered, Chosen
    <3>6. IsTurned(s, l)
      BY <3>1, <3>5 DEF IsTurned
    <3> QED
      BY <3>3, <3>6 DEF Entered
  <2>8. Entered(s, l, Cuts, turned')
    BY <2>1, <2>3, <2>5, <2>6, <2>7
  <2> QED
    BY <1>2, <2>8 DEF l, lines
<1> QED
  BY <1>1, <1>2

\* A start keeps the invariant, whatever it could read and write.
LEMMA LoadKeeps == ASSUME SettingsInv, LoadConfig PROVE SettingsInv'
<1>0. SettingsTypes /\ FileOk(disk) /\ OldOnly /\ SavedIsLoaded /\ AllEntered
  BY DEF SettingsInv
<1>1. PICK misread, file, new :
        /\ misread \in BOOLEAN
        /\ FileOk(file)
        /\ (misread => file = <<>>)
        /\ (~misread => file = disk)
        /\ LoadStep(misread, Opened(file), Loaded(Opened(file)), new)
        /\ FileOk(new) /\ Opened(new) = new /\ ~ConversionNeeded(new)
        /\ FindpKey(new, "Global", "version") # 0
        /\ LoadedIs(new, Loaded(Opened(file)))
  BY <1>0, LoadIs
<1> DEFINE lines == Opened(file)
           loaded == Loaded(lines)
<1>2. /\ loaded \in AllSettings
      /\ \A s \in Sites : loaded.sites[s].url = LoadedUrl(lines, s)
  <2>1. FileOk(lines)
    BY <1>1, OpenedOk
  <2> QED
    BY <2>1, LoadedTypes
<1>3. /\ LoadStep(misread, lines, loaded, new)
      /\ FileOk(new) /\ Opened(new) = new /\ ~ConversionNeeded(new) /\ LoadedIs(new, loaded)
      /\ FindpKey(new, "Global", "version") # 0
  BY <1>1
<1>4. turned' = turned \cup Turned(lines) /\ turned \subseteq turned'
  BY <1>3 DEF LoadStep
<1>5. \A s \in Sites : Entered(s, LoadedUrl(lines, s), Cuts, turned')
  BY <1>0, <1>1, <1>4, LoadedEntered
<1> HIDE DEF loaded
<1>6. \A s \in Sites : StoredUrl(new, s) = LoadedUrl(lines, s)
  <2>1. \A s \in Sites : LoadedUrl(new, s) = StoredUrl(new, s)
    BY <1>3 DEF LoadedUrl
  <2> QED
    BY <1>2, <1>3, <2>1 DEF LoadedIs
<1>7. \A s \in Sites : UrlOk(new, s, Cuts, turned')
  BY <1>5, <1>6 DEF UrlOk
<1>8. /\ loaded.sites \in [Sites -> SiteSettings]
      /\ loaded.last \in Sites /\ loaded.folder \in FileTexts
  BY <1>2 DEF AllSettings
<1>9. ASSUME running' = TRUE, Remember(loaded)
      PROVE  /\ running' \in BOOLEAN /\ last_site' \in Sites /\ temp_folder' \in FileTexts
             /\ site_settings' \in [Sites -> SiteSettings]
             /\ \A s \in Sites : Entered(s, site_settings'[s].url, Cuts, turned')
  BY <1>2, <1>5, <1>8, <1>9 DEF Remember
<1> HIDE DEF lines
<1>10. CASE /\ running' = TRUE /\ Remember(loaded)
            /\ IF misread THEN Happens("unread") ELSE UNCHANGED mishaps
            /\ disk' = new
            /\ saved' = (IF misread \/ damaged THEN loaded ELSE saved)
            /\ damaged' = FALSE /\ versionLost' = FALSE
  <2>1. mishaps' \in [Mishaps -> Nat] /\ Cuts' = Cuts
    <3>1. CASE misread
      BY <1>0, <1>10, <3>1, NotCut
    <3>2. CASE ~misread
      BY <1>0, <1>10, <3>2 DEF SettingsTypes, Cuts
    <3> QED
      BY <3>1, <3>2
  <2>2. saved' \in AllSettings
    BY <1>0, <1>2, <1>10 DEF SettingsTypes
  <2>3. SettingsTypes'
    BY <1>9, <1>10, <2>1, <2>2 DEF SettingsTypes
  <2>4. FileOk(disk') /\ VersionKnown' /\ OldOnly'
    BY <1>3, <1>10 DEF VersionKnown, OldOnly
  <2>5. LoadedIs(new, saved')
    <3>1. CASE misread \/ damaged
      BY <1>3, <1>10, <3>1
    <3>2. CASE ~misread /\ ~damaged
      <4>1. saved' = saved /\ lines = Opened(disk)
        BY <1>1, <1>10, <3>2 DEF lines
      <4>2. CASE ConversionNeeded(Opened(disk))
        <5>1. loaded = saved
          BY <1>0, <3>2, <4>1, <4>2, SavedIs DEF loaded
        <5> QED
          BY <1>3, <4>1, <5>1
      <4>3. CASE ~ConversionNeeded(Opened(disk))
        <5>1. LoadedIs(Opened(disk), saved)
          BY <1>0, <3>2, <4>3, SavedIs
        <5>2. saved \in AllSettings /\ FileOk(Opened(disk))
          BY <1>0, OpenedOk DEF SettingsTypes
        <5>3. loaded = KeptAll(saved)
          <6>1. Loaded(Opened(disk)) = KeptAll(saved)
            BY <5>1, <5>2, LoadedIsKept
          <6> QED
            BY <4>1, <6>1 DEF loaded
        <5>4. /\ loaded.last = saved.last /\ loaded.folder = saved.folder
              /\ \A s \in Sites : /\ loaded.sites[s].url = saved.sites[s].url
                                  /\ loaded.sites[s].password = KeptPassword(saved.sites[s].password)
                                  /\ loaded.sites[s].directory = saved.sites[s].directory
          BY <5>2, <5>3, KeptAllIs
        <5>5. \A p : KeptPassword(KeptPassword(p)) = KeptPassword(p)
          BY DEF KeptPassword
        <5> QED
          BY <1>3, <4>1, <5>4, <5>5 DEF LoadedIs
      <4> QED
        BY <4>2, <4>3
    <3> QED
      BY <3>1, <3>2
  <2>6. SavedIsLoaded'
    <3>1. Loaded(Opened(disk')) = KeptAll(saved')
      BY <1>3, <1>10, <2>2, <2>5, LoadedIsKept
    <3> QED
      BY <1>3, <1>10, <3>1 DEF SavedIsLoaded, KeptAll
  <2>7. AllEntered'
    BY <1>3, <1>7, <1>9, <1>10, <2>1 DEF AllEntered
  <2> QED
    BY <2>3, <2>4, <2>6, <2>7 DEF SettingsInv
<1>11. CASE /\ running' = TRUE /\ Remember(loaded)
            /\ ~misread
            /\ NotWritten
            /\ IF ConversionNeeded(lines) THEN Damages(disk)
               ELSE UNCHANGED <<saved, damaged, versionLost>>
  <2>0. Happens("unwritten") /\ disk' = disk /\ lines = Opened(disk)
    BY <1>1, <1>11 DEF NotWritten, lines
  <2>1. mishaps' \in [Mishaps -> Nat] /\ Cuts' = Cuts
    BY <1>0, <2>0, NotCut
  <2>2. AllEntered'
    <3> SUFFICES ASSUME NEW s \in Sites
                 PROVE  /\ Entered(s, site_settings'[s].url, Cuts', turned')
                        /\ UrlOk(Opened(disk'), s, Cuts', turned')
      BY DEF AllEntered
    <3>1. Entered(s, site_settings'[s].url, Cuts', turned')
      BY <1>9, <1>11, <2>1
    <3>2. UrlOk(Opened(disk), s, Cuts, turned)
      BY <1>0 DEF AllEntered
    <3>3. Cuts \in Nat
      BY <1>0 DEF SettingsTypes, Mishaps, Cuts
    <3>4. UrlOk(Opened(disk), s, Cuts, turned')
      BY <1>4, <3>2, <3>3, UrlOkLater
    <3> QED
      BY <2>0, <2>1, <3>1, <3>4
  <2>3. CASE ConversionNeeded(lines)
    <3>1. Damages(disk)
      BY <1>11, <2>3
    <3>2. damaged' = TRUE /\ saved' = NotRunning /\ versionLost' \in BOOLEAN /\ versionLost'
      BY <1>0, <2>0, <2>3, <3>1, DamagesIs DEF SettingsTypes
    <3>3. SettingsTypes'
      BY <1>9, <1>11, <2>1, <3>2, NotRunningIs DEF SettingsTypes
    <3>4. OldOnly'
      BY <3>2 DEF OldOnly
    <3> QED
      BY <1>0, <2>0, <2>2, <3>2, <3>3, <3>4, DamagedKeeps
  <2>4. CASE ~ConversionNeeded(lines)
    <3>1. UNCHANGED <<saved, damaged, versionLost>>
      BY <1>11, <2>4
    <3>2. SettingsTypes'
      BY <1>0, <1>9, <1>11, <2>1, <3>1 DEF SettingsTypes
    <3>3. FileOk(disk') /\ VersionKnown' /\ OldOnly'
      BY <1>0, <2>0, <2>4 DEF VersionKnown, OldOnly
    <3>4. SavedIsLoaded'
      BY <1>0, <2>0, <3>1 DEF SavedIsLoaded
    <3> QED
      BY <2>2, <3>2, <3>3, <3>4 DEF SettingsInv
  <2> QED
    BY <2>3, <2>4
<1>12. CASE running' = TRUE /\ Remember(loaded) /\ WrittenInPart(new)
  BY <1>0, <1>3, <1>7, <1>9, <1>12, PartKeeps
<1>13. CASE ~misread /\ DiesWriting(new)
  BY <1>0, <1>3, <1>7, <1>13, DiesKeeps
<1> QED
  BY <1>3, <1>10, <1>11, <1>12, <1>13 DEF LoadStep

\* Selecting a site keeps the invariant.
LEMMA SelectKeeps == ASSUME SettingsInv, NEW s \in Sites, SelectSite(s) PROVE SettingsInv'
<1>1. /\ last_site' = s
      /\ UNCHANGED <<running, disk, site_settings, temp_folder, saved, damaged, versionLost,
                     turned, mishaps>>
  BY DEF SelectSite, past
<1>2. SettingsTypes'
  BY <1>1 DEF SettingsInv, SettingsTypes
<1>3. FileOk(disk)' /\ VersionKnown' /\ OldOnly' /\ SavedIsLoaded' /\ AllEntered'
  BY <1>1 DEF SettingsInv, VersionKnown, OldOnly, SavedIsLoaded, AllEntered, Cuts
<1> QED
  BY <1>1, <1>2, <1>3 DEF SettingsInv

\* What the user enters as address is entered.
LEMMA EnterServerKeeps == ASSUME SettingsInv, EnterServer PROVE SettingsInv'
<1>0. SettingsTypes
  BY DEF SettingsInv
<1>1. PICK value \in Typed[last_site] : site_settings' = [site_settings EXCEPT ![last_site]["url"] = value]
  BY DEF EnterServer, EnterSetting
<1>2. UNCHANGED <<running, disk, last_site, temp_folder, saved, damaged, versionLost, turned,
                  mishaps>>
  BY DEF EnterServer, EnterSetting, past
<1>3. last_site \in Sites /\ site_settings \in [Sites -> SiteSettings]
  BY <1>0 DEF SettingsTypes
<1>4. value \in FileTexts
  <2>1. Typed[last_site] \subseteq Urls
    BY <1>3, SettingsAssumption DEF SettingsAssumption
  <2> QED
    BY <2>1, NamesAre
<1> DEFINE other == [site_settings[last_site] EXCEPT !.url = value]
<1>5. site_settings' = [site_settings EXCEPT ![last_site] = other]
  BY <1>1
<1>6. other \in SiteSettings /\ other.url = value
  BY <1>3, <1>4 DEF SiteSettings
<1> HIDE DEF other
<1>7. /\ site_settings' \in [Sites -> SiteSettings]
      /\ site_settings'[last_site].url = value
      /\ \A s \in Sites : s # last_site => site_settings'[s] = site_settings[s]
  BY <1>3, <1>5, <1>6
<1>8. SettingsTypes'
  BY <1>0, <1>2, <1>7 DEF SettingsTypes
<1>9. FileOk(disk)' /\ VersionKnown' /\ OldOnly' /\ SavedIsLoaded'
  BY <1>2 DEF SettingsInv, VersionKnown, OldOnly, SavedIsLoaded
<1>10. AllEntered'
  <2>1. Entered(last_site, value, Cuts, turned)
    BY DEF Entered, Chosen
  <2>2. Cuts' = Cuts
    BY <1>2 DEF Cuts
  <2>3. AllEntered
    BY DEF SettingsInv
  <2>4. ASSUME NEW s \in Sites PROVE Entered(s, site_settings'[s].url, Cuts, turned)
    <3>1. CASE s = last_site
      BY <1>7, <2>1, <3>1
    <3>2. CASE s # last_site
      BY <1>7, <2>3, <3>2 DEF AllEntered
    <3> QED
      BY <3>1, <3>2
  <2> QED
    BY <1>2, <2>2, <2>3, <2>4 DEF AllEntered
<1> QED
  BY <1>2, <1>8, <1>9, <1>10 DEF SettingsInv

\* A password does not touch the addresses.
LEMMA EnterPasswordKeeps == ASSUME SettingsInv, EnterPassword PROVE SettingsInv'
<1>0. SettingsTypes
  BY DEF SettingsInv
<1>1. PICK value \in TypedSecrets[last_site] :
        site_settings' = [site_settings EXCEPT ![last_site]["password"] = value]
  BY DEF EnterPassword, EnterSetting
<1>2. UNCHANGED <<running, disk, last_site, temp_folder, saved, damaged, versionLost, turned,
                  mishaps>>
  BY DEF EnterPassword, EnterSetting, past
<1>3. last_site \in Sites /\ site_settings \in [Sites -> SiteSettings]
  BY <1>0 DEF SettingsTypes
<1>4. value \in FileTexts
  <2>1. TypedSecrets[last_site] \subseteq Passwords
    BY <1>3, SettingsAssumption DEF SettingsAssumption
  <2> QED
    BY <2>1, NamesAre
<1> DEFINE other == [site_settings[last_site] EXCEPT !.password = value]
<1>5. site_settings' = [site_settings EXCEPT ![last_site] = other]
  BY <1>1
<1>6. other \in SiteSettings /\ other.url = site_settings[last_site].url
  BY <1>3, <1>4 DEF SiteSettings
<1> HIDE DEF other
<1>7. /\ site_settings' \in [Sites -> SiteSettings]
      /\ \A s \in Sites : site_settings'[s].url = site_settings[s].url
  BY <1>3, <1>5, <1>6
<1>8. SettingsTypes'
  BY <1>0, <1>2, <1>7 DEF SettingsTypes
<1>9. FileOk(disk)' /\ VersionKnown' /\ OldOnly' /\ SavedIsLoaded'
  BY <1>2 DEF SettingsInv, VersionKnown, OldOnly, SavedIsLoaded
<1>10. AllEntered'
  BY <1>2, <1>7 DEF SettingsInv, AllEntered, Cuts
<1> QED
  BY <1>2, <1>8, <1>9, <1>10 DEF SettingsInv

\* Nor does the folder.
LEMMA EnterFolderKeeps == ASSUME SettingsInv, EnterFolder PROVE SettingsInv'
<1>1. /\ temp_folder' \in Folders
      /\ UNCHANGED <<running, disk, site_settings, last_site, saved, damaged, versionLost, turned,
                     mishaps>>
  BY DEF EnterFolder, past
<1>2. Folders \subseteq FileTexts
  BY SettingsAssumption, NamesAre DEF SettingsAssumption
<1>3. SettingsTypes'
  BY <1>1, <1>2 DEF SettingsInv, SettingsTypes
<1>4. FileOk(disk)' /\ VersionKnown' /\ OldOnly' /\ SavedIsLoaded' /\ AllEntered'
  BY <1>1 DEF SettingsInv, VersionKnown, OldOnly, SavedIsLoaded, AllEntered, Cuts
<1> QED
  BY <1>1, <1>3, <1>4 DEF SettingsInv

\* The program ends and leaves its file.
LEMMA ExitKeeps == ASSUME SettingsInv, Exit PROVE SettingsInv'
<1>1. /\ running' = FALSE /\ Remember(NotRunning)
      /\ UNCHANGED <<disk, saved, damaged, versionLost, turned, mishaps>>
  BY DEF Exit, past
<1>2. SettingsTypes'
  BY <1>1, NotRunningIs DEF SettingsInv, SettingsTypes, Remember
<1>3. FileOk(disk)' /\ VersionKnown' /\ OldOnly' /\ SavedIsLoaded'
  BY <1>1 DEF SettingsInv, VersionKnown, OldOnly, SavedIsLoaded
<1>4. AllEntered'
  <2>1. \A s \in Sites : site_settings'[s].url = ""
    BY <1>1, NotRunningIs DEF Remember
  <2>2. \A s \in Sites : Entered(s, site_settings'[s].url, Cuts, turned)
    BY <2>1, NothingEntered
  <2>3. Cuts' = Cuts
    BY <1>1 DEF Cuts
  <2>4. AllEntered
    BY DEF SettingsInv
  <2> QED
    BY <1>1, <2>2, <2>3, <2>4 DEF AllEntered
<1> QED
  BY <1>1, <1>2, <1>3, <1>4 DEF SettingsInv

\* Every step keeps the invariant.
LEMMA SettingsStep == SettingsInv /\ [SettingsNext]_settingsVars => SettingsInv'
<1> SUFFICES ASSUME SettingsInv, [SettingsNext]_settingsVars PROVE SettingsInv'
  OBVIOUS
<1>1. CASE LoadConfig
  BY <1>1, LoadKeeps
<1>2. CASE SaveConfig
  BY <1>2, SaveConfigKeeps
<1>3. CASE SetDefaultRemoteFolder
  BY <1>3, SetDefaultKeeps
<1>4. CASE SaveGlobalConfig
  BY <1>4, SaveGlobalKeeps
<1>5. CASE SaveLocalDirecotry
  BY <1>5, SaveLocalKeeps
<1>6. CASE \E s \in Sites : SelectSite(s)
  BY <1>6, SelectKeeps
<1>7. CASE EnterServer
  BY <1>7, EnterServerKeeps
<1>8. CASE EnterPassword
  BY <1>8, EnterPasswordKeeps
<1>9. CASE EnterFolder
  BY <1>9, EnterFolderKeeps
<1>10. CASE Exit
  BY <1>10, ExitKeeps
<1>11. CASE UNCHANGED settingsVars
  <2>1. UNCHANGED <<running, disk, site_settings, last_site, temp_folder, saved, damaged,
                    versionLost, turned, mishaps>>
    BY <1>11 DEF settingsVars, memory, past
  <2> QED
    BY <2>1 DEF SettingsInv, SettingsTypes, VersionKnown, OldOnly, SavedIsLoaded, AllEntered, Cuts
<1> QED
  BY <1>1, <1>2, <1>3, <1>4, <1>5, <1>6, <1>7, <1>8, <1>9, <1>10, <1>11 DEF SettingsNext

\* The invariant holds at all times.
LEMMA SettingsInvariant == SettingsSpec => []SettingsInv
  BY SettingsInitInv, SettingsStep, PTL DEF SettingsSpec

\* The next start loads what was saved last, for any number of sites: no save touches what
\* belongs to another, no start converts an address again, and ciphers are undone.  Only a
\* file that was cut off, was rewritten unread, has no version left or holds a value with
\* brackets may be loaded otherwise (SaveConfig, LoadConfig, OpenIniFile).
THEOREM SavedComesBack == SettingsSpec => []SavedIsLoaded
<1>1. SettingsInv => SavedIsLoaded
  BY DEF SettingsInv
<1> QED
  BY <1>1, SettingsInvariant, PTL

\* The program connects to addresses entered for the site, to what LoadConfig made of those
\* of the older version, to a piece of one after the writing of the file was cut off, or to
\* what a start made of one in a file that had lost its version, which a program that dies
\* writing never brings about.
THEOREM ConnectsWhereEntered == SettingsSpec => []OnlyEntered
<1>1. SettingsInv => OnlyEntered
  <2> SUFFICES ASSUME SettingsInv, NEW s \in Sites
               PROVE  \/ site_settings[s].url \in Typed[s] \cup {"", Converted(Old[s].url)}
                      \/ site_settings[s].url = "cut" /\ mishaps["cut"] + mishaps["full"] > 0
                      \/ s \in turned /\ \E url \in Typed[s] : site_settings[s].url = Converted(url)
    BY DEF OnlyEntered
  <2>1. Entered(s, site_settings[s].url, Cuts, turned)
    BY DEF SettingsInv, AllEntered
  <2>2. \/ Chosen(s, site_settings[s].url)
        \/ IsCut(site_settings[s].url) /\ Cuts > 0
        \/ s \in turned /\ IsTurned(s, site_settings[s].url)
    BY <2>1 DEF Entered
  <2>3. CASE Chosen(s, site_settings[s].url)
    BY <2>3, Zenon DEF Chosen
  <2>4. CASE IsCut(site_settings[s].url) /\ Cuts > 0
    BY <2>4, Zenon DEF IsCut, Cuts
  <2>5. CASE s \in turned /\ IsTurned(s, site_settings[s].url)
    BY <2>5, Zenon DEF IsTurned
  <2> QED
    BY <2>2, <2>3, <2>4, <2>5
<1> QED
  BY <1>1, SettingsInvariant, PTL

\* A start that can write completes a file that does not end in a section line, whatever it
\* had lost or hidden, so that its version is known from then on (LoadConfig, WriteIniFile).
THEOREM StartCompletes == SettingsSpec => LoadCompletes
<1> DEFINE Completes ==
      ~running /\ running' /\ mishaps'["unwritten"] = mishaps["unwritten"]
        /\ mishaps'["full"] = mishaps["full"] /\ ~EndsInSection(Opened(disk)) =>
        Complete(Opened(disk'))
<1>1. SettingsInv /\ [SettingsNext]_settingsVars => [Completes]_settingsVars
  <2> SUFFICES ASSUME SettingsInv, [SettingsNext]_settingsVars, ~running, running',
                      mishaps'["unwritten"] = mishaps["unwritten"],
                      mishaps'["full"] = mishaps["full"], ~EndsInSection(Opened(disk))
               PROVE  Complete(Opened(disk'))
    OBVIOUS
  <2>1. LoadConfig
    <3>1. ~UNCHANGED settingsVars
      BY DEF settingsVars
    <3>2. SettingsNext
      BY <3>1
    <3>3. ~SaveConfig /\ ~SetDefaultRemoteFolder
      BY DEF SaveConfig, SetDefaultRemoteFolder, SaveSite, Save
    <3>4. ~SaveGlobalConfig /\ ~SaveLocalDirecotry
      BY DEF SaveGlobalConfig, SaveLocalDirecotry, Save
    <3> QED
      BY <3>2, <3>3, <3>4 DEF SettingsNext, SelectSite, EnterServer, EnterPassword, EnterSetting,
           EnterFolder, Exit
  <2>2. PICK misread, file, new :
          /\ misread \in BOOLEAN
          /\ (misread => file = <<>>)
          /\ (~misread => file = disk)
          /\ LoadStep(misread, Opened(file), Loaded(Opened(file)), new)
          /\ Opened(new) = new
          /\ (~EndsInSection(Opened(file)) => Complete(new))
    <3>1. FileOk(disk)
      BY DEF SettingsInv
    <3> QED
      BY <2>1, <3>1, LoadIs
  <2>3. Complete(new)
    <3>1. ~EndsInSection(<<>>)
      BY DEF EndsInSection
    <3>2. ~EndsInSection(Opened(file))
      BY <2>2, <3>1, NothingOpened
    <3> QED
      BY <2>2, <3>2
  <2>4. ASSUME NEW kind \in {"unwritten", "full"} PROVE ~Happens(kind)
    <3> SUFFICES ASSUME Happens(kind) PROVE FALSE
      OBVIOUS
    <3>1. kind \in Mishaps /\ SettingsTypes
      BY DEF Mishaps, SettingsInv
    <3>2. mishaps'[kind] = mishaps[kind] + 1 /\ mishaps[kind] \in Nat
      BY <3>1, HappensIs DEF SettingsTypes
    <3> QED
      BY <3>2
  <2>5. ~NotWritten /\ ~WrittenInPart(new) /\ ~DiesWriting(new)
    BY <2>4 DEF NotWritten, WrittenInPart, DiesWriting
  <2>6. disk' = new
    BY <2>2, <2>5 DEF LoadStep
  <2> QED
    BY <2>2, <2>3, <2>6
<1> QED
  BY <1>1, SettingsInvariant, PTL DEF SettingsSpec, LoadCompletes

===============================================================================
