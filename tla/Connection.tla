------------------------------- MODULE Connection -------------------------------
(***************************************************************************)
(* The life of remoteclient, the global pointer to the connected client    *)
(* (actions.cpp, windows.cpp, and the Connect, Ping and Quit of clients/).  *)
(*                                                                         *)
(* Three kinds of threads use the pointer without a lock: the frame loop,  *)
(* one worker, and the keep-alive threads of FTP connections, which may    *)
(* outlive theirs.  A request is two steps, sent and answered; in between  *)
(* the thread is "talking" to the client.  The model stops where a thread  *)
(* follows a pointer that is null or freed, or calls a client that has     *)
(* destroyed its library handle: what the program does then is undefined.  *)
(*                                                                         *)
(* The kinds of client differ in what Ping asks and in what Quit and a     *)
(* failing Ping leave behind.  "HTTP" stands for the clients built on      *)
(* BaseClient; WebDAV is the one that has all the operations used here.    *)
(***************************************************************************)
EXTENDS Integers

CONSTANTS
  Kinds,        (* the kinds of client the user may connect with             *)
  MaxClients,   (* bound: the connections made in one run of the program     *)
  KeepAlives,   (* the keep-alive threads that can be alive at a time        *)
  MaxFiles,     (* bound: the most files one operation works on              *)
  Second,       (* microseconds of a second, 1000000 in the code             *)
  Threshold     (* idle microseconds before a NOOP, 60000000 in the code     *)

ASSUME ConnectionAssumption ==
  /\ Kinds \subseteq {"FTP", "HTTP", "SFTP"}
  /\ MaxClients \in Nat \ {0}
  /\ KeepAlives \cap {"none", "ui", "worker"} = {}
  /\ MaxFiles \in Nat \ {0}
  /\ Second \in Nat \ {0}
  /\ Threshold \in Nat /\ Threshold >= Second

VARIABLES
  client,           (* object -> what is behind a pointer to it              *)
  remoteclient,     (* the object the global points to, or NULL              *)
  remote_files,     (* the object whose listing is on the screen, or NULL    *)
  selected_action,
  at,               (* thread -> its next step                               *)
  op,               (* what the worker was started for                       *)
  left,             (* the worker's files not handled yet                    *)
  talking,          (* thread -> the object it has a request under way on    *)
  failed,           (* history: the objects on which a request failed        *)
  stale,            (* history: the FTP objects asked after their Quit       *)
  blind,            (* history: was an upload started without a client?      *)
  misuse            (* the thread that followed a bad pointer, or "none"     *)

pointers == <<client, remoteclient, remote_files>>
job      == <<op, left>>
history  == <<failed, stale, blind>>
vars     == <<pointers, selected_action, at, job, talking, history, misuse>>

NULL    == 0
Clients == 1..MaxClients
Threads == {"ui", "worker"} \cup KeepAlives

Operations == {"ACTION_DELETE_REMOTE", "ACTION_DOWNLOAD", "ACTION_UPLOAD"}
Actions == Operations \cup
  {"ACTION_NONE", "ACTION_CONNECT", "ACTION_DISCONNECT", "ACTION_DISCONNECT_AND_EXIT",
   "ACTION_CHANGE_REMOTE_DIRECTORY", "ACTION_REFRESH_REMOTE_FILES",
   "ACTION_REFRESH_LOCAL_FILES", "ACTION_NEW_REMOTE_FOLDER"}

FrameSteps     == {"panel", "look", "input", "execute", "connect", "chdir", "mkdir",
                   "refresh", "ping", "list", "connected", "done"}
WorkerSteps    == {"idle", "start", "first", "next", "answer"}
DropSteps      == {"delete", "clear"}
KeepAliveSteps == {"idle", "null", "type", "state", "ask", "sleep"}

NoClient == [kind |-> "none", memory |-> "unused", session |-> "none",
             connected |-> FALSE, link |-> FALSE]

Init ==
  /\ client = [c \in Clients |-> NoClient]
  /\ remoteclient = NULL
  /\ remote_files = NULL
  /\ selected_action = "ACTION_NONE"
  /\ at = [t \in Threads |-> IF t = "ui" THEN "panel" ELSE "idle"]
  /\ op = "ACTION_NONE"
  /\ left = 0
  /\ talking = [t \in Threads |-> NULL]
  /\ failed = {}
  /\ stale = {}
  /\ blind = FALSE
  /\ misuse = "none"

-------------------------------------------------------------------------------
(* The clients.                                                            *)

Unused == {c \in Clients : client[c].memory = "unused"}

\* A call through the pointer reaches an object.
Reaches(c) == c # NULL /\ client[c].memory = "live"

\* ... and a request reaches its library handle, which BaseClient::Quit deletes.
Callable(c) == Reaches(c) /\ ~(client[c].kind = "HTTP" /\ client[c].session = "closed")

\* The server answers.
Alive(c) == client[c].session = "open" /\ client[c].link

\* What a failing Ping leaves: SFTPClient clears its flag.
PingFailed(record) == [record EXCEPT !.connected = @ /\ record.kind # "SFTP"]

\* Only FtpClient::Quit clears the flag.
Quit(record) ==
  [record EXCEPT !.session = IF @ = "open" THEN "closed" ELSE @,
                 !.connected = @ /\ record.kind # "FTP"]

\* An FTP request on a control connection that is closed already uses the number
\* of a descriptor that may belong to someone else by now.
StaleUse(c) ==
  IF client[c].kind = "FTP" /\ client[c].session = "closed" THEN {c} ELSE {}

Misuse(t) ==
  /\ misuse' = t
  /\ UNCHANGED <<pointers, selected_action, at, job, talking, history>>

\* Thread t sends a request through remoteclient and waits at step s.
Send(t, s) ==
  /\ at' = [at EXCEPT ![t] = s]
  /\ talking' = [talking EXCEPT ![t] = remoteclient]
  /\ stale' = stale \cup StaleUse(remoteclient)
  /\ UNCHANGED misuse

\* The answer to the request of thread t is there.
Answered(t, s) ==
  /\ at' = [at EXCEPT ![t] = s]
  /\ talking' = [talking EXCEPT ![t] = NULL]

-------------------------------------------------------------------------------
(* The frame loop: the panel and the user's choice.                        *)

\* ConnectionPanel: remoteclient != nullptr ...
TestPanel ==
  /\ at["ui"] = "panel"
  /\ at' = [at EXCEPT !["ui"] = IF remoteclient = NULL THEN "input" ELSE "look"]
  /\ UNCHANGED <<pointers, selected_action, job, talking, history, misuse>>

\* ... && remoteclient->IsConnected()
LookPanel ==
  /\ at["ui"] = "look"
  /\ \/ /\ Reaches(remoteclient)
        /\ at' = [at EXCEPT !["ui"] = "input"]
        /\ UNCHANGED <<pointers, selected_action, job, talking, history, misuse>>
     \/ /\ ~Reaches(remoteclient)
        /\ Misuse("ui")

Choose(action) ==
  /\ at["ui"] = "input"
  /\ at["worker"] = "idle"
  /\ selected_action' = action
  /\ at' = [at EXCEPT !["ui"] = "execute"]
  /\ UNCHANGED <<pointers, job, talking, failed, stale, misuse>>

IsConnected == remoteclient # NULL /\ client[remoteclient].connected

\* The button of the panel.
ClickButton ==
  /\ IsConnected \/ Unused # {}
  /\ Choose(IF IsConnected THEN "ACTION_DISCONNECT" ELSE "ACTION_CONNECT")
  /\ UNCHANGED blind

\* The refresh and the search buttons; Start or Ctrl-Q.
ClickRefresh == Choose("ACTION_REFRESH_REMOTE_FILES") /\ UNCHANGED blind

ClickExit == Choose("ACTION_DISCONNECT_AND_EXIT") /\ UNCHANGED blind

\* A folder on the screen, and New Folder in the menu of the remote browser, which
\* can only be selected while entries are drawn.
ClickEntry ==
  /\ remote_files # NULL
  /\ \E action \in {"ACTION_CHANGE_REMOTE_DIRECTORY", "ACTION_NEW_REMOTE_FOLDER"} :
       Choose(action)
  /\ UNCHANGED blind

\* Delete and Download in the menu ask for a client.
ChooseRemote ==
  /\ remote_files # NULL /\ remoteclient # NULL
  /\ \E action \in {"ACTION_DELETE_REMOTE", "ACTION_DOWNLOAD"} : Choose(action)
  /\ UNCHANGED blind

\* Upload in the menu of the local browser does not.
ChooseUpload ==
  /\ Choose("ACTION_UPLOAD")
  /\ blind' = (blind \/ remoteclient = NULL)

NoInput ==
  /\ at["ui"] = "input"
  /\ at' = [at EXCEPT !["ui"] = "execute"]
  /\ UNCHANGED <<pointers, selected_action, job, talking, history, misuse>>

-------------------------------------------------------------------------------
(* The frame loop: ExecuteActions.                                         *)

Executes(action) == at["ui"] = "execute" /\ selected_action = action

\* The handler is done.
Handled ==
  /\ selected_action' = "ACTION_NONE"
  /\ at' = [at EXCEPT !["ui"] = "panel"]

ExecuteLocal ==
  /\ at["ui"] = "execute"
  /\ selected_action \in {"ACTION_NONE", "ACTION_REFRESH_LOCAL_FILES"}
  /\ Handled
  /\ UNCHANGED <<pointers, job, talking, history, misuse>>

\* Connect makes the new object before it knows whether it will be of use.
ExecuteConnect ==
  /\ Executes("ACTION_CONNECT")
  /\ \E kind \in Kinds, c \in Unused :
       /\ \A d \in Unused : c <= d
       /\ client' = [client EXCEPT ![c] = [NoClient EXCEPT !.kind = kind, !.memory = "live"]]
       /\ remoteclient' = c
       /\ talking' = [talking EXCEPT !["ui"] = c]
  /\ at' = [at EXCEPT !["ui"] = "connect"]
  /\ UNCHANGED <<remote_files, selected_action, job, history, misuse>>

\* The address has no known protocol.
ConnectUnknown ==
  /\ Executes("ACTION_CONNECT")
  /\ Handled
  /\ UNCHANGED <<pointers, job, talking, history, misuse>>

\* The server answers.  BaseClient::Connect returns 1 without that too: it sets
\* its flag when a first Ping succeeds.
ConnectSucceeds ==
  /\ at["ui"] = "connect"
  /\ \E answered, link \in BOOLEAN :
       /\ client[remoteclient].kind = "HTTP" \/ (answered /\ link)
       /\ client' = [client EXCEPT ![remoteclient].session = "open",
                                   ![remoteclient].connected = answered,
                                   ![remoteclient].link = link]
       /\ failed' = IF answered THEN failed ELSE failed \cup {remoteclient}
  /\ Answered("ui", "refresh")
  /\ UNCHANGED <<remoteclient, remote_files, selected_action, job, stale, blind, misuse>>

\* Connect, then Quit.  A login that FtpClient gives up has closed the connection
\* already; a refused connection leaves the number 0.
ConnectFails ==
  /\ at["ui"] = "connect"
  /\ client[remoteclient].kind # "HTTP"
  /\ failed' = failed \cup {remoteclient}
  /\ \/ stale' = stale
     \/ stale' = stale \cup {remoteclient} /\ client[remoteclient].kind = "FTP"
  /\ Answered("ui", "delete")
  /\ UNCHANGED <<pointers, selected_action, job, blind, misuse>>

\* Back in Connect: remoteclient->clientType(), and the keep-alive thread of an FTP
\* client.  When the thread cannot be created, there is none.
ConnectReturns ==
  /\ at["ui"] = "connected"
  /\ \/ /\ ~Reaches(remoteclient)
        /\ Misuse("ui")
     \/ /\ Reaches(remoteclient)
        /\ selected_action' = "ACTION_NONE"
        /\ \/ /\ client[remoteclient].kind # "FTP" \/ \A t \in KeepAlives : at[t] # "idle"
              /\ at' = [at EXCEPT !["ui"] = "panel"]
           \/ /\ client[remoteclient].kind = "FTP"
              /\ \E t \in KeepAlives :
                   /\ at[t] = "idle"
                   /\ at' = [at EXCEPT !["ui"] = "panel", ![t] = "null"]
        /\ UNCHANGED <<pointers, job, talking, history, misuse>>

\* HandleChangeRemoteDirectory asks the client without a look at the pointer.
ExecuteChange ==
  /\ Executes("ACTION_CHANGE_REMOTE_DIRECTORY")
  /\ \/ /\ Callable(remoteclient)
        /\ Send("ui", "chdir")
        /\ UNCHANGED <<pointers, selected_action, job, failed, blind>>
     \/ /\ ~Callable(remoteclient)
        /\ Misuse("ui")

\* It drops the connection when that fails, and keeps the pointer and the action.
ChangeAnswered ==
  /\ at["ui"] = "chdir"
  /\ \/ /\ Alive(remoteclient)
        /\ Answered("ui", "refresh")
        /\ UNCHANGED <<client, failed>>
     \/ /\ ~Alive(remoteclient)
        /\ Answered("ui", "panel")
        /\ client' = [client EXCEPT ![remoteclient] = Quit(PingFailed(@))]
        /\ failed' = failed \cup {remoteclient}
  /\ UNCHANGED <<remoteclient, remote_files, selected_action, job,
                 stale, blind, misuse>>

\* CreateNewRemoteFolder
ExecuteNewFolder ==
  /\ Executes("ACTION_NEW_REMOTE_FOLDER")
  /\ \/ /\ Callable(remoteclient)
        /\ Send("ui", "mkdir")
        /\ UNCHANGED <<pointers, selected_action, job, failed, blind>>
     \/ /\ ~Callable(remoteclient)
        /\ Misuse("ui")

NewFolderAnswered ==
  /\ at["ui"] = "mkdir"
  /\ talking' = [talking EXCEPT !["ui"] = NULL]
  /\ \/ /\ Alive(remoteclient)
        /\ at' = [at EXCEPT !["ui"] = "refresh"]
        /\ UNCHANGED <<selected_action, failed>>
     \/ /\ Handled
        /\ failed' = failed \cup {c \in {remoteclient} : ~Alive(c)}
  /\ UNCHANGED <<pointers, job, stale, blind, misuse>>

ExecuteRefresh ==
  /\ Executes("ACTION_REFRESH_REMOTE_FILES")
  /\ at' = [at EXCEPT !["ui"] = "refresh"]
  /\ UNCHANGED <<pointers, selected_action, job, talking, history, misuse>>

\* The thread of a delete, upload or download.
ExecuteOperation ==
  /\ at["ui"] = "execute"
  /\ selected_action \in Operations
  /\ op' = selected_action
  /\ left' \in 1..MaxFiles
  /\ at' = [at EXCEPT !["ui"] = "panel",
                     !["worker"] = IF op' = "ACTION_DELETE_REMOTE" THEN "start" ELSE "next"]
  /\ selected_action' = "ACTION_NONE"
  /\ UNCHANGED <<pointers, talking, history, misuse>>

-------------------------------------------------------------------------------
(* RefreshRemoteFiles                                                      *)

Returns ==
  IF selected_action = "ACTION_CONNECT"
  THEN at' = [at EXCEPT !["ui"] = "connected"] /\ UNCHANGED selected_action
  ELSE Handled

RefreshWithoutClient ==
  /\ at["ui"] = "refresh"
  /\ remoteclient = NULL
  /\ Returns
  /\ UNCHANGED <<pointers, job, talking, history, misuse>>

RefreshAsks ==
  /\ at["ui"] = "refresh"
  /\ remoteclient # NULL
  /\ \/ /\ Callable(remoteclient)
        /\ Send("ui", "ping")
        /\ UNCHANGED <<pointers, selected_action, job, failed, blind>>
     \/ /\ ~Callable(remoteclient)
        /\ Misuse("ui")

\* The client answers: the list is cleared and asked for.
RefreshGoesOn ==
  /\ at["ui"] = "ping"
  /\ Alive(remoteclient)
  /\ remote_files' = NULL
  /\ at' = [at EXCEPT !["ui"] = "list"]
  /\ UNCHANGED <<client, remoteclient, selected_action, job, talking, history, misuse>>

\* It does not: the pointer is dropped, the list stays.
RefreshDrops ==
  /\ at["ui"] = "ping"
  /\ ~Alive(remoteclient)
  /\ client' = [client EXCEPT ![remoteclient] = Quit(PingFailed(@))]
  /\ failed' = failed \cup {remoteclient}
  /\ remoteclient' = NULL
  /\ talking' = [talking EXCEPT !["ui"] = NULL]
  /\ Returns
  /\ UNCHANGED <<remote_files, job, stale, blind, misuse>>

\* A listing always has an entry, "..".
RefreshLists ==
  /\ at["ui"] = "list"
  /\ remote_files' = remoteclient
  /\ talking' = [talking EXCEPT !["ui"] = NULL]
  /\ Returns
  /\ UNCHANGED <<client, remoteclient, job, history, misuse>>

-------------------------------------------------------------------------------
(* Disconnect, called by the frame loop and by the thread of a delete.     *)

\* What the properties must not allow: the list stays on the screen.
StillListed == remote_files

\* The files shown when the client of the screen is dropped.
Cleared == NULL

\* What the properties must not allow: the object goes, its connection stays.
NoHangUp(record) == record

\* Quit is only called on a client that says it is connected.
HangUp(record) == IF record.connected THEN Quit(record) ELSE record

ExecuteDisconnect ==
  /\ at["ui"] = "execute"
  /\ selected_action \in {"ACTION_DISCONNECT", "ACTION_DISCONNECT_AND_EXIT"}
  /\ IF remoteclient = NULL
     THEN /\ at' = [at EXCEPT !["ui"] = "clear"]
          /\ UNCHANGED <<client, remote_files>>
     ELSE /\ client' = [client EXCEPT ![remoteclient] = HangUp(@)]
          /\ remote_files' = Cleared
          /\ at' = [at EXCEPT !["ui"] = "delete"]
  /\ UNCHANGED <<remoteclient, selected_action, job, talking, history, misuse>>

\* delete remoteclient;
DeleteClient(t) ==
  /\ at[t] = "delete"
  /\ client' = [client EXCEPT ![remoteclient].memory = "deleted"]
  /\ at' = [at EXCEPT ![t] = "clear"]
  /\ UNCHANGED <<remoteclient, remote_files, selected_action, job, talking, history, misuse>>

\* What the properties must not allow: a pointer to what has been deleted.
Dangling == remoteclient

Dropped == NULL

\* remoteclient = nullptr;  Only Connect takes the action back.
ClearPointer(t) ==
  /\ at[t] = "clear"
  /\ remoteclient' = Dropped
  /\ at' = [at EXCEPT ![t] =
       IF t = "worker" THEN "idle"
       ELSE IF selected_action = "ACTION_DISCONNECT_AND_EXIT" THEN "done" ELSE "panel"]
  /\ selected_action' =
       IF t = "ui" /\ selected_action = "ACTION_CONNECT" THEN "ACTION_NONE" ELSE selected_action
  /\ UNCHANGED <<client, remote_files, job, talking, history, misuse>>

Drop == \E t \in {"ui", "worker"} : DeleteClient(t) \/ ClearPointer(t)

UI ==
  \/ TestPanel \/ LookPanel
  \/ ClickButton \/ ClickRefresh \/ ClickExit \/ ClickEntry \/ ChooseRemote \/ ChooseUpload
  \/ NoInput
  \/ ExecuteLocal \/ ExecuteConnect \/ ConnectUnknown \/ ExecuteChange \/ ExecuteNewFolder
  \/ ExecuteRefresh \/ ExecuteOperation \/ ExecuteDisconnect
  \/ ConnectSucceeds \/ ConnectFails \/ ConnectReturns \/ ChangeAnswered \/ NewFolderAnswered
  \/ RefreshWithoutClient \/ RefreshAsks \/ RefreshGoesOn \/ RefreshDrops \/ RefreshLists

-------------------------------------------------------------------------------
(* The thread of an operation.                                             *)

More == left > 0

\* DeleteSelectedRemotesFilesThread pings once, UploadFile and DownloadFile ask
\* (Ping, Size) for every file.
WorkerAsks ==
  \E from \in {"start", "next"} :
    /\ at["worker"] = from
    /\ from = "next" => More
    /\ \/ /\ Callable(remoteclient)
          /\ Send("worker", IF from = "start" THEN "first" ELSE "answer")
          /\ UNCHANGED <<pointers, selected_action, job, failed, blind>>
       \/ /\ ~Callable(remoteclient)
          /\ Misuse("worker")

DeleteStarts ==
  /\ at["worker"] = "first"
  /\ Alive(remoteclient)
  /\ Answered("worker", "next")
  /\ UNCHANGED <<pointers, selected_action, job, history, misuse>>

DeleteDisconnects ==
  /\ at["worker"] = "first"
  /\ ~Alive(remoteclient)
  /\ failed' = failed \cup {remoteclient}
  /\ client' = [client EXCEPT ![remoteclient] = HangUp(PingFailed(@))]
  /\ remote_files' = Cleared
  /\ Answered("worker", "delete")
  /\ UNCHANGED <<remoteclient, selected_action, job, stale, blind, misuse>>

\* The file is deleted, or not; uploaded; downloaded.
FileDone ==
  /\ at["worker"] = "answer"
  /\ op = "ACTION_DELETE_REMOTE" \/ Alive(remoteclient)
  /\ left' = left - 1
  /\ Answered("worker", "next")
  /\ UNCHANGED <<pointers, selected_action, op, history, misuse>>

\* The Ping of an upload fails, or Size does, which it also does for a file that is
\* not there: Quit, and on to the next file.
FileFails ==
  /\ at["worker"] = "answer"
  /\ \/ op = "ACTION_UPLOAD" /\ ~Alive(remoteclient)
     \/ op = "ACTION_DOWNLOAD"
  /\ left' = left - 1
  /\ client' = [client EXCEPT ![remoteclient] =
                  Quit(IF op = "ACTION_UPLOAD" THEN PingFailed(@) ELSE @)]
  /\ failed' = failed \cup {remoteclient}
  /\ Answered("worker", "next")
  /\ UNCHANGED <<remoteclient, remote_files, selected_action, op, stale, blind, misuse>>

WorkerEnds ==
  /\ at["worker"] = "next"
  /\ left = 0
  /\ at' = [at EXCEPT !["worker"] = "idle"]
  /\ op' = "ACTION_NONE"
  /\ selected_action' = IF op = "ACTION_DOWNLOAD" THEN "ACTION_REFRESH_LOCAL_FILES"
                                                  ELSE "ACTION_REFRESH_REMOTE_FILES"
  /\ UNCHANGED <<pointers, left, talking, history, misuse>>

Worker ==
  WorkerAsks \/ DeleteStarts \/ DeleteDisconnects \/ FileDone \/ FileFails \/ WorkerEnds

-------------------------------------------------------------------------------
(* KeepAliveThread.                                                        *)

\* What the properties must not allow: the seconds count.
GetFullIdleTime == 0..(Threshold + Second)

\* GetIdleTime subtracts the microsecond fields of two times.
GetIdleTime == {now - tick : now, tick \in 0..(Second - 1)}

\* remoteclient != nullptr
KeepAliveNull(t) ==
  /\ at[t] = "null"
  /\ at' = [at EXCEPT ![t] = IF remoteclient = NULL THEN "idle" ELSE "type"]
  /\ UNCHANGED <<pointers, selected_action, job, talking, history, misuse>>

\* && remoteclient->clientType() == CLIENT_TYPE_FTP
KeepAliveType(t) ==
  /\ at[t] = "type"
  /\ \/ /\ Reaches(remoteclient)
        /\ at' = [at EXCEPT ![t] = IF client[remoteclient].kind = "FTP" THEN "state" ELSE "idle"]
        /\ UNCHANGED <<pointers, selected_action, job, talking, history, misuse>>
     \/ /\ ~Reaches(remoteclient)
        /\ Misuse(t)

\* What the properties must not allow: the thread does not look at the connection.
StaysAlways == TRUE

Stays == client[remoteclient].connected

\* && remoteclient->IsConnected()
KeepAliveState(t) ==
  /\ at[t] = "state"
  /\ \/ /\ Reaches(remoteclient)
        /\ at' = [at EXCEPT ![t] = IF Stays THEN "ask" ELSE "idle"]
        /\ UNCHANGED <<pointers, selected_action, job, talking, history, misuse>>
     \/ /\ ~Reaches(remoteclient)
        /\ Misuse(t)

\* client = (FtpClient *)remoteclient, its idle time, and the Ping.
KeepAliveAsk(t) ==
  /\ at[t] = "ask"
  /\ \/ /\ Reaches(remoteclient)
        /\ client[remoteclient].kind = "FTP"
        /\ at' = [at EXCEPT ![t] = "sleep"]
        /\ \E idle \in GetIdleTime :
             talking' = [talking EXCEPT ![t] = IF idle > Threshold THEN remoteclient ELSE NULL]
        /\ UNCHANGED <<pointers, selected_action, job, history, misuse>>
     \/ /\ ~(Reaches(remoteclient) /\ client[remoteclient].kind = "FTP")
        /\ Misuse(t)

\* A Ping that fails ends the thread; else it sleeps and looks again.
KeepAliveSleep(t) ==
  /\ at[t] = "sleep"
  /\ talking' = [talking EXCEPT ![t] = NULL]
  /\ IF talking[t] # NULL /\ ~Alive(talking[t])
     THEN /\ client' = [client EXCEPT ![talking[t]] = Quit(@)]
          /\ at' = [at EXCEPT ![t] = "idle"]
     ELSE /\ at' = [at EXCEPT ![t] = "null"]
          /\ UNCHANGED client
  /\ UNCHANGED <<remoteclient, remote_files, selected_action, job, history, misuse>>

KeepAlive(t) ==
  KeepAliveNull(t) \/ KeepAliveType(t) \/ KeepAliveState(t) \/ KeepAliveAsk(t) \/ KeepAliveSleep(t)

-------------------------------------------------------------------------------
(* The network, and the whole.                                             *)

LinkGoesDown(c) ==
  /\ Alive(c)
  /\ client' = [client EXCEPT ![c].link = FALSE]
  /\ UNCHANGED <<remoteclient, remote_files, selected_action, at, job, talking, history, misuse>>

\* The program has ended, one way or the other.
Ended ==
  /\ misuse # "none" \/ at["ui"] = "done"
  /\ UNCHANGED vars

Next ==
  \/ /\ misuse = "none"
     /\ \/ UI \/ Drop \/ Worker
        \/ \E t \in KeepAlives : KeepAlive(t)
        \/ \E c \in Clients : LinkGoesDown(c)
  \/ Ended

Spec == Init /\ [][Next]_vars

\* Threads go on; the user and the network need not do anything.
FairSpec ==
  /\ Spec
  /\ \A t \in KeepAlives : WF_vars(misuse = "none" /\ KeepAlive(t))

-------------------------------------------------------------------------------
(* Properties.                                                             *)

Record == [kind : Kinds \cup {"none"}, memory : {"unused", "live", "deleted"},
           session : {"none", "open", "closed"}, connected : BOOLEAN, link : BOOLEAN]

TypeOK ==
  /\ client \in [Clients -> Record]
  /\ remoteclient \in Clients \cup {NULL}
  /\ remote_files \in Clients \cup {NULL}
  /\ selected_action \in Actions
  /\ at \in [Threads -> FrameSteps \cup WorkerSteps \cup DropSteps \cup KeepAliveSteps]
  /\ op \in Operations \cup {"ACTION_NONE"}
  /\ left \in 0..MaxFiles
  /\ talking \in [Threads -> Clients \cup {NULL}]
  /\ failed \subseteq Clients
  /\ stale \subseteq Clients
  /\ blind \in BOOLEAN
  /\ misuse \in Threads \cup {"none"}

\* No client was made after c.
Newest(c) == \A d \in Clients : d > c => client[d].memory = "unused"

\* The frame loop and the worker follow a bad pointer only after a request on the
\* client made last has failed, or in an upload started without a connection, which the
\* menu offers (windows.cpp:1071): a new connection ends what an earlier failure has
\* left.  A lost connection is enough: the entries stay on the screen (actions.cpp:76),
\* and so does the action (actions.cpp:147).  A closed FTP control connection is not
\* written to before a request on it has failed either.
MisuseExplained ==
  /\ misuse \in {"ui", "worker"} => blind \/ \E c \in failed : Newest(c)
  /\ stale \subseteq failed

\* One control connection carries one request at a time: the frame loop, the worker
\* and the keep-alive threads, also one left over from an earlier connection, never
\* talk to the same client at once.
OneRequestAtATime ==
  \A t, u \in Threads : t # u /\ talking[t] # NULL => talking[t] # talking[u]

\* A session that is open has the pointer to it, unless a request on it had failed:
\* Connect overwrites the pointer and Disconnect deletes the client only when
\* nothing is lost by it.
SessionKept ==
  \A c \in Clients :
    client[c].session = "open" /\ c \notin failed => remoteclient = c

\* What is on the screen is the listing of the current client, or of one on which
\* a request failed: after Disconnect no entry is left to act on.
ListingCurrent ==
  remote_files \notin {NULL, remoteclient} => remote_files \in failed

\* A keep-alive thread ends when there is no FTP connection any more.
FtpConnected ==
  /\ remoteclient # NULL
  /\ client[remoteclient].kind = "FTP" /\ client[remoteclient].connected

KeepAliveEnds ==
  \A t \in KeepAlives :
    (<>[](~FtpConnected /\ misuse = "none")) => []<>(at[t] = "idle")

===============================================================================
