# ezRemote Client: a TLA+ model

ezRemote Client is a file manager for a local disk and a remote site (FTP, SFTP,
SMB, NFS, WebDAV, HTTP listings), with a native interface drawn in a frame loop
and an embedded web server. This directory holds TLA+ modules that model its
core, TLC configurations that check them on small instances, and theorems checked
with TLAPS. File names below are relative to `src/source/` unless they begin with
`README`.

## 1. The system

| Component | State | Operations | Interacts with |
|---|---|---|---|
| Frame loop and dialogs (`gui.cpp`, `windows.cpp`) | `selected_action`, `action_to_take`, `confirm_state`, `confirm_transfer_state`, `overwrite_type`, `paused`, `activity_inprogess`, `stop_activity`, selections, the two directories | one frame: input, panels, progress dialog, action menu, question popups, `ExecuteActions` | starts the threads of `actions.cpp`; shares every global with them, without a lock |
| Background operations (`actions.cpp`) | the same globals, the thread's own file list | delete, upload, download, extract, compress, copy, move, each in a thread of its own | ask the user through `confirm_state`; call `FS`, `ZipUtil` and the remote client |
| Local file operations (`fs.cpp`) | the disk, the progress counters | `Copy`, `Move`, `RmRecursive`, `ListDir`, `MkDirs`, ... | called by the threads, the frame loop and the web server at the same time |
| Spooled download (`split_file.cpp`) | block files, a semaphore, `complete` | `Open`, `Write`, `Close`, `Read` | a transfer thread writes, another thread reads |
| Connection (`actions.cpp`, `clients/`) | `remoteclient`, `remote_files`, the keep-alive thread | `Connect`, `Disconnect`, refresh, keep-alive | frame loop, threads and keep-alive thread use the same client |
| FTP client (`clients/ftpclient.cpp`) | control and data connections, REST offset | commands, PASV/PORT, transfers | one control connection for everything |
| Other clients (`clients/`) | a library handle | the same interface, on libssh2, libsmb2, libnfs, HTTP | |
| Web server (`server/http_server.cpp`) | requests; reads `stop_activity`, writes progress globals | list, move, copy, remove, upload in chunks, download, compress, extract, download from URL | `FS`, `ZipUtil`, the native interface's globals |
| Archives (`zip_util.cpp`) | library handles, a position in a remote file | extract, compress | local and remote files |
| Keyboard dialog (`ime_dialog.cpp`) | a result, callbacks | open, poll | frame loop |
| Configuration (`config.cpp`, `inifile.c`) | the settings, the text file | load at start with conversion of an older file, saves of a site, of the program's settings and of the directories to start in | dialogs; `Connect` saves the site |
| Languages, startup | strings | load | everything |

What is hard here:

* **Interleaving.** The interface and a thread communicate by plain globals. A
  thread asks a question with four assignments, polls every 100 ms, and restores
  two variables after the answer; the frame loop reads and writes the same
  variables between any two of these.
* **Order.** `ExecuteActions` starts some threads before it has finished its own
  assignments.
* **Cancellation.** `stop_activity` is one flag for every operation, also those of
  the web server, and is reset by the next launch.
* **Partial failure.** A move is a walk that transfers what a listing shows and
  then a recursive removal of what is there.
* **Silent failures.** `fclose`, a read error or the end of a listing may be a failure that
  the call does not return; what follows, a removal or the next file, takes it for success.
* **Crashes.** Every save rewrites the settings file whole, in place.
* **Wake-ups.** A reader of a spooled download sleeps on a semaphore while the
  writer pushes, completes and posts in separate steps.

The components and hazards are listed one by one in `PROJECT.json`. What makes
each correct:

* interface and operations: one operation at a time; nothing overwritten or
  deleted without consent; files go where the user looked when starting; a
  question reaches the screen; a Cancel stops what was running; the window is never left locked;
* local copy and move: no file is lost; nothing there before is destroyed; what is
  not transferred is reported;
* spooled download: the reader sees one stream of bytes in order, and never hangs;
* connection: nobody follows a null or freed pointer; what is on the screen belongs
  to the client in use; the keep-alive does not disturb a transfer and ends;
* FTP: each command gets its own reply; the data connection ends with the transfer;
* file transfer loops: success means the whole file, and each loop ends;
* web server: a chunked upload stores each byte once; it leaves the interface's state alone;
* archives: each entry is extracted or reported; libarchive gets the bytes it asked for;
* configuration: the next start loads what was saved last, and a damaged file is completed.

## 2. The modules

### Activity (`MCActivity`, `ActivityProofs`)

The frame loop against the threads it starts. `ui` is the step of the frame that
the UI thread runs next:

| `ui` | code | actions |
|---|---|---|
| `input` | `BrowserPanel` | `ClickDirectory`, `NoInput` |
| `progress`, `modal` | `ShowProgressDialog`: the test, then the lock, the dialog and Cancel | `CheckActivity`; `ShowProgress`, `ClickCancel` |
| `dialogs` | `ShowActionsDialog`: Alt, the menu, the two popups | `OpenMenu`, `CloseMenu`, `ChooseDelete`, `ChooseTransfer`, `ChooseArchive`, `AnswerYes`, `AnswerNo`, `CancelTransfer`, `ContinueTransfer`, `NoDialogInput` |
| `execute`, `launched` | `ExecuteActions`: the switch, and what follows a launch | `ExecuteNothing`, `ExecuteChangeDirectory`, `ExecuteRefresh`, `ExecuteAtOnce`, `ExecuteTransfer`, `FinishLaunch`, `LaunchFails` |

A worker's `pc` has one value per assignment that the other side can see: `start`,
`loop`, then for a question `ask` (write `confirm_state`), `capture`
(`action_to_take`), `yield` (clear `activity_inprogess`), `poll`, `resume`,
`restore`, and `decide`; at the end `end`, `unlock`, `refresh`. The steps of
`DownloadFile` (actions.cpp:502-543), `UploadFile` and `CopyOrMoveLocalFile` are
the same. Operations that differ in neither confirmation nor launch are not
repeated, so remote delete, extract and paste have no actions of their own.
A popup takes input only if it is the topmost modal one: the progress dialog
displaces the others, and a pending question is opened over whatever is there.
`directory` stands for the directory shown (two values suffice to see a change),
`target`, `consent` and `cancelled` are history: a Cancel marks the threads at work, and one of
them that goes on to another file is marked again (`TakeFile`). A cancelled delete runs
through its list all the same, each `RmRecursive` returning at once (`SkipFile`).

`HurriedUser` is an assumption on the user, not on the code. The screen is
*settled* when the progress dialog or a live question shows what the threads do.
Between an answer and the thread's next poll (at most 100 ms) the window is
unlocked with nothing shown. With `HurriedUser = FALSE` the user does not click on
an unsettled screen; with `TRUE` any click may fall into the gap and most of the
properties fail. `AlwaysUse` is what the box "always use this option" may be set to.

### ByteStream and SplitFile (`SplitFileProofs`)

`ByteStream` is what users of a spooled download rely on: a stream that grows and
ends; a read returns all it asked for, or less only at the end of the stream, and
is refused only behind the part that is kept. `SplitFile` is `split_file.cpp`:
`Write` as fill, push and post; `Close` as push, complete and wake; `Read` as two
waits on the semaphore, the fetch of its first block with its three outcomes, one
step per block, and the deletion. `StreamSpec` states that `SplitFile` implements
`ByteStream` under the mapping at the end of the module. A block carries the
stream position of its first byte, which the code does not store, so that the
order of bytes can be spoken of without bytes. A read error on a block file and
the data race on `std::vector` are left out.

### LocalPaste (`MCLocalPaste`, `LocalPasteProofs`)

The paste threads for copy and move, and the web server's move, over the walk they
share. The tree is data (`Parent`, `Above`, `Kind`, `Hidden`), `source` and `dest` are what
is at both ends, and `frames` is the stack of folders being walked. Every call can
fail: the listing, making a folder, rename, the begin and end of a copy, removal. A copy
can also return true for an entry that is not whole (`CopyCut`: an ignored `fclose`, or
counters another operation has changed; `ReadlinkFails`); the history `cut` keeps those, and
a move removes their source like any other's.
Cancel may come at any time; for the web server the flag belongs to the native
interface and may also be reset. Left out: pasting into the item's own folder
(skipped by the code), name truncation, other processes changing the tree, and the
shared progress counters of `FS::Copy`, which are in `TransferLoops`.

### FtpControl (`MCFtpControl`, `FtpControlProofs`)

`ftpclient.cpp` on one control connection, against a server. The client runs the
calls of `Script` (`Connect`, the simple commands, `Get`, `GetRange`, `Put`,
`ListDir`, `Rename`, `Size`, `Delete`, `Quit`): each is a sequence of commands; a
command is sent (`Send`), one reply is read (`ReadReply`, `ReadNothing`), and
`TakeReply` says how the caller goes on. A transfer opens a data connection
between a command and its preliminary reply (`DataSocketFails`, `OpenData`,
`ReadPreliminary`), moves pieces (`ReadPiece`, `ReadEnd`, `WritePiece`, `WriteEnd`),
closes it (`CloseData`) and reads the final reply (`ReadFinal`). A reply is its
first digit with a history tag of the command it answers. The response buffer
keeps its old contents when nothing is read, as in the code. The server is
external: it may refuse, abort, hang up, or never greet. Files are numbers of
pieces. Undefined behaviour ends the behaviour in `pc = "undefined"`: after a refused
REST the caller uses a data handle that was never set. A socket number is never given
out again, so that a second `Quit` on it fails harmlessly; in the program it would
write to and close whatever got the number since. Left out: active mode (never
selected), replies of several lines, and the contents of listings.

### RemoteTransfer (`MCRemoteTransfer`, `RemoteTransferProofs`)

The walks over a remote or local tree: `Download`, `Upload`, `CopyRemotePath` and the
clients' recursive `Rmdir`, with the loops of their threads. They are one recursion
with four payloads, told apart by `kind`; `stack` holds the calls under way with
the entries each has still to do.

| action | code |
|---|---|
| `Ping`, `NextItem`, `Finish` | the loop of the thread |
| `DoEntry` | one turn of a folder's loop: `EnterFolder` is the next call up to its loop (`ListDir`, `MkDirs`), `DoFile` is `DownloadFile`, `UploadFile`, `CopyOrMoveRemoteFile` or `Delete` |
| `StopFolder` | `if (stop_activity) return 1` |
| `LeaveFolder` | the end of the loop, where `Rmdir` removes the folder itself |
| `Cancel`, `Disconnect` | the dialog's button; the connection breaks at any time |

The clients differ in what is modelled of them: the FTP client lists the server's
current directory after a CWD whose reply it ignores, the SMB client reports a listing
that failed, the SMB and NFS clients report a folder that could not be removed, and
the WebDAV client, the only one that copies, shows hidden files. `locked` is any set
of folders that may not be entered. `Get` and `Put` may return 1 for a file that is not whole,
and a listing that is read entry by entry may break off and look complete (`MayBreakOff`:
the local one, FTP's and SFTP's); `partial` is the history of both. Left out: links, the names' truncation, and
`MoveRemoteFilesThread`, which is one request per item.

### Connection (`ConnectionProofs`)

`remoteclient`, the global pointer to the client in use, and everybody who follows it:
the frame loop, one worker (`op`, `left`), and the keep-alive threads of FTP
connections, which may outlive theirs. `client` is what lies behind each pointer ever
made: its kind, whether it has been deleted, whether its session and link are up,
and the flag `IsConnected` returns. A request is sent (`talking` names the client)
and answered in two steps, so other threads act in between.

| action | code |
|---|---|
| `TestPanel`, `LookPanel` | the two reads of the pointer in `ConnectionPanel` |
| `ClickButton`, `ClickRefresh`, `ClickExit`, `ClickEntry`, `ChooseRemote`, `ChooseUpload` | what the user may choose, with the conditions under which it is offered |
| `ExecuteConnect` ... `ConnectReturns` | `Connect`, `new` to the start of the keep-alive thread |
| `ExecuteChange`, `ExecuteNewFolder`, `Refresh...` | change of directory, new folder, `RefreshRemoteFiles` |
| `ExecuteDisconnect`, `DeleteClient`, `ClearPointer` | `Disconnect`, also called by the thread of a delete |
| `WorkerAsks` ... `WorkerEnds` | the threads of a remote delete, an upload, a download, as far as they use the pointer |
| `KeepAlive...` | the loop of `KeepAliveThread`, a step for each read of the pointer |
| `LinkGoesDown` | the network |

The kinds differ in what `Ping` and `Quit` leave behind: SFTP's failed `Ping` clears
its flag, so that `Disconnect` no longer calls `Quit`; FTP's `Quit` clears it; the HTTP
clients' `Quit` deletes the library handle and leaves the flag, and their `Connect`
returns 1 whether the server answers or not. `GetIdleTime` is the difference of two
microsecond fields, as in the code. Following a null or freed pointer ends the
behaviour (`misuse`). SMB and NFS are left out, as are rename, properties, the
editor and remote cut and paste, which use the pointer as the modelled ones do.

### ChunkedUpload (`ChunkedUploadProofs`)

The upload of one file to the web server, as the page does it and the server stores
it: ask for the size stored so far (`AskSize`), send the next chunk (`Post`), and so on
to the last. The server's handler opens the file by the number of the chunk (`Mode`),
writes what arrives (`Receive`) and answers with success in any case (`Reply`). A
request can be cut off (`Cut`); its handler goes on with what had been sent, while
the user starts the upload again. A file is a sequence of pieces named by their
positions. The page is `ng-file-upload.min.js`, two minified lines, with the chunk
size of `angular-filemanager.min.js`.

### TransferLoops (`MCTransferLoops`, `TransferLoopsProofs`)

The loops that move one file: `FS::Copy` and `FS::Move`, and `Get` and `Put` of the
SFTP, SMB, NFS, HTTP and WebDAV clients. They are one loop - read, write, add to
`bytes_transfered`, test - with the differences in each step: which results are
looked at, what ends the loop, what is returned. The native operation and the web
server run such loops on the same two counters, `+=` being a load and a store.
`mishaps` is the history of what went wrong in a loop. The FTP client's loops are in
`FtpControl`.

### Extraction (`TransferLoopsProofs`)

The threads of both extractions (`OpenArchive`, `Finish`), `Extract` over the entries
(`NextHeader`, `EntryFails`, `DataFails`, `DataEnds`), and, for an archive on a server, the
callbacks that read, skip and seek (`ReadRemoteArchive`, `SkipRemoteArchive`,
`SeekRemoteArchive`). libarchive is external: it calls them in any order and keeps
its own `position` by what they return. Sizes are counted in units of the byte a
skip loses. A read from behind the end has a negative length; what the clients make
of it is undefined and ends the behaviour. The passphrase dialog is left out.

### WebDownload (`MCWebDownload`)

The handler of `download_url` beside all of `Activity`: `Request`, `Lock`, `Finish` and
`UnlockWindow` are its assignments to `activity_inprogess` and the modal lock. Once
it has taken the dialog away from a native operation (`uncovered`), the assumption
on a patient user no longer means anything, and any click is allowed.

### IniFile and Settings (`MCSettings`, `ConnectionProofs`)

`IniFile` is `inifile.c`: finding sections and keys in the lines of a file, reading and
writing them. A file is a sequence of lines; opened, it is a list with a pointer to its
last entry, `CurEntry`, which the operations treat differently: `AddItem` drops what
follows it, `AddItemAt` does not move it when the new entry comes right after it.

`Settings` is `config.cpp`: the settings in memory and the file they are kept in. The loop
that writes all sites is the function of `WriteSites`, from one site to the next.
`LoadConfig` reads the file, converts the addresses of an older version and
writes everything back; `SaveConfig`, `SetDefaultRemoteFolder`, `SaveGlobalConfig` and
`SaveLocalDirecotry` open it, change their lines and write all of it (`Save`).

Opening takes the type of every line from its text (`TypeRead`): a line with "[" and "]" is
a section, also if it was written as a key. Such a line ends its section, and what follows it
is not found any more; behind a directory with brackets in "Global" that is the version,
which a start inserts first and every later key of the section before it. Among the values of the model are
therefore an address and a directory with brackets (`Bracketed`).

A start or save may find the file unreadable (`unread`), be unable to open it for writing
(`unwritten`), find the disk full after that has emptied it and go on (`WrittenInPart`), or die
while writing (`DiesWriting`); and what a save writes may be read as another file than was
written (`~Settled`). What is left of a file whose writing was cut off is in `CutFiles`:
nothing, or a beginning that contains at least the section "Global", since the C library's
first buffer of 4096 bytes reaches beyond it. `mishaps` counts these by their kinds. The other
histories say what may follow from them: `saved` is what was saved last, `damaged` that the
file has lost something since the last start that wrote it, `versionLost` that its version may
be among that, and `turned` the sites whose address a start has then converted.

An address is its scheme, a password its length; what is stored like those
modelled (user name, kind of HTTP server, API keys, the web server's settings) is left out, as
are values with a semicolon, lines longer than the buffers, and a hole in the file where the
disk was full for a part of the writing only.

## 3. The runs

| Run | Bounds | Shows |
|---|---|---|
| `activity_transfer` | 2 threads, 2 files, delete and download | `TypeOK`, `SingleOperation`, `OverwriteConsent`, `DestinationStable`, `DeleteConsent`, `CancelHeeded` |
| `activity_live` | 1 thread, 1 file, delete, download and extract | `QuestionShown` under fairness |
| `split_file` | blocks of 2 bytes, stream of up to 9, writes up to 3, reads up to 4 | `TypeOK`, `InOrder`, `WindowKept`, `ReadReturns`, `StreamSpec` |
| `local_paste` | 3 selected items, 7 entries, 2 folder levels | `LossExplained`, `CompleteUnlessReported`, `OthersKept` |
| `ftp_control` | transfers of up to 2 pieces (`Length`), 5 calls after `Connect` (`MaxCalls`) | `TypeOK`, `SuccessIsReal`, `WholeFileMoved`, `ConnectedExplained`, `EveryCallReturns` |
| `remote_transfer` | a selected folder with a folder in it, a selected file, a folder beside; 4 nested calls (`MaxDepth`), 1 listing or file that breaks off unseen (`MaxPartial`) | `TypeOK`, `CompleteUnlessReported`, `OnlySelection`, `FolderGoneUnlessReported`, `AstrayOnlyBelowLocked`, `WalkEnds` |
| `connection` | 2 connections (`MaxClients`) of any kinds, 2 keep-alive threads, 2 files per operation, idle times of up to 2 steps with a threshold of 3 | `MisuseExplained`, `OneRequestAtATime`, `SessionKept`, `ListingCurrent`, `KeepAliveEnds` |
| `chunked_upload` | chunks of 2 pieces, a file of up to 5, an older one of up to 3, 3 attempts | `PrefixKept`, `OldFileResult` |
| `transfer_loops` | buffers of 2 pieces, files of 0 or 3, the native operation and a web copy | `ResultExplained`, `LoopEnds` |
| `extraction` | 2 archives of up to 2 entries, of size 0 or 4, read by 3 | `ExtractedUnlessReported`, `MisreadExplained` |
| `settings` | 2 sites, an address and directories with and without brackets, 1 mishap or save of such a value (`MaxMishaps`) | `SavedIsLoaded`, `OnlyEntered`, `LoadCompletes` |
| `web_download` | 2 threads, delete of 1 file | counterexample to `SingleOperation` |

Why the bounds are enough:

* Two threads suffice to see a second operation beside a first; two files let the
  answer of one question meet the question of the next. The theorems of section 5
  lift both bounds. `activity_live` uses one thread because only one runs at a time.
* Five blocks are two more than the window of three, so a block is deleted and a
  read can start before, in and behind the window; reads of up to four bytes span
  three blocks; writes of three do not divide the block size.
* The tree has each kind of entry at the top and inside a folder, a file two levels
  down, and a hidden file; each destination is at first absent, a file or a folder
  in every combination that can exist. The order of the selection is fixed: an item
  before the folder and one behind it are enough to see the loop go on or end.
* Five FTP calls let a call that goes wrong, a transfer between, and calls that read
  its leftovers follow each other; two pieces let a resumed or cut transfer be told
  from an empty and a whole one.
* The remote tree is two levels deep with room for four calls, so a walk that leaves
  the tree is told from one that does not before the stack is used up; the folder
  beside the selection is what a wrong path would hit. One call that breaks off unseen is
  enough for the walk to go on as if it had not; the theorems are for any number.
* Two connections let a keep-alive thread, a listing or a pointer of the first meet
  the second; a third adds no new pair. `Second` and `Threshold` keep the code's
  relation: no difference of microsecond fields reaches the threshold.
* A file of five pieces has a whole first chunk, a whole second and a short third; an
  older file is empty, smaller than a chunk, as large or larger; three attempts let
  a handler of the first still write while the third asks.
* A file of three pieces takes a full buffer and a part of one; an empty file is the
  edge of every loop's condition. One loop beside another is what the counters need.
* Of the two sites, one is in the older file, with a long password in clear, and one is
  entered today as an HTTP server; the section of a site can be the last of the file or not.
  One mishap is enough to leave the file in every state a mishap can leave it in; starts and
  saves after it are unlimited. A hidden line ends its own section only, so one site with an
  address in brackets, the other with a directory and the program's own directories are
  enough: they put the brackets before, between and behind the other keys.
* An archive of size 4 takes two reads, a skip between them moves the second, and a
  seek may come at any time; the second archive shows that nothing is carried over.

`CHECK_DEADLOCK FALSE` is given where the system stops: a stream that is closed and
not read any more, a paste, a walk or an extraction that is done, a session of which
all calls have returned, an upload that is not tried again, files that are moved.

**Fairness.** In `Activity`, the frame loop never ends while the program runs
(`WF_vars(UI)`) and the operating system runs every thread; nothing obliges the user
to answer, and the properties do not need it. In `SplitFile`, both threads are
scheduled, and the transfer ends at some time, after which its caller closes the
file: `Close` has strong fairness, since writes can disable it for a while. In
`FtpControl`, the client's thread is scheduled, and the server goes on answering or
hangs up (`WF_vars(Answer)`). The latter is an assumption on the server: the client
sets no time limit on its sockets (the `recv` at ftpclient.cpp:296), so a server that
goes silent holds the operation for good, and `EveryCallReturns` says nothing of it. In
`RemoteTransfer`, only the thread is scheduled; each of its calls returns. In
`Connection`, only the keep-alive threads need be scheduled: they end whatever the
others do, once there is no FTP connection any more. In `TransferLoops`, the threads
are scheduled, and no server keeps one waiting for good. `ChunkedUpload`, `Extraction`,
`WebDownload` and `Settings` state no liveness: the user need not try again.

Where a module's `TypeOK` is not in the table, it states the types for the reader.

## 4. Findings

* **A web download ends a native operation's cover** (`web_download`). `download_url`
  clears `activity_inprogess` and unlocks the window whatever is running
  (http_server.cpp:1042-1044), and the user can start a second operation beside the
  first.

The following came to light while the modules were written. The models contain
them; a property that excepts one is named.

Interface:
* A transfer's thread runs before `ExecuteActions` clears `selected_action`
  (windows.cpp:1690, 1702, 1834). With "always use this option" no popup stands
  between a leftover action and a launch, and a second operation can start. Without
  it `confirm_transfer_state` does, and `SingleOperation` holds and is proved.
* `ExtractZipThread` returns early (actions.cpp:667-671) and leaves
  `activity_inprogess` set: the progress dialog stays.
* `ShowProgressDialog` tests and then locks (windows.cpp:1341-1348); the thread's unlock
  in between is overwritten, and the window stays locked with nothing on it.
* For a link to a folder the result is tested the wrong way round (actions.cpp:1001,
  http_server.cpp:154), so a link that was copied ends the paste as a failure.

Connections:
* Upload is offered without a connection (windows.cpp:1071), and its thread follows
  the null pointer (`MisuseExplained`).
* `RefreshRemoteFiles` nulls the pointer when the server does not answer
  (actions.cpp:77); `Connect` then asks it for its type (actions.cpp:873), which an
  unreachable HTTP server is enough for, and entries left on the screen lead to it
  (`MisuseExplained`, `ListingCurrent`). The object is not deleted.
* A failed `Ping` in `HandleChangeRemoteDirectory` keeps the pointer and the selected
  action (actions.cpp:145-149): the next frame asks again.
* The idle time is the difference of microsecond fields (ftpclient.cpp:1769), so the
  NOOP of ftpclient.cpp:1186 is never sent; with the full idle time
  `OneRequestAtATime` fails.
* A server that greets and hangs up leaves the greeting in the response buffer, where
  `Connect` finds the 2 it looks for (ftpclient.cpp:147-149, `ConnectedExplained`).
* `FtpClient::ListDir` ignores a refused CWD (ftpclient.cpp:1708) and shows the directory
  before under the path asked for: the recursive `Rmdir` then descends until its
  stack is used up or a path does not exist (`AstrayOnlyBelowLocked`, `WalkEnds`).
  `OnlySelection` says that nothing outside the selection is harmed by it.

Files:
* Cut and paste deletes what it did not transfer (actions.cpp:1115-1116): hidden files
  (fs.cpp:305), links to folders inside a cut folder (actions.cpp:1037), and folders that
  could not be listed (actions.cpp:1016) are removed by `FS::RmRecursive` without having been
  moved. `LossExplained` names these, and besides them only a file whose overwriting the
  user declined, a link the web server moves onto a folder, a web server's move
  stopped through the native interface's Cancel, and a file whose own copy was taken for
  whole. No failure that a call returns and no Cancel of the paste itself loses a file.
* `FS::Copy` ignores `fclose` (fs.cpp:624), where a full disk shows up for what is still
  buffered, and goes on to `return true` when `readlink` fails (fs.cpp:557): a move to another
  device then removes the source of a file that is not whole, without a message (`cut` in
  `LossExplained` and `CompleteUnlessReported`).
* A short `fwrite` ends `SplitFile::Write` in the middle of a buffer (split_file.cpp:171), and
  no caller looks at the number it returns: the stream goes on without the rest.
* `FS::Copy` ends on counters that other operations write (fs.cpp:620): it can return
  true for a part of a file, whose source `FS::Move` removes, or go on for good, as it
  does when the source cannot be read (fs.cpp:602 compares a `size_t` with 0) or has
  shrunk (`ResultExplained`, `LoopEnds`).
* `SmbClient::Put` ignores what `smb2_write` returns; `NfsClient::Put` keeps the tail of
  a longer old file (nfsclient.cpp:403); `SFTPClient::Put` returns 1 after a failed
  write; the `Get`s of all three return 1 after a read error, so that a connection that breaks
  in the middle of a file leaves a walk without a message (`partial` in
  `CompleteUnlessReported`); `BaseClient::Get` stores an
  error page and returns 1; `WebDAVClient::Put` does not end when its source has
  shrunk (`Hidden`, `Endless`).
* Uploading over an older file that is smaller than a chunk sends the rest as chunk 0,
  which truncates: the first pieces are lost (http_server.cpp:805, `OldFileResult`). An
  upload resumed inside its first chunk, or while the handler of an earlier attempt
  still writes, is not stored as it was (`PrefixKept`).
* A remote archive whose size cannot be asked passes for an empty one
  (zip_util.cpp:457, `ExtractedUnlessReported`); a skip loses a byte (zip_util.cpp:531,
  `MisreadExplained`).

Settings:
* A password of 80 characters or more is lost: its cipher has 128 characters or more, of
  which `LoadConfig` reads 127 (config.cpp:249), and the piece, which cannot be decrypted,
  becomes the password (`Kept` in `SavedIsLoaded`).
* A saved value with "[" and "]" is read as a section (inifile.c:168). A default or temporary
  directory such as `/roms/[x]` hides the keys behind it: a site loses its address, the
  program its version, and the next start then turns HTTP servers into WebDAV servers
  (config.cpp:236). `SavedIsLoaded` and `OnlyEntered` name such a save.
* A save that could not read the file goes on with an empty list (config.cpp:285) and
  replaces the file by its own lines. The version is gone with the rest, so the next
  start converts likewise; so does a start after one that found no version and could not
  write, or after a full disk has left the file empty, which `WriteIniFile` does not notice
  (inifile.c:231). `OnlyEntered` lets an address be converted only for the sites a start met in
  such a file. A crash while writing does not convert anything: the version is in the
  part of the file that is written at once, or the addresses are gone with it.
* A start after a crash that left the file ending in a section's name puts that section's
  keys where the next section replaces them (inifile.c:566, 600; `LoadCompletes`). They
  are put back by the start after.

## 5. The proofs

Every theorem holds for any value of the constants that the module's assumption
allows. Each has the same shape: an invariant that is inductive, a lemma that it holds at
first, one that each step keeps it, with a lemma or a step per action, and the
property as a consequence. Each of the invariants was first checked by TLC on the
instance of the module's run. Two modules hold the proofs of two components:
`TransferLoopsProofs` also those of `Extraction`, the other loop over a file, and
`ConnectionProofs` also those of `Settings`, which hold the addresses `Connect` uses.

**`ActivityProofs`**, for any set of threads and any number of files:

* `TypeCorrect`: `Spec => []TypeOK`, without further assumptions. The invariant is
  `TypeInv`: `TypeOK`, that a thread handling a file has one left (`FileLeft`, which
  keeps `left` from going below zero), and that a pending question names who asked.
* `OneOperationAtATime`, `OverwritesAreAgreed`, `TransfersStayInDirectory`,
  `DeletesAreAgreed`, `CancelsAreHeeded`: the safety properties of `activity_transfer`, under the
  assumption `Patient`: `HurriedUser = FALSE` and `AlwaysUse = {FALSE}`.

None of the five is inductive by itself. They are proved together from `SafeInv`,
whose conjuncts say why the protocol works:

* *who may launch*: while a thread is busy, `selected_action` is never one that
  `ExecuteActions` would launch (`LaunchWhenQuiet`), the overwrite popup is not open
  and its answer not pending (`OptionsWhenQuiet`, `OptionsUsedUp`), and whatever a
  thread puts aside in `action_to_take` and restores is harmless (`PutAside`);
* *whose question it is*: an open question is the delete question while nothing
  runs, or that of the one thread that asked it (`QuestionOpen`, `QuestionOwned`,
  `DeleteQuestion`, `DeleteAgreed`); a transfer asks exactly when the file exists
  and the mode says so (`TransferAsks`);
* *why the window is locked*: `activity_inprogess` is set whenever a thread is busy
  and not asking (`ActiveUnlessPolling`), and while it polls only its answer is
  accepted (`AnswerWhilePolling`), so the shown directory stays (`DirectoryKept`);
* *why a Cancel is not lost*: the flag it sets is reset by a launch only, and none comes
  while the cancelled thread is busy.

The proof fails, as it should, for the mutated actions of the module. `DeletesAreAgreed`
is an action property: `DeleteLaunch` shows it for one step of a state that satisfies
the invariant.

**`SplitFileProofs`**, for any block size, any length of the stream and of the
reads and writes: `TypeCorrect`, `ReadsInOrder`, `WindowIsKept`, and `Implements`, that
`SplitFile` implements `ByteStream`. The invariant is `SplitInv`. All blocks but the last
are full, so that block k starts at k times the block size (`ChainOfBlocks`,
`BlockInProgress`); `Read` finds its block by that division. `ReadPosition` says where
the read under way stands in its block, `ReadBlocks` what each of its two waits has
ensured and later writes cannot undo, `ShortAtEnd` that a read which is given less than it
asked for has seen the end, and `DeletedBlocks` that the blocks deleted are exactly
those more than two before the furthest one a read has started in. With these, each
step of `SplitFile` is a step of `ByteStream` under the mapping or leaves it alone.

**`ChunkedUploadProofs`**, for any file, older file, size of chunk and number of attempts:
`PrefixIsKept` and `OldFileIsTaken`. The invariant `UploadInv` says that, as long as no
attempt was resumed badly, at most one request is at work (`OneRequest`), what is stored is a
beginning of the file, and what that request has still to write goes on where it
ends (`Beginning`); `FirstAttempt` describes the upload over an older file before anything
was cut.

**`ConnectionProofs`**, for any number of clients and threads, any times: `RequestsTakeTurns`
(`OneRequestAtATime`), `SessionIsKept`, `ListingIsCurrent`, `MisuseIsExplained`. In `ConnInv`,
`WorkerAlone` says that the frame loop stays out of the connection while a worker is in it;
`WhoTalks`, that the keep-alive threads never do: no difference of two microsecond
fields reaches the threshold, which is why the clients may be used without a lock (the
assumption on the constants is that relation). `Pointed`, `Sessions` and `Fresh` say
what the pointer points to and what is up behind it, `Listed` whose listing is shown,
`Latest` that the pointer leads to the client made last, and `Explained` that whoever is
about to use the pointer has one until a request on that client fails; failures of earlier
clients excuse nothing (`GivenUp`).

**`TransferLoopsProofs`**, for any buffer, any files and any loops of any kinds:
`ResultIsExplained`. The invariant `LoopsInv` holds for each loop separately: what its
variables can be at each step (`Kept`, `Waiting`), that without a mishap the pieces up to its
place are in the destination and those up to what it has read are in the buffer
(`Content`), that the shared counters are the loop's own as long as no other has disturbed
them (`Counters`), and that a result of success with something missing has a mishap of the
loop's own kind in its history (`Explained`).

**`FtpControlProofs`**, for any number of calls, any length of the file and any answers of
the server: `TypeCorrect`, `SuccessHasHappened` (`SuccessIsReal`), `WholeFileIsMoved`,
`ConnectionIsExplained`. The difficulty is that a reply may answer an earlier command, so that a client can take an
older PASV reply for its own and open its data connection to an address at which the
server no longer listens. `FtpInv` therefore follows the PASV commands: a call sends one
(`PasvOnce`), the server numbers them in their order (`Numbers`) and listens at the address
of the last. A client that took another call's address is `Doomed`: its transfer is
refused (`OtherTransfer`). A client that took its own has nothing in the pipeline behind
that reply (`OwnBefore`), so that the command of the transfer gets its own
reply and the pieces moved are those of this transfer (`OwnTransfer`, `Pieces`). `InStep`
and `Done` say that, while nothing has strayed, each reply belongs to the last command. For
`ConnectedExplained`, an action property, two more facts are kept: a reply that grants a
login comes from a server that has granted it (`Granted`), and while Connect waits
at USER the response buffer holds the greeting (`Greeted`).

**`RemoteTransferProofs`**, for any tree, selection, client, locked folders and depth:
`CompleteOrReported`, `OnlySelectionTouched`, `FolderGoneOrReported`, `AstrayIsBelowLocked`,
`TypeCorrect`. The paths of the entries are sequences of names and the tree is any set of
them with the folders above each. The invariant `WalkInv` says of the calls under way that
each works on an entry of the one before (`TypeOK`) and that every folder and every entry
still to do is either in the tree at its own place or below a folder whose listing was
another's (`SoundStack`), which is why a walk that goes astray stays below the selection.
`TreeKept` says what is still in the tree, `NothingForgotten` that each selected file is
dealt with, or is in a folder or item still to come, or there was a stop or a message, and
`FoldersAhead` the same for the folders that `Rmdir` must remove.

**`LocalPasteProofs`**, for any trees, selection and answers: `LossIsExplained`,
`CompleteOrReported`, `OthersAreKept`, `TypeCorrect`. `LossExplained` is an invariant whose
reason lies in the whole walk: the folder removed at the end must hold nothing that was
not moved. In `PasteInv`, `WalkOnce` says that of the entries still to come (`Pending`)
none lies in another, so that each is taken once and found at its source; `FoldersStay`
that a folder outlasts what is in it; `ItemCovered` that, as long as neither a stop nor a failure
has ended the walk of an item, each file in it is settled or below an entry
still to come, so that all are settled when the removal begins; `AllCovered` says so of
the whole selection while nothing was reported; `Ends` ties the result of the walk to the
report and to the stop, `AskedFirst` a file at the destination to the question. What is
used of the trees is the named assumption `LocalPasteAssumption`: `Above` is given with the
facts that make it "the folders above", since those follow from `Parent` by induction,
which the provers cannot do; TLC evaluates them on the run's instance, where `Above` is
computed from `Parent`.

**Extraction** (in `TransferLoopsProofs`), for any number of archives and entries, any sizes
and any buffer: `ExtractionIsReported` (`ExtractedUnlessReported`), `ArchiveBytes`
(`MisreadExplained`). `ArchiveInv` says that the size known of an archive is at most the real
one, which keeps what is read inside the archive, and that the position libarchive keeps
and the offset of the callbacks are parted by a skip only. `Reported` says that a failure
has its message from the step on in which it happens.

**Settings** (in `ConnectionProofs`), for any sites, any addresses and passwords entered for
them, and any number of mishaps: `SavedComesBack` (`SavedIsLoaded`), `ConnectsWhereEntered`
(`OnlyEntered`), `StartCompletes` (`LoadCompletes`, which is an action property), and
`WriteIsRead`, read over write for `IniFile`: what `WriteString` writes is read back, and every
other key reads as before. That is so only of lists as this program makes them:

* Where a section is the last line of the file, and its first key is inserted behind it,
  `CurEntry` stays at the section's line, and the next section that is appended cuts off
  the key again. Such a section is `Pending`, and `WriteIsRead` excepts its keys.
  `TextOk` says that no other lines can be cut off, `EmptyWherePending` that nothing was
  read of such a section, so that what is lost is what is read where nothing is.
* A section "Global" would be pending if it could stand without a line. `GlobalFilled` says
  that it cannot, which is where the C library's buffer comes in: a file that is cut off
  contains all of "Global" or nothing (`CutGlobal`).

What a start writes back is proved by induction over the sites (`StageOfSites`). The provers
cannot instantiate the library's induction theorem, whose parameter is an operator; here it
is stated for a set of numbers (`SetInduction`), and the existence of the recursive
function of `WriteSites` is proved with it (`StagesExist`). `OpenedFinds` and `OpenedReads` say
that opening a file moves no line and hides only what stands behind a line with brackets, so that
what a key is read as comes from the file; `SaveKeyIs` that a save which is read as it was
written changes the keys it names and no other.

The invariant `SettingsInv` has six parts. Besides the types: the file on the disk is one the
program writes or a beginning of one (`FileOk`). The program runs on a file without a version
only if the history has it that the version was lost (`VersionKnown`). A file without a version that
has lost none is of the older version or empty (`OldOnly`), so that what its conversion makes is
the older version's; without that, each start could convert again. `SavedIsLoaded` itself. And
`AllEntered`: not only the address in memory but the one the next start will load was entered,
converted once, a piece of one, or is among those `turned`; without it, a save that dies in
the middle could leave what the next start brings into the program. TLC has found no
violation of the invariant on the instances of both runs.

**Only model-checked:**

* liveness (`QuestionShown`, `ReadReturns`, `EveryCallReturns`,
  `WalkEnds`, `KeepAliveEnds`, `LoopEnds`): out of the prover's reach, as is whatever needs
  `ENABLED`;
* `WebDownload`, whose run shows a counterexample.

What a recursive function computes is proved only where an invariant from one argument to
the next is enough, as with `WriteSites`; `Above` in `LocalPaste` is assumed, as said there.

## 6. Plan

Done: `Activity`, `ByteStream` and `SplitFile`, `FtpControl`, `Connection`,
`ChunkedUpload`, `TransferLoops`, `RemoteTransfer`, `LocalPaste`, `Extraction`, `IniFile` and
`Settings` with their proofs; `WebDownload` checked with TLC.

Proofs left: none of an invariant or action property that a passing run checks; each of
them is a theorem. What `Above` is in `LocalPaste` could be proved from `Parent` with an
induction like that of `Settings`.

Modelling left: an abstract transfer that is complete or reported, which the Get and
Put of `FtpControl` and `TransferLoops` implement and `RemoteTransfer` builds on; the
links and the counters in `LocalPaste`.

## 7. Not modelled

Drawing, fonts, languages, the arithmetic of the passwords' cipher, parsers of
HTML, XML and JSON listings, the file hosts' link resolvers, the on-screen keyboard's
dialog and startup. They are sequential transformations of data, with little or no
state of their own. `std::vector::push_back` in `SplitFile::Close` and `Write` may
reallocate what the reader indexes without a lock (split_file.cpp:182, 206); the model
takes vector operations as atomic.

Vendored code (`imgui/`, `http/`, `pugixml/`) is more than four fifths of the lines under
`source/`. It is used through its interfaces: httplib's content readers and providers
appear in `ChunkedUpload` and `TransferLoops`, imgui's frame in `Activity` and
`Connection`. Its own code is not part of this program's logic.
