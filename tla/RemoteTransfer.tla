---------------------------- MODULE RemoteTransfer ----------------------------
(***************************************************************************)
(* The threads that walk a selection of files and folders (actions.cpp):   *)
(* Download, Upload, CopyRemotePath and the recursive Rmdir of the         *)
(* clients, with the listings the walk goes by.                            *)
(*                                                                         *)
(* A path is a sequence of names, relative to the directory shown on the   *)
(* side the selection is made on; the same path relative to the other      *)
(* side's directory is its destination.  The order in which a listing      *)
(* returns its entries is left open.  How a question gets to the user and  *)
(* its answer back is the subject of Activity; here it has some answer.    *)
(* The destination is another directory than the source: CopyRemoteFiles-  *)
(* Thread passes over items that would be pasted into their own folder.    *)
(***************************************************************************)
EXTENDS Integers, Sequences, FiniteSets, SequencesExt

CONSTANTS
  Dirs, Files,   (* the tree the selection is made in                      *)
  Hidden,        (* those of Files whose names start with a dot            *)
  Selection,     (* the paths selected, in order                           *)
  MaxDepth,      (* bound: nested calls the stack has room for, and the    *)
                 (* longest path that fits the buffers                     *)
  MaxPartial     (* bound: listings and transfers of a walk that break off *)
                 (* without a failure                                      *)

ASSUME WalkAssumption ==
  /\ \A p \in Dirs \cup Files :
       p \in Seq(STRING) /\ p # <<>> /\ \A n \in 1..Len(p) - 1 : SubSeq(p, 1, n) \in Dirs
  /\ Dirs \cap Files = {} /\ Hidden \subseteq Files
  /\ Selection \in Seq(Dirs \cup Files)
  /\ MaxDepth \in Nat \ {0} /\ MaxPartial \in Nat

VARIABLES
  kind,        (* "download", "upload", "copy" or "remove"                  *)
  client,      (* "ftp", "sftp", "smb", "nfs" or "webdav"                  *)
  mode,        (* overwrite_type: "prompt", "none" or "all"                 *)
  locked,      (* directories the source side does not let us enter         *)
  dirs, files, (* the source tree as it is now                              *)
  dest,        (* the files at the destination                              *)
  cwd,         (* the FTP server's directory                                *)
  connected,
  items,       (* the selected items not yet done                           *)
  stack,       (* the calls under way: [path, left], left the entries to do *)
  pc,
  stop,        (* stop_activity                                             *)
  status,      (* a failure is in status_message                            *)
  moved,       (* history: the files transferred or removed                 *)
  kept,        (* history: files not overwritten by mode or answer          *)
  unread,      (* history: directories whose listing was not theirs         *)
  partial      (* history: files transferred and directories listed in part *)
               (* by a call that did not fail                               *)

setup   == <<kind, client, mode, locked>>
trees   == <<dirs, files, dest>>
server  == <<cwd, connected>>
walk    == <<items, stack, pc, status>>
history == <<moved, kept, unread, partial>>
vars    == <<setup, trees, server, walk, stop, history>>

\* The client makes no difference to an upload.  Only the WebDAV client copies; its
\* downloads are those of SFTP, and it removes a folder with one request.
Init ==
  /\ kind \in {"download", "upload", "copy", "remove"}
  /\ client \in CASE kind = "upload" -> {"sftp"}
                  [] kind = "copy"   -> {"webdav"}
                  [] OTHER           -> {"ftp", "sftp", "smb", "nfs"}
  /\ mode \in IF kind = "remove" THEN {"all"} ELSE {"prompt", "none", "all"}
  /\ locked \in SUBSET Dirs
  /\ dirs = Dirs /\ files \in {Files, Files \ Hidden}
  /\ dest \in IF kind = "remove" THEN {{}} ELSE {{}, Files \ Hidden}
  /\ cwd = <<>> /\ connected = TRUE
  /\ items = Selection /\ stack = <<>> /\ pc = "next"
  /\ stop = FALSE /\ status = FALSE
  /\ moved = {} /\ kept = {} /\ unread = {} /\ partial = {}

Under(directory, p) == IsStrictPrefix(directory, p)

\* The files a listing shows: show_hidden_files is off; WebDAV does not look at it.
ShownFiles == IF client = "webdav" THEN files ELSE files \ Hidden

Children(directory) ==
  {p \in dirs \cup ShownFiles : Under(directory, p) /\ Len(p) = Len(directory) + 1}
-------------------------------------------------------------------------------
(* Results of the nested calls. *)

\* What the properties must not allow: the thread goes back to the loop of a
\* folder even if there is none.
SucceedToLoop(calls) ==
  /\ stack' = calls /\ pc' = "walk"
  /\ UNCHANGED status

\* A call returns 1: the caller, if there is one, goes on with its next entry.
Succeed(calls) ==
  /\ stack' = calls
  /\ pc' = IF calls = <<>> THEN "next" ELSE "walk"
  /\ UNCHANGED status

\* What the properties must not allow: a failure is not reported.
FailSilently ==
  /\ stack' = <<>> /\ pc' = "next"
  /\ UNCHANGED status

\* A call returns 0 and so does every caller; status_message is set.
Fail ==
  /\ stack' = <<>> /\ pc' = "next" /\ status' = TRUE

\* There is no room for another call.
StackOverflow ==
  /\ pc' = "crashed"
  /\ UNCHANGED <<stack, status>>
-------------------------------------------------------------------------------
(* ListDir. *)

UsesCwd == client = "ftp" /\ kind # "upload"

Enterable(path) == connected /\ path \in dirs \ locked

\* What the properties must not allow: the last name is cut off the path.
ListedParent(path) ==
  IF UsesCwd /\ ~Enterable(path) THEN cwd ELSE Front(path)

\* The FTP client sends CWD, ignores the reply, and has the current directory
\* listed; the other clients, and FS, open the path.
ListedDirectory(path) ==
  IF UsesCwd /\ ~Enterable(path) THEN cwd ELSE path

Readable(path) ==
  IF kind = "upload" THEN path \in dirs \ locked
  ELSE IF UsesCwd THEN connected
  ELSE Enterable(path)

\* What the properties must not allow: the entries keep the paths they have.
EntriesOfListed(path) ==
  {[path |-> p, dir |-> p \in dirs] : p \in Children(ListedDirectory(path))}

\* The entries of what was listed, with paths in the directory asked for.
Entries(path) ==
  {[path |-> Append(path, Last(p)), dir |-> p \in dirs] :
     p \in Children(ListedDirectory(path))}

\* A listing that is read entry by entry ends at an error as at its end.  The SMB
\* and NFS libraries have the whole of it before the first entry, a WebDAV server
\* sends it as one document.
MayBreakOff ==
  (kind = "upload" \/ client \in {"ftp", "sftp"}) /\ Cardinality(partial) < MaxPartial

\* A call of Download, Upload, CopyRemotePath or Rmdir for a folder, up to its
\* loop.  A listing that cannot be read is an empty one; the SMB client
\* says so, the others do not.  MkDirs can fail; the result of Mkdir is
\* not looked at.
EnterFolder(path, calls) ==
  /\ cwd' = IF UsesCwd THEN ListedDirectory(path) ELSE cwd
  /\ \E read \in {TRUE, FALSE} : \E left \in SUBSET Entries(path) :
       /\ read => Readable(path) /\ (MayBreakOff \/ left = Entries(path))
       /\ ~read => left = {}
       /\ unread' = IF read /\ ListedDirectory(path) = path THEN unread
                    ELSE unread \cup {path}
       /\ partial' = IF read /\ left # Entries(path) THEN partial \cup {path} ELSE partial
       /\ \/ /\ stack' = Append(calls, [path |-> path, left |-> left])
             /\ pc' = "walk"
             /\ status' = (status \/ (~read /\ client = "smb"))
          \/ /\ kind = "download"
             /\ Fail
-------------------------------------------------------------------------------
(* Single files. *)

\* DownloadFile asks for the size first, UploadFile pings; when that fails they
\* quit the connection.
FirstCommandFails ==
  /\ kind \in {"download", "upload"}
  /\ connected' = FALSE
  /\ Fail
  /\ UNCHANGED <<trees, moved, kept, partial>>

FirstCommandSucceeds(path) ==
  /\ kind \in {"download", "upload"} => connected
  /\ kind = "download" => path \in files

\* The destination is seen to exist.  FileExists of a remote client is FALSE
\* also when it could not find out.
Seen(path) ==
  IF kind = "download" THEN {(path \in dest)} ELSE {(path \in dest), FALSE}

KeepFile(path, calls) ==
  /\ FirstCommandSucceeds(path)
  /\ mode \in {"prompt", "none"} /\ TRUE \in Seen(path)
  /\ kept' = kept \cup {path}
  /\ Succeed(calls)
  /\ UNCHANGED <<trees, connected, moved, partial>>

\* Get, Put or Copy.  A transfer that fails leaves a damaged file behind, or
\* none; it counts as absent here.  Get and Put also return 1 for a file that is
\* not whole: SFTP, SMB and NFS take a read error, SFTP and SMB a failed write to
\* the server for the end of the file, NFS and WebDAV a read error of the local
\* one, and no client looks at what it could write to the local file.
TransferFile(path, calls) ==
  /\ FirstCommandSucceeds(path)
  /\ mode = "none" => FALSE \in Seen(path)
  /\ \/ /\ connected /\ path \in files
        /\ dest' = dest \cup {path} /\ moved' = moved \cup {path}
        /\ Succeed(calls)
        /\ UNCHANGED partial
     \/ /\ kind # "copy" /\ connected /\ path \in files
        /\ Cardinality(partial) < MaxPartial
        /\ dest' = dest \ {path} /\ partial' = partial \cup {path}
        /\ Succeed(calls)
        /\ UNCHANGED moved
     \/ /\ dest' = dest \ {path}
        /\ Fail
        /\ UNCHANGED <<moved, partial>>
  /\ UNCHANGED <<dirs, files, connected, kept>>

DeleteFile(path, calls) ==
  /\ kind = "remove"
  /\ \/ /\ connected /\ path \in files
        /\ files' = files \ {path} /\ moved' = moved \cup {path}
        /\ Succeed(calls)
     \/ /\ Fail
        /\ UNCHANGED <<files, moved>>
  /\ UNCHANGED <<dirs, dest, connected, kept, partial>>

DoFile(path, calls) ==
  \/ DeleteFile(path, calls)
  \/ kind # "remove" /\ FirstCommandFails
  \/ kind # "remove" /\ KeepFile(path, calls)
  \/ kind # "remove" /\ TransferFile(path, calls)
-------------------------------------------------------------------------------
(* The thread. *)

\* DeleteSelectedRemotesFilesThread pings first.
Ping ==
  /\ pc = "next" /\ items = Selection /\ kind = "remove" /\ ~connected
  /\ items' = <<>> /\ status' = TRUE
  /\ UNCHANGED <<setup, trees, server, stack, pc, stop, history>>

\* The loop of the thread.  A single file is deleted without a look at stop.
NextItem ==
  /\ pc = "next" /\ items # <<>>
  /\ items' = Tail(items)
  /\ LET path == Head(items)
     IN \/ /\ stop /\ (path \in Dirs \/ kind # "remove")
           /\ Succeed(<<>>)
           /\ UNCHANGED <<trees, server, history>>
        \/ /\ path \in Dirs /\ ~stop
           /\ EnterFolder(path, <<>>)
           /\ UNCHANGED <<trees, connected, moved, kept>>
        \/ /\ path \in Files /\ (stop => kind = "remove")
           /\ DoFile(path, <<>>)
           /\ UNCHANGED <<cwd, unread>>
  /\ UNCHANGED <<setup, stop>>

Top == Last(stack)

\* What the properties must not allow: the loop stays at the same entry.
TakeAgain(entry) == Top

Take(entry) == [Top EXCEPT !.left = @ \ {entry}]

\* One turn of the loop over the entries of a folder.  Download makes the folder
\* before the call that does so again; at MaxDepth its path has become too long.
DoEntry ==
  /\ pc = "walk" /\ ~stop
  /\ \E entry \in Top.left :
       LET calls == Append(Front(stack), Take(entry))
       IN \/ /\ entry.dir /\ kind = "download"
             /\ Fail
             /\ UNCHANGED <<trees, server, history>>
          \/ /\ entry.dir /\ Len(stack) = MaxDepth /\ kind # "download"
             /\ StackOverflow
             /\ UNCHANGED <<trees, server, history>>
          \/ /\ entry.dir /\ Len(stack) < MaxDepth
             /\ EnterFolder(entry.path, calls)
             /\ UNCHANGED <<trees, connected, moved, kept>>
          \/ /\ ~entry.dir
             /\ DoFile(entry.path, calls)
             /\ UNCHANGED <<cwd, unread>>
  /\ UNCHANGED <<setup, items, stop>>

StopFolder ==
  /\ pc = "walk" /\ stop /\ Top.left # {}
  /\ Succeed(Front(stack))
  /\ UNCHANGED <<setup, trees, server, items, stop, history>>

\* What the properties must not allow: no client looks at the result.
NotRemovedUnseen == Succeed(Front(stack))

\* The FTP and SFTP clients do not look at the result of removing the folder.
NotRemoved == IF client \in {"smb", "nfs"} THEN Fail ELSE Succeed(Front(stack))

\* The end of the loop.  Rmdir removes the folder, which the server does only
\* if it is empty.
LeaveFolder ==
  /\ pc = "walk" /\ Top.left = {}
  /\ \/ /\ kind # "remove"
        /\ Succeed(Front(stack))
        /\ UNCHANGED dirs
     \/ /\ kind = "remove" /\ connected /\ Top.path \in dirs
        /\ \A p \in dirs \cup files : ~Under(Top.path, p)
        /\ dirs' = dirs \ {Top.path}
        /\ Succeed(Front(stack))
     \/ /\ kind = "remove"
        /\ NotRemoved
        /\ UNCHANGED dirs
  /\ UNCHANGED <<setup, files, dest, server, items, stop, history>>

Finish ==
  /\ pc = "next" /\ items = <<>>
  /\ pc' = "done"
  /\ UNCHANGED <<setup, trees, server, items, stack, status, stop, history>>

Thread == Ping \/ NextItem \/ DoEntry \/ StopFolder \/ LeaveFolder \/ Finish

\* The user cancels; the connection breaks.
Cancel ==
  /\ pc \in {"next", "walk"} /\ ~stop
  /\ stop' = TRUE
  /\ UNCHANGED <<setup, trees, server, walk, history>>

Disconnect ==
  /\ pc \in {"next", "walk"} /\ connected
  /\ connected' = FALSE
  /\ UNCHANGED <<setup, trees, cwd, walk, stop, history>>

Next == Thread \/ Cancel \/ Disconnect

Spec == Init /\ [][Next]_vars

FairSpec == Spec /\ WF_vars(Thread)
-------------------------------------------------------------------------------
Frames == {stack[i] : i \in 1..Len(stack)}

InSelection(p) == \E i \in 1..Len(Selection) : IsPrefix(Selection[i], p)

\* The types, and that nested calls are those of a chain of folders, each an
\* entry of the one before (the recursion of Download, Upload, Rmdir).
TypeOK ==
  /\ kind \in {"download", "upload", "copy", "remove"}
  /\ client \in {"ftp", "sftp", "smb", "nfs", "webdav"} /\ mode \in {"prompt", "none", "all"}
  /\ locked \subseteq Dirs /\ dirs \subseteq Dirs /\ files \subseteq Files /\ dest \subseteq Files
  /\ cwd \in Dirs \cup {<<>>} /\ connected \in BOOLEAN
  /\ IsSuffix(items, Selection)
  /\ pc \in {"next", "walk", "done", "crashed"} /\ (pc = "walk" => stack # <<>>)
  /\ \A i \in 1..Len(stack) :
       /\ \A entry \in stack[i].left : Front(entry.path) = stack[i].path
       /\ i > 1 => Front(stack[i].path) = stack[i - 1].path
  /\ stop \in BOOLEAN /\ status \in BOOLEAN
  /\ moved \subseteq Files /\ kept \subseteq Files

\* A thread that ends without a stop and without a message has dealt with every
\* file selected, or below a selected folder: only hidden files, files it was
\* told to keep, files of folders whose listing failed or broke off, and files whose
\* own Get or Put returned 1 without having all of them are passed over.  The walk
\* itself loses sight of none, and never passes over what a call returned as a failure
\* (Download, Upload, CopyRemotePath, Rmdir).
CompleteUnlessReported ==
  pc = "done" /\ ~stop /\ ~status =>
    \A f \in Files :
      InSelection(f) =>
        \/ f \in moved \cup kept \cup partial
        \/ f \in Hidden \ ShownFiles
        \/ \E directory \in unread \cup partial : Under(directory, f)

\* Whatever a server lists, files outside the selection are neither removed nor
\* transferred, and a removed folder was one of the selection (the hidden files
\* may not have been there; moved has those that were removed).
OnlySelection ==
  /\ \A p \in moved \cup kept \cup partial : InSelection(p)
  /\ \A p \in (Dirs \cup Files) \ (dirs \cup files \cup Hidden) : InSelection(p)

\* With the SMB and NFS clients a folder that is still there after a removal is
\* reported.
FolderGoneUnlessReported ==
  pc = "done" /\ kind = "remove" /\ client \in {"smb", "nfs"} /\ ~stop /\ ~status =>
    \A i \in 1..Len(Selection) : Selection[i] \notin dirs

\* A walk leaves the tree only below a folder that the FTP server refused to enter.
AstrayOnlyBelowLocked ==
  \A frame \in Frames :
    frame.path \notin Dirs =>
      UsesCwd /\ \E directory \in unread : Under(directory, frame.path)

\* Every walk ends; only one that goes astray can use up the stack.
WalkEnds ==
  <>(pc = "done" \/ (pc = "crashed" /\ UsesCwd /\ unread # {}))
===============================================================================
