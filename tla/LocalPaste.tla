------------------------------ MODULE LocalPaste ------------------------------
(***************************************************************************)
(* Copying and moving directory trees on the local file system: the paste  *)
(* thread of the native interface and the /__local__/move handler of the   *)
(* web server, which share the recursive walk CopyOrMove (actions.cpp,     *)
(* http_server.cpp) over FS::Copy, FS::Move and FS::RmRecursive (fs.cpp).  *)
(*                                                                         *)
(* The destination path of an entry mirrors its source path, so the two    *)
(* trees are two functions on the entries.  A move transfers what a        *)
(* listing shows and then removes the whole source folder: whether that is *)
(* safe depends on what every step of the walk returned.                   *)
(***************************************************************************)
EXTENDS Naturals, Sequences, FiniteSets

CONSTANTS
  Entries,    (* the files, folders and links of the source trees            *)
  Selection,  (* the entries that were selected, in order                    *)
  Parent,     (* the folder of each other entry                              *)
  Above,      (* each entry and all the folders it lies in                   *)
  Kind,       (* "file", "folder" or "link": a link to a folder              *)
  Hidden,     (* the entries that ListDir leaves out                         *)
  Handlers    (* "copy", "move": the paste threads; "web": the web server's move *)

Roots == {Selection[i] : i \in DOMAIN Selection}

Children(d) == {e \in Entries \ Roots : Parent[e] = d}

\* An entry is selected once, and the entries are trees below the selected ones.
ASSUME LocalPasteAssumption ==
  /\ Selection \in Seq(Entries \ Hidden)
  /\ Selection # <<>>
  /\ \A i, j \in DOMAIN Selection : Selection[i] = Selection[j] => i = j
  /\ Parent \in [Entries \ Roots -> Entries]
  /\ Above \in [Entries -> SUBSET Entries]
  /\ \A e \in Roots : Above[e] = {e}
  /\ \A e \in Entries \ Roots :
       Above[e] = {e} \cup Above[Parent[e]] /\ e \notin Above[Parent[e]]
  /\ \A e \in Entries : \A a \in Above[e] :
       /\ Above[a] \subseteq Above[e]
       /\ a # e => \E c \in Children(a) : c \in Above[e]
  /\ \A e \in Entries : \E r \in Roots : r \in Above[e]
  /\ Kind \in [Entries -> {"file", "folder", "link"}]
  /\ \A e \in Entries \ Roots : Kind[Parent[e]] = "folder"
  /\ Handlers \subseteq {"copy", "move", "web"}

VARIABLES
  source,           (* entry -> is it still at its source?                     *)
  dest,             (* entry -> what its destination path holds                *)
  handler,
  overwrite_type,
  stop_activity,
  pc,
  items,            (* the selected entries not begun yet                      *)
  item,             (* the selected entry under way                            *)
  frames,           (* the folders being walked, innermost last: [todo: the
                       listed entries not handled yet]                         *)
  entry,            (* the entry the innermost call works on                   *)
  result,           (* what CopyOrMove of the item returned                    *)
  status_message,   (* has a failure been reported?                            *)
  declined,         (* history: the entries the user or the mode kept from
                       being overwritten                                       *)
  accepted,         (* history: the entry the user has just let be overwritten *)
  stopped,          (* history: has stop_activity been set during the walk?    *)
  unread,           (* history: the folders that could not be listed           *)
  cut               (* history: the entries whose copy was taken for whole and
                       was not                                                 *)

trees == <<source, dest>>
setup == <<handler, overwrite_type>>
stops == <<stop_activity, stopped>>
walk == <<items, item, frames, entry, result>>
notes == <<status_message, declined, accepted, unread, cut>>
vars == <<trees, setup, stops, pc, walk, notes>>

Steps == {"items", "enter", "walk", "file", "poll", "transfer", "copy", "returned",
          "remove", "done"}
Held == {"absent", "other file", "other folder", "folder", "part", "copy"}

Listed(d) == {e \in Children(d) : source[e] /\ e \notin Hidden}

\* What can be at the destination before: nothing below what is not a folder.
\* Nobody looks at the destination of a hidden entry.
Before(there) ==
  /\ \A e \in Entries \ Roots : there[Parent[e]] # "other folder" => there[e] = "absent"
  /\ \A e \in Hidden : there[e] = "absent"

Init ==
  /\ source = [e \in Entries |-> TRUE]
  /\ dest \in {there \in [Entries -> {"absent", "other file", "other folder"}] : Before(there)}
  /\ handler \in Handlers
  /\ overwrite_type \in IF handler = "web" THEN {"ALL"} ELSE {"NONE", "PROMPT", "ALL"}
  /\ stop_activity \in IF handler = "web" THEN BOOLEAN ELSE {FALSE}
  /\ pc = "items"
  /\ items = Selection
  /\ item = Selection[1]
  /\ frames = <<>>
  /\ entry = item
  /\ result = 1
  /\ status_message = FALSE
  /\ declined = {}
  /\ accepted = {}
  /\ stopped = stop_activity
  /\ unread = {}
  /\ cut = {}

-------------------------------------------------------------------------------
(* The thread's loop over the selected entries.                            *)

NextItem ==
  /\ pc = "items"
  /\ items # <<>>
  /\ handler = "web" \/ ~stop_activity
  /\ items' = Tail(items)
  /\ item' = Head(items)
  /\ entry' = Head(items)
  /\ pc' = "enter"
  /\ UNCHANGED <<trees, setup, stops, frames, result, notes>>

Finish ==
  /\ pc = "items"
  /\ items = <<>> \/ (handler # "web" /\ stop_activity)
  /\ pc' = "done"
  /\ UNCHANGED <<trees, setup, stops, walk, notes>>

-------------------------------------------------------------------------------
(* CopyOrMove.  A call inside a folder that does not fail goes on with the *)
(* folder; a failure (0) ends the calls of all folders at once.            *)

Return(r) ==
  /\ entry' = item
  /\ IF r # 0 /\ frames # <<>>
     THEN pc' = "walk" /\ UNCHANGED <<frames, result>>
     ELSE pc' = "returned" /\ frames' = <<>> /\ result' = r

\* The first test of CopyOrMove.
EnterStopped ==
  /\ pc = "enter"
  /\ stop_activity
  /\ Return(1)
  /\ UNCHANGED <<trees, setup, stops, items, item, notes>>

EnterFile ==
  /\ pc = "enter"
  /\ ~stop_activity
  /\ Kind[entry] # "folder"
  /\ pc' = "file"
  /\ UNCHANGED <<trees, setup, stops, walk, notes>>

\* "cannot copy directory over file", or the folder cannot be created.
EnterFolderFails ==
  /\ pc = "enter"
  /\ ~stop_activity
  /\ Kind[entry] = "folder"
  /\ dest[entry] \in {"absent", "other file"}
  /\ status_message' = TRUE
  /\ Return(0)
  /\ UNCHANGED <<trees, setup, stops, items, item, declined, accepted, unread, cut>>

\* ListDir returns an empty list when it cannot open the folder; its error code
\* is not looked at.
EnterFolder ==
  /\ pc = "enter"
  /\ ~stop_activity
  /\ Kind[entry] = "folder"
  /\ dest[entry] # "other file"
  /\ dest' = [dest EXCEPT ![entry] = IF @ = "absent" THEN "folder" ELSE @]
  /\ \/ frames' = Append(frames, Listed(entry)) /\ UNCHANGED unread
     \/ frames' = Append(frames, {}) /\ unread' = unread \cup {entry}
  /\ entry' = item
  /\ pc' = "walk"
  /\ UNCHANGED <<source, setup, stops, items, item, result,
                 status_message, declined, accepted, cut>>

Innermost == frames[Len(frames)]
Left(todo) == [frames EXCEPT ![Len(frames)] = todo]

\* The end of a folder's list returns 1, a stop returns 2; both let the folder
\* above go on.
LeaveFolder ==
  /\ pc = "walk"
  /\ Innermost = {} \/ stop_activity
  /\ frames' = SubSeq(frames, 1, Len(frames) - 1)
  /\ IF Len(frames) > 1
     THEN pc' = "walk" /\ UNCHANGED result
     ELSE pc' = "returned" /\ result' = IF Innermost = {} THEN 1 ELSE 2
  /\ UNCHANGED <<trees, setup, stops, items, item, entry, notes>>

WalkFile(e) ==
  /\ pc = "walk"
  /\ e \in Innermost
  /\ ~stop_activity
  /\ Kind[e] = "file"
  /\ frames' = Left(Innermost \ {e})
  /\ entry' = e
  /\ pc' = "file"
  /\ UNCHANGED <<trees, setup, stops, items, item, result, notes>>

\* A folder, or a link to one, is created at the destination before the call;
\* whatever exists there already counts as created.
WalkFolder(e) ==
  /\ pc = "walk"
  /\ e \in Innermost
  /\ ~stop_activity
  /\ Kind[e] # "file"
  /\ dest' = [dest EXCEPT ![e] = IF @ = "absent" THEN "folder" ELSE @]
  /\ frames' = Left(Innermost \ {e})
  /\ entry' = e
  /\ pc' = "enter"
  /\ UNCHANGED <<source, setup, stops, items, item, result, notes>>

WalkFolderFails(e) ==
  /\ pc = "walk"
  /\ e \in Innermost
  /\ ~stop_activity
  /\ Kind[e] # "file"
  /\ dest[e] = "absent"
  /\ status_message' = TRUE
  /\ Return(0)
  /\ UNCHANGED <<trees, setup, stops, items, item, declined, accepted, unread, cut>>

-------------------------------------------------------------------------------
(* CopyOrMoveLocalFile.                                                    *)

\* Its result in CopyOrMove: 0 is a failure of a file, but for a link the test
\* is the other way round.
FileReturns(r) ==
  LET failed == IF Kind[entry] = "link" THEN r # 0 ELSE r = 0
  IN  /\ status_message' = (status_message \/ failed)
      /\ accepted' = {}
      /\ Return(IF failed THEN 0 ELSE 1)

FileThere == dest[entry] = "other file"
FolderThere == dest[entry] \in {"other folder", "folder"}

Prompt ==
  /\ pc = "file"
  /\ overwrite_type = "PROMPT"
  /\ FileThere
  /\ pc' = "poll"
  /\ UNCHANGED <<trees, setup, stops, walk, notes>>

\* MUTANT of DontOverwrite: "do not overwrite" is taken as a Yes.
OverwriteAnyway ==
  /\ pc = "file"
  /\ overwrite_type = "NONE"
  /\ FileThere
  /\ pc' = "transfer"
  /\ UNCHANGED <<trees, setup, stops, walk, notes>>

DontOverwrite ==
  /\ pc = "file"
  /\ overwrite_type = "NONE"
  /\ FileThere
  /\ declined' = declined \cup {entry}
  /\ FileReturns(1)
  /\ UNCHANGED <<trees, setup, stops, items, item, unread, cut>>

\* "cannot copy file to folder"
FileOverFolder ==
  /\ pc = "file"
  /\ FolderThere
  /\ FileReturns(0)
  /\ UNCHANGED <<trees, setup, stops, items, item, declined, unread, cut>>

MayTransfer ==
  /\ pc = "file"
  /\ ~FolderThere
  /\ FileThere => overwrite_type = "ALL"
  /\ pc' = "transfer"
  /\ UNCHANGED <<trees, setup, stops, walk, notes>>

AnswerYes ==
  /\ pc = "poll"
  /\ accepted' = accepted \cup {entry}
  /\ pc' = "transfer"
  /\ UNCHANGED <<trees, setup, stops, walk, status_message, declined, unread, cut>>

AnswerNo ==
  /\ pc = "poll"
  /\ declined' = declined \cup {entry}
  /\ FileReturns(1)
  /\ UNCHANGED <<trees, setup, stops, items, item, unread, cut>>

-------------------------------------------------------------------------------
(* FS::Move and FS::Copy.                                                  *)

Rename ==
  /\ pc = "transfer"
  /\ handler # "copy"
  /\ source' = [source EXCEPT ![entry] = FALSE]
  /\ dest' = [dest EXCEPT ![entry] = "copy"]
  /\ FileReturns(1)
  /\ UNCHANGED <<setup, stops, items, item, declined, unread, cut>>

\* The rename fails, or the copy fails before it touches the destination.
TransferFails ==
  /\ pc = "transfer"
  /\ FileReturns(0)
  /\ UNCHANGED <<trees, setup, stops, items, item, declined, unread, cut>>

\* A copy, also for a move to another device, first clears the destination.
BeginCopy ==
  /\ pc = "transfer"
  /\ dest' = [dest EXCEPT ![entry] = IF Kind[entry] = "link" THEN "absent" ELSE "part"]
  /\ pc' = "copy"
  /\ UNCHANGED <<source, setup, stops, walk, notes>>

\* A move then removes the source and does not look at whether it could.
EndCopy ==
  /\ pc = "copy"
  /\ dest' = [dest EXCEPT ![entry] = "copy"]
  /\ \/ UNCHANGED source
     \/ handler # "copy" /\ source' = [source EXCEPT ![entry] = FALSE]
  /\ FileReturns(1)
  /\ UNCHANGED <<setup, stops, items, item, declined, unread, cut>>

\* The copy returns success for an entry that is not whole: fclose fails with the
\* end of the file still in its buffer, or the loop ends by the byte counters, which
\* another operation writes as well; for what lstat calls a link (an entry that
\* counts as a file may be one) readlink fails before anything is touched.
CopiesNotWhole(at) ==
  /\ pc = at
  /\ Kind[entry] = "link" => at = "transfer"
  /\ cut' = cut \cup {entry}
  /\ \/ UNCHANGED source
     \/ handler # "copy" /\ source' = [source EXCEPT ![entry] = FALSE]
  /\ FileReturns(1)
  /\ UNCHANGED <<dest, setup, stops, items, item, declined, unread>>

CopyCut == CopiesNotWhole("copy")
ReadlinkFails == CopiesNotWhole("transfer")

CopyReturns(r) ==
  /\ pc = "copy"
  /\ FileReturns(r)
  /\ UNCHANGED <<trees, setup, stops, items, item, declined, unread, cut>>

\* MUTANT of CopyFails: a failed write is taken for the end of the file.
CopyCutShort == CopyReturns(1)

CopyFails == CopyReturns(0)

-------------------------------------------------------------------------------
(* After CopyOrMove of a selected entry.                                   *)

ItemDone(failure, stop) ==
  /\ pc = "returned"
  /\ pc' = IF handler = "copy" \/ (Kind[item] = "file") THEN "items"
           ELSE IF handler = "move" /\ (failure \/ stop) THEN "done"
           ELSE IF handler = "move" /\ Kind[item] = "link" THEN "items"
           ELSE IF handler = "web" /\ failure THEN "items"
           ELSE "remove"
  /\ status_message' = (status_message \/ (handler = "web" /\ failure))
  /\ result' = 1
  /\ UNCHANGED <<trees, setup, stops, items, item, frames, entry, declined, accepted, unread, cut>>

\* MUTANT of Returned: the result of the walk is not looked at.
ReturnedAnyway == ItemDone(FALSE, stop_activity)

\* The paste of a folder by a move stops at a failure or a stop; the web server
\* goes on with the next entry after a failure and does not look for a stop.
Returned == ItemDone(result = 0, stop_activity)

\* FS::RmRecursive removes whatever is there, in the order of readdir.
Remove(e) ==
  /\ pc = "remove"
  /\ ~stop_activity
  /\ source[e]
  /\ item \in Above[e]
  /\ \A c \in Children(e) : ~source[c]
  /\ source' = [source EXCEPT ![e] = FALSE]
  /\ UNCHANGED <<dest, setup, stops, pc, walk, notes>>

RemoveEnds ==
  /\ pc = "remove"
  /\ ~source[item] \/ stop_activity
  /\ pc' = "items"
  /\ UNCHANGED <<trees, setup, stops, walk, notes>>

RemoveFails ==
  /\ pc = "remove"
  /\ source[item]
  /\ status_message' = TRUE
  /\ pc' = "items"
  /\ UNCHANGED <<trees, setup, stops, walk, declined, accepted, unread, cut>>

Thread ==
  \/ NextItem \/ Finish
  \/ EnterStopped \/ EnterFile \/ EnterFolderFails \/ EnterFolder
  \/ LeaveFolder
  \/ \E e \in Entries : WalkFile(e) \/ WalkFolder(e) \/ WalkFolderFails(e)
  \/ Prompt \/ DontOverwrite \/ FileOverFolder \/ MayTransfer
  \/ Rename \/ TransferFails \/ BeginCopy \/ EndCopy \/ CopyFails
  \/ CopyCut \/ ReadlinkFails
  \/ Returned
  \/ \E e \in Entries : Remove(e)
  \/ RemoveEnds \/ RemoveFails

\* The user answers the question.
User == AnswerYes \/ AnswerNo

\* The Cancel button of the progress dialog.  For the web server it belongs to
\* another operation of the native interface, whose next launch resets it.
Cancel ==
  /\ pc # "done"
  /\ ~stop_activity
  /\ stop_activity' = TRUE
  /\ stopped' = TRUE
  /\ UNCHANGED <<trees, setup, pc, walk, notes>>

Relaunch ==
  /\ pc # "done"
  /\ handler = "web"
  /\ stop_activity
  /\ stop_activity' = FALSE
  /\ UNCHANGED <<trees, setup, stopped, pc, walk, notes>>

Next == Thread \/ User \/ Cancel \/ Relaunch

Spec == Init /\ [][Next]_vars

-------------------------------------------------------------------------------
(* Properties.                                                             *)

\* The walk's own data: it works on entries of the item under way, and only
\* inside folders.
TypeOK ==
  /\ source \in [Entries -> BOOLEAN]
  /\ dest \in [Entries -> Held]
  /\ handler \in Handlers
  /\ overwrite_type \in {"NONE", "PROMPT", "ALL"}
  /\ stop_activity \in BOOLEAN
  /\ stopped \in BOOLEAN
  /\ pc \in Steps
  /\ items \in Seq(Roots)
  /\ item \in Roots
  /\ frames \in Seq(SUBSET (Entries \ Roots))
  /\ pc = "walk" => frames # <<>>
  /\ pc = "returned" => frames = <<>>
  /\ entry \in Entries
  /\ result \in {0, 1, 2}
  /\ status_message \in BOOLEAN
  /\ declined \subseteq Entries
  /\ accepted \subseteq Entries
  /\ unread \subseteq Entries
  /\ cut \subseteq Entries

\* The walk does not see a hidden entry, nor anything in a folder that could not
\* be listed.
Unlisted(e) == \E a \in Above[e] : a \in Hidden \/ (a # e /\ a \in unread)

\* The content of a file or the target of a link is at neither place any more.
Lost(e) == Kind[e] # "folder" /\ ~source[e] /\ dest[e] # "copy"

\* A move loses a file in no other case than these: the user declined to
\* overwrite its destination, the walk did not see it, its own copy to another device
\* was taken for whole though FS::Copy had not written all of it (an ignored fclose or
\* readlink, a counter changed by another operation), it is a link (inside a folder, or
\* moved by the web server over a folder), or the web server's walk was stopped on
\* behalf of someone else.  No failure that a call returns and no Cancel of the paste
\* itself ever loses one, and a copy that is not whole loses no file but its own.
LossExplained ==
  \A e \in Entries :
    Lost(e) => \/ e \in declined
               \/ Unlisted(e)
               \/ e \in cut
               \/ Kind[e] = "link" /\ (e \notin Roots \/ handler = "web")
               \/ handler = "web" /\ stopped

\* A finished copy or move without a reported failure has transferred every
\* listed file, whichever calls of the walk failed in between, but for the files whose
\* own copy FS::Copy took for whole: whatever a call returns as a failure is reported.
CompleteUnlessReported ==
  pc = "done" /\ ~status_message /\ ~stopped =>
    \A e \in Entries :
      Kind[e] = "file" /\ ~Unlisted(e) /\ e \notin declined \cup cut => dest[e] = "copy"

\* A file that was at the destination before is overwritten only if the mode
\* says so or the user agreed, and a folder there is never replaced.
OthersKept ==
  [][\A e \in Entries :
       /\ dest[e] = "other file" /\ dest'[e] # "other file" =>
            overwrite_type = "ALL" \/ e \in accepted
       /\ dest[e] \in {"folder", "other folder"} => dest'[e] = dest[e]]_vars
===============================================================================
