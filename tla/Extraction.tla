------------------------------- MODULE Extraction -------------------------------
(***************************************************************************)
(* Extracting archives: the threads of actions.cpp, the loops of           *)
(* zip_util.cpp over the entries of an archive and the data of an entry,   *)
(* and the callbacks by which libarchive reads an archive on a server.     *)
(* libarchive itself decides when to read, skip and seek; it follows its   *)
(* position by what the callbacks return.                                  *)
(***************************************************************************)
EXTENDS Integers

CONSTANTS
  MaxItems,     (* bound: the selected archives                              *)
  MaxEntries,   (* bound: the entries of an archive                          *)
  ArchiveSizes, (* bound: sizes of archives, in units of what a skip loses   *)
  Transfer      (* ARCHIVE_TRANSFER_SIZE in these units                      *)

ASSUME ExtractionAssumption ==
  /\ MaxItems \in Nat /\ MaxEntries \in Nat
  /\ ArchiveSizes \subseteq Nat
  /\ Transfer \in Nat \ {0}

VARIABLES
  pc,
  remote,         (* is it ExtractRemoteZipThread?                           *)
  files,          (* the selected archives that are left                     *)
  entries,        (* the entries of the archive that are left                *)
  status_message,
  stop_activity,
  real,           (* the size of the archive on the server                   *)
  data,           (* RemoteArchiveData: size and offset                      *)
  position,       (* where libarchive believes to be                         *)
  last,           (* history: the last read                                  *)
  shifted,        (* history: has it skipped since it last sought?           *)
  misread,        (* history: has it got other bytes than it asked for?      *)
  lost            (* history: why entries have not been extracted            *)

thread  == <<pc, remote, files, entries, status_message, lost>>
archive == <<real, data, position, last, shifted, misread>>
extractionVars == <<thread, stop_activity, archive>>

NoRead == [at |-> 0, from |-> 0, n |-> 0]

ExtractionInit ==
  /\ pc = "archive"
  /\ remote \in BOOLEAN
  /\ files \in 1..MaxItems
  /\ entries = 0
  /\ status_message = FALSE
  /\ stop_activity = FALSE
  /\ real = 0
  /\ data = [size |-> 0, offset |-> 0]
  /\ position = 0
  /\ last = NoRead
  /\ shifted = FALSE
  /\ misread = {}
  /\ lost = {}

\* The user clicks Cancel.
Cancel ==
  /\ pc # "done"
  /\ ~stop_activity
  /\ stop_activity' = TRUE
  /\ UNCHANGED <<thread, archive>>

-------------------------------------------------------------------------------
(* The thread and Extract.                                                 *)

Lost(why, m) ==
  /\ lost' = lost \cup {why}
  /\ status_message' = (status_message \/ m)

\* Extract returns 0: a message, and the next archive, or the end for local ones.
ExtractFails(why) ==
  /\ Lost(why, TRUE)
  /\ files' = files - 1
  /\ entries' = 0
  /\ pc' = IF remote THEN "archive" ELSE "done"
  /\ UNCHANGED remote

\* The next archive.  The size of one on a server may not be known: it then has
\* no bytes, which libarchive takes for an archive without entries.
OpenArchive ==
  /\ pc = "archive" /\ files > 0 /\ ~stop_activity
  /\ \/ /\ \E n \in 0..MaxEntries, size \in ArchiveSizes, known \in BOOLEAN :
             /\ known \/ remote
             /\ entries' = IF known THEN n ELSE 0
             /\ real' = size
             /\ data' = [size |-> IF known THEN size ELSE 0, offset |-> 0]
             /\ lost' = lost \cup {why \in {"no size"} : ~known /\ n > 0}
        /\ pc' = "header"
        /\ position' = 0
        /\ last' = NoRead
        /\ shifted' = FALSE
        /\ misread' = {}
        /\ UNCHANGED <<remote, files, status_message>>
     \/ /\ ExtractFails("open")
        /\ UNCHANGED archive
  /\ UNCHANGED stop_activity

\* All archives are done, or the user has cancelled.
Finish ==
  /\ pc = "archive"
  /\ files = 0 \/ stop_activity
  /\ pc' = "done"
  /\ UNCHANGED <<remote, files, entries, status_message, lost, stop_activity, archive>>

\* The last entry, or Cancel, ends Extract with 1.
ExtractReturns ==
  /\ pc = "header"
  /\ entries = 0 \/ stop_activity
  /\ pc' = "archive"
  /\ files' = files - 1
  /\ entries' = 0
  /\ UNCHANGED <<remote, status_message, lost, stop_activity, archive>>

\* A header that cannot be read, a name that is refused, a folder that cannot be made.
EntryFails ==
  /\ pc = "header" /\ ~stop_activity
  /\ entries > 0 \/ data.size > 0
  /\ \E why \in {"header", "name", "folder"} : ExtractFails(why)
  /\ UNCHANGED <<stop_activity, archive>>

\* The header of a file; that of a folder or a link is all there is to it.
NextHeader ==
  /\ pc = "header" /\ entries > 0 /\ ~stop_activity
  /\ entries' = entries - 1
  /\ pc' \in {"header", "data"}
  /\ UNCHANGED <<remote, files, status_message, lost, stop_activity, archive>>

\* Headers that are not read where they are may look like the end.
EndMisread ==
  /\ pc = "header" /\ entries > 0 /\ misread # {}
  /\ entries' = 0
  /\ Lost("misread", FALSE)
  /\ UNCHANGED <<pc, remote, files, stop_activity, archive>>

\* What the properties must not allow: a failed entry without its message.
EntryLostSilently(why) == Lost(why, FALSE)

\* extract_file says what it could not do, and Extract goes on with the next entry.
EntryLost(why) == Lost(why, TRUE)

\* A link or a file that cannot be made, data that cannot be read or written.
DataFails ==
  /\ pc = "data"
  /\ pc' = "header"
  /\ \E why \in {"create", "read", "write"} : EntryLost(why)
  /\ UNCHANGED <<remote, files, entries, stop_activity, archive>>

\* The data are written.  Nobody checks close, and not every format its data.
DataEnds ==
  /\ pc = "data"
  /\ pc' = "header"
  /\ lost' \in {lost, lost \cup {"close"}, lost \cup {why \in {"misread"} : misread # {}}}
  /\ UNCHANGED <<remote, files, entries, status_message, stop_activity, archive>>

ExtractionThread ==
  \/ OpenArchive \/ Finish \/ ExtractReturns
  \/ EntryFails \/ NextHeader \/ EndMisread \/ DataFails \/ DataEnds

-------------------------------------------------------------------------------
(* The callbacks for an archive on a server.                               *)

\* An archive of size 0 has ended for libarchive with the first read.
Callback ==
  /\ data.size > 0
  /\ pc \in {"header", "data"} /\ remote
  /\ UNCHANGED <<pc, remote, files, entries, status_message, lost, stop_activity, real>>

\* What the properties must not allow: the offset stays where it is.
AdvancedNot(n) == data

\* data->offset + to_read
Advanced(n) == [data EXCEPT !.offset = @ + n]

\* ReadRemoteArchive: at most a buffer, and -1 (EntryFails) when GetRange fails.
\* FtpClient::GetRange does not say that it has read less.
ReadRemoteArchive ==
  LET n == IF data.size - data.offset < Transfer THEN data.size - data.offset ELSE Transfer IN
  /\ Callback
  /\ n > 0
  /\ last' = [at |-> position, from |-> data.offset, n |-> n]
  /\ data' = Advanced(n)
  /\ position' = position + n
  /\ LET wrong == misread \cup {m \in {"shifted"} : position # data.offset} IN
       misread' \in {wrong, wrong \cup {"short answer"}}
  /\ UNCHANGED shifted

\* An offset behind the end makes the number of bytes to read negative: what the
\* clients make of it is undefined, and the model ends.
ReadBehindEnd ==
  /\ pc \in {"header", "data"} /\ remote
  /\ data.offset > data.size
  /\ pc' = "undefined"
  /\ UNCHANGED <<remote, files, entries, status_message, lost, stop_activity, archive>>

\* SkipRemoteArchive goes one byte less than it says.  The header of an archive
\* that was cut off leads behind its end (bound: by a buffer).
SkipRemoteArchive ==
  /\ Callback
  /\ \E request \in 1..(real + Transfer - position) :
       /\ data' = [data EXCEPT !.offset = @ + request - 1]
       /\ position' = position + request
  /\ shifted' = TRUE
  /\ UNCHANGED <<last, misread>>

\* SeekRemoteArchive: libarchive believes the offset it returns, which for the end
\* is that of the last byte.  It turns SEEK_CUR into SEEK_SET by itself.
SeekRemoteArchive ==
  /\ Callback
  /\ \E offset \in (0..real) \cup {data.size - 1} :
       /\ data' = [data EXCEPT !.offset = offset]
       /\ position' = offset
  /\ shifted' = FALSE
  /\ UNCHANGED <<last, misread>>

ExtractionNext ==
  \/ Cancel \/ ExtractionThread
  \/ ReadRemoteArchive \/ ReadBehindEnd \/ SkipRemoteArchive \/ SeekRemoteArchive

ExtractionSpec == ExtractionInit /\ [][ExtractionNext]_extractionVars

-------------------------------------------------------------------------------
(* Properties.                                                             *)

\* Extractions that end without a message and without Cancel have extracted every
\* entry, except for an archive whose size could not be asked (it passes for an
\* empty one), bytes read from the wrong place, and a file that failed to close.
ExtractedUnlessReported ==
  pc = "done" /\ ~status_message /\ ~stop_activity =>
    lost \subseteq {"no size", "misread", "close"}

\* libarchive gets the bytes of its position, unless it has skipped since it last
\* sought: each skip shifts what follows by a byte.  It never gets bytes behind
\* those of the archive.
MisreadExplained ==
  /\ position # data.offset => shifted
  /\ "shifted" \in misread \/ last.from = last.at
  /\ last.from + last.n <= real
===============================================================================
