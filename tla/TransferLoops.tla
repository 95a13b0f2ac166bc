----------------------------- MODULE TransferLoops -----------------------------
(***************************************************************************)
(* The loops that move the bytes of one file: FS::Copy and FS::Move        *)
(* (fs.cpp) and the Get and Put of the SFTP, SMB, NFS and HTTP clients.    *)
(* Each checks other results and ends on another condition, but all keep   *)
(* their progress in the globals bytes_to_download and bytes_transfered,   *)
(* and FS::Copy takes these for its loop condition.  The native operation  *)
(* and the handlers of the web server run such loops at the same time.     *)
(*                                                                         *)
(* A file is a sequence of pieces, a piece being named by its position.    *)
(***************************************************************************)
EXTENDS Integers, Sequences

CONSTANTS
  Actors,    (* threads that move a file: the native operation, web handlers *)
  Offered,   (* actor -> the loops it may run                                *)
  Buffer,    (* pieces in the buffer of a loop                               *)
  Sizes      (* bound: the sizes of the files                                *)

Copies == {"FS::Copy", "FS::Move"}
Gets   == {"SFTPClient::Get", "SmbClient::Get", "NfsClient::Get", "BaseClient::Get"}
Puts   == {"SFTPClient::Put", "SmbClient::Put", "NfsClient::Put", "WebDAVClient::Put"}

ASSUME LoopsAssumption ==
  /\ Offered \in [Actors -> SUBSET (Copies \cup Gets \cup Puts)]
  /\ Buffer \in Nat \ {0}
  /\ Sizes \subseteq Nat

VARIABLES
  op,                  (* actor -> its operation, a record as Idle           *)
  bytes_to_download,
  bytes_transfered

vars == <<op, bytes_to_download, bytes_transfered>>

OLD  == -1   \* a piece of what was at the destination before
PAGE == -2   \* the page of an HTTP error

\* The pieces from a up to b.
Slice(a, b) == [i \in 1..(IF a < b THEN b - a ELSE 0) |-> a + i - 1]

Least(a, b) == IF a < b THEN a ELSE b

Idle == [pc |-> "idle", kind |-> "none", size |-> 0, source |-> 0, taken |-> 0,
         chunk |-> <<>>, dest |-> <<>>, at |-> 0, count |-> 0, register |-> 0,
         result |-> 0, mishaps |-> {}]

Init ==
  /\ op = [a \in Actors |-> Idle]
  /\ bytes_to_download = 0
  /\ bytes_transfered = 0

\* The record of actor a becomes r.
Becomes(a, r) == op' = [op EXCEPT ![a] = r]

\* ... while it writes a counter: the loops of the others are disturbed.
Disturbed(r) ==
  IF r.kind \in Copies /\ r.pc \notin {"idle", "done"}
  THEN [r EXCEPT !.mishaps = @ \cup {"counter"}] ELSE r

BecomesCounting(a, r) == op' = [b \in Actors |-> IF b = a THEN r ELSE Disturbed(op[b])]

Mishap(r, m) == [r EXCEPT !.mishaps = @ \cup {m}]

\* The loop returns; its locals are gone.
Returned(r, result) ==
  [r EXCEPT !.pc = "done", !.result = result, !.chunk = <<>>, !.at = 0, !.taken = 0,
            !.count = 0, !.register = 0]

-------------------------------------------------------------------------------
(* Before the loop.                                                        *)

\* A file of some size is to be moved.  What is at its destination matters to
\* NfsClient::Put: the others begin with an empty file.
Start(a) ==
  /\ op[a].pc = "idle"
  /\ \E kind \in Offered[a], n, old \in Sizes \cup {0} :
       /\ old > 0 => kind = "NfsClient::Put"
       /\ Becomes(a, [Idle EXCEPT !.pc = "announce", !.kind = kind, !.size = n, !.source = n,
                                  !.dest = [i \in 1..old |-> OLD]])
  /\ UNCHANGED <<bytes_to_download, bytes_transfered>>

\* bytes_to_download is set from the size of the file.
Announce(a) ==
  /\ op[a].pc = "announce"
  /\ bytes_to_download' = op[a].size
  /\ BecomesCounting(a, [op[a] EXCEPT !.pc = "open"])
  /\ UNCHANGED bytes_transfered

\* Both files are opened and bytes_transfered is reset.  nfs_open keeps the old
\* file: O_TRUNC is not among its flags.
Open(a) ==
  LET r == [op[a] EXCEPT !.pc = "read"] IN
  /\ op[a].pc = "open"
  /\ BecomesCounting(a, IF Len(r.dest) > r.size THEN Mishap(r, "old_tail") ELSE r)
  /\ bytes_transfered' = 0
  /\ UNCHANGED bytes_to_download

\* A file does not open, or its size is not known.  BaseClient::Get does not look
\* at its stream, and WebDAVClient::Put not at its file: reading from that is
\* undefined.
OpenFails(a) ==
  LET r == Mishap(op[a], "open") IN
  /\ \/ /\ r.kind # "WebDAVClient::Put"
        /\ r.pc = "announce" \/ (r.pc = "open" /\ r.kind # "BaseClient::Get")
        /\ Becomes(a, Returned(r, 0))
        /\ UNCHANGED bytes_transfered
     \/ /\ r.pc = "open" /\ r.kind = "BaseClient::Get"
        /\ BecomesCounting(a, [r EXCEPT !.pc = "read"])
        /\ bytes_transfered' = 0
     \/ /\ r.pc = "open" /\ r.kind = "WebDAVClient::Put"
        /\ BecomesCounting(a, [r EXCEPT !.pc = "undefined"])
        /\ bytes_transfered' = 0
  /\ UNCHANGED bytes_to_download

\* Somebody else writes or truncates the local file that is to be read.
SourceChanges(a) ==
  /\ op[a].pc = "read"
  /\ op[a].kind \in Copies \cup {"WebDAVClient::Put"}
  /\ "changed" \notin op[a].mishaps
  /\ \E n \in Sizes \ {op[a].source} :
       Becomes(a, Mishap([op[a] EXCEPT !.source = n], "changed"))
  /\ UNCHANGED <<bytes_to_download, bytes_transfered>>

-------------------------------------------------------------------------------
(* The loop.                                                               *)

\* The loops that do not end at the end of the source.
CountingLoops == Copies \cup {"WebDAVClient::Put"}

\* A local file is read up to a full buffer, a remote one up to what has arrived.
Amounts(r) ==
  LET most == Least(Buffer, IF r.taken < r.source THEN r.source - r.taken ELSE 0) IN
  IF r.kind \in Gets THEN {n \in 0..most : n = 0 => most = 0}
  ELSE IF r.kind = "WebDAVClient::Put" THEN {Least(most, r.size)} ELSE {most}

\* n pieces are read, or none and the source is at its end.
Took(r, n) ==
  [r EXCEPT !.chunk = Slice(r.taken, r.taken + n), !.taken = @ + n, !.count = n,
            !.pc = IF n > 0 \/ r.kind \in CountingLoops THEN "write" ELSE "end"]

\* WebDAVClient::Put tests bytes_remaining first.
NothingRemains(r) == r.kind = "WebDAVClient::Put" /\ r.taken = r.size

Read(a) ==
  /\ op[a].pc = "read"
  /\ IF NothingRemains(op[a]) THEN Becomes(a, [op[a] EXCEPT !.pc = "end"])
     ELSE \E n \in Amounts(op[a]) : Becomes(a, Took(op[a], n))
  /\ UNCHANGED <<bytes_to_download, bytes_transfered>>

\* A read fails.  fread says 0, so FS::Copy and WebDAVClient::Put go on; the
\* others take it for the end, except BaseClient::Get.
ReadFails(a) ==
  LET r == Mishap(op[a], "read") IN
  /\ r.pc = "read"
  /\ ~NothingRemains(r)
  /\ Becomes(a, IF r.kind = "BaseClient::Get" THEN Returned(r, 0) ELSE Took(r, 0))
  /\ UNCHANGED <<bytes_to_download, bytes_transfered>>

\* The web server answers with an error page, or a body of unknown length ends
\* early: a success for BaseClient::Get.
BadAnswer(a) ==
  /\ op[a].pc = "read"
  /\ op[a].kind = "BaseClient::Get"
  /\ \/ /\ op[a].taken = 0 /\ "open" \notin op[a].mishaps
        /\ Becomes(a, Mishap([op[a] EXCEPT !.pc = "end", !.dest = <<PAGE>>], "status"))
     \/ Becomes(a, Mishap([op[a] EXCEPT !.pc = "end"], "early_end"))
  /\ UNCHANGED <<bytes_to_download, bytes_transfered>>

\* The destination after n pieces of the chunk have been written at the file's offset.
Written(r, n) ==
  [i \in 1..(IF r.at + n < Len(r.dest) THEN Len(r.dest) ELSE r.at + n) |->
     IF r.at < i /\ i <= r.at + n THEN r.chunk[i - r.at] ELSE r.dest[i]]

Wrote(r, n) == [r EXCEPT !.dest = Written(r, n), !.at = @ + n, !.chunk = <<>>, !.pc = "add"]

\* All of the chunk is written; nothing is when BaseClient::Get has no file.
Write(a) ==
  /\ op[a].pc = "write"
  /\ Becomes(a, Wrote(op[a], IF "open" \in op[a].mishaps THEN 0 ELSE Len(op[a].chunk)))
  /\ UNCHANGED <<bytes_to_download, bytes_transfered>>

\* A part of the chunk is written.  SFTPClient::Put goes on with the rest.
WriteRest(a) ==
  /\ op[a].pc = "write"
  /\ op[a].kind = "SFTPClient::Put"
  /\ \E n \in 1..Len(op[a].chunk) - 1 :
       Becomes(a, [Wrote(op[a], n) EXCEPT !.count = n,
                                          !.chunk = SubSeq(op[a].chunk, n + 1, Len(op[a].chunk))])
  /\ UNCHANGED <<bytes_to_download, bytes_transfered>>

\* What the properties must not allow: FS::Copy goes on after a short write.
WroteShortUnseen(r, n) == Mishap(Wrote(r, n), "short_write")

\* A part of the chunk is written, and the rest is lost.  Only FS::Copy compares.
WroteShort(r, n) ==
  LET rest == Mishap(Wrote(r, n), "short_write") IN
  IF r.kind \in Copies THEN Returned(rest, 0) ELSE rest

ShortWrite(a) ==
  /\ op[a].pc = "write"
  /\ op[a].kind \notin {"SFTPClient::Put", "WebDAVClient::Put"}
  /\ \E n \in 1..Len(op[a].chunk) - 1 : Becomes(a, WroteShort(op[a], n))
  /\ UNCHANGED <<bytes_to_download, bytes_transfered>>

\* Nothing of the chunk is written: reported by FS::Copy and NfsClient::Put, the
\* end of the loop for SFTPClient::Put, unnoticed by the others.
WriteFails(a) ==
  LET r == Mishap(op[a], "failed_write") IN
  /\ r.pc = "write"
  /\ r.chunk # <<>>
  /\ Becomes(a, IF r.kind \in Copies \cup {"NfsClient::Put"} THEN Returned(r, 0)
                ELSE IF r.kind = "SFTPClient::Put" THEN [r EXCEPT !.pc = "end"]
                ELSE Wrote(r, 0))
  /\ UNCHANGED <<bytes_to_download, bytes_transfered>>

\* bytes_transfered += count, which is a load ...  (The Gets add before they write
\* to the file, which the loops of others cannot tell.)
Load(a) ==
  /\ op[a].pc = "add"
  /\ Becomes(a, [op[a] EXCEPT !.pc = "store", !.register = bytes_transfered + op[a].count])
  /\ UNCHANGED <<bytes_to_download, bytes_transfered>>

\* ... and a store.
Store(a) ==
  /\ op[a].pc = "store"
  /\ bytes_transfered' = op[a].register
  /\ BecomesCounting(a,
       [op[a] EXCEPT !.count = 0, !.register = IF op[a].kind \in Copies THEN @ ELSE 0,
                     !.pc = IF op[a].kind \in Copies THEN "test"
                            ELSE IF op[a].chunk # <<>> THEN "write" ELSE "read"])
  /\ UNCHANGED bytes_to_download

\* What the properties must not allow: FS::Copy reads on when it has everything.
GoesOnAtEnd(transfered) == transfered <= bytes_to_download

\* while (bytes_transfered < bytes_to_download)
GoesOn(transfered) == transfered < bytes_to_download

\* The value tested is the one stored or one loaded anew.
Test(a) ==
  /\ op[a].pc = "test"
  /\ \E transfered \in {op[a].register, bytes_transfered} :
       Becomes(a, [op[a] EXCEPT !.pc = IF GoesOn(transfered) THEN "read" ELSE "end",
                                !.register = 0])
  /\ UNCHANGED <<bytes_to_download, bytes_transfered>>

\* The files are closed.  The result of fclose, which writes what is still in
\* the stream's buffer, is not looked at.  FS::Move removes its source.
End(a) ==
  LET r == op[a] IN
  /\ r.pc = "end"
  /\ \/ Becomes(a, Returned(r, 1))
     \/ /\ r.kind \in Copies \cup Gets
        /\ r.dest # <<>>
        /\ Becomes(a, Mishap(Returned([r EXCEPT !.dest = SubSeq(@, 1, Len(@) - 1)], 1), "close"))
  /\ r.kind = "WebDAVClient::Put" => "failed_write" \notin r.mishaps
  /\ UNCHANGED <<bytes_to_download, bytes_transfered>>

\* The WebDAV server answers with an error, or the connection is broken.
PutRefused(a) ==
  /\ op[a].pc = "end"
  /\ op[a].kind = "WebDAVClient::Put"
  /\ Becomes(a, Mishap(Returned(op[a], 0), "status"))
  /\ UNCHANGED <<bytes_to_download, bytes_transfered>>

Loop(a) ==
  \/ Read(a) \/ ReadFails(a) \/ BadAnswer(a)
  \/ Write(a) \/ WriteRest(a) \/ ShortWrite(a) \/ WriteFails(a)
  \/ Load(a) \/ Store(a) \/ Test(a)
  \/ End(a) \/ PutRefused(a)

Thread(a) == Announce(a) \/ Open(a) \/ OpenFails(a) \/ Loop(a)

Next == \E a \in Actors : Start(a) \/ SourceChanges(a) \/ Thread(a)

Spec == Init /\ [][Next]_vars

\* The threads run, and no server keeps one waiting for good.
FairSpec == Spec /\ \A a \in Actors : WF_vars(Thread(a))

-------------------------------------------------------------------------------
(* Properties.                                                             *)

\* The failures a loop answers with success, although the file is not complete.
Hidden(kind) ==
  CASE kind \in Copies -> {"counter", "changed", "close"}
    [] kind \in Gets \ {"BaseClient::Get"} -> {"read", "short_write", "failed_write", "close"}
    [] kind = "BaseClient::Get" ->
         {"open", "status", "early_end", "short_write", "failed_write", "close"}
    [] kind = "SFTPClient::Put" -> {"read", "failed_write"}
    [] kind = "SmbClient::Put" -> {"read", "short_write", "failed_write"}
    [] kind = "NfsClient::Put" -> {"read", "short_write", "old_tail"}
    [] kind = "WebDAVClient::Put" -> {"changed"}

Whole(r) == r.dest = Slice(0, r.size)

\* A loop that returns success has moved the whole file, unless one of the
\* failures it does not look at has happened; and it fails only for a reason.
\* So FS::Move loses its source only when another operation has written the
\* counters (fs.cpp:620), the source changed or fclose failed.
ResultExplained ==
  \A a \in Actors : LET r == op[a] IN
    r.pc = "done" =>
      /\ r.result = 1 /\ ~Whole(r) => r.mishaps \cap Hidden(r.kind) # {}
      /\ r.result = 0 => r.mishaps # {}

\* The failures that can keep a loop running for good.
Endless(kind) ==
  CASE kind \in Copies -> {"read", "changed", "counter"}
    [] kind = "WebDAVClient::Put" -> {"read", "changed"}
    [] OTHER -> {}

\* Every loop ends, unless it is one of those that count to a size and cannot
\* reach it any more: an unreadable or shortened source, for FS::Copy also the
\* counters of another operation.
LoopEnds ==
  \A a \in Actors :
    []<>(\/ op[a].pc \in {"idle", "done", "undefined"}
         \/ op[a].mishaps \cap Endless(op[a].kind) # {})

===============================================================================
