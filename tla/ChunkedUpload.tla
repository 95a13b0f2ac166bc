------------------------------ MODULE ChunkedUpload ------------------------------
(***************************************************************************)
(* Uploading one file to the embedded web server in chunks: the handlers   *)
(* of http_server.cpp and the upload of the page's ng-file-upload.min.js,  *)
(* which asks how much of the file is there, sends the rest a chunk at a   *)
(* time, and stops at the first error.  The user may try again.            *)
(*                                                                         *)
(* The file is a sequence of pieces, a piece being named by its position;  *)
(* what was stored under the name before is made of OLD pieces.  When a    *)
(* request is cut off, its handler goes on with what had been sent, while  *)
(* the page may already ask again.                                         *)
(***************************************************************************)
EXTENDS Integers, Sequences

CONSTANTS
  ChunkSize,    (* pieces in a chunk, 10 MiB in the page's settings         *)
  MaxSize,      (* bound: the largest file                                  *)
  MaxOld,       (* bound: the largest file already stored under its name    *)
  MaxAttempts,  (* bound: how often the user uploads it                     *)
  Faults        (* may requests be cut off, and files not open or fill?     *)

ASSUME UploadAssumption ==
  /\ ChunkSize \in Nat \ {0}
  /\ MaxSize \in Nat /\ MaxOld \in Nat /\ MaxAttempts \in Nat \ {0}
  /\ Faults \in BOOLEAN

VARIABLES
  size,         (* the size of the file the user uploads                    *)
  old,          (* the size of what was stored before                       *)
  page,         (* what the page is doing                                   *)
  start,        (* config._start: the first piece of the chunk              *)
  end,          (* config._end                                              *)
  finished,     (* config._finished: the chunk is the last                  *)
  attempts,
  handler,      (* slot -> a request the server is working on               *)
  stored,       (* the pieces stored under the file's name                  *)
  mishaps       (* history: what has gone wrong                             *)

upload == <<page, start, end, finished, attempts>>
vars   == <<size, old, upload, handler, stored, mishaps>>

OLD  == -1
HOLE == -2

\* A request that was cut off, and the one after it.
Slots == {1, 2}

Least(a, b) == IF a < b THEN a ELSE b

\* The pieces from a up to b.
Slice(a, b) == [i \in 1..(IF a < b THEN b - a ELSE 0) |-> a + i - 1]

Whole == Slice(0, size)
OldFile(n) == [i \in 1..n |-> OLD]

Free == [state |-> "free", mode |-> "none", next |-> 0, to |-> 0, at |-> 0, awaited |-> FALSE]

Init ==
  /\ size \in 0..MaxSize
  /\ old \in 0..MaxOld
  /\ page = "idle"
  /\ start = 0
  /\ end = 0
  /\ finished = FALSE
  /\ attempts = 0
  /\ handler = [s \in Slots |-> Free]
  /\ stored = OldFile(old)
  /\ mishaps = {}

Late == {s \in Slots : handler[s].state # "free" /\ ~handler[s].awaited}

-------------------------------------------------------------------------------
(* The page.                                                               *)

\* The user drops the file on the page, or tries again.
Upload ==
  /\ page \in {"idle", "done", "failed"}
  /\ attempts < MaxAttempts
  /\ attempts' = attempts + 1
  /\ page' = "ask"
  /\ finished' = FALSE
  /\ UNCHANGED <<size, old, start, end, handler, stored, mishaps>>

\* GET uploadResumeSize.
AskSize ==
  /\ page = "ask"
  /\ start' = Len(stored)
  /\ end' = start' + ChunkSize
  /\ page' = "post"
  /\ mishaps' = mishaps
       \cup {m \in {"first_chunk"} : 0 < start' /\ start' < ChunkSize}
       \cup {m \in {"overlap"} : Late # {}}
  /\ UNCHANGED <<size, old, finished, attempts, handler, stored>>

AskFails ==
  /\ page = "ask" /\ Faults
  /\ page' = "failed"
  /\ UNCHANGED <<size, old, start, end, finished, attempts, handler, stored, mishaps>>

\* What the properties must not allow: the chunks are counted from 1.
ModeFromOne(first) == IF (first \div ChunkSize) <= 1 THEN "w" ELSE "a"

\* What the properties must not allow: all chunks are appended.
ModeAppend(first) == "a"

\* fopen(..., "w") for chunk 0, "a" for the others.
Mode(first) == IF first \div ChunkSize = 0 THEN "w" ELSE "a"

\* What the properties must not allow: the last piece is taken for none.
LastAtOneLess == end + 1 >= size

\* The chunk is the last one.
Last == end >= size

\* What is sent of the file from first on: nothing when last is not behind it.
SentUpTo(first, last) == IF first < last THEN last ELSE first

\* The chunk is taken from the file and sent.
Post ==
  /\ page = "post"
  /\ finished' = Last
  /\ end' = Least(end, size)
  /\ page' = "wait"
  /\ \E s \in Slots :
       /\ handler[s] = Free
       /\ handler' = [handler EXCEPT ![s] =
            [state |-> "sent", mode |-> Mode(start), next |-> start,
             to |-> SentUpTo(start, end'), at |-> 0, awaited |-> TRUE]]
  /\ mishaps' = mishaps \cup {m \in {"overlap"} : Late # {}}
  /\ UNCHANGED <<size, old, start, attempts, stored>>

\* The page goes on behind the chunk that was answered.
NextChunk ==
  /\ start' = end
  /\ end' = end + ChunkSize

-------------------------------------------------------------------------------
(* The server.                                                             *)

\* The head of the file's part is there: the file is opened, or is not.
Open(s) ==
  /\ handler[s].state = "sent"
  /\ \/ /\ handler' = [handler EXCEPT ![s].state = "open"]
        /\ stored' = IF handler[s].mode = "w" THEN <<>> ELSE stored
        /\ UNCHANGED mishaps
     \/ /\ Faults
        /\ handler' = [handler EXCEPT ![s].state = "open", ![s].mode = "none"]
        /\ mishaps' = mishaps \cup {"lost_write"}
        /\ UNCHANGED stored
  /\ UNCHANGED <<size, old, upload>>

\* fwrite at the offset of the stream, or at the end of the file.
Written(h) ==
  IF h.mode = "a" THEN Append(stored, h.next)
  ELSE [i \in 1..(IF h.at < Len(stored) THEN Len(stored) ELSE h.at + 1) |->
          IF i = h.at + 1 THEN h.next ELSE IF i <= Len(stored) THEN stored[i] ELSE HOLE]

\* The next piece arrives.  A write that fails goes unnoticed.
Receive(s) ==
  LET h == handler[s] IN
  /\ h.state = "open"
  /\ h.next < h.to
  /\ \/ /\ h.mode # "none"
        /\ stored' = Written(h)
        /\ handler' = [handler EXCEPT ![s].next = @ + 1, ![s].at = @ + 1]
        /\ UNCHANGED mishaps
     \/ /\ h.mode = "none" \/ Faults
        /\ handler' = [handler EXCEPT ![s].next = @ + 1]
        /\ mishaps' = mishaps \cup {"lost_write"}
        /\ UNCHANGED stored
  /\ UNCHANGED <<size, old, upload>>

\* The body has ended: success, whatever happened, and the next chunk.
Reply(s) ==
  /\ handler[s].state = "open"
  /\ handler[s].next = handler[s].to
  /\ handler' = [handler EXCEPT ![s] = Free]
  /\ IF handler[s].awaited
     THEN IF finished THEN page' = "done" /\ UNCHANGED <<start, end>>
                      ELSE page' = "post" /\ NextChunk
     ELSE UNCHANGED <<page, start, end>>
  /\ UNCHANGED <<size, old, finished, attempts, stored, mishaps>>

\* The request is cut off.  Its head has arrived or never does; a part of the
\* body is still on its way.
Cut(s) ==
  /\ Faults
  /\ handler[s].awaited
  /\ page' = "failed"
  /\ \/ /\ handler[s].state = "sent"
        /\ handler' = [handler EXCEPT ![s] = Free]
     \/ \E last \in handler[s].next..handler[s].to :
          handler' = [handler EXCEPT ![s].awaited = FALSE, ![s].to = last]
  /\ UNCHANGED <<size, old, start, end, finished, attempts, stored, mishaps>>

Server == \E s \in Slots : Open(s) \/ Receive(s) \/ Reply(s) \/ Cut(s)

Next == Upload \/ AskSize \/ AskFails \/ Post \/ Server

Spec == Init /\ [][Next]_vars

-------------------------------------------------------------------------------
(* Properties.                                                             *)

Mishaps == {"first_chunk", "overlap", "lost_write"}

Request == [state : {"free", "sent", "open"}, mode : {"none", "w", "a"}, next : Nat, to : Nat,
            at : Nat, awaited : BOOLEAN]

TypeOK ==
  /\ size \in Nat /\ old \in Nat
  /\ page \in {"idle", "ask", "post", "wait", "done", "failed"}
  /\ start \in Nat /\ end \in Nat
  /\ finished \in BOOLEAN
  /\ attempts \in 0..MaxAttempts
  /\ handler \in [Slots -> Request]
  /\ \A s \in Slots : handler[s].next <= handler[s].to
  /\ stored \in Seq(Nat \cup {OLD, HOLE})
  /\ mishaps \subseteq Mishaps

\* Without an older file, and as long as no attempt has been resumed inside the
\* first chunk, no write was lost and no handler of an earlier attempt was still
\* at work, what is stored is a beginning of the file: any number of requests may
\* be cut off and resumed.  When the page says it is done, it is the whole file.
PrefixKept ==
  old = 0 /\ mishaps = {} =>
    /\ Len(stored) <= size /\ stored = Slice(0, Len(stored))
    /\ page = "done" => stored = Whole

\* What one undisturbed attempt makes of an older file: up to its size the upload
\* takes the old file for a part of the new one.  It keeps these pieces when they
\* fill a chunk and loses them when they do not (http_server.cpp:803).
OldFileResult ==
  page = "done" /\ attempts = 1 /\ "lost_write" \notin mishaps =>
    stored = IF old < ChunkSize THEN Slice(old, size) ELSE OldFile(old) \o Slice(old, size)

===============================================================================
