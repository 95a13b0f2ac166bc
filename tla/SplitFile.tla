------------------------------- MODULE SplitFile ------------------------------
(***************************************************************************)
(* A download spooled through a chain of block files (split_file.cpp): a   *)
(* transfer thread calls Write and at the end Close, another thread calls  *)
(* Read with growing offsets.  The reader waits on a counting semaphore    *)
(* that is posted once for each block pushed, and deletes the blocks that  *)
(* lie more than two blocks behind the start of its read.                  *)
(*                                                                         *)
(* Blocks are numbered from 0 as in the code; file_blocks[k + 1] is block  *)
(* k.  The bytes are represented by their positions in the download: a     *)
(* block knows the position of its first byte, which the code never        *)
(* stores.  Vector operations are atomic here (they are not in C++).       *)
(***************************************************************************)
EXTENDS Integers, Sequences

CONSTANTS
  BlockSize,   (* block_size                                               *)
  MaxLength,   (* bound: the longest download                              *)
  MaxWrite,    (* bound: the largest buffer passed to Write                *)
  MaxRead      (* bound: the largest buffer passed to Read                 *)

ASSUME SplitFileAssumption ==
  /\ BlockSize \in Nat \ {0}
  /\ MaxLength \in Nat
  /\ MaxWrite \in Nat \ {0}
  /\ MaxRead \in Nat \ {0}

VARIABLES
  file_blocks,        (* the blocks pushed, in order                          *)
  in_progress,        (* the block being written: [start, size]               *)
  complete,
  block_ready,        (* the value of the semaphore                           *)
  wpc,                (* the step Write or Close is at                        *)
  to_write,           (* remaining_to_write of the Write under way            *)
  rpc,                (* the step Read is at                                  *)
  offset,             (* the arguments and locals of the Read under way       *)
  remaining,
  block_num,
  block_offset,
  total,              (* total_bytes_read                                     *)
  result,             (* what the last Read returned, [at, size] (size -1 for
                         an error), until the next is called               *)
  reached,            (* history: the end of the furthest read                *)
  front               (* history: the furthest block a read has started in    *)

WriterSteps == {"idle", "write", "push", "post", "complete", "wake", "closed"}
ReaderSteps == {"idle", "check", "sleep", "fetch", "read", "more", "sleep_more", "delete"}

writer == <<wpc, to_write>>
reader == <<rpc, offset, remaining, block_num, block_offset, total, result, reached, front>>
vars == <<file_blocks, in_progress, complete, block_ready, writer, reader>>

NewBlock(position) == [start |-> position, size |-> 0]

Pushed(block, last) ==
  [start |-> block.start, size |-> block.size, is_last |-> last, status |-> "CREATED"]

None == [at |-> 0, size |-> 0]

Smaller(a, b) == IF a <= b THEN a ELSE b
Larger(a, b)  == IF a >= b THEN a ELSE b

\* The position behind the last byte stored.
Stored == in_progress.start + in_progress.size

\* Open
Init ==
  /\ file_blocks = <<>>
  /\ in_progress = NewBlock(0)
  /\ complete = FALSE
  /\ block_ready = 0
  /\ wpc = "idle"
  /\ to_write = 0
  /\ rpc = "idle"
  /\ offset = 0
  /\ remaining = 0
  /\ block_num = 0
  /\ block_offset = 0
  /\ total = 0
  /\ result = None
  /\ reached = 0
  /\ front = 0

-------------------------------------------------------------------------------
(* The transfer thread.                                                    *)

Write(n) ==
  /\ wpc = "idle"
  /\ ~complete
  /\ Stored + n <= MaxLength
  /\ wpc' = "write"
  /\ to_write' = n
  /\ UNCHANGED <<file_blocks, in_progress, complete, block_ready, reader>>

FillUpTo(limit) ==
  /\ wpc = "write"
  /\ LET n == Smaller(to_write, limit - in_progress.size)
     IN  /\ in_progress' = [in_progress EXCEPT !.size = @ + n]
         /\ to_write' = to_write - n
         /\ wpc' = IF in_progress.size + n = BlockSize THEN "push"
                   ELSE IF to_write = n THEN "idle" ELSE "write"
  /\ UNCHANGED <<file_blocks, complete, block_ready, reader>>

\* MUTANT of Fill: the space left in the block is off by one.
FillPastBlock == FillUpTo(BlockSize + 1)

\* One fwrite to the current block; a full block is to be pushed.
Fill == FillUpTo(BlockSize)

\* A short fwrite ends Write; no caller looks at the number it returns.
FillShort ==
  /\ wpc = "write"
  /\ \E n \in 0..Smaller(to_write, BlockSize - in_progress.size) - 1 :
       in_progress' = [in_progress EXCEPT !.size = @ + n]
  /\ to_write' = 0
  /\ wpc' = "idle"
  /\ UNCHANGED <<file_blocks, complete, block_ready, reader>>

Push ==
  /\ wpc = "push"
  /\ file_blocks' = Append(file_blocks, Pushed(in_progress, FALSE))
  /\ in_progress' = NewBlock(Stored)
  /\ wpc' = "post"
  /\ UNCHANGED <<complete, block_ready, to_write, reader>>

Post ==
  /\ wpc = "post"
  /\ block_ready' = block_ready + 1
  /\ wpc' = IF to_write = 0 THEN "idle" ELSE "write"
  /\ UNCHANGED <<file_blocks, in_progress, complete, to_write, reader>>

\* Close pushes the last block, possibly an empty one, ...
Close ==
  /\ wpc = "idle"
  /\ ~complete
  /\ file_blocks' = Append(file_blocks, Pushed(in_progress, TRUE))
  /\ wpc' = "complete"
  /\ UNCHANGED <<in_progress, complete, block_ready, to_write, reader>>

\* ... declares the file complete ...
Complete ==
  /\ wpc = "complete"
  /\ complete' = TRUE
  /\ wpc' = "wake"
  /\ UNCHANGED <<file_blocks, in_progress, block_ready, to_write, reader>>

WakeBy(posts) ==
  /\ wpc = "wake"
  /\ block_ready' = block_ready + posts
  /\ wpc' = "closed"
  /\ UNCHANGED <<file_blocks, in_progress, complete, to_write, reader>>

\* MUTANT of Wake: the semaphore is not posted.
WakeNobody == WakeBy(0)

\* ... and wakes the reader.
Wake == WakeBy(1)

Writer ==
  \/ \E n \in 1..MaxWrite : Write(n)
  \/ Fill \/ FillShort \/ Push \/ Post
  \/ Close \/ Complete \/ Wake

-------------------------------------------------------------------------------
(* The reading thread.                                                     *)

Block(k) == file_blocks[k + 1]

\* "keeping only current block and 2 previous blocks" (split_file.cpp:130):
\* the position from which reads can still be served.
Oldest == IF front > 2 THEN (front - 2) * BlockSize ELSE 0

Read(n, at) ==
  /\ rpc = "idle"
  /\ rpc' = "check"
  /\ offset' = at
  /\ remaining' = n
  /\ block_num' = at \div BlockSize
  /\ block_offset' = at % BlockSize
  /\ total' = 0
  /\ result' = None
  /\ UNCHANGED <<file_blocks, in_progress, complete, block_ready, writer, reached, front>>

\* The condition of both waits, at the start of Read ("check") and at each
\* further block ("more").
MustWait == block_num >= Len(file_blocks) /\ ~complete

Check(from, sleep, go) ==
  /\ rpc = from
  /\ rpc' = IF MustWait THEN sleep ELSE go
  /\ UNCHANGED <<file_blocks, in_progress, complete, block_ready, writer,
                 offset, remaining, block_num, block_offset, total, result, reached, front>>

\* sem_wait
Sleep(from, again) ==
  /\ rpc = from
  /\ block_ready > 0
  /\ block_ready' = block_ready - 1
  /\ rpc' = again
  /\ UNCHANGED <<file_blocks, in_progress, complete, writer,
                 offset, remaining, block_num, block_offset, total, result, reached, front>>

\* The locals of the call are gone.
Return(size) ==
  /\ result' = [at |-> offset, size |-> size]
  /\ rpc' = "idle"
  /\ offset' = 0
  /\ remaining' = 0
  /\ block_num' = 0
  /\ block_offset' = 0
  /\ total' = 0

Locals == <<offset, remaining, block_num, block_offset, total>>

\* The first block: an error if it was deleted, nothing if the offset lies
\* behind its end.  block->size - 1 of an empty block is the largest size_t.
Fetch ==
  /\ rpc = "fetch"
  /\ block_num < Len(file_blocks)
  /\ \/ /\ Block(block_num).status = "DELETED"
        /\ Return(-1)
     \/ /\ Block(block_num).status # "DELETED"
        /\ complete
        /\ Block(block_num).size > 0
        /\ block_offset > Block(block_num).size - 1
        /\ Return(0)
     \/ /\ Block(block_num).status # "DELETED"
        /\ ~(complete /\ Block(block_num).size > 0 /\ block_offset > Block(block_num).size - 1)
        /\ rpc' = "read"
        /\ UNCHANGED <<result, Locals>>
  /\ UNCHANGED <<file_blocks, in_progress, complete, block_ready, writer, reached, front>>

\* What fread returns from the current block.
Available ==
  LET b == Block(block_num)
  IN  IF b.size > block_offset THEN Smaller(remaining, b.size - block_offset) ELSE 0

FinishWhen(last) ==
  /\ rpc = "read"
  /\ last
  /\ total' = total + Available
  /\ remaining' = remaining - Available
  /\ rpc' = "delete"
  /\ UNCHANGED <<file_blocks, in_progress, complete, block_ready, writer,
                 offset, block_num, block_offset, result, reached, front>>

\* MUTANT of ReadLast: the end of any block ends the read.
ReadToBlockEnd == FinishWhen(TRUE)

\* The request is satisfied from this block, or this is the last block.
ReadLast == FinishWhen(Available = remaining \/ Block(block_num).is_last)

ContinueAt(position) ==
  /\ rpc = "read"
  /\ Available < remaining
  /\ ~Block(block_num).is_last
  /\ total' = total + Available
  /\ remaining' = remaining - Available
  /\ block_num' = block_num + 1
  /\ block_offset' = position
  /\ rpc' = "more"
  /\ UNCHANGED <<file_blocks, in_progress, complete, block_ready, writer,
                 offset, result, reached, front>>

\* MUTANT of ReadOn: block_offset is not reset.
ReadOnAtOffset == ContinueAt(block_offset)

\* The rest of the request is in the blocks that follow.
ReadOn == ContinueAt(0)

\* Deletes the blocks before block k and returns.
DeleteBefore(k) ==
  /\ rpc = "delete"
  /\ file_blocks' =
       [i \in DOMAIN file_blocks |->
          IF i - 1 < k THEN [file_blocks[i] EXCEPT !.status = "DELETED"] ELSE file_blocks[i]]
  /\ Return(total)
  /\ reached' = Larger(offset + total, reached)
  /\ front' = Larger(offset \div BlockSize, front)
  /\ UNCHANGED <<in_progress, complete, block_ready, writer>>

\* MUTANT of Delete: counts back from the last block read, not the first.
DeleteFromLast == DeleteBefore(block_num - 2)

\* The blocks more than two before the first block of this read.
Delete == DeleteBefore(offset \div BlockSize - 2)

Reader ==
  \/ \E n \in 1..MaxRead, at \in 0..reached : Read(n, at)
  \/ Check("check", "sleep", "fetch") \/ Sleep("sleep", "check")
  \/ Fetch
  \/ ReadLast \/ ReadOn
  \/ Check("more", "sleep_more", "read") \/ Sleep("sleep_more", "more")
  \/ Delete

-------------------------------------------------------------------------------
Next == Writer \/ Reader

Spec == Init /\ [][Next]_vars

\* Both threads run.  The transfer ends at some time, by its end or by an error,
\* and its caller then closes the file.
Fairness ==
  /\ WF_vars(Fill \/ Push \/ Post \/ Complete \/ Wake)
  /\ SF_vars(Close)
  /\ WF_vars(\/ Check("check", "sleep", "fetch") \/ Sleep("sleep", "check")
             \/ Fetch \/ ReadLast \/ ReadOn
             \/ Check("more", "sleep_more", "read") \/ Sleep("sleep_more", "more")
             \/ Delete)

FairSpec == Spec /\ Fairness

-------------------------------------------------------------------------------
(* Properties.                                                             *)

Blocks == [start : Nat, size : 0..BlockSize, is_last : BOOLEAN,
           status : {"CREATED", "DELETED"}]

\* The shared data and the locals of both threads are of their types, and a
\* block never holds more than block_size bytes.
TypeOK ==
  /\ file_blocks \in Seq(Blocks)
  /\ in_progress \in [start : Nat, size : 0..BlockSize]
  /\ complete \in BOOLEAN
  /\ block_ready \in Nat
  /\ wpc \in WriterSteps
  /\ to_write \in 0..MaxWrite
  /\ rpc \in ReaderSteps
  /\ offset \in Nat
  /\ remaining \in 0..MaxRead
  /\ block_num \in Nat
  /\ block_offset \in 0..BlockSize - 1
  /\ total \in 0..MaxRead
  /\ result \in [at : Nat, size : -1..MaxRead]
  /\ reached \in Nat
  /\ front \in Nat

\* The reader never indexes file_blocks behind its end: neither wait lets it go
\* on without its block, although each reads the size and complete separately
\* from the push.  What it takes from a block continues what it has read: the
\* block at index k holds the bytes k * block_size onwards, however Write cut them.
InOrder ==
  /\ rpc \in {"fetch", "read"} => block_num < Len(file_blocks)
  /\ rpc = "read" => Block(block_num).start + block_offset = offset + total

\* A read that starts in the current block or the two before it meets no deleted
\* block, at its start or further on (split_file.cpp:130), whichever blocks the
\* reads before it have deleted.
WindowKept ==
  rpc \in {"fetch", "read"} /\ offset >= Oldest => Block(block_num).status = "CREATED"

\* A read always returns: no interleaving of the push, the post and complete
\* leaves the reader asleep for good.
ReadReturns == rpc = "check" ~> rpc = "idle"

\* SplitFile implements the byte stream: the stream grows with each fwrite and
\* ends when the last block is pushed, not only when complete is set.  A read
\* is short only at the end of the stream and refused only behind the window.
Stream == INSTANCE ByteStream WITH
  length  <- Stored,
  ended   <- wpc \in {"complete", "wake", "closed"},
  request <- IF rpc = "idle" THEN None
                             ELSE [at |-> offset, size |-> remaining + total],
  served  <- result,
  kept    <- Oldest

StreamSpec == Stream!Spec
===============================================================================
