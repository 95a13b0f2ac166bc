---------------------------- MODULE SplitFileProofs ---------------------------
(***************************************************************************)
(* Proofs about SplitFile, for any size of block, buffers and download:    *)
(* its invariants, and that it implements ByteStream.                      *)
(***************************************************************************)
EXTENDS SplitFile, SequenceTheorems, TLAPS

-------------------------------------------------------------------------------
(* The inductive invariant.                                                *)

Ended == wpc \in {"complete", "wake", "closed"}

\* TypeOK in parts.
BlockTypes ==
  /\ file_blocks \in Seq(Blocks)
  /\ in_progress \in [start : Nat, size : 0..BlockSize]
  /\ block_ready \in Nat

WriterTypes ==
  /\ wpc \in WriterSteps
  /\ to_write \in 0..MaxWrite

ReaderTypes ==
  /\ rpc \in ReaderSteps
  /\ offset \in Nat
  /\ remaining \in 0..MaxRead
  /\ block_num \in Nat
  /\ block_offset \in 0..BlockSize - 1
  /\ total \in 0..MaxRead
  /\ result \in [at : Nat, size : -1..MaxRead]
  /\ reached \in Nat
  /\ front \in Nat

Types == BlockTypes /\ WriterTypes /\ ReaderTypes

\* A read never returns more than was asked for.
RoomLeft == remaining + total <= MaxRead

\* All blocks but the last are full, so that block k starts at k * BlockSize.
ChainOfBlocks ==
  \A k \in 1..Len(file_blocks) :
    /\ file_blocks[k].start = (k - 1) * BlockSize
    /\ IF file_blocks[k].is_last THEN file_blocks[k].size < BlockSize /\ k = Len(file_blocks) /\ Ended
                                 ELSE file_blocks[k].size = BlockSize

\* The block being written follows them; after Close it is the last of them.
BlockInProgress ==
  /\ complete => Ended
  /\ IF wpc = "push" THEN in_progress.size = BlockSize ELSE in_progress.size < BlockSize
  /\ IF Ended
     THEN /\ Len(file_blocks) > 0
          /\ file_blocks[Len(file_blocks)].is_last
          /\ file_blocks[Len(file_blocks)].size = in_progress.size
          /\ in_progress.start = (Len(file_blocks) - 1) * BlockSize
     ELSE in_progress.start = Len(file_blocks) * BlockSize

\* Where the Read under way stands in the stream.
ReadPosition ==
  rpc # "idle" =>
    /\ remaining + total > 0
    /\ offset <= reached
    /\ offset + total <= Stored
    /\ offset \div BlockSize <= block_num
    /\ rpc # "delete" => block_num * BlockSize + block_offset = offset + total

\* What each wait of Read has ensured when it is over.
ReadBlocks ==
  /\ rpc \in {"check", "sleep", "fetch"} => total = 0
  /\ rpc \in {"fetch", "read"} => block_num < Len(file_blocks)
  /\ rpc \in {"more", "sleep_more"} =>
       block_num \in 1..Len(file_blocks) /\ ~file_blocks[block_num].is_last

\* A read that is short has reached the end of the stream.
ShortAtEnd == rpc = "delete" /\ remaining > 0 => Ended /\ offset + total = Stored

\* The blocks deleted are those more than two before the furthest start of a read.
DeletedBlocks ==
  /\ front * BlockSize <= reached
  /\ reached <= Stored
  /\ \A k \in 1..Len(file_blocks) : (file_blocks[k].status = "DELETED") <=> (k + 2 <= front)
  /\ rpc \in {"read", "more", "sleep_more", "delete"} => offset >= Oldest

SplitInv ==
  /\ complete \in BOOLEAN
  /\ Types
  /\ RoomLeft
  /\ ChainOfBlocks
  /\ BlockInProgress
  /\ ReadPosition
  /\ ReadBlocks
  /\ ShortAtEnd
  /\ DeletedBlocks

-------------------------------------------------------------------------------
(* Arithmetic of blocks.                                                   *)

\* The start of a block does not lie before that of an earlier one.
LEMMA TimesMonotone ==
  ASSUME NEW b \in Nat, NEW j \in Nat, NEW k \in Nat, j <= k
  PROVE  j * b <= k * b
  OBVIOUS

\* A block starts where a full block before it ends.
LEMMA TimesNext ==
  ASSUME NEW b \in Nat, NEW k \in Nat
  PROVE  /\ (k + 1) * b = k * b + b
         /\ k * b \in Nat
  OBVIOUS

\* The number of the block that holds a position, and the place in it.
LEMMA DivMod ==
  ASSUME NEW b \in Nat \ {0}, NEW a \in Nat
  PROVE  /\ a \div b \in Nat
         /\ a % b \in 0..b-1
         /\ a = (a \div b) * b + (a % b)
  OBVIOUS

\* A block that starts within a block (or before it) is not behind it.
LEMMA NotBehind ==
  ASSUME NEW b \in Nat \ {0}, NEW k \in Nat, NEW j \in Nat, NEW r \in Nat,
         k * b <= j * b + r, r < b
  PROVE  k <= j
<1>1. SUFFICES ASSUME j + 1 <= k PROVE FALSE
  OBVIOUS
<1>2. (j + 1) * b <= k * b
  BY <1>1, TimesMonotone
<1>3. (j + 1) * b = j * b + b
  BY TimesNext
<1> QED
  BY <1>2, <1>3

-------------------------------------------------------------------------------
(* Types.                                                                  *)

\* Open leaves every variable with its type, and no block is larger than BlockSize.
LEMMA TypesInit == Init => complete \in BOOLEAN /\ Types /\ RoomLeft
<1> SUFFICES ASSUME Init PROVE complete \in BOOLEAN /\ Types /\ RoomLeft
  OBVIOUS
<1>1. complete \in BOOLEAN
  BY Zenon DEF Init
<1>2. Types /\ RoomLeft
  BY SplitFileAssumption
  DEF Init, Types, BlockTypes, WriterTypes, ReaderTypes, WriterSteps, ReaderSteps, RoomLeft,
      NewBlock, None
<1> QED
  BY <1>1, <1>2

\* What fread returns is not more than what is asked for or what is left of the block.
LEMMA AvailableBytes ==
  ASSUME BlockTypes, ReaderTypes, block_num < Len(file_blocks)
  PROVE  /\ Available \in 0..remaining
         /\ Block(block_num) \in Blocks
         /\ Block(block_num).size > block_offset => block_offset + Available <= Block(block_num).size
         /\ Block(block_num).size <= block_offset => Available = 0
         /\ Available < remaining /\ Block(block_num).size >= block_offset =>
              block_offset + Available = Block(block_num).size
<1>1. block_num + 1 \in 1..Len(file_blocks)
  BY DEF BlockTypes, ReaderTypes
<1>2. Block(block_num) \in Blocks
  BY <1>1 DEF BlockTypes, Block
<1>3. Block(block_num).size \in Nat
  BY <1>2, SplitFileAssumption DEF Blocks
<1>4. remaining \in Nat /\ block_offset \in Nat
  BY SplitFileAssumption DEF ReaderTypes
<1> DEFINE left == Block(block_num).size - block_offset
<1>5. Available = IF Block(block_num).size > block_offset
                  THEN IF remaining <= left THEN remaining ELSE left ELSE 0
  BY DEF Available, Smaller
<1> QED
  BY <1>2, <1>3, <1>4, <1>5

\* Deleting blocks leaves a sequence of blocks of the same length.
LEMMA DeletedBlocksType ==
  ASSUME NEW blocks \in Seq(Blocks), NEW k \in Int
  PROVE  LET deleted == [i \in DOMAIN blocks |->
               IF i - 1 < k THEN [blocks[i] EXCEPT !.status = "DELETED"] ELSE blocks[i]]
         IN  deleted \in Seq(Blocks) /\ Len(deleted) = Len(blocks)
<1> DEFINE deleted == [i \in DOMAIN blocks |->
               IF i - 1 < k THEN [blocks[i] EXCEPT !.status = "DELETED"] ELSE blocks[i]]
<1>1. DOMAIN deleted = 1..Len(blocks) /\ Len(blocks) \in Nat
  OBVIOUS
<1>2. ASSUME NEW i \in 1..Len(blocks) PROVE deleted[i] \in Blocks
  <2>1. blocks[i] \in Blocks
    OBVIOUS
  <2>2. [blocks[i] EXCEPT !.status = "DELETED"] \in Blocks
    BY <2>1 DEF Blocks
  <2>3. deleted[i] = IF i - 1 < k THEN [blocks[i] EXCEPT !.status = "DELETED"] ELSE blocks[i]
    BY Zenon, <1>1
  <2> HIDE DEF deleted
  <2> QED
    BY <2>1, <2>2, <2>3
<1>3. deleted \in [1..Len(blocks) -> Blocks]
  BY <1>1, <1>2
<1> QED
  BY <1>1, <1>3

\* No step of the writer or of the reader gives a variable another type.
LEMMA TypesStep == Types /\ RoomLeft /\ ReadBlocks /\ [Next]_vars => Types' /\ RoomLeft'
<1> SUFFICES ASSUME Types, RoomLeft, ReadBlocks, [Next]_vars PROVE Types' /\ RoomLeft'
  OBVIOUS
<1> USE SplitFileAssumption
<1>0. BlockTypes /\ WriterTypes /\ ReaderTypes
  BY DEF Types
<1>a. ASSUME UNCHANGED reader PROVE ReaderTypes' /\ RoomLeft'
  BY <1>0, <1>a DEF ReaderTypes, reader, RoomLeft
<1>b. ASSUME UNCHANGED <<file_blocks, in_progress>>, UNCHANGED writer, block_ready' \in Nat
      PROVE  BlockTypes' /\ WriterTypes'
  BY <1>0, <1>b DEF BlockTypes, WriterTypes, writer
<1>1. ASSUME NEW n \in 1..MaxWrite, Write(n) PROVE Types' /\ RoomLeft'
  <2>1. BlockTypes' /\ WriterTypes'
    BY <1>0, <1>1 DEF Write, BlockTypes, WriterTypes, WriterSteps
  <2> QED
    BY <1>1, <1>a, <2>1 DEF Write, Types
<1>2. CASE Fill
  <2> DEFINE n == Smaller(to_write, BlockSize - in_progress.size)
  <2>3. n \in 0..to_write /\ in_progress.size + n \in 0..BlockSize /\ to_write \in 0..MaxWrite
    BY <1>0 DEF Smaller, BlockTypes, WriterTypes
  <2>4. /\ in_progress' = [in_progress EXCEPT !.size = @ + n]
        /\ to_write' = to_write - n
    BY <1>2 DEF Fill, FillUpTo
  <2> HIDE DEF n
  <2>1. in_progress' \in [start : Nat, size : 0..BlockSize] /\ to_write' \in 0..MaxWrite
    <3>1. in_progress' \in [start : Nat, size : 0..BlockSize]
      BY <1>0, <2>3, <2>4 DEF BlockTypes
    <3>2. to_write' \in 0..MaxWrite
      BY <2>3, <2>4
    <3> QED
      BY <3>1, <3>2
  <2>2. wpc' \in WriterSteps
    BY <1>2 DEF Fill, FillUpTo, WriterSteps
  <2> QED
    BY <1>0, <1>2, <1>a, <2>1, <2>2 DEF Fill, FillUpTo, Types, BlockTypes, WriterTypes
<1>3. CASE FillShort
  <2>2. PICK n \in 0..Smaller(to_write, BlockSize - in_progress.size) - 1 :
          in_progress' = [in_progress EXCEPT !.size = @ + n]
    BY <1>3 DEF FillShort
  <2>3. in_progress.size + n \in 0..BlockSize
    BY <1>0, <2>2 DEF Smaller, BlockTypes, WriterTypes
  <2>1. in_progress' \in [start : Nat, size : 0..BlockSize]
    BY <1>0, <2>2, <2>3 DEF BlockTypes
  <2> QED
    BY <1>0, <1>3, <1>a, <2>1 DEF FillShort, Types, BlockTypes, WriterTypes, WriterSteps
<1>4. CASE Push
  <2>1. Pushed(in_progress, FALSE) \in Blocks
    BY <1>0 DEF Pushed, Blocks, BlockTypes
  <2>2. in_progress' \in [start : Nat, size : 0..BlockSize]
    BY <1>0, <1>4 DEF Push, NewBlock, Stored, BlockTypes
  <2>3. file_blocks' \in Seq(Blocks)
    BY <1>0, <1>4, <2>1, AppendProperties DEF Push, BlockTypes
  <2>4. WriterTypes'
    BY <1>0, <1>4 DEF Push, WriterTypes, WriterSteps
  <2> QED
    BY <1>0, <1>4, <1>a, <2>2, <2>3, <2>4 DEF Push, Types, BlockTypes
<1>5. CASE Post
  BY <1>0, <1>5, <1>a DEF Post, Types, BlockTypes, WriterTypes, WriterSteps
<1>6. CASE Close
  <2>1. Pushed(in_progress, TRUE) \in Blocks
    BY <1>0 DEF Pushed, Blocks, BlockTypes
  <2>2. file_blocks' \in Seq(Blocks)
    BY <1>0, <1>6, <2>1, AppendProperties DEF Close, BlockTypes
  <2>3. WriterTypes'
    BY <1>0, <1>6 DEF Close, WriterTypes, WriterSteps
  <2> QED
    BY <1>0, <1>6, <1>a, <2>2, <2>3 DEF Close, Types, BlockTypes
<1>7. CASE Complete
  BY <1>0, <1>7, <1>a DEF Complete, Types, BlockTypes, WriterTypes, WriterSteps
<1>8. CASE Wake
  BY <1>0, <1>8, <1>a DEF Wake, WakeBy, Types, BlockTypes, WriterTypes, WriterSteps
<1>9. ASSUME NEW n \in 1..MaxRead, NEW at \in 0..reached, Read(n, at) PROVE Types' /\ RoomLeft'
  <2>1. at \in Nat
    BY <1>0 DEF ReaderTypes
  <2>2. block_num' \in Nat /\ block_offset' \in 0..BlockSize - 1
    BY <1>9, <2>1, DivMod DEF Read
  <2>3. ReaderTypes' /\ RoomLeft'
    BY <1>0, <1>9, <2>1, <2>2 DEF Read, None, ReaderTypes, ReaderSteps, RoomLeft
  <2> QED
    BY <1>0, <1>9, <1>b, <2>3 DEF Read, Types, BlockTypes
<1>10. ASSUME NEW from \in {"check", "more"}, NEW sleep \in {"sleep", "sleep_more"},
              NEW go \in {"fetch", "read"}, Check(from, sleep, go)
       PROVE  Types' /\ RoomLeft'
  <2>1. ReaderTypes' /\ RoomLeft'
    BY <1>0, <1>10 DEF Check, ReaderTypes, ReaderSteps, RoomLeft
  <2> QED
    BY <1>0, <1>10, <1>b, <2>1 DEF Check, Types, BlockTypes
<1>11. ASSUME NEW from \in {"sleep", "sleep_more"}, NEW again \in {"check", "more"},
              Sleep(from, again)
       PROVE  Types' /\ RoomLeft'
  <2>1. ReaderTypes' /\ RoomLeft'
    BY <1>0, <1>11 DEF Sleep, ReaderTypes, ReaderSteps, RoomLeft
  <2>3. block_ready \in Nat
    BY <1>0 DEF BlockTypes
  <2>4. block_ready' = block_ready - 1
    BY <1>11 DEF Sleep
  <2>5. block_ready > 0
    BY <1>11 DEF Sleep
  <2>6. block_ready - 1 \in Nat
    BY <2>3, <2>5
  <2>2. block_ready' \in Nat
    BY <2>4, <2>6
  <2> QED
    BY <1>11, <1>b, <2>1, <2>2 DEF Sleep, Types
<1>12. CASE Fetch
  <2>2. ASSUME NEW s \in -1..MaxRead, Return(s), UNCHANGED <<reached, front>>
        PROVE  ReaderTypes' /\ RoomLeft'
    <3>1. result' \in [at : Nat, size : -1..MaxRead]
      BY <1>0, <2>2 DEF Return, ReaderTypes
    <3>2. RoomLeft'
      BY <2>2 DEF Return, RoomLeft
    <3> QED
      BY <1>0, <2>2, <3>1, <3>2 DEF Return, ReaderTypes, ReaderSteps
  <2>3. ASSUME rpc' = "read", UNCHANGED <<result, Locals, reached, front>>
        PROVE  ReaderTypes' /\ RoomLeft'
    BY <1>0, <2>3 DEF Locals, ReaderTypes, ReaderSteps, RoomLeft
  <2>4. UNCHANGED <<reached, front>> /\ (Return(-1) \/ Return(0) \/ (rpc' = "read" /\ UNCHANGED <<result, Locals>>))
    BY <1>12 DEF Fetch
  <2>5. -1 \in -1..MaxRead /\ 0 \in -1..MaxRead
    OBVIOUS
  <2>1. ReaderTypes' /\ RoomLeft'
    BY <2>2, <2>3, <2>4, <2>5
  <2> QED
    BY <1>0, <1>12, <1>b, <2>1 DEF Fetch, Types, BlockTypes
<1>13. CASE ReadLast
  <2>1. Available \in 0..remaining
    BY <1>0, <1>13, AvailableBytes DEF ReadLast, FinishWhen, ReadBlocks
  <2>2. ReaderTypes' /\ RoomLeft'
    BY <1>0, <1>13, <2>1 DEF ReadLast, FinishWhen, ReaderTypes, ReaderSteps, RoomLeft
  <2> QED
    BY <1>0, <1>13, <1>b, <2>2 DEF ReadLast, FinishWhen, Types, BlockTypes
<1>14. CASE ReadOn
  <2>1. Available \in 0..remaining
    BY <1>0, <1>14, AvailableBytes DEF ReadOn, ContinueAt, ReadBlocks
  <2>2. ReaderTypes' /\ RoomLeft'
    BY <1>0, <1>14, <2>1 DEF ReadOn, ContinueAt, ReaderTypes, ReaderSteps, RoomLeft
  <2> QED
    BY <1>0, <1>14, <1>b, <2>2 DEF ReadOn, ContinueAt, Types, BlockTypes
<1>15. CASE Delete
  <2>1. offset \div BlockSize \in Nat
    BY <1>0, DivMod DEF ReaderTypes
  <2>2. file_blocks' \in Seq(Blocks)
    <3> DEFINE k == offset \div BlockSize - 2
    <3>1. k \in Int /\ file_blocks \in Seq(Blocks)
      BY <1>0, <2>1 DEF BlockTypes
    <3>2. file_blocks' = [i \in DOMAIN file_blocks |->
            IF i - 1 < k THEN [file_blocks[i] EXCEPT !.status = "DELETED"] ELSE file_blocks[i]]
      BY <1>15 DEF Delete, DeleteBefore
    <3> HIDE DEF k
    <3> QED
      BY <3>1, <3>2, DeletedBlocksType
  <2>3. front' \in Nat /\ reached' \in Nat
    BY <1>0, <1>15, <2>1 DEF Delete, DeleteBefore, Larger, ReaderTypes
  <2>4. ReaderTypes' /\ RoomLeft'
    BY <1>0, <1>15, <2>3 DEF Delete, DeleteBefore, Return, ReaderTypes, ReaderSteps, RoomLeft
  <2> QED
    BY <1>0, <1>15, <2>2, <2>4 DEF Delete, DeleteBefore, Types, BlockTypes, WriterTypes, writer
<1>16. CASE UNCHANGED vars
  BY <1>0, <1>16, <1>a, <1>b DEF vars, Types, BlockTypes
<1> QED
  BY <1>1, <1>2, <1>3, <1>4, <1>5, <1>6, <1>7, <1>8, <1>9, <1>10, <1>11, <1>12, <1>13, <1>14,
     <1>15, <1>16 DEF Next, Writer, Reader

-------------------------------------------------------------------------------
(* The chain of blocks and the read in it.                                 *)

\* Every block ends where the bytes stored end, or before.
LEMMA BlockEnd ==
  ASSUME SplitInv, NEW k \in 1..Len(file_blocks)
  PROVE  /\ file_blocks[k] \in Blocks
         /\ file_blocks[k].start = (k - 1) * BlockSize
         /\ (k - 1) * BlockSize + file_blocks[k].size <= Stored
<1> USE SplitFileAssumption
<1>1. file_blocks[k] \in Blocks /\ Len(file_blocks) \in Nat
  BY DEF SplitInv, Types, BlockTypes
<1>2. file_blocks[k].start = (k - 1) * BlockSize
  BY DEF SplitInv, ChainOfBlocks
<1>3. in_progress.start \in Nat /\ in_progress.size \in 0..BlockSize
  BY DEF SplitInv, Types, BlockTypes
<1>4. CASE file_blocks[k].is_last
  <2>1. Ended /\ k = Len(file_blocks)
    BY <1>4 DEF SplitInv, ChainOfBlocks
  <2>2. file_blocks[k].size = in_progress.size /\ in_progress.start = (k - 1) * BlockSize
    BY <2>1 DEF SplitInv, BlockInProgress
  <2> QED
    BY <1>1, <1>2, <1>3, <2>2 DEF Stored
<1>5. CASE ~file_blocks[k].is_last
  <2>1. file_blocks[k].size = BlockSize
    BY <1>5 DEF SplitInv, ChainOfBlocks
  <2>2. (k - 1) * BlockSize + BlockSize = k * BlockSize
    BY TimesNext
  <2>3. k * BlockSize <= in_progress.start
    <3>1. CASE Ended
      <4>1. file_blocks[Len(file_blocks)].is_last
            /\ in_progress.start = (Len(file_blocks) - 1) * BlockSize
        BY <3>1 DEF SplitInv, BlockInProgress
      <4>2. k <= Len(file_blocks) - 1
        BY <1>1, <1>5, <4>1
      <4> QED
        BY <1>1, <4>1, <4>2, TimesMonotone
    <3>2. CASE ~Ended
      <4>1. in_progress.start = Len(file_blocks) * BlockSize
        BY <3>2 DEF SplitInv, BlockInProgress
      <4> QED
        BY <1>1, <4>1, TimesMonotone
    <3> QED
      BY <3>1, <3>2
  <2> QED
    BY <1>1, <1>2, <1>3, <2>1, <2>2, <2>3 DEF Stored
<1> QED
  BY <1>4, <1>5

\* After Close, every position stored lies in a block.
LEMMA InChain ==
  ASSUME SplitInv, Ended, NEW j \in Nat, NEW r \in Nat, j * BlockSize + r <= Stored
  PROVE  j < Len(file_blocks)
<1> USE SplitFileAssumption
<1>1. /\ Len(file_blocks) \in Nat /\ Len(file_blocks) > 0
      /\ in_progress.start = (Len(file_blocks) - 1) * BlockSize
  BY DEF SplitInv, BlockInProgress, Types, BlockTypes
<1>2. in_progress.size \in Nat /\ in_progress.size < BlockSize
  BY DEF SplitInv, BlockInProgress, Types, BlockTypes, Ended
<1>3. j * BlockSize \in Nat
  BY TimesNext
<1>4. j * BlockSize <= (Len(file_blocks) - 1) * BlockSize + in_progress.size
  BY <1>1, <1>2, <1>3 DEF Stored
<1>5. j <= Len(file_blocks) - 1
  BY <1>1, <1>2, <1>4, NotBehind
<1> QED
  BY <1>1, <1>5

\* No read has started, and none has deleted blocks, behind what is stored.
LEMMA FrontInChain ==
  ASSUME SplitInv
  PROVE  Stored \in Nat /\ front * BlockSize <= Stored
<1>1. Stored \in Nat
  BY SplitFileAssumption DEF SplitInv, Types, BlockTypes, Stored
<1>2. front \in Nat /\ front * BlockSize <= reached /\ reached <= Stored /\ reached \in Nat
  BY DEF SplitInv, Types, ReaderTypes, DeletedBlocks
<1>3. front * BlockSize \in Nat
  BY <1>2, SplitFileAssumption, TimesNext
<1> QED
  BY <1>1, <1>2, <1>3

\* The oldest position the window keeps is one of the file's.
LEMMA OldestIsPosition ==
  ASSUME SplitInv
  PROVE  Oldest \in Nat
<1>1. front \in Nat /\ (front > 2 => front - 2 \in Nat)
  BY DEF SplitInv, Types, ReaderTypes
<1> QED
  BY <1>1, SplitFileAssumption, TimesNext DEF Oldest

\* The blocks behind the window are those that are deleted.
LEMMA WindowBlock ==
  ASSUME SplitInv, NEW k \in Nat, NEW r \in Nat, k < Len(file_blocks)
  PROVE  /\ Block(k).status = "DELETED" /\ r < BlockSize => k * BlockSize + r < Oldest
         /\ Block(k).status # "DELETED" => k * BlockSize + r >= Oldest
<1> USE SplitFileAssumption
<1>1. k + 1 \in 1..Len(file_blocks) /\ front \in Nat
  BY DEF SplitInv, Types, BlockTypes, ReaderTypes
<1>2. Block(k).status = "DELETED" <=> k + 3 <= front
  BY <1>1 DEF SplitInv, DeletedBlocks, Block
<1>3. k * BlockSize \in Nat /\ (k + 1) * BlockSize = k * BlockSize + BlockSize
  BY TimesNext
<1>4. ASSUME k + 3 <= front PROVE (k + 1) * BlockSize <= Oldest
  <2>1. front - 2 \in Nat /\ k + 1 <= front - 2 /\ front > 2
    BY <1>1, <1>4
  <2> QED
    BY <2>1, TimesMonotone DEF Oldest
<1>5. ASSUME ~(k + 3 <= front) PROVE Oldest <= k * BlockSize
  <2>1. CASE front > 2
    <3>1. front - 2 \in Nat /\ front - 2 <= k
      BY <1>1, <1>5, <2>1
    <3> QED
      BY <2>1, <3>1, TimesMonotone DEF Oldest
  <2>2. CASE ~(front > 2)
    BY <1>3, <2>2 DEF Oldest
  <2> QED
    BY <2>1, <2>2
<1> QED
  BY <1>2, <1>3, <1>4, <1>5, OldestIsPosition

\* What one fread takes from the current block ends within what is stored; a
\* read not satisfied takes the rest of the block.
LEMMA ReadFromBlock ==
  ASSUME SplitInv, rpc = "read"
  PROVE  /\ Available \in 0..remaining
         /\ offset + total + Available <= Stored
         /\ Available < remaining /\ Block(block_num).is_last =>
              Ended /\ offset + total + Available = Stored
         /\ Available < remaining /\ ~Block(block_num).is_last =>
              offset + total + Available = (block_num + 1) * BlockSize
<1> USE SplitFileAssumption
<1>1. BlockTypes /\ ReaderTypes /\ block_num < Len(file_blocks)
  BY DEF SplitInv, Types, ReadBlocks
<1>2. block_num + 1 \in 1..Len(file_blocks) /\ block_num \in Nat /\ block_offset \in Nat
      /\ offset \in Nat /\ total \in Nat /\ remaining \in Nat /\ block_offset < BlockSize
  BY <1>1 DEF BlockTypes, ReaderTypes
<1>3. block_num * BlockSize + block_offset = offset + total /\ offset + total <= Stored
  BY DEF SplitInv, ReadPosition
<1>4. block_num * BlockSize \in Nat /\ (block_num + 1) * BlockSize = block_num * BlockSize + BlockSize
  BY <1>2, TimesNext
<1>5. block_num * BlockSize + Block(block_num).size <= Stored
  BY <1>2, BlockEnd DEF Block
<1>6. Block(block_num).size \in Nat /\ Stored \in Nat
  BY <1>2, BlockEnd, FrontInChain DEF Block, Blocks
<1>7. Available \in 0..remaining /\ offset + total + Available <= Stored
  <2>1. /\ Available \in 0..remaining
        /\ Block(block_num).size > block_offset => block_offset + Available <= Block(block_num).size
        /\ Block(block_num).size <= block_offset => Available = 0
    BY <1>1, AvailableBytes
  <2> QED
    BY <1>2, <1>3, <1>4, <1>5, <1>6, <2>1
<1>8. ASSUME Available < remaining, Block(block_num).is_last
      PROVE  Ended /\ offset + total + Available = Stored
  <2>1. Ended /\ block_num + 1 = Len(file_blocks)
    BY <1>2, <1>8 DEF SplitInv, ChainOfBlocks, Block
  <2>2. Stored = block_num * BlockSize + Block(block_num).size
    <3>1. Block(block_num).size = in_progress.size /\ in_progress.start = block_num * BlockSize
      BY <2>1, <1>2 DEF SplitInv, BlockInProgress, Block
    <3> QED
      BY <3>1 DEF Stored
  <2>3. block_offset <= Block(block_num).size
    BY <2>2, <1>2, <1>3, <1>4, <1>6
  <2>4. block_offset + Available = Block(block_num).size
    BY <1>1, <1>2, <1>6, <1>8, <2>3, AvailableBytes
  <2> QED
    BY <1>2, <1>3, <1>4, <1>6, <1>7, <2>1, <2>2, <2>4
<1>9. ASSUME Available < remaining, ~Block(block_num).is_last
      PROVE  offset + total + Available = (block_num + 1) * BlockSize
  <2>1. Block(block_num).size = BlockSize
    BY <1>2, <1>9 DEF SplitInv, ChainOfBlocks, Block
  <2>2. block_offset + Available = BlockSize
    BY <1>1, <1>2, <1>9, <2>1, AvailableBytes
  <2> QED
    BY <1>2, <1>3, <1>4, <1>7, <2>2
<1> QED
  BY <1>7, <1>8, <1>9

-------------------------------------------------------------------------------
(* The invariant holds.                                                    *)

\* The parts of SplitInv that are not types.
Order ==
  /\ ChainOfBlocks
  /\ BlockInProgress
  /\ ReadPosition
  /\ ReadBlocks
  /\ ShortAtEnd
  /\ DeletedBlocks

\* The blocks and the position of the reader fit together before anything is written.
LEMMA OrderInit == Init => Order
<1> SUFFICES ASSUME Init PROVE Order
  OBVIOUS
<1> USE SplitFileAssumption DEF Init
<1>1. Len(file_blocks) = 0 /\ ~complete /\ ~Ended
  BY DEF Ended
<1>2. ChainOfBlocks /\ BlockInProgress
  BY <1>1 DEF ChainOfBlocks, BlockInProgress, NewBlock
<1>3. ReadPosition /\ ReadBlocks /\ ShortAtEnd
  BY DEF ReadPosition, ReadBlocks, ShortAtEnd
<1>4. DeletedBlocks
  BY <1>1 DEF DeletedBlocks, Stored, NewBlock, Oldest
<1> QED
  BY <1>2, <1>3, <1>4 DEF Order

\* A step of the transfer thread that pushes no block only adds to what is stored.
LEMMA WriterFrame ==
  ASSUME SplitInv, UNCHANGED <<file_blocks, reader>>, Ended' <=> Ended, Stored' \in Nat,
         Stored <= Stored', Ended => Stored' = Stored
  PROVE  ChainOfBlocks' /\ ReadPosition' /\ ReadBlocks' /\ ShortAtEnd' /\ DeletedBlocks'
<1> USE SplitFileAssumption
<1>0. ReaderTypes /\ Stored \in Nat
  BY FrontInChain DEF SplitInv, Types
<1>1. ChainOfBlocks'
  BY DEF SplitInv, ChainOfBlocks
<1>2. ReadPosition'
  BY <1>0 DEF SplitInv, ReadPosition, reader, ReaderTypes
<1>3. ReadBlocks'
  BY DEF SplitInv, ReadBlocks, reader
<1>4. ShortAtEnd'
  BY DEF SplitInv, ShortAtEnd, reader
<1>5. DeletedBlocks'
  BY <1>0 DEF SplitInv, DeletedBlocks, reader, Oldest, ReaderTypes
<1> QED
  BY <1>1, <1>2, <1>3, <1>4, <1>5

\* A push leaves what is stored as it is and adds a block in its place.
LEMMA PushFrame ==
  ASSUME SplitInv, ~Ended, NEW last \in BOOLEAN,
         file_blocks' = Append(file_blocks, Pushed(in_progress, last)),
         IF last THEN in_progress.size < BlockSize ELSE in_progress.size = BlockSize,
         Ended' <=> last, Stored' = Stored, UNCHANGED reader
  PROVE  /\ ChainOfBlocks' /\ ReadPosition' /\ ReadBlocks' /\ ShortAtEnd' /\ DeletedBlocks'
         /\ Len(file_blocks') = Len(file_blocks) + 1
         /\ file_blocks'[Len(file_blocks')] = Pushed(in_progress, last)
         /\ in_progress.start = Len(file_blocks) * BlockSize
<1> USE SplitFileAssumption
<1>0. BlockTypes /\ ReaderTypes
  BY DEF SplitInv, Types
<1>1. Pushed(in_progress, last) \in Blocks
  BY <1>0 DEF Pushed, Blocks, BlockTypes
<1>2. /\ Len(file_blocks') = Len(file_blocks) + 1
      /\ \A k \in 1..Len(file_blocks) : file_blocks'[k] = file_blocks[k]
      /\ file_blocks'[Len(file_blocks) + 1] = Pushed(in_progress, last)
      /\ Len(file_blocks) \in Nat
  BY <1>0, <1>1, AppendProperties DEF BlockTypes
<1>3. in_progress.start = Len(file_blocks) * BlockSize
  BY DEF SplitInv, BlockInProgress
<1>4. \A k \in 1..Len(file_blocks) : ~file_blocks[k].is_last
  BY DEF SplitInv, ChainOfBlocks
<1>5. ChainOfBlocks'
  <2> SUFFICES ASSUME NEW k \in 1..Len(file_blocks')
               PROVE  /\ file_blocks'[k].start = (k - 1) * BlockSize
                      /\ IF file_blocks'[k].is_last
                         THEN file_blocks'[k].size < BlockSize /\ k = Len(file_blocks') /\ Ended'
                         ELSE file_blocks'[k].size = BlockSize
    BY DEF ChainOfBlocks
  <2>1. CASE k \in 1..Len(file_blocks)
    <3>1. file_blocks'[k] = file_blocks[k] /\ ~file_blocks[k].is_last
      BY <1>2, <1>4, <2>1
    <3>2. file_blocks[k].start = (k - 1) * BlockSize /\ file_blocks[k].size = BlockSize
      BY <2>1, <3>1 DEF SplitInv, ChainOfBlocks
    <3> QED
      BY <3>1, <3>2
  <2>2. CASE k = Len(file_blocks) + 1
    <3>1. file_blocks'[k] = Pushed(in_progress, last)
      BY <1>2, <2>2
    <3>2. /\ file_blocks'[k].start = in_progress.start
          /\ file_blocks'[k].size = in_progress.size
          /\ file_blocks'[k].is_last = last
      BY <3>1 DEF Pushed
    <3>3. k - 1 = Len(file_blocks)
      BY <1>2, <2>2
    <3> QED
      BY <1>2, <1>3, <2>2, <3>2, <3>3
  <2> QED
    BY <1>2, <2>1, <2>2
<1>6. ReadPosition'
  BY DEF SplitInv, ReadPosition, reader
<1>7. ReadBlocks'
  <2>1. rpc \in {"fetch", "read"} => block_num < Len(file_blocks')
    BY <1>0, <1>2 DEF SplitInv, ReadBlocks, ReaderTypes
  <2>2. rpc \in {"more", "sleep_more"} =>
          block_num \in 1..Len(file_blocks') /\ ~file_blocks'[block_num].is_last
    BY <1>0, <1>2 DEF SplitInv, ReadBlocks, ReaderTypes
  <2> QED
    BY <2>1, <2>2 DEF SplitInv, ReadBlocks, reader
<1>8. ShortAtEnd'
  BY DEF SplitInv, ShortAtEnd, reader
<1>9. DeletedBlocks'
  <2>1. front <= Len(file_blocks) + 1
    <3>1. in_progress.size \in 0..BlockSize /\ front \in Nat /\ Len(file_blocks) * BlockSize \in Nat
      BY <1>0, <1>2, TimesNext DEF BlockTypes, ReaderTypes
    <3>2. (Len(file_blocks) + 1) * BlockSize = Len(file_blocks) * BlockSize + BlockSize
      BY <1>2, TimesNext
    <3>3. front * BlockSize <= (Len(file_blocks) + 1) * BlockSize + 0
      <4>1. /\ Stored \in Nat /\ front * BlockSize <= Stored
        BY FrontInChain
      <4>2. Stored = Len(file_blocks) * BlockSize + in_progress.size
        BY <1>3 DEF Stored
      <4>3. Stored <= Len(file_blocks) * BlockSize + BlockSize
        BY <3>1, <4>2, SplitFileAssumption
      <4>4. front * BlockSize \in Nat /\ (Len(file_blocks) + 1) * BlockSize \in Nat
        BY <1>2, <3>1, TimesNext
      <4> QED
        BY <3>2, <4>1, <4>3, <4>4
    <3> QED
      BY <1>2, <3>1, <3>3, NotBehind
  <2>2. ASSUME NEW k \in 1..Len(file_blocks')
        PROVE  (file_blocks'[k].status = "DELETED") <=> (k + 2 <= front)
    <3>1. CASE k \in 1..Len(file_blocks)
      BY <1>2, <3>1 DEF SplitInv, DeletedBlocks
    <3>2. CASE k = Len(file_blocks) + 1
      <4>1. file_blocks'[k].status = "CREATED"
        BY <1>2, <3>2 DEF Pushed
      <4> QED
        BY <1>0, <1>2, <2>1, <3>2, <4>1 DEF ReaderTypes
    <3> QED
      BY <1>2, <3>1, <3>2
  <2> QED
    BY <2>2 DEF SplitInv, DeletedBlocks, reader, Oldest
<1> QED
  BY <1>2, <1>3, <1>5, <1>6, <1>7, <1>8, <1>9

\* A step of the transfer thread leaves the blocks in order.
LEMMA WriterOrder == SplitInv /\ Writer => Order'
<1> SUFFICES ASSUME SplitInv, Writer PROVE Order'
  OBVIOUS
<1> USE SplitFileAssumption
<1>0. BlockTypes /\ WriterTypes /\ BlockInProgress /\ complete \in BOOLEAN
  BY DEF SplitInv, Types
<1>00. in_progress \in [start : Nat, size : 0..BlockSize] /\ Stored \in Nat
  BY <1>0, FrontInChain DEF BlockTypes
<1>a. ASSUME UNCHANGED <<file_blocks, reader>>, Ended' <=> Ended, Stored' \in Nat,
             Stored <= Stored', Ended => Stored' = Stored, BlockInProgress'
      PROVE  Order'
  BY <1>a, WriterFrame DEF Order
<1>b. ASSUME UNCHANGED <<file_blocks, in_progress, reader>>, Ended' <=> Ended,
             wpc # "push", wpc' # "push", complete' => Ended'
      PROVE  Order'
  <2>1. BlockInProgress'
    BY <1>0, <1>b DEF BlockInProgress
  <2>2. Stored' = Stored
    BY <1>b DEF Stored
  <2> QED
    BY <1>00, <1>a, <1>b, <2>1, <2>2
<1>1. ASSUME NEW n \in 1..MaxWrite, Write(n) PROVE Order'
  <2>1. wpc = "idle" /\ wpc' = "write" /\ UNCHANGED <<file_blocks, in_progress, complete, reader>>
    BY <1>1 DEF Write
  <2> QED
    BY <1>0, <1>b, <2>1 DEF Ended, BlockInProgress
<1>2. CASE Fill
  <2> DEFINE n == Smaller(to_write, BlockSize - in_progress.size)
  <2>1. n \in Nat
    BY <1>0 DEF Smaller, BlockTypes, WriterTypes
  <2>2. in_progress.size + n <= BlockSize
    BY <1>0 DEF Smaller, BlockTypes, WriterTypes
  <2>3. /\ wpc = "write"
        /\ in_progress' = [in_progress EXCEPT !.size = @ + n]
        /\ wpc' \in {"push", "write", "idle"} /\ (wpc' = "push" <=> in_progress.size + n = BlockSize)
        /\ UNCHANGED <<file_blocks, complete, reader>>
    BY <1>2 DEF Fill, FillUpTo
  <2> HIDE DEF n
  <2>4. /\ in_progress'.start = in_progress.start
        /\ in_progress'.size = in_progress.size + n
    BY <1>00, <2>3
  <2>5. ~Ended /\ ~Ended'
    BY <2>3 DEF Ended
  <2>6. BlockInProgress'
    BY <1>0, <1>00, <2>1, <2>2, <2>3, <2>4, <2>5 DEF BlockInProgress
  <2>7. Stored' = Stored + n
    BY <1>00, <2>1, <2>4 DEF Stored
  <2> QED
    BY <1>00, <1>a, <2>1, <2>3, <2>5, <2>6, <2>7
<1>3. CASE FillShort
  <2>1. PICK n \in 0..Smaller(to_write, BlockSize - in_progress.size) - 1 :
          in_progress' = [in_progress EXCEPT !.size = @ + n]
    BY <1>3 DEF FillShort
  <2>2. n \in Nat /\ in_progress.size + n < BlockSize
    BY <1>0, <2>1 DEF Smaller, BlockTypes, WriterTypes
  <2>3. wpc = "write" /\ wpc' = "idle" /\ UNCHANGED <<file_blocks, complete, reader>>
    BY <1>3 DEF FillShort
  <2>4. /\ in_progress'.start = in_progress.start
        /\ in_progress'.size = in_progress.size + n
    BY <1>00, <2>1
  <2>5. ~Ended /\ ~Ended'
    BY <2>3 DEF Ended
  <2>6. BlockInProgress'
    BY <1>0, <1>00, <2>2, <2>3, <2>4, <2>5 DEF BlockInProgress
  <2>7. Stored' = Stored + n
    BY <1>00, <2>2, <2>4 DEF Stored
  <2> QED
    BY <1>00, <1>a, <2>2, <2>3, <2>5, <2>6, <2>7
<1>4. CASE Push
  <2>1. /\ wpc = "push" /\ wpc' = "post" /\ UNCHANGED <<complete, reader>>
        /\ file_blocks' = Append(file_blocks, Pushed(in_progress, FALSE))
        /\ in_progress' = [start |-> Stored, size |-> 0]
    BY <1>4 DEF Push, NewBlock
  <2>2. ~Ended /\ ~Ended' /\ in_progress.size = BlockSize
    BY <1>0, <2>1 DEF Ended, BlockInProgress
  <2>3. Stored' = Stored
    BY <1>00, <2>1 DEF Stored
  <2>4. /\ ChainOfBlocks' /\ ReadPosition' /\ ReadBlocks' /\ ShortAtEnd' /\ DeletedBlocks'
        /\ Len(file_blocks') = Len(file_blocks) + 1
        /\ in_progress.start = Len(file_blocks) * BlockSize
    BY <2>1, <2>2, <2>3, PushFrame
  <2>5. in_progress'.start = Len(file_blocks') * BlockSize
    <3>1. Len(file_blocks) \in Nat
      BY <1>0 DEF BlockTypes
    <3> QED
      BY <2>1, <2>2, <2>4, <3>1, TimesNext DEF Stored
  <2>6. BlockInProgress'
    BY <1>0, <2>1, <2>2, <2>5 DEF BlockInProgress
  <2> QED
    BY <2>4, <2>6 DEF Order
<1>5. CASE Post
  <2>1. wpc = "post" /\ wpc' \in {"idle", "write"} /\ UNCHANGED <<file_blocks, in_progress, complete, reader>>
    BY <1>5 DEF Post
  <2> QED
    BY <1>0, <1>b, <2>1 DEF Ended, BlockInProgress
<1>6. CASE Close
  <2>1. /\ wpc = "idle" /\ wpc' = "complete" /\ UNCHANGED <<in_progress, complete, reader>>
        /\ file_blocks' = Append(file_blocks, Pushed(in_progress, TRUE))
    BY <1>6 DEF Close
  <2>2. ~Ended /\ Ended' /\ in_progress.size < BlockSize
    BY <1>0, <2>1 DEF Ended, BlockInProgress
  <2>3. Stored' = Stored
    BY <2>1 DEF Stored
  <2>4. /\ ChainOfBlocks' /\ ReadPosition' /\ ReadBlocks' /\ ShortAtEnd' /\ DeletedBlocks'
        /\ Len(file_blocks') = Len(file_blocks) + 1
        /\ file_blocks'[Len(file_blocks')] = Pushed(in_progress, TRUE)
        /\ in_progress.start = Len(file_blocks) * BlockSize
    BY <2>1, <2>2, <2>3, PushFrame
  <2>5. /\ Len(file_blocks') > 0 /\ Len(file_blocks') - 1 = Len(file_blocks)
        /\ file_blocks'[Len(file_blocks')].is_last
        /\ file_blocks'[Len(file_blocks')].size = in_progress'.size
    <3>1. Len(file_blocks) \in Nat
      BY <1>0 DEF BlockTypes
    <3> QED
      BY <2>1, <2>4, <3>1 DEF Pushed
  <2>6. BlockInProgress'
    BY <2>1, <2>2, <2>4, <2>5 DEF BlockInProgress
  <2> QED
    BY <2>4, <2>6 DEF Order
<1>7. CASE Complete
  <2>1. wpc = "complete" /\ wpc' = "wake" /\ UNCHANGED <<file_blocks, in_progress, reader>>
    BY <1>7 DEF Complete
  <2> QED
    BY <1>b, <2>1 DEF Ended
<1>8. CASE Wake
  <2>1. wpc = "wake" /\ wpc' = "closed" /\ UNCHANGED <<file_blocks, in_progress, reader>>
    BY <1>8 DEF Wake, WakeBy
  <2> QED
    BY <1>b, <2>1 DEF Ended
<1> QED
  BY <1>1, <1>2, <1>3, <1>4, <1>5, <1>6, <1>7, <1>8 DEF Writer

\* A step of the reader leaves the blocks in order and its read in place.
LEMMA ReaderOrder == SplitInv /\ Reader => Order'
<1> SUFFICES ASSUME SplitInv, Reader PROVE Order'
  OBVIOUS
<1> USE SplitFileAssumption
<1>0. BlockTypes /\ ReaderTypes /\ Stored \in Nat /\ complete \in BOOLEAN
  BY FrontInChain DEF SplitInv, Types
<1>a. ASSUME UNCHANGED <<file_blocks, in_progress, complete, wpc>>
      PROVE  ChainOfBlocks' /\ BlockInProgress' /\ Stored' = Stored /\ (Ended' <=> Ended)
  BY <1>a DEF SplitInv, ChainOfBlocks, BlockInProgress, Stored, Ended
<1>b. ASSUME UNCHANGED <<file_blocks, in_progress, complete, wpc, reached, front>>,
             rpc' \in {"idle", "check", "sleep", "fetch"} \/ (offset' = offset /\ offset >= Oldest)
      PROVE  DeletedBlocks'
  <2>1. Oldest' = Oldest /\ Stored' = Stored
    BY <1>b DEF Oldest, Stored
  <2>2. DeletedBlocks
    BY DEF SplitInv
  <2> QED
    BY <1>b, <2>1, <2>2 DEF DeletedBlocks
<1>c. ASSUME rpc' = "idle" PROVE ReadPosition' /\ ReadBlocks' /\ ShortAtEnd'
  BY <1>c DEF ReadPosition, ReadBlocks, ShortAtEnd
<1>1. ASSUME NEW n \in 1..MaxRead, NEW at \in 0..reached, Read(n, at) PROVE Order'
  <2>1. at \in Nat /\ at <= reached /\ reached <= Stored
    BY <1>0 DEF ReaderTypes, SplitInv, DeletedBlocks
  <2>2. /\ UNCHANGED <<file_blocks, in_progress, complete, wpc, reached, front>>
        /\ rpc' = "check" /\ offset' = at /\ remaining' = n /\ total' = 0
        /\ block_num' = at \div BlockSize /\ block_offset' = at % BlockSize
    BY <1>1 DEF Read, writer
  <2>3. at = (at \div BlockSize) * BlockSize + (at % BlockSize)
    BY <2>1, DivMod
  <2>4. Stored' = Stored /\ ChainOfBlocks' /\ BlockInProgress' /\ DeletedBlocks'
    BY <1>a, <1>b, <2>2
  <2>6. at \div BlockSize \in Nat
    BY <2>1, DivMod
  <2>5. ReadPosition'
    BY <1>0, <2>1, <2>2, <2>3, <2>4, <2>6 DEF ReadPosition, ReaderTypes
  <2>7. ReadBlocks' /\ ShortAtEnd'
    BY <2>2 DEF ReadBlocks, ShortAtEnd
  <2> QED
    BY <2>4, <2>5, <2>7 DEF Order
<1>2. ASSUME NEW from \in {"check", "sleep", "more", "sleep_more"}, NEW to \in ReaderSteps,
             rpc = from, rpc' = to,
             UNCHANGED <<file_blocks, in_progress, complete, wpc,
                         offset, remaining, block_num, block_offset, total, reached, front>>,
             \/ from \in {"check", "sleep"} /\ to \in {"check", "sleep"}
             \/ from = "check" /\ to = "fetch" /\ ~MustWait
             \/ from \in {"more", "sleep_more"} /\ to \in {"more", "sleep_more"}
             \/ from = "more" /\ to = "read" /\ ~MustWait
      PROVE  Order'
  <2>1. Stored' = Stored /\ ChainOfBlocks' /\ BlockInProgress' /\ DeletedBlocks'
    <3>1. \/ rpc' \in {"idle", "check", "sleep", "fetch"}
          \/ offset' = offset /\ offset >= Oldest
      BY <1>2 DEF SplitInv, DeletedBlocks
    <3> QED
      BY <1>a, <1>b, <1>2, <3>1
  <2>2. ReadPosition'
    BY <1>2, <2>1 DEF SplitInv, ReadPosition
  <2>3. ShortAtEnd'
    BY <1>2 DEF ShortAtEnd
  <2>4. rpc' \in {"fetch", "read"} => block_num < Len(file_blocks)
    <3>1. SUFFICES ASSUME ~MustWait, complete, rpc \in {"check", "more"}, rpc' \in {"fetch", "read"}
                   PROVE  block_num < Len(file_blocks)
      BY <1>0, <1>2 DEF MustWait, BlockTypes, ReaderTypes
    <3>2. Ended
      BY <3>1 DEF SplitInv, BlockInProgress
    <3>3. CASE rpc = "check"
      <4>1. block_num * BlockSize + block_offset <= Stored
        BY <3>3 DEF SplitInv, ReadPosition
      <4>2. block_num \in Nat /\ block_offset \in Nat
        BY <1>0 DEF ReaderTypes
      <4> QED
        BY <3>2, <4>1, <4>2, InChain
    <3>4. CASE rpc = "more"
      <4>1. block_num \in 1..Len(file_blocks) /\ ~file_blocks[block_num].is_last
        BY <3>4 DEF SplitInv, ReadBlocks
      <4>2. file_blocks[Len(file_blocks)].is_last /\ Len(file_blocks) \in Nat
        BY <1>0, <3>2 DEF SplitInv, BlockInProgress, BlockTypes
      <4> QED
        BY <4>1, <4>2
    <3> QED
      BY <3>1, <3>3, <3>4
  <2>5. ReadBlocks'
    BY <1>2, <2>4 DEF SplitInv, ReadBlocks
  <2> QED
    BY <2>1, <2>2, <2>3, <2>5 DEF Order
<1>3. CASE Check("check", "sleep", "fetch")
  BY <1>2, <1>3 DEF Check, ReaderSteps, writer
<1>4. CASE Sleep("sleep", "check")
  BY <1>2, <1>4 DEF Sleep, ReaderSteps, writer
<1>5. CASE Check("more", "sleep_more", "read")
  BY <1>2, <1>5 DEF Check, ReaderSteps, writer
<1>6. CASE Sleep("sleep_more", "more")
  BY <1>2, <1>6 DEF Sleep, ReaderSteps, writer
<1>7. CASE Fetch
  <2>1. /\ rpc = "fetch"
        /\ UNCHANGED <<file_blocks, in_progress, complete, wpc, reached, front>>
    BY <1>7 DEF Fetch, writer
  <2>2. CASE rpc' = "idle"
    BY <1>a, <1>b, <1>c, <2>1, <2>2 DEF Order
  <2>3. CASE /\ rpc' = "read" /\ Block(block_num).status # "DELETED"
             /\ UNCHANGED <<offset, remaining, block_num, block_offset, total>>
    <3>1. block_num \in Nat /\ block_num < Len(file_blocks) /\ block_offset \in Nat
      BY <1>0, <2>1 DEF SplitInv, ReadBlocks, ReaderTypes
    <3>2. offset = block_num * BlockSize + block_offset
      BY <1>0, <2>1 DEF SplitInv, ReadPosition, ReadBlocks, ReaderTypes
    <3>3. offset >= Oldest
      BY <2>3, <3>1, <3>2, WindowBlock
    <3>4. Stored' = Stored /\ ChainOfBlocks' /\ BlockInProgress' /\ DeletedBlocks'
      BY <1>a, <1>b, <2>1, <2>3, <3>3
    <3>5. ReadPosition'
      BY <2>1, <2>3, <3>4 DEF SplitInv, ReadPosition
    <3>6. ReadBlocks' /\ ShortAtEnd'
      BY <2>1, <2>3, <3>1 DEF ReadBlocks, ShortAtEnd
    <3> QED
      BY <3>4, <3>5, <3>6 DEF Order
  <2> QED
    BY <1>7, <2>2, <2>3 DEF Fetch, Return, Locals
<1>8. CASE ReadLast
  <2>1. /\ rpc = "read" /\ rpc' = "delete"
        /\ Available = remaining \/ Block(block_num).is_last
        /\ total' = total + Available /\ remaining' = remaining - Available
        /\ UNCHANGED <<file_blocks, in_progress, complete, wpc, offset, block_num, block_offset, reached, front>>
    BY <1>8 DEF ReadLast, FinishWhen, writer
  <2>2. offset >= Oldest
    BY <2>1 DEF SplitInv, DeletedBlocks
  <2>3. Stored' = Stored /\ ChainOfBlocks' /\ BlockInProgress' /\ DeletedBlocks' /\ (Ended' <=> Ended)
    BY <1>a, <1>b, <2>1, <2>2
  <2>4. offset \in Nat /\ total \in Nat /\ remaining \in Nat
    BY <1>0 DEF ReaderTypes
  <2>5. /\ Available \in 0..remaining
        /\ offset + total + Available <= Stored
        /\ Available < remaining /\ Block(block_num).is_last => Ended /\ offset + total + Available = Stored
    BY <2>1, ReadFromBlock
  <2>6. remaining + total > 0 /\ offset <= reached /\ offset \div BlockSize <= block_num
    BY <2>1 DEF SplitInv, ReadPosition
  <2> HIDE DEF Available
  <2>7. offset' + total' <= Stored' /\ remaining' + total' > 0
    BY <2>1, <2>3, <2>4, <2>5, <2>6
  <2>8. ReadPosition'
    BY <2>1, <2>6, <2>7 DEF ReadPosition
  <2>9. ShortAtEnd'
    BY <2>1, <2>3, <2>4, <2>5 DEF ShortAtEnd
  <2>10. ReadBlocks'
    BY <2>1 DEF ReadBlocks
  <2> QED
    BY <2>3, <2>8, <2>9, <2>10 DEF Order
<1>9. CASE ReadOn
  <2>1. /\ rpc = "read" /\ rpc' = "more"
        /\ Available < remaining /\ ~Block(block_num).is_last
        /\ total' = total + Available /\ remaining' = remaining - Available
        /\ block_num' = block_num + 1 /\ block_offset' = 0
        /\ UNCHANGED <<file_blocks, in_progress, complete, wpc, offset, reached, front>>
    BY <1>9 DEF ReadOn, ContinueAt, writer
  <2>2. offset >= Oldest
    BY <2>1 DEF SplitInv, DeletedBlocks
  <2>3. Stored' = Stored /\ ChainOfBlocks' /\ BlockInProgress' /\ DeletedBlocks'
    BY <1>a, <1>b, <2>1, <2>2
  <2>4. offset \in Nat /\ total \in Nat /\ remaining \in Nat /\ block_num \in Nat
    BY <1>0 DEF ReaderTypes
  <2>5. /\ Available \in 0..remaining
        /\ offset + total + Available <= Stored
        /\ offset + total + Available = (block_num + 1) * BlockSize
    BY <2>1, ReadFromBlock
  <2>6. /\ remaining + total > 0 /\ offset <= reached /\ offset \div BlockSize <= block_num
        /\ block_num < Len(file_blocks)
    BY <2>1 DEF SplitInv, ReadPosition, ReadBlocks
  <2>11. offset \div BlockSize \in Nat
    BY <2>4, DivMod
  <2>7. offset' + total' <= Stored' /\ remaining' + total' > 0
    BY <2>1, <2>3, <2>4, <2>5, <2>6
  <2>8. ReadPosition'
    <3>1. offset' \div BlockSize <= block_num'
      BY <2>1, <2>4, <2>6, <2>11
    <3>2. block_num' * BlockSize + block_offset' = offset' + total'
      <4>1. (block_num + 1) * BlockSize \in Nat
        BY <2>4, TimesNext
      <4> QED
        BY <2>1, <2>4, <2>5, <4>1
    <3> QED
      BY <2>1, <2>6, <2>7, <3>1, <3>2 DEF ReadPosition
  <2>9. ShortAtEnd'
    BY <2>1 DEF ShortAtEnd
  <2>10. ReadBlocks'
    <3>1. block_num + 1 \in 1..Len(file_blocks) /\ ~file_blocks[block_num + 1].is_last
      BY <1>0, <2>1, <2>4, <2>6 DEF BlockTypes, Block
    <3> QED
      BY <2>1, <3>1 DEF ReadBlocks
  <2> QED
    BY <2>3, <2>8, <2>9, <2>10 DEF Order
<1>10. CASE Delete
  <2> DEFINE q == offset \div BlockSize
  <2>1. offset \in Nat /\ total \in Nat /\ reached \in Nat /\ front \in Nat /\ file_blocks \in Seq(Blocks)
    BY <1>0 DEF ReaderTypes, BlockTypes
  <2>2. q \in Nat /\ q * BlockSize <= offset /\ q * BlockSize \in Nat
    <3>1. q \in Nat /\ offset % BlockSize \in Nat /\ offset = q * BlockSize + (offset % BlockSize)
      BY <2>1, DivMod
    <3>2. q * BlockSize \in Nat
      BY <3>1, TimesNext
    <3> QED
      BY <3>1, <3>2
  <2>3. /\ rpc = "delete" /\ rpc' = "idle"
        /\ file_blocks' = [i \in DOMAIN file_blocks |->
             IF i - 1 < q - 2 THEN [file_blocks[i] EXCEPT !.status = "DELETED"] ELSE file_blocks[i]]
        /\ reached' = Larger(offset + total, reached) /\ front' = Larger(q, front)
        /\ UNCHANGED <<in_progress, complete, wpc>>
    BY <1>10 DEF Delete, DeleteBefore, Return, writer
  <2> HIDE DEF q
  <2>4. Len(file_blocks') = Len(file_blocks)
    BY <2>1, <2>2, <2>3, DeletedBlocksType
  <2>5. ASSUME NEW k \in 1..Len(file_blocks)
        PROVE  /\ file_blocks'[k].start = file_blocks[k].start
               /\ file_blocks'[k].size = file_blocks[k].size
               /\ file_blocks'[k].is_last = file_blocks[k].is_last
               /\ (file_blocks'[k].status = "DELETED") <=> (k + 2 <= front')
    <3>1. file_blocks'[k] = IF k - 1 < q - 2 THEN [file_blocks[k] EXCEPT !.status = "DELETED"]
                                             ELSE file_blocks[k]
      <4>1. k \in DOMAIN file_blocks
        BY <2>1
      <4> QED
        BY <2>3, <4>1
    <3>2. file_blocks[k] \in Blocks
      BY <2>1
    <3>3. /\ [file_blocks[k] EXCEPT !.status = "DELETED"].start = file_blocks[k].start
          /\ [file_blocks[k] EXCEPT !.status = "DELETED"].size = file_blocks[k].size
          /\ [file_blocks[k] EXCEPT !.status = "DELETED"].is_last = file_blocks[k].is_last
          /\ [file_blocks[k] EXCEPT !.status = "DELETED"].status = "DELETED"
      BY <3>2 DEF Blocks
    <3>4. (file_blocks[k].status = "DELETED") <=> (k + 2 <= front)
      BY DEF SplitInv, DeletedBlocks
    <3>5. (k - 1 < q - 2) <=> (k + 2 <= q)
      BY <2>2
    <3>6. (k + 2 <= front') <=> (k + 2 <= q \/ k + 2 <= front)
      <4>1. front' = IF q >= front THEN q ELSE front
        BY <2>3 DEF Larger
      <4>2. front \in Nat /\ q \in Nat /\ k \in Int
        BY <2>1, <2>2
      <4> QED
        BY <4>1, <4>2
    <3>7. (file_blocks'[k].status = "DELETED") <=> (k - 1 < q - 2 \/ k + 2 <= front)
      BY <3>1, <3>3, <3>4
    <3> QED
      BY <3>1, <3>3, <3>5, <3>6, <3>7
  <2>6. Stored' = Stored /\ (Ended' <=> Ended) /\ Len(file_blocks) \in Nat
    BY <2>1, <2>3 DEF Stored, Ended
  <2>7. ChainOfBlocks'
    BY <2>4, <2>5, <2>6 DEF SplitInv, ChainOfBlocks
  <2>8. BlockInProgress'
    <3>1. Ended => Len(file_blocks) \in 1..Len(file_blocks)
      BY <2>6 DEF SplitInv, BlockInProgress
    <3> QED
      BY <2>3, <2>4, <2>5, <2>6, <3>1 DEF SplitInv, BlockInProgress
  <2>9. DeletedBlocks'
    <3>1. front * BlockSize <= reached /\ reached <= Stored /\ offset + total <= Stored /\ front * BlockSize \in Nat
      BY <2>1, <2>3, TimesNext DEF SplitInv, DeletedBlocks, ReadPosition
    <3>2. front' * BlockSize <= reached'
      <4>1. /\ front' = IF q >= front THEN q ELSE front
            /\ reached' = IF offset + total >= reached THEN offset + total ELSE reached
        BY <2>3 DEF Larger
      <4>2. q * BlockSize <= reached' /\ front * BlockSize <= reached'
        BY <2>1, <2>2, <3>1, <4>1
      <4> QED
        BY <4>1, <4>2
    <3>3. reached' <= Stored'
      BY <2>3, <2>6, <3>1 DEF Larger
    <3> QED
      BY <2>3, <2>4, <2>5, <3>2, <3>3 DEF DeletedBlocks
  <2> QED
    BY <1>c, <2>3, <2>7, <2>8, <2>9 DEF Order
<1> QED
  BY <1>1, <1>3, <1>4, <1>5, <1>6, <1>7, <1>8, <1>9, <1>10 DEF Reader

\* The invariant holds when the file has been opened.
LEMMA InvInit == Init => SplitInv
BY TypesInit, OrderInit DEF SplitInv, Order

\* No step leads out of the invariant.
LEMMA InvStep == SplitInv /\ [Next]_vars => SplitInv'
<1> SUFFICES ASSUME SplitInv, [Next]_vars PROVE SplitInv'
  OBVIOUS
<1>1. complete' \in BOOLEAN
  <2>1. complete \in BOOLEAN
    BY DEF SplitInv
  <2>2. complete' = complete \/ complete' = TRUE
    BY Zenon DEF Next, Writer, Reader, vars, Write, Fill, FillUpTo, FillShort, Push, Post, Close, Complete,
                 Wake, WakeBy, Read, Check, Sleep, Fetch, ReadLast, FinishWhen, ReadOn, ContinueAt, Delete,
                 DeleteBefore
  <2> QED
    BY <2>1, <2>2, Zenon
<1>2. Types' /\ RoomLeft'
  BY TypesStep DEF SplitInv
<1>3. CASE Writer
  BY <1>1, <1>2, <1>3, WriterOrder DEF SplitInv, Order
<1>4. CASE Reader
  BY <1>1, <1>2, <1>4, ReaderOrder DEF SplitInv, Order
<1>5. CASE UNCHANGED vars
  <2>1. UNCHANGED <<file_blocks, reader>> /\ Stored' = Stored /\ (Ended' <=> Ended)
    BY <1>5 DEF vars, writer, Stored, Ended
  <2>2. Stored \in Nat
    BY FrontInChain
  <2>3. ChainOfBlocks' /\ ReadPosition' /\ ReadBlocks' /\ ShortAtEnd' /\ DeletedBlocks'
    BY <2>1, <2>2, WriterFrame
  <2>4. BlockInProgress'
    BY <1>5 DEF SplitInv, BlockInProgress, vars, writer, Ended
  <2> QED
    BY <1>1, <1>2, <2>3, <2>4 DEF SplitInv
<1> QED
  BY <1>3, <1>4, <1>5 DEF Next

\* SplitInv is an invariant of the spooled download.
THEOREM SplitInvariant == Spec => []SplitInv
<1>1. Init => SplitInv
  BY InvInit
<1>2. SplitInv /\ [Next]_vars => SplitInv'
  BY InvStep
<1> QED
  BY <1>1, <1>2, PTL DEF Spec

\* The shared data and the locals of Write, Close and Read keep their types: in
\* particular no block outgrows block_size (split_file.cpp, Write), a semaphore
\* is never taken below zero and a Read never returns more than was asked for.
THEOREM TypeCorrect == Spec => []TypeOK
<1>1. SplitInv => TypeOK
  BY DEF SplitInv, Types, BlockTypes, WriterTypes, ReaderTypes, TypeOK
<1> QED
  BY <1>1, SplitInvariant, PTL

\* Read (split_file.cpp) never indexes file_blocks behind its end, and what it
\* takes from a block continues what it has read.
THEOREM ReadsInOrder == Spec => []InOrder
<1>1. SplitInv => InOrder
  <2> SUFFICES ASSUME SplitInv, rpc = "read" PROVE Block(block_num).start + block_offset = offset + total
    BY DEF InOrder, SplitInv, ReadBlocks
  <2>1. block_num + 1 \in 1..Len(file_blocks) /\ block_num \in Nat
    BY DEF SplitInv, ReadBlocks, Types, ReaderTypes, BlockTypes
  <2>2. file_blocks[block_num + 1].start = (block_num + 1 - 1) * BlockSize
    BY <2>1, BlockEnd
  <2>3. block_num + 1 - 1 = block_num
    BY <2>1
  <2> QED
    BY <2>2, <2>3 DEF Block, SplitInv, ReadPosition
<1> QED
  BY <1>1, SplitInvariant, PTL

\* Delete keeps the window: a read that starts in the block of the furthest read
\* or in the two before it never meets a deleted block (split_file.cpp:130).
THEOREM WindowIsKept == Spec => []WindowKept
<1>1. SplitInv => WindowKept
  <2> SUFFICES ASSUME SplitInv, rpc \in {"fetch", "read"}, offset >= Oldest
               PROVE  Block(block_num).status = "CREATED"
    BY DEF WindowKept
  <2>1. block_num < Len(file_blocks) /\ block_num \in Nat /\ block_offset \in Nat /\ block_offset < BlockSize
    BY SplitFileAssumption DEF SplitInv, ReadBlocks, Types, ReaderTypes
  <2>2. Block(block_num) \in Blocks
    <3>1. block_num + 1 \in 1..Len(file_blocks)
      BY <2>1 DEF SplitInv, Types, BlockTypes
    <3> QED
      BY <3>1, BlockEnd DEF Block
  <2>3. block_num * BlockSize + block_offset = offset + total /\ offset + total >= Oldest
        /\ offset + total \in Nat /\ Oldest \in Nat
    <3>1. block_num * BlockSize + block_offset = offset + total
      BY DEF SplitInv, ReadPosition
    <3>2. offset \in Nat /\ total \in Nat /\ Oldest \in Nat
      BY OldestIsPosition DEF SplitInv, Types, ReaderTypes
    <3> QED
      BY <3>1, <3>2
  <2>4. Block(block_num).status # "DELETED"
    <3>1. Block(block_num).status = "DELETED" => block_num * BlockSize + block_offset < Oldest
      BY <2>1, WindowBlock
    <3> QED
      BY <2>3, <3>1
  <2> QED
    BY <2>2, <2>4 DEF Blocks
<1> QED
  BY <1>1, SplitInvariant, PTL

-------------------------------------------------------------------------------
(* SplitFile implements ByteStream.                                        *)

\* The request the stream sees while a Read is under way.
Request == IF rpc = "idle" THEN None ELSE [at |-> offset, size |-> remaining + total]

\* A step that changes nothing the stream knows of.
LEMMA Stutter ==
  ASSUME Stored' = Stored, Ended' <=> Ended, Request' = Request, result' = result, Oldest' = Oldest
  PROVE  UNCHANGED Stream!vars
BY DEF Stream!vars, Stored, Ended, Request, Oldest

\* A step of the transfer thread appends to the stream, ends it, or is not seen.
LEMMA WriterStream == SplitInv /\ Writer => [Stream!Next]_(Stream!vars)
<1> SUFFICES ASSUME SplitInv, Writer PROVE Stream!Next \/ UNCHANGED Stream!vars
  OBVIOUS
<1> USE SplitFileAssumption
<1>0. /\ in_progress \in [start : Nat, size : 0..BlockSize] /\ to_write \in Nat
      /\ Stored \in Nat
  BY FrontInChain DEF SplitInv, Types, BlockTypes, WriterTypes
<1>1. UNCHANGED reader
  BY DEF Writer, Write, Fill, FillUpTo, FillShort, Push, Post, Close, Complete, Wake, WakeBy
<1>2. Request' = Request /\ result' = result /\ Oldest' = Oldest
  BY <1>1 DEF reader, Request, Oldest
<1>a. ASSUME NEW n \in Nat, Stored' = Stored + n, ~Ended, ~Ended'
      PROVE  Stream!Next \/ UNCHANGED Stream!vars
  <2>1. CASE n = 0
    BY <1>0, <1>2, <1>a, <2>1, Stutter
  <2>2. CASE n > 0
    <3>1. Stored' \in Nat /\ Stored' > Stored
      BY <1>0, <1>a, <2>2
    <3>2. Stream!Extend
      BY <1>2, <1>a, <3>1 DEF Stream!Extend, Stored, Ended, Request, Oldest
    <3> QED
      BY <3>2 DEF Stream!Next
  <2> QED
    BY <2>1, <2>2
<1>3. CASE Fill
  <2> DEFINE n == Smaller(to_write, BlockSize - in_progress.size)
  <2>1. n \in Nat
    BY <1>0 DEF Smaller
  <2>2. /\ in_progress' = [in_progress EXCEPT !.size = @ + n]
        /\ wpc = "write" /\ wpc' \in {"push", "write", "idle"}
    BY <1>3 DEF Fill, FillUpTo
  <2> HIDE DEF n
  <2>3. Stored' = Stored + n
    BY <1>0, <2>1, <2>2 DEF Stored
  <2> QED
    BY <1>a, <2>1, <2>2, <2>3 DEF Ended
<1>4. CASE FillShort
  <2>1. PICK n \in 0..Smaller(to_write, BlockSize - in_progress.size) - 1 :
          in_progress' = [in_progress EXCEPT !.size = @ + n]
    BY <1>4 DEF FillShort
  <2>2. n \in Nat
    BY <1>0, <2>1 DEF Smaller
  <2>3. Stored' = Stored + n
    BY <1>0, <2>1, <2>2 DEF Stored
  <2> QED
    BY <1>4, <1>a, <2>2, <2>3 DEF FillShort, Ended
<1>5. CASE Close
  <2>1. wpc = "idle" /\ wpc' = "complete" /\ Stored' = Stored
    BY <1>5 DEF Close, Stored
  <2>2. Stream!Finish
    BY <1>2, <2>1 DEF Stream!Finish, Stored, Request, Oldest
  <2> QED
    BY <2>2 DEF Stream!Next
<1>6. ASSUME Stored' = Stored, Ended' <=> Ended PROVE Stream!Next \/ UNCHANGED Stream!vars
  BY <1>2, <1>6, Stutter
<1>7. CASE Push
  BY <1>0, <1>6, <1>7 DEF Push, NewBlock, Stored, Ended
<1>8. CASE (\E n \in 1..MaxWrite : Write(n)) \/ Post \/ Complete \/ Wake
  BY <1>6, <1>8 DEF Write, Post, Complete, Wake, WakeBy, Stored, Ended
<1> QED
  BY <1>3, <1>4, <1>5, <1>7, <1>8 DEF Writer

\* A step of the reader asks, is served, is refused, or is not seen.
LEMMA ReaderStream == SplitInv /\ Reader => [Stream!Next]_(Stream!vars)
<1> SUFFICES ASSUME SplitInv, Reader PROVE Stream!Next \/ UNCHANGED Stream!vars
  OBVIOUS
<1> USE SplitFileAssumption
<1>0. BlockTypes /\ ReaderTypes /\ Stored \in Nat
  BY FrontInChain DEF SplitInv, Types
<1>1. offset \in Nat /\ remaining \in Nat /\ total \in Nat /\ reached \in Nat /\ front \in Nat
  BY <1>0 DEF ReaderTypes
<1>2. Stored' = Stored /\ (Ended' <=> Ended)
  BY DEF Reader, Read, Check, Sleep, Fetch, ReadLast, FinishWhen, ReadOn, ContinueAt, Delete,
         DeleteBefore, writer, Stored, Ended
<1>3. rpc # "idle" => Request # Stream!NoRequest /\ Request.at = offset /\ Request.size = remaining + total
  <2> SUFFICES ASSUME rpc # "idle" PROVE Request # Stream!NoRequest /\ Request.at = offset
                                         /\ Request.size = remaining + total
    OBVIOUS
  <2>1. remaining + total > 0
    BY DEF SplitInv, ReadPosition
  <2> QED
    BY <1>1, <2>1 DEF Request, Stream!NoRequest
<1>a. ASSUME UNCHANGED <<result, front>>, Request' = Request
      PROVE  Stream!Next \/ UNCHANGED Stream!vars
  BY <1>2, <1>a, Stutter DEF Oldest
<1>4. ASSUME NEW n \in 1..MaxRead, NEW at \in 0..reached, Read(n, at) PROVE Stream!Next
  <2>1. Request = Stream!NoRequest /\ Request' = [at |-> at, size |-> n + 0] /\ result' = Stream!NoRequest
        /\ Oldest' = Oldest
    BY <1>4 DEF Read, Request, None, Stream!NoRequest, Oldest
  <2>2. Request' \in [at : Nat, size : Nat \ {0}]
    BY <1>1, <2>1
  <2>3. Stream!Ask
    BY <1>2, <2>1, <2>2 DEF Stream!Ask, Request, Stored, Ended, Oldest
  <2> QED
    BY <2>3 DEF Stream!Next
<1>5. CASE Check("check", "sleep", "fetch") \/ Check("more", "sleep_more", "read")
           \/ Sleep("sleep", "check") \/ Sleep("sleep_more", "more")
  BY <1>5, <1>a DEF Check, Sleep, Request
<1>6. CASE ReadLast \/ ReadOn
  <2>1. /\ rpc = "read" /\ rpc' # "idle" /\ UNCHANGED <<offset, result, front>>
        /\ total' = total + Available /\ remaining' = remaining - Available
    BY <1>6 DEF ReadLast, FinishWhen, ReadOn, ContinueAt
  <2>2. Available \in Nat
    BY <1>1, <2>1, ReadFromBlock
  <2>3. remaining' + total' = remaining + total
    BY <1>1, <2>1, <2>2
  <2>4. Request' = Request
    BY <2>1, <2>3 DEF Request
  <2> QED
    BY <1>a, <2>1, <2>4
<1>7. CASE Fetch
  <2>1. /\ rpc = "fetch" /\ total = 0 /\ UNCHANGED front /\ Oldest' = Oldest
        /\ block_num < Len(file_blocks)
        /\ block_num * BlockSize + block_offset = offset /\ offset <= Stored /\ remaining > 0
    BY <1>0, <1>1, <1>7 DEF Fetch, SplitInv, ReadPosition, ReadBlocks, ReaderTypes, Oldest
  <2>2. block_num \in Nat /\ block_offset \in Nat /\ block_offset < BlockSize
    BY <1>0 DEF ReaderTypes
  <2>3. CASE Block(block_num).status = "DELETED"
    <3>1. offset < Oldest
      BY <2>1, <2>2, <2>3, WindowBlock
    <3>2. result' = [at |-> offset, size |-> -1] /\ rpc' = "idle"
      BY <1>7, <2>3 DEF Fetch, Return
    <3>3. Request' = Stream!NoRequest
      BY <3>2 DEF Request, None, Stream!NoRequest
    <3>4. Stream!Refuse
      BY <1>2, <1>3, <2>1, <3>1, <3>2, <3>3 DEF Stream!Refuse, Request, Stored, Ended, Oldest
    <3> QED
      BY <3>4 DEF Stream!Next
  <2>4. CASE /\ Block(block_num).status # "DELETED" /\ complete /\ Block(block_num).size > 0
             /\ block_offset > Block(block_num).size - 1 /\ Return(0)
    <3>1. offset >= Oldest
      BY <2>1, <2>2, <2>4, WindowBlock
    <3>2. result' = [at |-> offset, size |-> 0] /\ rpc' = "idle"
      BY <2>4 DEF Return
    <3>3. Request' = Stream!NoRequest
      BY <3>2 DEF Request, None, Stream!NoRequest
    <3>4. Ended /\ Stored = offset
      <4>1. block_num + 1 \in 1..Len(file_blocks)
        BY <1>0, <2>1, <2>2 DEF BlockTypes
      <4>2. Block(block_num).size \in Nat
        BY <4>1, BlockEnd DEF Block, Blocks
      <4>3. Block(block_num).size < BlockSize
        BY <2>2, <2>4, <4>2
      <4>4. Ended /\ block_num + 1 = Len(file_blocks)
        BY <4>1, <4>2, <4>3 DEF SplitInv, ChainOfBlocks, Block
      <4>5. Block(block_num).size = in_progress.size
        BY <2>2, <4>4 DEF SplitInv, BlockInProgress, Block
      <4>6. in_progress.start = block_num * BlockSize
        <5>1. Len(file_blocks) - 1 = block_num
          BY <2>2, <4>4
        <5> QED
          BY <4>4, <5>1 DEF SplitInv, BlockInProgress
      <4>7. block_num * BlockSize \in Nat
        BY <2>2, TimesNext
      <4> QED
        BY <1>0, <1>1, <2>1, <2>2, <2>4, <4>2, <4>4, <4>5, <4>6, <4>7 DEF Stored
    <3>5. Request.at + Request.size > Stored
      BY <1>0, <1>1, <1>3, <2>1, <3>4
    <3>6. Oldest' \in Oldest..(IF Request.at > Oldest THEN Request.at ELSE Oldest)
      BY <1>1, <1>3, <2>1, <3>1, OldestIsPosition
    <3>7. result' = [at |-> Request.at, size |-> IF Stored > Request.at THEN Stored - Request.at ELSE 0]
      BY <1>1, <1>3, <2>1, <3>2, <3>4
    <3>8. Request # Stream!NoRequest /\ Request.at >= Oldest
      BY <1>3, <2>1, <3>1
    <3>9. Stream!Serve
      BY <1>2, <3>3, <3>4, <3>5, <3>6, <3>7, <3>8 DEF Stream!Serve, Request, Stored, Ended, Oldest
    <3> QED
      BY <3>9 DEF Stream!Next
  <2>5. CASE rpc' = "read" /\ UNCHANGED <<result, Locals>>
    BY <1>a, <2>1, <2>5 DEF Locals, Request
  <2> QED
    BY <1>7, <2>3, <2>4, <2>5 DEF Fetch
<1>8. CASE Delete
  <2> DEFINE q == offset \div BlockSize
  <2>1. /\ rpc = "delete" /\ rpc' = "idle" /\ result' = [at |-> offset, size |-> total]
        /\ front' = Larger(q, front)
    BY <1>8 DEF Delete, DeleteBefore, Return
  <2>2. q \in Nat /\ q * BlockSize <= offset
    <3>1. q \in Nat /\ offset % BlockSize \in Nat /\ offset = q * BlockSize + (offset % BlockSize)
      BY <1>1, DivMod
    <3>2. q * BlockSize \in Nat
      BY <3>1, TimesNext
    <3> QED
      BY <3>1, <3>2
  <2> HIDE DEF q
  <2>3. Request' = Stream!NoRequest
    BY <2>1 DEF Request, None, Stream!NoRequest
  <2>4. /\ offset >= Oldest /\ offset + total <= Stored
        /\ remaining > 0 => Ended /\ offset + total = Stored
    BY <2>1 DEF SplitInv, DeletedBlocks, ReadPosition, ShortAtEnd
  <2>5. Oldest \in Nat /\ Oldest' \in Nat /\ Oldest <= Oldest' /\ Oldest' <= offset
    <3>1. Oldest \in Nat
      BY OldestIsPosition
    <3>2. CASE front' = front
      BY <2>4, <3>1, <3>2 DEF Oldest
    <3>3. CASE front' = q /\ q > front
      <4>1. CASE q > 2
        <5>1. q - 2 \in Nat /\ q - 2 <= q /\ Oldest' = (q - 2) * BlockSize
          BY <2>2, <3>3, <4>1 DEF Oldest
        <5>2. (q - 2) * BlockSize <= q * BlockSize /\ (q - 2) * BlockSize \in Nat /\ q * BlockSize \in Nat
          BY <2>2, <5>1, TimesMonotone, TimesNext
        <5>3. front > 2 => (front - 2) * BlockSize <= (q - 2) * BlockSize
          <6>1. front > 2 => front - 2 \in Nat /\ front - 2 <= q - 2
            BY <1>1, <2>2, <3>3
          <6> QED
            BY <5>1, <6>1, TimesMonotone
        <5>4. Oldest <= (q - 2) * BlockSize
          BY <5>2, <5>3 DEF Oldest
        <5> QED
          BY <1>1, <2>2, <3>1, <5>1, <5>2, <5>4
      <4>2. CASE ~(q > 2)
        <5>1. Oldest = 0 /\ Oldest' = 0
          BY <1>1, <2>2, <3>3, <4>2 DEF Oldest
        <5> QED
          BY <1>1, <5>1
      <4> QED
        BY <4>1, <4>2
    <3> QED
      BY <1>1, <2>1, <2>2, <3>2, <3>3 DEF Larger
  <2>6. Oldest' \in Oldest..(IF Request.at > Oldest THEN Request.at ELSE Oldest)
    BY <1>1, <1>3, <2>1, <2>4, <2>5
  <2>7. Request # Stream!NoRequest /\ Request.at >= Oldest
    BY <1>3, <2>1, <2>4
  <2>8. \/ Request.at + Request.size <= Stored /\ result' = Request
        \/ /\ Ended /\ Request.at + Request.size > Stored
           /\ result' = [at |-> Request.at, size |-> IF Stored > Request.at THEN Stored - Request.at ELSE 0]
    <3>1. CASE remaining = 0
      BY <1>0, <1>1, <1>3, <2>1, <2>4, <3>1 DEF Request
    <3>2. CASE remaining > 0
      BY <1>0, <1>1, <1>3, <2>1, <2>4, <3>2
    <3> QED
      BY <1>1, <3>1, <3>2
  <2>9. Stream!Serve
    BY <1>2, <2>3, <2>6, <2>7, <2>8 DEF Stream!Serve, Request, Stored, Ended, Oldest
  <2> QED
    BY <2>9 DEF Stream!Next
<1> QED
  BY <1>4, <1>5, <1>6, <1>7, <1>8 DEF Reader

\* The chain of block files promises its users one byte stream: whatever the
\* interleaving of Write, Close and Read, a read is served in full, or short at
\* the end of the stream, or refused if it starts behind the window.
THEOREM Implements == Spec => StreamSpec
<1>1. Init => Stream!Init
  BY SplitFileAssumption DEF Init, Stream!Init, Stored, NewBlock, None, Oldest, Stream!NoRequest
<1>2. SplitInv /\ [Next]_vars => [Stream!Next]_(Stream!vars)
  <2> SUFFICES ASSUME SplitInv, [Next]_vars PROVE [Stream!Next]_(Stream!vars)
    OBVIOUS
  <2>1. CASE UNCHANGED vars
    BY <2>1, Stutter DEF vars, writer, reader, Stored, Ended, Request, Oldest
  <2> QED
    BY <2>1, WriterStream, ReaderStream DEF Next
<1> QED
  BY <1>1, <1>2, SplitInvariant, PTL DEF Spec, StreamSpec, Stream!Spec

===============================================================================
