-------------------------- MODULE ChunkedUploadProofs --------------------------
(***************************************************************************)
(* Proofs about ChunkedUpload, for any size of chunk and file and any      *)
(* number of attempts: what is stored is a beginning of the file, and what *)
(* one attempt makes of an older file.                                     *)
(***************************************************************************)
EXTENDS ChunkedUpload, SequenceTheorems, TLAPS

Pieces == Nat \cup {OLD, HOLE}

-------------------------------------------------------------------------------
(* The inductive invariant.                                                *)

Busy(s) == handler[s].state # "free"

\* A free slot has forgotten its request; before the first attempt nothing happens.
Slotted ==
  /\ \A s \in Slots : ~Busy(s) => handler[s] = Free
  /\ attempts = 0 => page = "idle" /\ stored = OldFile(old) /\ \A s \in Slots : ~Busy(s)

\* At most one request is being worked on: the one the page waits for, or one that
\* was cut off.
OneRequest ==
  /\ \A s, t \in Slots : Busy(s) /\ Busy(t) => s = t
  /\ \A s \in Slots : Busy(s) => (handler[s].awaited <=> page = "wait")
  /\ page \in {"post", "done"} => \A s \in Slots : ~Busy(s)

Clean == old = 0 /\ mishaps = {}

\* What is stored is a beginning of the file, and every request goes on where it
\* ends, whether the page still waits for it or not.
Beginning ==
  /\ Len(stored) <= size
  /\ stored = Slice(0, Len(stored))
  /\ \A s \in Slots : Busy(s) =>
       /\ handler[s].next = Len(stored)
       /\ handler[s].to <= size
       /\ handler[s].mode # "none"
       /\ handler[s].mode = "w" =>
            IF handler[s].state = "sent" THEN handler[s].next = 0 /\ handler[s].at = 0
                                         ELSE handler[s].at = Len(stored)
  /\ page = "post" =>
       /\ start = Len(stored) /\ end = start + ChunkSize
       /\ start = 0 \/ start >= ChunkSize
  /\ page = "wait" => \A s \in Slots : Busy(s) =>
       IF finished THEN handler[s].to = size
                   ELSE handler[s].to = end /\ end >= ChunkSize
  /\ page = "done" => Len(stored) = size

First == attempts = 1 /\ "lost_write" \notin mishaps

\* What stays of the older file.
Kept == IF old < ChunkSize THEN <<>> ELSE OldFile(old)

\* The first attempt counts the pieces of the older file as its own.
FirstAttempt ==
  /\ page = "ask" => stored = OldFile(old) /\ \A s \in Slots : ~Busy(s)
  /\ page = "post" =>
       /\ end = start + ChunkSize
       /\ \/ start = old /\ stored = OldFile(old)
          \/ start \in old..size /\ start >= ChunkSize /\ stored = Kept \o Slice(old, start)
  /\ page = "wait" => \A s \in Slots : Busy(s) =>
       /\ handler[s].next >= old
       /\ handler[s].mode # "none"
       /\ \/ /\ handler[s].state = "sent" /\ handler[s].mode = "w"
             /\ handler[s].next = old /\ old < ChunkSize /\ handler[s].at = 0
          \/ /\ handler[s].state = "sent" /\ handler[s].mode = "a"
             /\ stored = Kept \o Slice(old, handler[s].next)
          \/ /\ handler[s].state = "open"
             /\ stored = Kept \o Slice(old, handler[s].next)
             /\ handler[s].mode = "w" => old < ChunkSize /\ handler[s].at = Len(stored)
       /\ IF finished THEN handler[s].to = size \/ (handler[s].to = old /\ size <= old)
                      ELSE handler[s].to = end /\ end \in ChunkSize..size
  /\ page = "done" => stored = Kept \o Slice(old, size)

UploadInv ==
  /\ TypeOK
  /\ Slotted
  /\ Clean \/ First => OneRequest
  /\ Clean => Beginning
  /\ First => FirstAttempt

-------------------------------------------------------------------------------
(* Sequences of pieces.                                                    *)

\* Slice(a, b) has the pieces from a up to b.
LEMMA SliceProperties ==
  ASSUME NEW a \in Nat, NEW b \in Nat
  PROVE  /\ Slice(a, b) \in Seq(Pieces)
         /\ Len(Slice(a, b)) = IF a < b THEN b - a ELSE 0
         /\ \A i \in 1..(IF a < b THEN b - a ELSE 0) : Slice(a, b)[i] = a + i - 1
<1>1. \A i \in 1..(IF a < b THEN b - a ELSE 0) : a + i - 1 \in Pieces
  BY DEF Pieces
<1>2. (IF a < b THEN b - a ELSE 0) \in Nat
  OBVIOUS
<1> QED
  BY <1>1, <1>2 DEF Slice

\* The slice grows by one piece.
LEMMA SliceNext ==
  ASSUME NEW a \in Nat, NEW b \in Nat, a <= b
  PROVE  Append(Slice(a, b), b) = Slice(a, b + 1)
<1>1. b + 1 \in Nat /\ b \in Pieces
  BY DEF Pieces
<1>2. /\ Slice(a, b) \in Seq(Pieces) /\ Len(Slice(a, b)) = b - a
      /\ \A i \in 1..(b - a) : Slice(a, b)[i] = a + i - 1
  BY SliceProperties
<1>3. /\ Slice(a, b + 1) \in Seq(Pieces) /\ Len(Slice(a, b + 1)) = b - a + 1
      /\ \A i \in 1..(b - a + 1) : Slice(a, b + 1)[i] = a + i - 1
  <2> DEFINE c == b + 1
  <2>1. c \in Nat /\ a < c /\ c - a = b - a + 1
    OBVIOUS
  <2> HIDE DEF c
  <2>2. /\ Slice(a, c) \in Seq(Pieces) /\ Len(Slice(a, c)) = c - a
        /\ \A i \in 1..(c - a) : Slice(a, c)[i] = a + i - 1
    BY <2>1, SliceProperties
  <2>3. Slice(a, c) = Slice(a, b + 1)
    BY DEF c
  <2> QED
    BY <2>1, <2>2, <2>3
<1> DEFINE longer == Append(Slice(a, b), b)
<1>4. /\ longer \in Seq(Pieces) /\ Len(longer) = b - a + 1
      /\ \A i \in 1..(b - a) : longer[i] = Slice(a, b)[i]
      /\ longer[b - a + 1] = b
  BY <1>1, <1>2, AppendProperties
<1>5. \A i \in 1..(b - a + 1) : longer[i] = Slice(a, b + 1)[i]
  BY <1>2, <1>3, <1>4
<1> HIDE DEF longer
<1>6. longer = Slice(a, b + 1)
  BY <1>3, <1>4, <1>5, SeqEqual
<1> QED
  BY <1>6 DEF longer

\* A slice that ends before it begins is empty.
LEMMA SliceEmpty ==
  ASSUME NEW a \in Nat, NEW b \in Nat, b <= a
  PROVE  Slice(a, b) = <<>>
BY SliceProperties, EmptySeq

\* A write at the end of what is stored appends.
LEMMA WriteAtEnd ==
  ASSUME NEW h, stored \in Seq(Pieces), h.mode \in {"a", "w"}, h.next \in Nat,
         h.mode = "w" => h.at = Len(stored)
  PROVE  Written(h) = Append(stored, h.next)
<1>1. CASE h.mode = "a"
  BY <1>1 DEF Written
<1>2. CASE h.mode = "w"
  <2> DEFINE n == Len(stored)
             longer == Append(stored, h.next)
  <2>1. h.next \in Pieces /\ n \in Nat /\ h.at = n
    BY <1>2 DEF Pieces
  <2>2. /\ longer \in Seq(Pieces) /\ Len(longer) = n + 1
        /\ \A i \in 1..n : longer[i] = stored[i]
        /\ longer[n + 1] = h.next
    BY <2>1, AppendProperties
  <2>3. Written(h) = [i \in 1..(n + 1) |-> IF i = n + 1 THEN h.next ELSE stored[i]]
    <3>1. Written(h) = [i \in 1..(n + 1) |-> IF i = n + 1 THEN h.next
                                              ELSE IF i <= n THEN stored[i] ELSE HOLE]
      BY <1>2, <2>1 DEF Written
    <3>2. \A i \in 1..(n + 1) : (IF i = n + 1 THEN h.next ELSE IF i <= n THEN stored[i] ELSE HOLE)
                              = (IF i = n + 1 THEN h.next ELSE stored[i])
      BY <2>1
    <3> QED
      BY <3>1, <3>2
  <2>4. longer = [i \in 1..(n + 1) |-> longer[i]]
    BY <2>2
  <2>5. \A i \in 1..(n + 1) : longer[i] = IF i = n + 1 THEN h.next ELSE stored[i]
    BY <2>1, <2>2
  <2> QED
    BY <2>3, <2>4, <2>5
<1> QED
  BY <1>1, <1>2

-------------------------------------------------------------------------------
(* Types.                                                                  *)

\* The file that was there before is a sequence of pieces of its size.
LEMMA OldFileType ==
  ASSUME NEW n \in Nat
  PROVE  OldFile(n) \in Seq(Pieces) /\ Len(OldFile(n)) = n
BY DEF OldFile, Pieces, OLD

\* Before the upload every variable has its type, and every handler is free.
LEMMA TypesInit == Init => TypeOK /\ Slotted
<1> SUFFICES ASSUME Init PROVE TypeOK /\ Slotted
  OBVIOUS
<1> USE UploadAssumption
<1>1. Free \in Request
  BY DEF Free, Request
<1>2. stored \in Seq(Pieces)
  BY OldFileType DEF Init
<1>3. handler \in [Slots -> Request] /\ \A s \in Slots : handler[s] = Free
  BY <1>1 DEF Init
<1>4. \A s \in Slots : handler[s].next <= handler[s].to
  BY <1>3 DEF Free
<1>5. Slotted
  BY <1>3 DEF Init, Slotted, Busy, Free
<1>6. finished \in BOOLEAN
  BY Zenon DEF Init
<1>7. size \in Nat /\ old \in Nat /\ attempts \in 0..MaxAttempts
  BY DEF Init
<1> QED
  BY <1>2, <1>3, <1>4, <1>5, <1>6, <1>7 DEF Init, TypeOK, Pieces, Mishaps

\* A write leaves a sequence of pieces.
LEMMA WrittenType ==
  ASSUME NEW h \in Request, stored \in Seq(Pieces)
  PROVE  Written(h) \in Seq(Pieces)
<1>1. h.next \in Pieces /\ h.at \in Nat
  BY DEF Request, Pieces
<1>2. CASE h.mode = "a"
  BY <1>1, <1>2, AppendProperties DEF Written
<1>3. CASE h.mode # "a"
  <2> DEFINE n == IF h.at < Len(stored) THEN Len(stored) ELSE h.at + 1
             w(i) == IF i = h.at + 1 THEN h.next ELSE IF i <= Len(stored) THEN stored[i] ELSE HOLE
  <2>1. n \in Nat
    BY <1>1
  <2>2. \A i \in 1..n : w(i) \in Pieces
    BY <1>1 DEF Pieces
  <2>3. Written(h) = [i \in 1..n |-> w(i)]
    BY <1>3 DEF Written
  <2> HIDE DEF n, w
  <2>4. [i \in 1..n |-> w(i)] \in Seq(Pieces)
    BY <2>1, <2>2
  <2> QED
    BY <2>3, <2>4
<1> QED
  BY <1>2, <1>3

\* A request after one more piece.
LEMMA NextPiece ==
  ASSUME NEW h \in Request, h.next < h.to, NEW n \in {0, 1},
         NEW g, g = [h EXCEPT !.next = @ + 1, !.at = @ + n]
  PROVE  /\ g \in Request
         /\ g.state = h.state /\ g.mode = h.mode /\ g.to = h.to /\ g.awaited = h.awaited
         /\ g.next = h.next + 1 /\ g.next <= g.to /\ g.at = h.at + n
<1>1. h.next + 1 \in Nat /\ h.next + 1 <= h.to /\ h.at + n \in Nat
  BY DEF Request
<1>2. [h EXCEPT !.next = h.next + 1, !.at = h.at + n] \in Request
  BY <1>1 DEF Request
<1> QED
  BY <1>1, <1>2 DEF Request

\* ... none of which was written.
LEMMA SkipPiece ==
  ASSUME NEW h \in Request
  PROVE  [h EXCEPT !.next = @ + 1] = [h EXCEPT !.next = @ + 1, !.at = @ + 0]
<1>1. h.at + 0 = h.at
  BY DEF Request
<1> QED
  BY <1>1 DEF Request

\* The parts of TypeOK that one thread or the other changes.
PageTypes ==
  /\ page \in {"idle", "ask", "post", "wait", "done", "failed"}
  /\ start \in Nat /\ end \in Nat
  /\ finished \in BOOLEAN
  /\ attempts \in 0..MaxAttempts

HandlerTypes ==
  /\ handler \in [Slots -> Request]
  /\ \A s \in Slots : handler[s].next <= handler[s].to

\* No step of the page or of a handler gives a variable another type.
LEMMA TypesStep == TypeOK /\ Slotted /\ [Next]_vars => TypeOK' /\ Slotted'
<1> SUFFICES ASSUME TypeOK, Slotted, [Next]_vars PROVE TypeOK' /\ Slotted'
  OBVIOUS
<1> USE UploadAssumption
<1>0. /\ size \in Nat /\ old \in Nat /\ PageTypes /\ HandlerTypes
      /\ stored \in Seq(Pieces) /\ mishaps \subseteq Mishaps
  BY DEF TypeOK, PageTypes, HandlerTypes, Pieces
<1>a. ASSUME UNCHANGED <<size, old>>, PageTypes', HandlerTypes', stored' \in Seq(Pieces), mishaps' \subseteq Mishaps
      PROVE  TypeOK'
  BY <1>0, <1>a DEF TypeOK, PageTypes, HandlerTypes, Pieces
\* A handler steps or is freed.
<1>b. ASSUME NEW s \in Slots, NEW h \in Request, handler' = [handler EXCEPT ![s] = h], h.next <= h.to,
             h.state = "free" => h = Free
      PROVE  HandlerTypes' /\ \A t \in Slots : ~Busy(t)' => handler'[t] = Free
  BY <1>0, <1>b DEF HandlerTypes, Slotted, Busy
<1>c. Free \in Request /\ Free.next <= Free.to
  BY DEF Free, Request
<1>1. CASE Upload
  <2>1. PageTypes' /\ attempts' # 0
    <3>1. attempts' \in 1..MaxAttempts
      BY <1>0, <1>1 DEF Upload, PageTypes
    <3>2. start' \in Nat /\ end' \in Nat /\ page' = "ask"
      BY <1>0, <1>1 DEF Upload, PageTypes
    <3>3. finished' \in BOOLEAN
      BY <1>1, Zenon DEF Upload
    <3> QED
      BY <3>1, <3>2, <3>3 DEF PageTypes
  <2> QED
    BY <1>0, <1>1, <1>a, <2>1 DEF Upload, HandlerTypes, Slotted, Busy
<1>2. CASE AskSize
  <2>1. Len(stored) \in Nat
    BY <1>0
  <2>2. PageTypes' /\ attempts' # 0
    BY <1>0, <1>2, <2>1 DEF AskSize, PageTypes, Slotted
  <2>3. mishaps' \subseteq Mishaps
    BY <1>0, <1>2 DEF AskSize, Mishaps
  <2> QED
    BY <1>0, <1>2, <1>a, <2>2, <2>3 DEF AskSize, HandlerTypes, Slotted, Busy
<1>3. CASE AskFails
  <2>1. PageTypes' /\ attempts' # 0
    BY <1>0, <1>3 DEF AskFails, PageTypes, Slotted
  <2> QED
    BY <1>0, <1>3, <1>a, <2>1 DEF AskFails, HandlerTypes, Slotted, Busy
<1>4. CASE Post
  <2>1. end' \in Nat
    BY <1>0, <1>4 DEF Post, Least, PageTypes
  <2>2. PageTypes' /\ attempts' # 0
    BY <1>0, <1>4, <2>1 DEF Post, Last, PageTypes, Slotted
  <2>3. mishaps' \subseteq Mishaps
    BY <1>0, <1>4 DEF Post, Mishaps
  <2>4. PICK s \in Slots : handler' = [handler EXCEPT ![s] =
            [state |-> "sent", mode |-> Mode(start), next |-> start,
             to |-> SentUpTo(start, end'), at |-> 0, awaited |-> TRUE]]
    BY <1>4 DEF Post
  <2> DEFINE h == [state |-> "sent", mode |-> Mode(start), next |-> start,
                   to |-> SentUpTo(start, end'), at |-> 0, awaited |-> TRUE]
  <2>5. start \in Nat
    BY <1>0 DEF PageTypes
  <2>6. h \in Request
    BY <2>1, <2>5 DEF Request, Mode, SentUpTo
  <2>7. h.next <= h.to /\ h.state # "free"
    BY <2>1, <2>5 DEF SentUpTo
  <2> HIDE DEF h
  <2>9. handler' = [handler EXCEPT ![s] = h]
    BY <2>4 DEF h
  <2>8. HandlerTypes' /\ \A t \in Slots : ~Busy(t)' => handler'[t] = Free
    BY <2>6, <2>7, <2>9, <1>b
  <2> QED
    BY <1>0, <1>4, <1>a, <2>2, <2>3, <2>8 DEF Post, Slotted
<1>5. ASSUME NEW s \in Slots, Open(s) \/ Receive(s) \/ Reply(s) \/ Cut(s) PROVE TypeOK' /\ Slotted'
  <2> DEFINE h == handler[s]
  <2>1. h \in Request /\ h.next <= h.to
    BY <1>0 DEF HandlerTypes
  <2>2. UNCHANGED <<size, old, attempts>>
    BY <1>5 DEF Open, Receive, Reply, Cut, upload, NextChunk
  <2>3. ASSUME h.state # "free" PROVE attempts' # 0
    BY <2>2, <2>3 DEF Slotted, Busy
  <2>4. CASE Open(s)
    <3>1. PICK g \in {[h EXCEPT !.state = "open"], [h EXCEPT !.state = "open", !.mode = "none"]} :
            handler' = [handler EXCEPT ![s] = g]
      BY <1>0, <2>4 DEF Open, HandlerTypes
    <3>2. g \in Request /\ g.next <= g.to /\ g.state # "free"
      BY <2>1 DEF Request
    <3>3. stored' \in Seq(Pieces)
      BY <1>0, <2>4, EmptySeq DEF Open
    <3>4. mishaps' \subseteq Mishaps
      BY <1>0, <2>4 DEF Open, Mishaps
    <3>5. UNCHANGED upload /\ h.state # "free"
      BY <2>4 DEF Open
    <3>6. PageTypes'
      BY <1>0, <3>5 DEF PageTypes, upload
    <3>7. HandlerTypes' /\ \A t \in Slots : ~Busy(t)' => handler'[t] = Free
      BY <3>1, <3>2, <1>b
    <3> QED
      BY <1>a, <2>2, <2>3, <3>2, <3>3, <3>4, <3>5, <3>6, <3>7 DEF Slotted
  <2>5. CASE Receive(s)
    <3>2. h.state = "open" /\ h.next < h.to
      BY <2>5 DEF Receive
    <3>1. PICK n \in {0, 1} : handler' = [handler EXCEPT ![s] = [h EXCEPT !.next = @ + 1, !.at = @ + n]]
      <4>1. \/ handler' = [handler EXCEPT ![s] = [h EXCEPT !.next = @ + 1, !.at = @ + 1]]
            \/ handler' = [handler EXCEPT ![s] = [h EXCEPT !.next = @ + 1]]
        BY <1>0, <2>5 DEF Receive, HandlerTypes
      <4>2. [h EXCEPT !.next = @ + 1] = [h EXCEPT !.next = @ + 1, !.at = @ + 0]
        BY <2>1, SkipPiece
      <4> QED
        BY <4>1, <4>2
    <3> DEFINE g == [h EXCEPT !.next = @ + 1, !.at = @ + n]
    <3>8. g \in Request /\ g.next <= g.to /\ g.state # "free"
      BY <2>1, <3>2, NextPiece
    <3>9. handler' = [handler EXCEPT ![s] = g]
      BY <3>1
    <3> HIDE DEF g
    <3>3. stored' \in Seq(Pieces)
      BY <1>0, <2>1, <2>5, WrittenType DEF Receive
    <3>4. mishaps' \subseteq Mishaps
      BY <1>0, <2>5 DEF Receive, Mishaps
    <3>5. UNCHANGED upload
      BY <2>5 DEF Receive
    <3>6. PageTypes'
      BY <1>0, <3>5 DEF PageTypes, upload
    <3>7. HandlerTypes' /\ \A t \in Slots : ~Busy(t)' => handler'[t] = Free
      BY <3>9, <3>8, <1>b
    <3> QED
      BY <1>a, <2>2, <2>3, <3>2, <3>3, <3>4, <3>5, <3>6, <3>7 DEF Slotted
  <2>6. CASE Reply(s)
    <3>1. /\ handler' = [handler EXCEPT ![s] = Free] /\ UNCHANGED <<stored, mishaps, finished>>
          /\ page' \in {"done", "post", page}
          /\ h.state = "open"
      BY <2>6 DEF Reply
    <3>2. start' \in Nat /\ end' \in Nat
      BY <1>0, <2>6 DEF Reply, NextChunk, PageTypes
    <3>3. PageTypes'
      BY <1>0, <2>2, <3>1, <3>2 DEF PageTypes
    <3>7. HandlerTypes' /\ \A t \in Slots : ~Busy(t)' => handler'[t] = Free
      BY <3>1, <1>b, <1>c
    <3> QED
      BY <1>0, <1>a, <2>2, <2>3, <3>1, <3>3, <3>7 DEF Slotted
  <2>7. CASE Cut(s)
    <3>1. UNCHANGED <<start, end, finished, stored, mishaps>> /\ page' = "failed" /\ h.awaited
      BY <2>7 DEF Cut
    <3>2. h.state # "free"
      BY <3>1 DEF Slotted, Busy, Free
    <3>3. PageTypes'
      BY <1>0, <2>2, <3>1 DEF PageTypes
    <3>4. HandlerTypes' /\ \A t \in Slots : ~Busy(t)' => handler'[t] = Free
      <4>1. CASE handler' = [handler EXCEPT ![s] = Free]
        BY <4>1, <1>b, <1>c
      <4>2. ASSUME NEW last \in h.next..h.to,
                   handler' = [handler EXCEPT ![s].awaited = FALSE, ![s].to = last]
            PROVE  HandlerTypes' /\ \A t \in Slots : ~Busy(t)' => handler'[t] = Free
        <5> DEFINE g == [h EXCEPT !.awaited = FALSE, !.to = last]
        <5>1. handler' = [handler EXCEPT ![s] = g]
          BY <1>0, <4>2 DEF HandlerTypes
        <5>2. g \in Request /\ g.next <= g.to /\ g.state # "free"
          <6>1. last \in Nat /\ h.next <= last
            BY <2>1 DEF Request
          <6> QED
            BY <2>1, <3>2, <6>1 DEF Request
        <5> HIDE DEF g
        <5> QED
          BY <5>1, <5>2, <1>b
      <4> QED
        BY <2>7, <4>1, <4>2 DEF Cut
    <3> QED
      BY <1>0, <1>a, <2>2, <2>3, <3>1, <3>2, <3>3, <3>4 DEF Slotted
  <2> QED
    BY <1>5, <2>4, <2>5, <2>6, <2>7
<1>6. CASE UNCHANGED vars
  BY <1>0, <1>6, <1>a DEF vars, upload, PageTypes, HandlerTypes, Slotted, Busy
<1> QED
  BY <1>1, <1>2, <1>3, <1>4, <1>5, <1>6 DEF Next, Server

-------------------------------------------------------------------------------
(* What the actions do to a request.                                       *)

\* The handler opens the file: a first chunk may truncate it, or opening fails.
LEMMA OpenStep ==
  ASSUME TypeOK, NEW s \in Slots, Open(s)
  PROVE  /\ handler[s].state = "sent" /\ handler'[s].state = "open"
         /\ handler'[s].next = handler[s].next /\ handler'[s].to = handler[s].to
         /\ handler'[s].at = handler[s].at /\ handler'[s].awaited = handler[s].awaited
         /\ \A t \in Slots : t # s => handler'[t] = handler[t]
         /\ UNCHANGED <<size, old, upload>>
         /\ \/ /\ handler'[s].mode = handler[s].mode /\ UNCHANGED mishaps
               /\ stored' = IF handler[s].mode = "w" THEN <<>> ELSE stored
            \/ "lost_write" \in mishaps'
<1> DEFINE h == handler[s]
<1>1. h \in Request /\ handler \in [Slots -> Request]
  BY DEF TypeOK
<1>2. CASE handler' = [handler EXCEPT ![s].state = "open"]
  <2>1. handler'[s] = [h EXCEPT !.state = "open"]
    BY <1>1, <1>2
  <2> QED
    BY <1>1, <1>2, <2>1 DEF Open, Request
<1>3. CASE handler' = [handler EXCEPT ![s].state = "open", ![s].mode = "none"]
  <2>1. handler'[s] = [h EXCEPT !.state = "open", !.mode = "none"]
    BY <1>1, <1>3
  <2> QED
    BY <1>1, <1>3, <2>1 DEF Open, Request
<1> QED
  BY <1>2, <1>3 DEF Open

\* The handler writes the next piece of its chunk, or the write is lost.
LEMMA ReceiveStep ==
  ASSUME TypeOK, NEW s \in Slots, Receive(s)
  PROVE  /\ handler[s].state = "open" /\ handler'[s].state = "open"
         /\ handler[s].next < handler[s].to
         /\ handler'[s].next = handler[s].next + 1 /\ handler'[s].to = handler[s].to
         /\ handler'[s].mode = handler[s].mode /\ handler'[s].awaited = handler[s].awaited
         /\ \A t \in Slots : t # s => handler'[t] = handler[t]
         /\ UNCHANGED <<size, old, upload>>
         /\ \/ /\ handler[s].mode # "none" /\ UNCHANGED mishaps
               /\ handler'[s].at = handler[s].at + 1 /\ stored' = Written(handler[s])
            \/ "lost_write" \in mishaps'
<1> DEFINE h == handler[s]
<1>1. h \in Request /\ handler \in [Slots -> Request]
  BY DEF TypeOK
<1>2. h.state = "open" /\ h.next < h.to /\ UNCHANGED <<size, old, upload>>
  BY DEF Receive
<1>3. ASSUME NEW n \in {0, 1}, handler'[s] = [h EXCEPT !.next = @ + 1, !.at = @ + n]
      PROVE  /\ handler'[s].state = "open" /\ handler'[s].mode = h.mode /\ handler'[s].to = h.to
             /\ handler'[s].awaited = h.awaited /\ handler'[s].next = h.next + 1
             /\ handler'[s].at = h.at + n
  <2> DEFINE g == handler'[s]
  <2>1. g = [h EXCEPT !.next = @ + 1, !.at = @ + n]
    BY <1>3
  <2> HIDE DEF g, h
  <2>2. /\ g.state = h.state /\ g.mode = h.mode /\ g.to = h.to /\ g.awaited = h.awaited
        /\ g.next = h.next + 1 /\ g.at = h.at + n
    <3>1. h \in Request /\ h.next < h.to
      BY <1>1, <1>2
    <3> QED
      BY <2>1, <3>1, NextPiece
  <2> QED
    BY <1>2, <2>2 DEF g
<1>4. CASE /\ h.mode # "none" /\ stored' = Written(h) /\ UNCHANGED mishaps
           /\ handler' = [handler EXCEPT ![s].next = @ + 1, ![s].at = @ + 1]
  <2>1. handler'[s] = [h EXCEPT !.next = @ + 1, !.at = @ + 1]
    BY <1>1, <1>4
  <2>2. \A t \in Slots : t # s => handler'[t] = handler[t]
    BY <1>1, <1>4
  <2> HIDE DEF h
  <2>3. /\ handler'[s].state = "open" /\ handler'[s].mode = h.mode /\ handler'[s].to = h.to
        /\ handler'[s].awaited = h.awaited /\ handler'[s].next = h.next + 1
        /\ handler'[s].at = h.at + 1
    BY <1>3, <2>1
  <2> QED
    BY <1>2, <1>4, <2>2, <2>3 DEF h
<1>5. CASE handler' = [handler EXCEPT ![s].next = @ + 1] /\ mishaps' = mishaps \cup {"lost_write"}
  <2>1. handler'[s] = [h EXCEPT !.next = @ + 1, !.at = @ + 0]
    BY <1>1, <1>5, SkipPiece
  <2>2. \A t \in Slots : t # s => handler'[t] = handler[t]
    BY <1>1, <1>5
  <2> HIDE DEF h
  <2>3. /\ handler'[s].state = "open" /\ handler'[s].mode = h.mode /\ handler'[s].to = h.to
        /\ handler'[s].awaited = h.awaited /\ handler'[s].next = h.next + 1
    BY <1>3, <2>1
  <2> QED
    BY <1>2, <1>5, <2>2, <2>3 DEF h
<1> QED
  BY <1>4, <1>5 DEF Receive

\* The handler answers, and a page that waits goes on to the next chunk or is done.
LEMMA ReplyStep ==
  ASSUME TypeOK, NEW s \in Slots, Reply(s)
  PROVE  /\ handler[s].state = "open" /\ handler[s].next = handler[s].to
         /\ handler'[s] = Free
         /\ \A t \in Slots : t # s => handler'[t] = handler[t]
         /\ UNCHANGED <<size, old, finished, attempts, stored, mishaps>>
         /\ \/ handler[s].awaited /\ finished /\ page' = "done"
            \/ handler[s].awaited /\ ~finished /\ page' = "post" /\ start' = end /\ end' = end + ChunkSize
            \/ ~handler[s].awaited /\ UNCHANGED upload
<1>1. handler \in [Slots -> Request]
  BY DEF TypeOK
<1>2. handler' = [handler EXCEPT ![s] = Free]
  BY DEF Reply
<1> QED
  BY <1>1, <1>2 DEF Reply, NextChunk, upload

\* The connection breaks: the page gives up, the handler may go on with what has arrived.
LEMMA CutStep ==
  ASSUME TypeOK, Slotted, NEW s \in Slots, Cut(s)
  PROVE  /\ Busy(s) /\ handler[s].awaited /\ page' = "failed"
         /\ \A t \in Slots : t # s => handler'[t] = handler[t]
         /\ UNCHANGED <<size, old, start, end, finished, attempts, stored, mishaps>>
         /\ \/ handler'[s] = Free
            \/ /\ handler'[s].state = handler[s].state /\ handler'[s].mode = handler[s].mode
               /\ handler'[s].next = handler[s].next /\ handler'[s].at = handler[s].at
               /\ handler'[s].to <= handler[s].to /\ ~handler'[s].awaited
               /\ handler'[s].to \in Nat
<1> DEFINE h == handler[s]
<1>1. h \in Request /\ handler \in [Slots -> Request]
  BY DEF TypeOK
<1>2. handler[s].awaited /\ page' = "failed" /\ UNCHANGED <<size, old, start, end, finished, attempts, stored, mishaps>>
  BY DEF Cut
<1>3. Busy(s)
  BY <1>2 DEF Slotted, Free
<1>4. CASE handler' = [handler EXCEPT ![s] = Free]
  BY <1>1, <1>2, <1>3, <1>4
<1>5. ASSUME NEW last \in h.next..h.to,
             handler' = [handler EXCEPT ![s].awaited = FALSE, ![s].to = last]
      PROVE  /\ \A t \in Slots : t # s => handler'[t] = handler[t]
             /\ handler'[s].state = handler[s].state /\ handler'[s].mode = handler[s].mode
             /\ handler'[s].next = handler[s].next /\ handler'[s].at = handler[s].at
             /\ handler'[s].to <= handler[s].to /\ ~handler'[s].awaited
             /\ handler'[s].to \in Nat
  <2>1. handler'[s] = [h EXCEPT !.awaited = FALSE, !.to = last]
    BY <1>1, <1>5
  <2>2. last \in Nat /\ last <= h.to
    BY <1>1 DEF Request
  <2> QED
    BY <1>1, <1>5, <2>1, <2>2 DEF Request
<1> QED
  BY <1>2, <1>3, <1>4, <1>5 DEF Cut

\* The chunk Post sends.
LEMMA PostStep ==
  ASSUME TypeOK, Post
  PROVE  /\ page = "post" /\ page' = "wait" /\ UNCHANGED <<size, old, start, attempts, stored>>
         /\ mishaps \subseteq mishaps'
         /\ finished' <=> end >= size
         /\ end' = IF end < size THEN end ELSE size
         /\ \E s \in Slots :
              /\ handler[s] = Free
              /\ \A t \in Slots : t # s => handler'[t] = handler[t]
              /\ handler'[s].state = "sent" /\ handler'[s].awaited /\ handler'[s].next = start
              /\ handler'[s].at = 0 /\ handler'[s].mode = Mode(start)
              /\ handler'[s].to = SentUpTo(start, end')
<1>1. handler \in [Slots -> Request]
  BY DEF TypeOK
<1>2. PICK s \in Slots : handler[s] = Free /\ handler' = [handler EXCEPT ![s] =
            [state |-> "sent", mode |-> Mode(start), next |-> start,
             to |-> SentUpTo(start, end'), at |-> 0, awaited |-> TRUE]]
  BY DEF Post
<1>3. handler'[s] = [state |-> "sent", mode |-> Mode(start), next |-> start,
                     to |-> SentUpTo(start, end'), at |-> 0, awaited |-> TRUE]
  BY <1>1, <1>2
<1>4. \A t \in Slots : t # s => handler'[t] = handler[t]
  BY <1>1, <1>2
<1>5. finished' <=> end >= size
  BY DEF Post, Last
<1> QED
  BY <1>2, <1>3, <1>4, <1>5 DEF Post, Least

-------------------------------------------------------------------------------
(* The invariant holds.                                                    *)

\* The history is never forgotten, so a clean state was reached through clean ones.
LEMMA CleanBefore ==
  ASSUME TypeOK, [Next]_vars
  PROVE  /\ UNCHANGED <<size, old>>
         /\ mishaps \subseteq mishaps'
         /\ Clean' => Clean
         /\ First' => First \/ attempts = 0
<1>1. UNCHANGED <<size, old>>
  BY DEF Next, Server, Upload, AskSize, AskFails, Post, Open, Receive, Reply, Cut, vars
<1>2. mishaps \subseteq mishaps'
  BY DEF Next, Server, Upload, AskSize, AskFails, Post, Open, Receive, Reply, Cut, vars
<1>3. attempts' = attempts \/ attempts' = attempts + 1
  BY DEF Next, Server, Upload, AskSize, AskFails, Post, Open, Receive, Reply, Cut, vars, upload
<1>4. attempts \in Nat
  BY UploadAssumption DEF TypeOK
<1> QED
  BY <1>1, <1>2, <1>3, <1>4 DEF Clean, First

\* As long as nothing has failed, there is never more than one request at work.
LEMMA OneRequestStep == UploadInv /\ [Next]_vars /\ (Clean' \/ First') => OneRequest'
<1> SUFFICES ASSUME UploadInv, [Next]_vars, Clean' \/ First' PROVE OneRequest'
  OBVIOUS
<1>0. TypeOK /\ Slotted /\ mishaps \subseteq mishaps'
  BY CleanBefore DEF UploadInv
<1>00. OneRequest \/ (attempts = 0 /\ page = "idle" /\ \A s \in Slots : ~Busy(s))
  BY <1>0, CleanBefore DEF UploadInv, Slotted
<1>a. OneRequest
  BY <1>00 DEF OneRequest
<1>b. \A s \in Slots : ~Busy(s) => ~handler[s].awaited
  BY <1>0 DEF Slotted, Free
<1>1. CASE Upload
  BY <1>1, <1>a DEF Upload, OneRequest, Busy
<1>2. CASE AskSize
  <2>1. \A s \in Slots : ~Busy(s)
    <3>1. CASE Clean'
      <4>1. Late = {}
        BY <1>2, <3>1 DEF AskSize, Clean
      <4> QED
        BY <1>2, <1>a, <4>1 DEF AskSize, OneRequest, Late, Busy
    <3>2. CASE First'
      BY <1>2, <3>2 DEF AskSize, First, UploadInv, FirstAttempt
    <3> QED
      BY <3>1, <3>2
  <2> QED
    BY <1>2, <2>1 DEF AskSize, OneRequest, Busy
<1>3. CASE AskFails
  BY <1>3, <1>a DEF AskFails, OneRequest, Busy
<1>4. CASE Post
  <2>1. page = "post" /\ page' = "wait"
    BY <1>0, <1>4, PostStep
  <2>2. PICK s \in Slots : /\ \A t \in Slots : t # s => handler'[t] = handler[t]
                           /\ handler'[s].awaited
    BY <1>0, <1>4, PostStep
  <2>3. \A t \in Slots : ~Busy(t)
    BY <1>a, <2>1 DEF OneRequest
  <2> QED
    BY <2>1, <2>2, <2>3 DEF OneRequest, Busy
<1>5. ASSUME NEW s \in Slots, Open(s) \/ Receive(s) \/ Reply(s) \/ Cut(s) PROVE OneRequest'
  <2>1. CASE Open(s)
    <3>1. Busy(s) /\ page' = page
      BY <1>0, <2>1, OpenStep DEF Busy, upload
    <3>2. \A t \in Slots : (Busy(t)' => Busy(t)) /\ (handler'[t].awaited <=> handler[t].awaited)
      BY <1>0, <2>1, <3>1, OpenStep DEF Busy
    <3> QED
      BY <1>a, <3>1, <3>2 DEF OneRequest
  <2>2. CASE Receive(s)
    <3>1. Busy(s) /\ page' = page
      BY <1>0, <2>2, ReceiveStep DEF Busy, upload
    <3>2. \A t \in Slots : (Busy(t)' => Busy(t)) /\ (handler'[t].awaited <=> handler[t].awaited)
      BY <1>0, <2>2, <3>1, ReceiveStep DEF Busy
    <3> QED
      BY <1>a, <3>1, <3>2 DEF OneRequest
  <2>3. CASE Reply(s)
    <3>1. Busy(s) /\ ~Busy(s)' /\ \A t \in Slots : t # s => handler'[t] = handler[t]
      BY <1>0, <2>3, ReplyStep DEF Busy, Free
    <3>2. \A t \in Slots : ~Busy(t)'
      BY <1>a, <3>1 DEF OneRequest, Busy
    <3> QED
      BY <3>2 DEF OneRequest
  <2>4. CASE Cut(s)
    <3>1. Busy(s) /\ page' = "failed" /\ \A t \in Slots : t # s => handler'[t] = handler[t]
      BY <1>0, <2>4, CutStep
    <3>2. \A t \in Slots : Busy(t)' => t = s
      BY <1>a, <3>1 DEF OneRequest, Busy
    <3>3. Busy(s)' => ~handler'[s].awaited
      BY <1>0, <2>4, CutStep DEF Busy, Free
    <3> QED
      BY <3>1, <3>2, <3>3 DEF OneRequest
  <2> QED
    BY <1>5, <2>1, <2>2, <2>3, <2>4
<1>6. CASE UNCHANGED vars
  BY <1>6, <1>a DEF vars, upload, OneRequest, Busy
<1> QED
  BY <1>1, <1>2, <1>3, <1>4, <1>5, <1>6 DEF Next, Server

\* Nothing but the requests of the page adds to a clean beginning of the file.
LEMMA BeginningStep == UploadInv /\ [Next]_vars /\ Clean' => Beginning'
<1> SUFFICES ASSUME UploadInv, [Next]_vars, Clean' PROVE Beginning'
  OBVIOUS
<1> USE UploadAssumption
<1>0. TypeOK /\ Slotted /\ Clean /\ OneRequest /\ Beginning /\ mishaps = {} /\ mishaps' = {}
      /\ UNCHANGED <<size, old>>
  BY CleanBefore DEF UploadInv, Clean
<1>00. size \in Nat /\ stored \in Seq(Pieces) /\ Len(stored) \in Nat /\ start \in Nat /\ end \in Nat
  BY <1>0 DEF TypeOK, Pieces
<1>h. \A s \in Slots : handler[s] \in Request
  BY <1>0 DEF TypeOK
\* A step that touches neither the file nor a request.
<1>a. ASSUME UNCHANGED <<handler, stored>>, page' \notin {"post", "wait", "done"} PROVE Beginning'
  BY <1>0, <1>a DEF Beginning, Busy
<1>1. CASE Upload
  BY <1>1, <1>a DEF Upload
<1>2. CASE AskSize
  <2>1. /\ page = "ask" /\ page' = "post" /\ UNCHANGED <<handler, stored>>
        /\ start' = Len(stored) /\ end' = start' + ChunkSize
        /\ ~(0 < start' /\ start' < ChunkSize)
    BY <1>0, <1>2 DEF AskSize
  <2>2. start' = 0 \/ start' >= ChunkSize
    BY <1>00, <2>1
  <2> QED
    BY <1>0, <2>1, <2>2 DEF Beginning, Busy
<1>3. CASE AskFails
  BY <1>3, <1>a DEF AskFails
<1>4. CASE Post
  <2>1. /\ page = "post" /\ page' = "wait" /\ UNCHANGED <<start, stored>>
        /\ finished' <=> end >= size
        /\ end' = IF end < size THEN end ELSE size
    BY <1>0, <1>4, PostStep
  <2>2. PICK s \in Slots :
          /\ \A t \in Slots : t # s => handler'[t] = handler[t]
          /\ handler'[s].state = "sent" /\ handler'[s].next = start
          /\ handler'[s].at = 0 /\ handler'[s].mode = Mode(start)
          /\ handler'[s].to = SentUpTo(start, end')
    BY <1>0, <1>4, PostStep
  <2>3. /\ start = Len(stored) /\ end = start + ChunkSize /\ (start = 0 \/ start >= ChunkSize)
        /\ Len(stored) <= size /\ stored = Slice(0, Len(stored))
    BY <1>0, <2>1 DEF Beginning
  <2>4. Mode(start) \in {"w", "a"} /\ (Mode(start) = "w" => start = 0)
    BY <1>00, <2>3 DEF Mode
  <2>5. handler'[s].to = end' /\ end' <= size /\ (~finished' => end' >= ChunkSize) /\ (finished' => end' = size)
    BY <1>00, <2>1, <2>2, <2>3 DEF SentUpTo
  <2>6. \A t \in Slots : Busy(t)' => t = s
    BY <1>0, <2>1, <2>2 DEF OneRequest, Busy
  <2> QED
    BY <1>0, <2>1, <2>2, <2>3, <2>4, <2>5, <2>6 DEF Beginning
<1>5. ASSUME NEW s \in Slots, Open(s) PROVE Beginning'
  <2>1. /\ handler[s].state = "sent" /\ handler'[s].state = "open"
        /\ handler'[s].next = handler[s].next /\ handler'[s].to = handler[s].to
        /\ handler'[s].at = handler[s].at /\ handler'[s].mode = handler[s].mode
        /\ \A t \in Slots : t # s => handler'[t] = handler[t]
        /\ UNCHANGED upload
        /\ stored' = IF handler[s].mode = "w" THEN <<>> ELSE stored
    BY <1>0, <1>5, OpenStep
  <2>2. Busy(s) /\ \A t \in Slots : t # s => ~Busy(t) /\ ~Busy(t)'
    BY <1>0, <2>1 DEF OneRequest, Busy
  <2>3. /\ handler[s].next = Len(stored) /\ handler[s].to <= size /\ handler[s].mode # "none"
        /\ handler[s].mode = "w" => handler[s].next = 0 /\ handler[s].at = 0
    BY <1>0, <2>1, <2>2 DEF Beginning
  <2>4. stored' = stored
    <3>1. ASSUME handler[s].mode = "w" PROVE stored = <<>>
      BY <1>0, <2>3, <3>1, SliceEmpty DEF Beginning
    <3> QED
      BY <2>1, <3>1
  <2>5. page \notin {"post", "done"}
    BY <1>0, <2>2 DEF OneRequest
  <2> QED
    BY <1>0, <2>1, <2>2, <2>3, <2>4, <2>5 DEF Beginning, upload
<1>6. ASSUME NEW s \in Slots, Receive(s) PROVE Beginning'
  <2>1. /\ handler[s].state = "open" /\ handler'[s].state = "open"
        /\ handler[s].next < handler[s].to
        /\ handler'[s].next = handler[s].next + 1 /\ handler'[s].to = handler[s].to
        /\ handler'[s].mode = handler[s].mode
        /\ \A t \in Slots : t # s => handler'[t] = handler[t]
        /\ UNCHANGED upload
        /\ handler'[s].at = handler[s].at + 1 /\ stored' = Written(handler[s])
    BY <1>0, <1>6, ReceiveStep
  <2>2. Busy(s) /\ \A t \in Slots : t # s => ~Busy(t) /\ ~Busy(t)'
    BY <1>0, <2>1 DEF OneRequest, Busy
  <2>3. /\ handler[s].next = Len(stored) /\ handler[s].to <= size /\ handler[s].mode # "none"
        /\ handler[s].mode = "w" => handler[s].at = Len(stored)
    BY <1>0, <2>1, <2>2 DEF Beginning
  <2>4. handler[s].mode \in {"a", "w"} /\ handler[s].next \in Nat /\ handler[s].to \in Nat
    BY <1>h, <2>3 DEF Request
  <2>5. stored' = Append(stored, Len(stored))
    BY <1>00, <2>1, <2>3, <2>4, WriteAtEnd
  <2>6. Len(stored') = Len(stored) + 1 /\ stored' = Slice(0, Len(stored) + 1)
    <3>1. Append(Slice(0, Len(stored)), Len(stored)) = Slice(0, Len(stored) + 1)
      BY <1>00, SliceNext
    <3>2. Len(stored) \in Pieces
      BY <1>00 DEF Pieces
    <3>3. Len(stored') = Len(stored) + 1
      BY <1>00, <2>5, <3>2, AppendProperties
    <3>4. stored = Slice(0, Len(stored))
      BY <1>0 DEF Beginning
    <3> QED
      BY <2>5, <3>1, <3>3, <3>4
  <2>7. Len(stored) + 1 <= size
    BY <1>00, <2>1, <2>3, <2>4
  <2>8. page \notin {"post", "done"}
    BY <1>0, <2>2 DEF OneRequest
  <2>9. /\ handler'[s].next = Len(stored') /\ handler'[s].to <= size'
        /\ handler'[s].mode # "none"
        /\ handler'[s].mode = "w" => handler'[s].at = Len(stored')
    BY <1>0, <2>1, <2>3, <2>6
  <2> QED
    BY <1>0, <2>1, <2>2, <2>6, <2>7, <2>8, <2>9 DEF Beginning, upload
<1>7. ASSUME NEW s \in Slots, Reply(s) PROVE Beginning'
  <2>1. /\ handler[s].state = "open" /\ handler[s].next = handler[s].to
        /\ handler'[s] = Free
        /\ \A t \in Slots : t # s => handler'[t] = handler[t]
        /\ UNCHANGED stored
        /\ \/ handler[s].awaited /\ finished /\ page' = "done"
           \/ handler[s].awaited /\ ~finished /\ page' = "post" /\ start' = end /\ end' = end + ChunkSize
           \/ ~handler[s].awaited /\ UNCHANGED upload
    BY <1>0, <1>7, ReplyStep
  <2>2. Busy(s) /\ ~Busy(s)' /\ \A t \in Slots : t # s => ~Busy(t) /\ ~Busy(t)'
    BY <1>0, <2>1 DEF OneRequest, Busy, Free
  <2>3. handler[s].awaited <=> page = "wait"
    BY <1>0, <2>2 DEF OneRequest
  <2>4. /\ handler[s].to = Len(stored)
        /\ page = "wait" => IF finished THEN handler[s].to = size
                                        ELSE handler[s].to = end /\ end >= ChunkSize
    BY <1>0, <2>1, <2>2 DEF Beginning
  <2>5. page' = "post" =>
          /\ start' = Len(stored) /\ end' = start' + ChunkSize
          /\ start' = 0 \/ start' >= ChunkSize
    BY <1>0, <2>1, <2>2, <2>3, <2>4 DEF OneRequest, upload
  <2>6. page' = "done" => Len(stored) = size
    BY <1>0, <2>1, <2>2, <2>3, <2>4 DEF OneRequest, upload
  <2> QED
    BY <1>0, <2>1, <2>2, <2>5, <2>6 DEF Beginning
<1>8. ASSUME NEW s \in Slots, Cut(s) PROVE Beginning'
  <2>1. /\ Busy(s) /\ page' = "failed" /\ UNCHANGED stored
        /\ \A t \in Slots : t # s => handler'[t] = handler[t]
        /\ \/ handler'[s] = Free
           \/ /\ handler'[s].state = handler[s].state /\ handler'[s].mode = handler[s].mode
              /\ handler'[s].next = handler[s].next /\ handler'[s].at = handler[s].at
              /\ handler'[s].to <= handler[s].to /\ handler'[s].to \in Nat
    BY <1>0, <1>8, CutStep
  <2>2. \A t \in Slots : t # s => ~Busy(t) /\ ~Busy(t)'
    BY <1>0, <2>1 DEF OneRequest, Busy
  <2>3. CASE handler'[s] = Free
    <3>1. ~Busy(s)'
      BY <2>3 DEF Busy, Free
    <3> QED
      BY <1>0, <2>1, <2>2, <3>1 DEF Beginning
  <2>4. CASE /\ handler'[s].state = handler[s].state /\ handler'[s].mode = handler[s].mode
             /\ handler'[s].next = handler[s].next /\ handler'[s].at = handler[s].at
             /\ handler'[s].to <= handler[s].to /\ handler'[s].to \in Nat
    <3>1. handler[s].to <= size /\ handler[s].to \in Nat
      BY <1>0, <1>h, <2>1 DEF Beginning, Request
    <3>2. handler'[s].to <= size
      BY <1>00, <2>4, <3>1
    <3> QED
      BY <1>0, <2>1, <2>2, <2>4, <3>2 DEF Beginning
  <2> QED
    BY <2>1, <2>3, <2>4
<1>9. CASE UNCHANGED vars
  BY <1>0, <1>9 DEF vars, upload, Beginning, Busy
<1> QED
  BY <1>1, <1>2, <1>3, <1>4, <1>5, <1>6, <1>7, <1>8, <1>9 DEF Next, Server

\* The pieces of the older file that stay, and the file's own from there on.
LEMMA KeptNext ==
  ASSUME old \in Nat, NEW n \in Nat, old <= n
  PROVE  /\ Kept \o Slice(old, n) \in Seq(Pieces)
         /\ Append(Kept \o Slice(old, n), n) = Kept \o Slice(old, n + 1)
         /\ Kept \o Slice(old, old) = Kept
         /\ old < ChunkSize => Len(Kept \o Slice(old, n)) = n - old
<1>1. Kept \in Seq(Pieces) /\ Slice(old, n) \in Seq(Pieces) /\ <<n>> \in Seq(Pieces) /\ n \in Pieces
  BY OldFileType, SliceProperties, EmptySeq DEF Kept, Pieces
<1>2. Kept \o Slice(old, n) \in Seq(Pieces) /\ Len(Kept \o Slice(old, n)) = Len(Kept) + Len(Slice(old, n))
  BY <1>1, ConcatProperties
<1>3. Append(Kept \o Slice(old, n), n) = Kept \o Slice(old, n + 1)
  <2>1. Append(Kept \o Slice(old, n), n) = (Kept \o Slice(old, n)) \o <<n>>
    BY <1>1, <1>2, AppendIsConcat
  <2>2. (Kept \o Slice(old, n)) \o <<n>> = Kept \o (Slice(old, n) \o <<n>>)
    BY <1>1, ConcatAssociative
  <2>3. Slice(old, n) \o <<n>> = Append(Slice(old, n), n)
    BY <1>1, AppendIsConcat
  <2>4. Append(Slice(old, n), n) = Slice(old, n + 1)
    BY SliceNext
  <2> QED
    BY <2>1, <2>2, <2>3, <2>4
<1>4. Kept \o Slice(old, old) = Kept
  <2>1. Slice(old, old) = <<>>
    BY SliceEmpty
  <2> QED
    BY <1>1, <2>1, ConcatEmptySeq
<1>5. ASSUME old < ChunkSize PROVE Len(Kept \o Slice(old, n)) = n - old
  <2>1. Kept = <<>>
    BY <1>5 DEF Kept
  <2>2. Kept \o Slice(old, n) = Slice(old, n)
    BY <1>1, <2>1, ConcatEmptySeq
  <2>3. Len(Slice(old, n)) = n - old
    <3>1. Len(Slice(old, n)) = IF old < n THEN n - old ELSE 0
      BY SliceProperties
    <3> QED
      BY <3>1
  <2> QED
    BY <2>2, <2>3
<1> QED
  BY <1>2, <1>3, <1>4, <1>5

\* The first attempt, if no write is lost.
LEMMA FirstStep == UploadInv /\ [Next]_vars /\ First' => FirstAttempt'
<1> SUFFICES ASSUME UploadInv, [Next]_vars, First' PROVE FirstAttempt'
  OBVIOUS
<1> USE UploadAssumption
<1>0. TypeOK /\ Slotted /\ "lost_write" \notin mishaps' /\ "lost_write" \notin mishaps /\ UNCHANGED <<size, old>>
  BY CleanBefore DEF UploadInv, First
<1>00. /\ size \in Nat /\ stored \in Seq(Pieces) /\ Len(stored) \in Nat /\ start \in Nat /\ end \in Nat
       /\ old \in Nat /\ attempts \in Nat
  BY <1>0 DEF TypeOK, Pieces
<1>h. \A s \in Slots : handler[s] \in Request
  BY <1>0 DEF TypeOK
<1>k. Kept' = Kept
  BY <1>0 DEF Kept, OldFile
<1>b. ASSUME attempts' = attempts PROVE OneRequest /\ FirstAttempt
  BY <1>0, <1>b DEF First, UploadInv
<1>1. CASE Upload
  <2>1. attempts = 0 /\ page' = "ask" /\ UNCHANGED <<handler, stored>>
    BY <1>00, <1>1 DEF Upload, First
  <2>2. stored = OldFile(old) /\ \A s \in Slots : ~Busy(s)
    BY <1>0, <2>1 DEF Slotted
  <2> QED
    BY <1>0, <2>1, <2>2 DEF FirstAttempt, Busy
<1>2. CASE AskSize
  <2>1. /\ page = "ask" /\ page' = "post" /\ UNCHANGED <<handler, stored, attempts>>
        /\ start' = Len(stored) /\ end' = start' + ChunkSize
    BY <1>2 DEF AskSize
  <2>2. stored = OldFile(old)
    BY <1>b, <2>1 DEF FirstAttempt
  <2>3. Len(stored) = old
    BY <1>00, <2>2, OldFileType
  <2> QED
    BY <1>0, <2>1, <2>2, <2>3 DEF FirstAttempt
<1>3. CASE AskFails
  BY <1>3 DEF AskFails, FirstAttempt
<1>4. CASE Post
  <2>1. /\ page = "post" /\ page' = "wait" /\ UNCHANGED <<start, stored, attempts>>
        /\ finished' <=> end >= size
        /\ end' = IF end < size THEN end ELSE size
    BY <1>0, <1>4, PostStep
  <2>2. PICK s \in Slots :
          /\ \A t \in Slots : t # s => handler'[t] = handler[t]
          /\ handler'[s].state = "sent" /\ handler'[s].next = start
          /\ handler'[s].at = 0 /\ handler'[s].mode = Mode(start)
          /\ handler'[s].to = SentUpTo(start, end')
    BY <1>0, <1>4, PostStep
  <2>3. /\ end = start + ChunkSize
        /\ \/ start = old /\ stored = OldFile(old)
           \/ start \in old..size /\ start >= ChunkSize /\ stored = Kept \o Slice(old, start)
    BY <1>b, <2>1 DEF FirstAttempt
  <2>4. \/ Mode(start) = "w" /\ start = old /\ old < ChunkSize
        \/ Mode(start) = "a" /\ start >= old /\ stored = Kept \o Slice(old, start)
    <3>1. CASE start < ChunkSize
      BY <1>00, <2>3, <3>1 DEF Mode
    <3>2. CASE start >= ChunkSize
      <4>1. Mode(start) = "a"
        <5>1. start \div ChunkSize # 0
          BY <1>00, <3>2
        <5> QED
          BY <5>1 DEF Mode
      <4>2. start = old /\ stored = OldFile(old) => stored = Kept \o Slice(old, start)
        <5>1. Kept \o Slice(old, old) = Kept
          BY <1>00, KeptNext
        <5> QED
          BY <1>00, <3>2, <5>1 DEF Kept
      <4> QED
        BY <1>00, <2>3, <4>1, <4>2
    <3> QED
      BY <1>00, <3>1, <3>2
  <2>5. IF finished' THEN handler'[s].to = size \/ (handler'[s].to = old /\ size <= old)
                     ELSE handler'[s].to = end' /\ end' \in ChunkSize..size
    <3>1. CASE start < end'
      BY <1>00, <2>1, <2>2, <2>3, <3>1 DEF SentUpTo
    <3>2. CASE ~(start < end')
      <4>1. finished' /\ end' = size /\ size <= start /\ handler'[s].to = start
        BY <1>00, <2>1, <2>2, <2>3, <3>2 DEF SentUpTo
      <4>2. start = old \/ start = size
        BY <1>00, <4>1, <2>3
      <4> QED
        BY <4>1, <4>2
    <3> QED
      BY <3>1, <3>2
  <2>6. \A t \in Slots : Busy(t)' => t = s
    BY <1>b, <2>1, <2>2 DEF OneRequest, Busy
  <2> QED
    <3>1. /\ handler'[s].next >= old /\ handler'[s].mode # "none"
          /\ \/ /\ handler'[s].state = "sent" /\ handler'[s].mode = "w"
                /\ handler'[s].next = old /\ old < ChunkSize /\ handler'[s].at = 0
             \/ /\ handler'[s].state = "sent" /\ handler'[s].mode = "a"
                /\ stored' = Kept \o Slice(old, handler'[s].next)
      BY <1>00, <2>1, <2>2, <2>4
    <3> QED
      BY <1>0, <1>k, <2>1, <2>5, <2>6, <3>1 DEF FirstAttempt
<1>5. ASSUME NEW s \in Slots, Open(s) PROVE FirstAttempt'
  <2>1. /\ handler[s].state = "sent" /\ handler'[s].state = "open"
        /\ handler'[s].next = handler[s].next /\ handler'[s].to = handler[s].to
        /\ handler'[s].at = handler[s].at /\ handler'[s].mode = handler[s].mode
        /\ \A t \in Slots : t # s => handler'[t] = handler[t]
        /\ UNCHANGED upload
        /\ stored' = IF handler[s].mode = "w" THEN <<>> ELSE stored
    BY <1>0, <1>5, OpenStep
  <2>2. Busy(s) /\ \A t \in Slots : t # s => ~Busy(t) /\ ~Busy(t)'
    BY <1>b, <2>1 DEF OneRequest, Busy, upload
  <2>3. page' = page /\ page \notin {"ask", "post", "done"}
    BY <1>b, <2>1, <2>2 DEF OneRequest, FirstAttempt, upload
  <2>4. ASSUME page = "wait"
        PROVE  /\ handler'[s].next >= old /\ handler'[s].mode # "none"
               /\ stored' = Kept \o Slice(old, handler'[s].next)
               /\ handler'[s].mode = "w" => old < ChunkSize /\ handler'[s].at = Len(stored')
               /\ IF finished THEN handler'[s].to = size \/ (handler'[s].to = old /\ size <= old)
                              ELSE handler'[s].to = end /\ end \in ChunkSize..size
    <3>1. /\ handler[s].next >= old /\ handler[s].mode # "none"
          /\ \/ /\ handler[s].mode = "w" /\ handler[s].next = old /\ old < ChunkSize /\ handler[s].at = 0
             \/ handler[s].mode = "a" /\ stored = Kept \o Slice(old, handler[s].next)
          /\ IF finished THEN handler[s].to = size \/ (handler[s].to = old /\ size <= old)
                         ELSE handler[s].to = end /\ end \in ChunkSize..size
      BY <1>b, <2>1, <2>2, <2>4 DEF FirstAttempt, upload
    <3>2. CASE handler[s].mode = "w" /\ handler[s].next = old /\ old < ChunkSize /\ handler[s].at = 0
      <4>1. stored' = <<>> /\ Len(stored') = 0
        BY <2>1, <3>2
      <4>2. Kept \o Slice(old, old) = <<>>
        <5>1. Kept \o Slice(old, old) = Kept
          BY <1>00, KeptNext
        <5> QED
          BY <1>00, <3>2, <5>1 DEF Kept
      <4> QED
        BY <2>1, <3>1, <3>2, <4>1, <4>2
    <3>3. CASE handler[s].mode = "a" /\ stored = Kept \o Slice(old, handler[s].next)
      BY <2>1, <3>1, <3>3
    <3> QED
      BY <3>1, <3>2, <3>3
  <2> QED
    BY <1>0, <1>k, <2>1, <2>2, <2>3, <2>4 DEF FirstAttempt, upload
<1>6. ASSUME NEW s \in Slots, Receive(s) PROVE FirstAttempt'
  <2>1. /\ handler[s].state = "open" /\ handler'[s].state = "open"
        /\ handler'[s].next = handler[s].next + 1 /\ handler'[s].to = handler[s].to
        /\ handler'[s].mode = handler[s].mode
        /\ \A t \in Slots : t # s => handler'[t] = handler[t]
        /\ UNCHANGED upload
        /\ handler'[s].at = handler[s].at + 1 /\ stored' = Written(handler[s])
    BY <1>0, <1>6, ReceiveStep
  <2>2. Busy(s) /\ \A t \in Slots : t # s => ~Busy(t) /\ ~Busy(t)'
    BY <1>b, <2>1 DEF OneRequest, Busy, upload
  <2>3. page' = page /\ page \notin {"ask", "post", "done"}
    BY <1>b, <2>1, <2>2 DEF OneRequest, FirstAttempt, upload
  <2>4. ASSUME page = "wait"
        PROVE  /\ handler'[s].next >= old /\ handler'[s].mode # "none"
               /\ stored' = Kept \o Slice(old, handler'[s].next)
               /\ handler'[s].mode = "w" => old < ChunkSize /\ handler'[s].at = Len(stored')
               /\ IF finished THEN handler'[s].to = size \/ (handler'[s].to = old /\ size <= old)
                              ELSE handler'[s].to = end /\ end \in ChunkSize..size
    <3>1. /\ handler[s].next >= old /\ handler[s].mode # "none"
          /\ stored = Kept \o Slice(old, handler[s].next)
          /\ handler[s].mode = "w" => old < ChunkSize /\ handler[s].at = Len(stored)
          /\ IF finished THEN handler[s].to = size \/ (handler[s].to = old /\ size <= old)
                         ELSE handler[s].to = end /\ end \in ChunkSize..size
      BY <1>b, <2>1, <2>2, <2>4 DEF FirstAttempt, upload
    <3>2. handler[s].mode \in {"a", "w"} /\ handler[s].next \in Nat
      BY <1>h, <3>1 DEF Request
    <3>3. stored' = Append(stored, handler[s].next)
      BY <1>00, <2>1, <3>1, <3>2, WriteAtEnd
    <3>4. stored' = Kept \o Slice(old, handler[s].next + 1)
      BY <1>00, <3>1, <3>2, <3>3, KeptNext
    <3>5. Len(stored') = Len(stored) + 1
      <4>1. handler[s].next \in Pieces
        BY <3>2 DEF Pieces
      <4> QED
        BY <1>00, <3>3, <4>1, AppendProperties
    <3> QED
      <4>1. /\ handler'[s].next = handler[s].next + 1 /\ handler'[s].to = handler[s].to
            /\ handler'[s].mode = handler[s].mode /\ handler'[s].at = handler[s].at + 1
        BY <2>1
      <4>2. handler'[s].next >= old /\ handler'[s].mode # "none"
        BY <1>00, <3>1, <3>2, <4>1
      <4>3. stored' = Kept \o Slice(old, handler'[s].next)
        BY <3>4, <4>1
      <4>4. handler'[s].mode = "w" => old < ChunkSize /\ handler'[s].at = Len(stored')
        BY <3>1, <3>5, <4>1
      <4>5. IF finished THEN handler'[s].to = size \/ (handler'[s].to = old /\ size <= old)
                        ELSE handler'[s].to = end /\ end \in ChunkSize..size
        BY <3>1, <4>1
      <4> QED
        BY <4>2, <4>3, <4>4, <4>5
  <2> QED
    BY <1>0, <1>k, <2>1, <2>2, <2>3, <2>4 DEF FirstAttempt, upload
<1>7. ASSUME NEW s \in Slots, Reply(s) PROVE FirstAttempt'
  <2>1. /\ handler[s].state = "open" /\ handler[s].next = handler[s].to
        /\ handler'[s] = Free
        /\ \A t \in Slots : t # s => handler'[t] = handler[t]
        /\ UNCHANGED <<stored, attempts>>
        /\ \/ handler[s].awaited /\ finished /\ page' = "done"
           \/ handler[s].awaited /\ ~finished /\ page' = "post" /\ start' = end /\ end' = end + ChunkSize
           \/ ~handler[s].awaited /\ UNCHANGED upload
    BY <1>0, <1>7, ReplyStep
  <2>2. Busy(s) /\ \A t \in Slots : ~Busy(t)'
    BY <1>b, <2>1 DEF OneRequest, Busy, Free
  <2>3. handler[s].awaited <=> page = "wait"
    BY <1>b, <2>1, <2>2 DEF OneRequest
  <2>4. ASSUME page = "wait"
        PROVE  /\ handler[s].to \in Nat /\ handler[s].to >= old
               /\ stored = Kept \o Slice(old, handler[s].to)
               /\ IF finished THEN handler[s].to = size \/ (handler[s].to = old /\ size <= old)
                              ELSE handler[s].to = end /\ end \in ChunkSize..size
    BY <1>b, <1>h, <2>1, <2>2, <2>4 DEF FirstAttempt, Request
  <2>5. page' = "ask" => FALSE
    BY <1>b, <2>1, <2>2 DEF FirstAttempt, upload
  <2>6. page' = "post" =>
          /\ end' = start' + ChunkSize
          /\ start' \in old..size /\ start' >= ChunkSize /\ stored = Kept \o Slice(old, start')
    <3>1. page' = "post" => page = "wait" /\ ~finished /\ start' = end /\ end' = end + ChunkSize
      BY <1>b, <2>1, <2>2, <2>3 DEF OneRequest, upload
    <3>2. page' = "post" => end \in old..size /\ end >= ChunkSize /\ stored = Kept \o Slice(old, end)
      <4>1. SUFFICES ASSUME page' = "post" PROVE end \in old..size /\ end >= ChunkSize
                                                 /\ stored = Kept \o Slice(old, end)
        OBVIOUS
      <4>2. handler[s].to = end /\ end \in ChunkSize..size /\ handler[s].to >= old
            /\ stored = Kept \o Slice(old, handler[s].to)
        BY <2>4, <3>1, <4>1
      <4> QED
        BY <1>00, <4>2
    <3> QED
      BY <3>1, <3>2
  <2>7. page' = "done" => stored = Kept \o Slice(old, size)
    <3>1. page' = "done" => page = "wait" /\ finished
      BY <1>b, <2>1, <2>2, <2>3 DEF OneRequest, upload
    <3>2. size <= old => Slice(old, old) = Slice(old, size)
      BY <1>00, SliceEmpty
    <3> QED
      BY <2>4, <3>1, <3>2
  <2> QED
    BY <1>0, <1>k, <2>1, <2>2, <2>5, <2>6, <2>7 DEF FirstAttempt
<1>8. ASSUME NEW s \in Slots, Cut(s) PROVE FirstAttempt'
  <2>1. page' = "failed"
    BY <1>0, <1>8, CutStep
  <2> QED
    BY <2>1 DEF FirstAttempt
<1>9. CASE UNCHANGED vars
  BY <1>0, <1>b, <1>k, <1>9 DEF vars, upload, FirstAttempt, Busy
<1> QED
  BY <1>1, <1>2, <1>3, <1>4, <1>5, <1>6, <1>7, <1>8, <1>9 DEF Next, Server

\* The invariant holds before the upload.
LEMMA InvInit == Init => UploadInv
<1> SUFFICES ASSUME Init PROVE UploadInv
  OBVIOUS
<1>1. TypeOK /\ Slotted
  BY TypesInit
<1>2. \A s \in Slots : ~Busy(s)
  BY DEF Init, Busy, Free
<1>3. attempts = 0 /\ page = "idle" /\ stored = OldFile(old) /\ old \in Nat /\ size \in Nat
  BY UploadAssumption DEF Init
<1>4. OneRequest
  BY <1>2, <1>3 DEF OneRequest
<1>5. ASSUME Clean PROVE Beginning
  <2>1. stored = <<>> /\ Len(stored) = 0
    BY <1>3, <1>5, OldFileType, EmptySeq DEF Clean
  <2>2. Slice(0, 0) = <<>>
    BY SliceEmpty
  <2> QED
    BY <1>2, <1>3, <2>1, <2>2 DEF Beginning
<1> QED
  BY <1>1, <1>3, <1>4, <1>5 DEF UploadInv, First

\* UploadInv is an invariant of the chunked upload.
THEOREM UploadInvariant == Spec => []UploadInv
<1>1. Init => UploadInv
  BY InvInit
<1>2. UploadInv /\ [Next]_vars => UploadInv'
  <2>1. UploadInv /\ [Next]_vars => TypeOK' /\ Slotted'
    BY TypesStep DEF UploadInv
  <2> QED
    BY <2>1, OneRequestStep, BeginningStep, FirstStep DEF UploadInv
<1> QED
  BY <1>1, <1>2, PTL DEF Spec

\* Without an older file, and as long as no attempt was resumed inside the first
\* chunk, no write was lost and no handler of an earlier attempt was at work
\* (http_server.cpp:790), what is stored is a beginning of the file, and the whole
\* of it when the page says so: for any sizes and any number of resumed attempts.
THEOREM PrefixIsKept == Spec => []PrefixKept
<1>1. UploadInv => PrefixKept
  <2> SUFFICES ASSUME UploadInv, old = 0, mishaps = {}
               PROVE  /\ Len(stored) <= size /\ stored = Slice(0, Len(stored))
                      /\ page = "done" => stored = Whole
    BY DEF PrefixKept
  <2> QED
    BY DEF UploadInv, Clean, Beginning, Whole
<1> QED
  BY <1>1, UploadInvariant, PTL

\* One undisturbed attempt over an older file takes its size for that of pieces sent
\* already, and keeps them exactly if they fill a chunk (http_server.cpp:803): for
\* any sizes of both files.
THEOREM OldFileIsTaken == Spec => []OldFileResult
<1>1. UploadInv => OldFileResult
  <2> SUFFICES ASSUME UploadInv, page = "done", attempts = 1, "lost_write" \notin mishaps
               PROVE  stored = IF old < ChunkSize THEN Slice(old, size) ELSE OldFile(old) \o Slice(old, size)
    BY DEF OldFileResult
  <2>1. stored = Kept \o Slice(old, size)
    BY DEF UploadInv, First, FirstAttempt
  <2>2. old < ChunkSize => Kept \o Slice(old, size) = Slice(old, size)
    <3>1. old \in Nat /\ size \in Nat
      BY DEF UploadInv, TypeOK
    <3>2. Slice(old, size) \in Seq(Pieces)
      BY <3>1, SliceProperties
    <3> QED
      BY <3>2, ConcatEmptySeq DEF Kept
  <2> QED
    BY <2>1, <2>2 DEF Kept
<1> QED
  BY <1>1, UploadInvariant, PTL

===============================================================================
