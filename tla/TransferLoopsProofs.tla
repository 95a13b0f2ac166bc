-------------------------- MODULE TransferLoopsProofs --------------------------
(***************************************************************************)
(* Proofs about TransferLoops, for any number of threads, any offered      *)
(* loops, any buffer and any sizes: what a loop that returns success has   *)
(* moved, and what a loop that fails has met with.  The last part proves   *)
(* the two properties of Extraction, a loop of the same kind.              *)
(***************************************************************************)
EXTENDS TransferLoops, Extraction, SequenceTheorems, TLAPS

-------------------------------------------------------------------------------
(* The inductive invariant: what is known of one operation at each of its  *)
(* steps, where d and t are bytes_to_download and bytes_transfered.        *)

Mishaps == {"counter", "changed", "close", "read", "short_write", "failed_write", "open",
            "status", "early_end", "old_tail"}

InLoop == {"read", "write", "add", "store", "test", "end"}

Operation ==
  [pc : {"idle", "announce", "open", "done", "undefined"} \cup InLoop,
   kind : Copies \cup Gets \cup Puts \cup {"none"},
   size : Nat, source : Nat, taken : Nat, chunk : Seq(Int), dest : Seq(Int), at : Nat,
   count : Nat, register : Nat, result : {0, 1}, mishaps : SUBSET Mishaps]

\* Nothing has happened to the operation that makes its destination wrong.
Sound(r) ==
  /\ \A m \in Hidden(r.kind) : m \notin r.mishaps
  /\ "failed_write" \notin r.mishaps

\* An operation that has begun is one of the loops; some failures end it at once, and
\* only BaseClient::Get goes on without a file.  The offset is inside the file, until an
\* error page replaces what a BaseClient::Get has written.
Kept(r) ==
  /\ r.pc # "idle" => r.kind \in Copies \cup Gets \cup Puts
  /\ r.pc = "test" => r.kind \in Copies
  /\ r.kind \in Copies \cup {"NfsClient::Put"} /\ r.pc # "done" => "failed_write" \notin r.mishaps
  /\ "open" \in r.mishaps /\ r.pc \in InLoop => r.kind = "BaseClient::Get"
  /\ r.pc \in InLoop =>
       r.at <= Len(r.dest) \/ (r.pc = "end" /\ r.kind = "BaseClient::Get")

\* Before the loop.
Waiting(r) ==
  r.pc \in {"announce", "open"} =>
    /\ r.taken = 0 /\ r.at = 0 /\ r.chunk = <<>> /\ r.source = r.size /\ r.mishaps \subseteq {"counter"}
    /\ r.kind # "NfsClient::Put" => r.dest = <<>>

\* In the loop: the pieces up to at are in their places, those from there up to taken are
\* in the buffer, and the loop ends when there are no others.
Content(r) ==
  r.pc \in InLoop /\ Sound(r) =>
    /\ r.at <= r.taken /\ r.taken <= r.size /\ r.source = r.size
    /\ r.chunk = Slice(r.at, r.taken)
    /\ \/ r.pc \in {"read", "test", "end"}
       \/ r.kind \in Copies /\ r.pc \in {"add", "store"}
       => r.at = r.taken
    /\ r.pc = "end" => r.taken = r.size
    /\ \A i \in 1..r.at : r.dest[i] = i - 1
    /\ Len(r.dest) = r.at \/ (r.kind = "NfsClient::Put" /\ Len(r.dest) <= r.size)

\* The counters are those of a copy nobody has disturbed.
Counters(r, d, t) ==
  r.kind \in Copies /\ Sound(r) =>
    /\ r.pc \in InLoop \cup {"open"} => d = r.size
    /\ r.pc \in {"read", "write"} => t = r.at
    /\ r.pc = "write" => r.count = Len(r.chunk)
    /\ r.pc = "add" => t + r.count = r.at
    /\ r.pc = "store" => r.register = r.at
    /\ r.pc = "test" => t = r.at /\ r.register = r.at

Explained(r) ==
  r.pc = "done" =>
    /\ r.result = 1 /\ ~Whole(r) => r.mishaps \cap Hidden(r.kind) # {}
    /\ r.result = 0 => r.mishaps # {}

Fine(r, d, t) ==
  /\ r \in Operation
  /\ Kept(r) /\ Waiting(r) /\ Content(r) /\ Counters(r, d, t) /\ Explained(r)

LoopsInv ==
  /\ DOMAIN op = Actors
  /\ bytes_to_download \in Nat /\ bytes_transfered \in Nat
  /\ \A a \in Actors : Fine(op[a], bytes_to_download, bytes_transfered)

-------------------------------------------------------------------------------
(* The operators.                                                          *)

\* The kinds of loops are different, and each hides some failures.
LEMMA HiddenFailures ==
  /\ \A k \in Copies : Hidden(k) = {"counter", "changed", "close"}
  /\ \A k \in Gets \ {"BaseClient::Get"} :
       Hidden(k) = {"read", "short_write", "failed_write", "close"}
  /\ Hidden("BaseClient::Get") =
       {"open", "status", "early_end", "short_write", "failed_write", "close"}
  /\ Hidden("SFTPClient::Put") = {"read", "failed_write"}
  /\ Hidden("SmbClient::Put") = {"read", "short_write", "failed_write"}
  /\ Hidden("NfsClient::Put") = {"read", "short_write", "old_tail"}
  /\ Hidden("WebDAVClient::Put") = {"changed"}
<1>1. \A k \in Copies : Hidden(k) = {"counter", "changed", "close"}
  BY DEF Hidden, Copies, Gets
<1>2. \A k \in Gets \ {"BaseClient::Get"} :
        Hidden(k) = {"read", "short_write", "failed_write", "close"}
  BY DEF Hidden, Copies, Gets
<1>3. /\ Hidden("BaseClient::Get") =
           {"open", "status", "early_end", "short_write", "failed_write", "close"}
      /\ Hidden("SFTPClient::Put") = {"read", "failed_write"}
      /\ Hidden("SmbClient::Put") = {"read", "short_write", "failed_write"}
      /\ Hidden("NfsClient::Put") = {"read", "short_write", "old_tail"}
      /\ Hidden("WebDAVClient::Put") = {"changed"}
  BY DEF Hidden, Copies, Gets
<1> QED
  BY <1>1, <1>2, <1>3

\* A slice holds the positions from its first to before its last.
LEMMA SliceIs ==
  ASSUME NEW a \in Nat, NEW b \in Nat
  PROVE  /\ Slice(a, b) \in Seq(Int)
         /\ Len(Slice(a, b)) = IF a < b THEN b - a ELSE 0
         /\ \A i \in 1..Len(Slice(a, b)) : Slice(a, b)[i] = a + i - 1
<1> DEFINE n == IF a < b THEN b - a ELSE 0
<1>1. n \in Nat
  OBVIOUS
<1>2. Slice(a, b) = [i \in 1..n |-> a + i - 1]
  BY DEF Slice
<1> HIDE DEF n
<1>3. Slice(a, b) \in [1..n -> Int]
  BY <1>1, <1>2
<1>4. Slice(a, b) \in Seq(Int) /\ Len(Slice(a, b)) = n
  BY <1>1, <1>2, <1>3, LenProperties
<1> QED
  BY <1>2, <1>4 DEF n

\* A slice is known by its length and its elements.
LEMMA SliceEqual ==
  ASSUME NEW a \in Nat, NEW b \in Nat, NEW s \in Seq(Int),
         Len(s) = (IF a < b THEN b - a ELSE 0), \A i \in 1..Len(s) : s[i] = a + i - 1
  PROVE  s = Slice(a, b)
<1>1. Slice(a, b) \in Seq(Int) /\ Len(Slice(a, b)) = Len(s)
  BY SliceIs
<1>2. \A i \in 1..Len(s) : s[i] = Slice(a, b)[i]
  BY <1>1, SliceIs
<1> QED
  BY <1>1, <1>2, SeqEqual

\* The slice from one position to a later one, and the empty one.
LEMMA SliceFromTo ==
  ASSUME NEW a \in Nat, NEW b \in Nat, a <= b
  PROVE  /\ Slice(a, b) \in Seq(Int) /\ Len(Slice(a, b)) = b - a
         /\ \A i \in 1..Len(Slice(a, b)) : Slice(a, b)[i] = a + i - 1
         /\ Slice(a, b) = <<>> <=> a = b
<1>1. /\ Slice(a, b) \in Seq(Int) /\ Len(Slice(a, b)) = IF a < b THEN b - a ELSE 0
      /\ \A i \in 1..Len(Slice(a, b)) : Slice(a, b)[i] = a + i - 1
  BY SliceIs
<1>2. Len(Slice(a, b)) = b - a
  BY <1>1
<1>3. Slice(a, b) = <<>> <=> Len(Slice(a, b)) = 0
  BY <1>1, EmptySeq
<1> QED
  BY <1>1, <1>2, <1>3

\* What has been written and what is there behind it stay; the chunk gets its place.
LEMMA WrittenIs ==
  ASSUME NEW r \in Operation, r.at <= Len(r.dest), NEW n \in 0..Len(r.chunk)
  PROVE  /\ Written(r, n) \in Seq(Int)
         /\ Len(Written(r, n)) = IF r.at + n < Len(r.dest) THEN Len(r.dest) ELSE r.at + n
         /\ \A i \in 1..Len(Written(r, n)) :
              Written(r, n)[i] = IF r.at < i /\ i <= r.at + n THEN r.chunk[i - r.at] ELSE r.dest[i]
<1> DEFINE m == IF r.at + n < Len(r.dest) THEN Len(r.dest) ELSE r.at + n
           e(i) == IF r.at < i /\ i <= r.at + n THEN r.chunk[i - r.at] ELSE r.dest[i]
<1>0. r.chunk \in Seq(Int) /\ r.dest \in Seq(Int) /\ r.at \in Nat /\ Len(r.chunk) \in Nat
      /\ Len(r.dest) \in Nat
  BY LenProperties DEF Operation
<1>1. m \in Nat
  BY <1>0
<1>2. Written(r, n) = [i \in 1..m |-> e(i)]
  BY DEF Written
<1>3. ASSUME NEW i \in 1..m PROVE e(i) \in Int
  <2>1. CASE r.at < i /\ i <= r.at + n
    <3>1. i - r.at \in 1..Len(r.chunk)
      BY <1>0, <2>1
    <3> QED
      BY <1>0, <2>1, <3>1, ElementOfSeq
  <2>2. CASE ~(r.at < i /\ i <= r.at + n)
    <3>1. i \in 1..Len(r.dest)
      BY <1>0, <2>2
    <3> QED
      BY <1>0, <2>2, <3>1, ElementOfSeq
  <2> QED
    BY <2>1, <2>2
<1> HIDE DEF m, e
<1>4. Written(r, n) \in [1..m -> Int]
  BY <1>1, <1>2, <1>3
<1>5. Written(r, n) \in Seq(Int) /\ Len(Written(r, n)) = m
  BY <1>1, <1>4, LenProperties
<1> QED
  BY <1>2, <1>5 DEF m, e

-------------------------------------------------------------------------------
(* What the handlers make of the record of an operation.                   *)

\* The parts of a record.
LEMMA OperationParts ==
  ASSUME NEW r \in Operation
  PROVE  /\ r.size \in Nat /\ r.source \in Nat /\ r.taken \in Nat /\ r.at \in Nat
         /\ r.count \in Nat /\ r.register \in Nat /\ r.result \in {0, 1}
         /\ r.chunk \in Seq(Int) /\ r.dest \in Seq(Int)
         /\ Len(r.chunk) \in Nat /\ Len(r.dest) \in Nat
         /\ r.mishaps \subseteq Mishaps
         /\ r.kind \in Copies \cup Gets \cup Puts \cup {"none"}
         /\ r.pc \in {"idle", "announce", "open", "done", "undefined"} \cup InLoop
<1>1. r.chunk \in Seq(Int) /\ r.dest \in Seq(Int)
  BY DEF Operation
<1>2. Len(r.chunk) \in Nat /\ Len(r.dest) \in Nat
  BY <1>1, LenProperties
<1> QED
  BY <1>1, <1>2 DEF Operation

\* A mishap on its own: it can only make less of what is known.
LEMMA MishapFine ==
  ASSUME NEW d, NEW t, NEW r, Fine(r, d, t), NEW m \in Mishaps,
         r.pc \in InLoop,
         m = "failed_write" => r.kind \notin Copies \cup {"NfsClient::Put"},
         m = "open" => r.kind = "BaseClient::Get"
  PROVE  Fine(Mishap(r, m), d, t)
<1> DEFINE g == Mishap(r, m)
<1>1. r \in Operation
  BY DEF Fine
<1>2. /\ g \in Operation /\ g.mishaps = r.mishaps \cup {m}
      /\ g.pc = r.pc /\ g.kind = r.kind /\ g.size = r.size /\ g.source = r.source
      /\ g.taken = r.taken /\ g.chunk = r.chunk /\ g.dest = r.dest /\ g.at = r.at
      /\ g.count = r.count /\ g.register = r.register
  BY <1>1 DEF Mishap, Operation
<1> HIDE DEF g
<1>3. Sound(g) => Sound(r)
  BY <1>2 DEF Sound
<1>4. Kept(g) /\ Waiting(g)
  BY <1>2 DEF Fine, Kept, Waiting, InLoop
<1>5. Content(g)
  BY <1>2, <1>3 DEF Fine, Content
<1>6. Counters(g, d, t)
  BY <1>2, <1>3 DEF Fine, Counters
<1>7. Explained(g)
  BY <1>2 DEF Explained, InLoop
<1> QED
  BY <1>2, <1>4, <1>5, <1>6, <1>7 DEF Fine, g

\* A loop that gives up for a reason.
LEMMA GivesUp ==
  ASSUME NEW d, NEW t, NEW r \in Operation, r.mishaps # {},
         r.kind \in Copies \cup Gets \cup Puts
  PROVE  Fine(Returned(r, 0), d, t)
<1> DEFINE g == Returned(r, 0)
<1>1. <<>> \in Seq(Int)
  BY EmptySeq
<1>2. /\ g \in Operation /\ g.pc = "done" /\ g.result = 0 /\ g.mishaps = r.mishaps
      /\ g.kind = r.kind
  BY <1>1 DEF Returned, Operation
<1> HIDE DEF g
<1>3. Kept(g) /\ Waiting(g) /\ Content(g)
  BY <1>2 DEF Kept, Waiting, Content, InLoop
<1>4. Counters(g, d, t) /\ Explained(g)
  BY <1>2 DEF Counters, Explained, InLoop
<1> QED
  BY <1>2, <1>3, <1>4 DEF Fine, g

\* A loop that ends with success.
LEMMA Succeeds ==
  ASSUME NEW d, NEW t, NEW r \in Operation, r.kind \in Copies \cup Gets \cup Puts,
         Whole(r) \/ r.mishaps \cap Hidden(r.kind) # {}
  PROVE  Fine(Returned(r, 1), d, t)
<1> DEFINE g == Returned(r, 1)
<1>1. <<>> \in Seq(Int)
  BY EmptySeq
<1>2. /\ g \in Operation /\ g.pc = "done" /\ g.result = 1 /\ g.mishaps = r.mishaps
      /\ g.kind = r.kind /\ g.dest = r.dest /\ g.size = r.size
  BY <1>1 DEF Returned, Operation
<1> HIDE DEF g
<1>3. Kept(g) /\ Waiting(g) /\ Content(g)
  BY <1>2 DEF Kept, Waiting, Content, InLoop
<1>4. Counters(g, d, t)
  BY <1>2 DEF Counters, InLoop
<1>5. Explained(g)
  BY <1>2 DEF Explained, Whole
<1> QED
  BY <1>2, <1>3, <1>4, <1>5 DEF Fine, g

\* The others' counters: a copy that another operation disturbs is not sound any more,
\* and nobody else asks for the counters.
LEMMA DisturbedFine ==
  ASSUME NEW d, NEW t, NEW e, NEW u, NEW r, Fine(r, d, t)
  PROVE  Fine(Disturbed(r), e, u)
<1>1. r \in Operation
  BY DEF Fine
<1>2. CASE r.kind \in Copies /\ r.pc \notin {"idle", "done"}
  <2> DEFINE g == Disturbed(r)
  <2>1. /\ g \in Operation /\ g.mishaps = r.mishaps \cup {"counter"}
        /\ g.pc = r.pc /\ g.kind = r.kind /\ g.at = r.at /\ g.dest = r.dest /\ g.taken = r.taken
        /\ g.source = r.source /\ g.size = r.size /\ g.chunk = r.chunk
    BY <1>1, <1>2 DEF Disturbed, Operation, Mishaps
  <2> HIDE DEF g
  <2>2. ~Sound(g)
    BY <1>2, <2>1, HiddenFailures DEF Sound
  <2>3. Kept(g) /\ Waiting(g)
    BY <1>2, <2>1 DEF Fine, Kept, Waiting
  <2>4. Content(g) /\ Counters(g, e, u) /\ Explained(g)
    BY <1>2, <2>1, <2>2 DEF Content, Counters, Explained
  <2> QED
    BY <2>1, <2>3, <2>4 DEF Fine, g
<1>3. CASE ~(r.kind \in Copies /\ r.pc \notin {"idle", "done"})
  <2>1. Disturbed(r) = r
    BY <1>3 DEF Disturbed
  <2>2. Counters(r, e, u)
    BY <1>3 DEF Counters, InLoop
  <2> QED
    BY <2>1, <2>2 DEF Fine
<1> QED
  BY <1>2, <1>3

-------------------------------------------------------------------------------
(* One turn of the loop.                                                   *)

\* How much a loop reads: never more than there is; the end of the file is only
\* reported when everything is read.
LEMMA AmountsAre ==
  ASSUME NEW r \in Operation, NEW n \in Amounts(r)
  PROVE  /\ n \in Nat
         /\ r.taken <= r.source => r.taken + n <= r.source
         /\ n = 0 /\ r.kind \notin CountingLoops => r.source <= r.taken
<1>1. r.source \in Nat /\ r.taken \in Nat /\ r.size \in Nat /\ Buffer \in Nat \ {0}
  BY OperationParts, LoopsAssumption
<1> DEFINE most == Least(Buffer, IF r.taken < r.source THEN r.source - r.taken ELSE 0)
<1>2. /\ most \in Nat
      /\ r.taken <= r.source => r.taken + most <= r.source
      /\ most = 0 => r.source <= r.taken
  BY <1>1 DEF Least
<1>3. Amounts(r) = IF r.kind \in Gets THEN {k \in 0..most : k = 0 => most = 0}
                   ELSE IF r.kind = "WebDAVClient::Put" THEN {Least(most, r.size)} ELSE {most}
  BY DEF Amounts
<1> HIDE DEF most
<1>4. n \in 0..most /\ (n = 0 /\ r.kind \notin CountingLoops => most = 0)
  BY <1>1, <1>2, <1>3 DEF Least, CountingLoops
<1> QED
  BY <1>1, <1>2, <1>4

\* n pieces go to the buffer.
LEMMA TookFine ==
  ASSUME NEW d, NEW t, NEW r, Fine(r, d, t), r.pc = "read", NEW n \in Nat,
         n \in Amounts(r) \/ (n = 0 /\ "read" \in r.mishaps /\ r.kind # "BaseClient::Get")
  PROVE  Fine(Took(r, n), d, t)
<1> DEFINE g == Took(r, n)
<1>1. r \in Operation
  BY DEF Fine
<1>2. /\ r.taken \in Nat /\ r.at \in Nat /\ r.size \in Nat /\ r.source \in Nat
      /\ r.kind \in Copies \cup Gets \cup Puts
  BY <1>1, OperationParts DEF Fine, Kept
<1>3. /\ Slice(r.taken, r.taken + n) \in Seq(Int)
      /\ Len(Slice(r.taken, r.taken + n)) = n
  <2>1. r.taken + n \in Nat /\ r.taken <= r.taken + n /\ (r.taken + n) - r.taken = n
    BY <1>2
  <2>2. /\ Slice(r.taken, r.taken + n) \in Seq(Int)
        /\ Len(Slice(r.taken, r.taken + n)) = (r.taken + n) - r.taken
    BY <1>2, <2>1, SliceFromTo, Zenon
  <2> QED
    BY <2>1, <2>2
<1> DEFINE s == Slice(r.taken, r.taken + n)
<1> HIDE DEF s
<1>s. s \in Seq(Int) /\ s = Slice(r.taken, r.taken + n)
  BY <1>3 DEF s
<1>a. g = [r EXCEPT !.chunk = s, !.taken = r.taken + n, !.count = n,
                    !.pc = IF n > 0 \/ r.kind \in CountingLoops THEN "write" ELSE "end"]
  BY DEF Took, s
<1>4. /\ g \in Operation
      /\ g.pc = IF n > 0 \/ r.kind \in CountingLoops THEN "write" ELSE "end"
      /\ g.chunk = Slice(r.taken, r.taken + n) /\ g.taken = r.taken + n /\ g.count = n
      /\ g.mishaps = r.mishaps /\ g.kind = r.kind /\ g.size = r.size /\ g.source = r.source
      /\ g.dest = r.dest /\ g.at = r.at
  <2>1. r.taken + n \in Nat
    BY <1>2
  <2> HIDE DEF g
  <2> QED
    BY <1>1, <1>s, <1>a, <2>1 DEF Operation, InLoop
<1> HIDE DEF g
<1>5. Sound(g) <=> Sound(r)
  BY <1>4 DEF Sound
<1>6. Kept(g) /\ Waiting(g) /\ Explained(g)
  BY <1>4 DEF Fine, Kept, Waiting, Explained, InLoop
<1>7. Content(g)
  <2> SUFFICES ASSUME Sound(r)
               PROVE  /\ g.at <= g.taken /\ g.taken <= g.size /\ g.source = g.size
                      /\ g.chunk = Slice(g.at, g.taken)
                      /\ g.pc # "end" \/ (g.at = g.taken /\ g.taken = g.size)
                      /\ \A i \in 1..g.at : g.dest[i] = i - 1
                      /\ Len(g.dest) = g.at \/ (g.kind = "NfsClient::Put" /\ Len(g.dest) <= g.size)
    BY <1>4, <1>5 DEF Content
  <2>1. /\ r.at = r.taken /\ r.taken <= r.size /\ r.source = r.size
        /\ \A i \in 1..r.at : r.dest[i] = i - 1
        /\ Len(r.dest) = r.at \/ (r.kind = "NfsClient::Put" /\ Len(r.dest) <= r.size)
    BY DEF Fine, Content, InLoop
  <2>2. CASE n \in Amounts(r)
    BY <1>1, <1>2, <1>4, <2>1, <2>2, AmountsAre
  <2>3. CASE n = 0 /\ "read" \in r.mishaps /\ r.kind # "BaseClient::Get"
    <3>1. r.kind \in CountingLoops
      BY <1>2, <2>3, HiddenFailures DEF Sound, CountingLoops, Copies, Gets, Puts
    <3> QED
      BY <1>2, <1>4, <2>1, <2>3, <3>1
  <2> QED
    BY <2>2, <2>3
<1>8. Counters(g, d, t)
  BY <1>3, <1>4, <1>5 DEF Fine, Counters, InLoop, CountingLoops
<1> QED
  BY <1>4, <1>6, <1>7, <1>8 DEF Fine, g

\* The record after a write of n pieces of the chunk.
LEMMA WroteIs ==
  ASSUME NEW r \in Operation, r.at <= Len(r.dest), NEW n \in 0..Len(r.chunk)
  PROVE  LET g == Wrote(r, n)
         IN  /\ g \in Operation /\ g.pc = "add" /\ g.at = r.at + n /\ g.chunk = <<>>
             /\ g.dest = Written(r, n) /\ g.at <= Len(g.dest)
             /\ g.mishaps = r.mishaps /\ g.kind = r.kind /\ g.size = r.size
             /\ g.source = r.source /\ g.taken = r.taken /\ g.count = r.count
<1> DEFINE g == Wrote(r, n)
<1>1. Written(r, n) \in Seq(Int) /\ r.at + n <= Len(Written(r, n))
  BY WrittenIs, OperationParts
<1>2. <<>> \in Seq(Int) /\ r.at + n \in Nat
  BY EmptySeq, OperationParts
<1>3. /\ g \in Operation /\ g.pc = "add" /\ g.at = r.at + n /\ g.chunk = <<>>
      /\ g.dest = Written(r, n)
      /\ g.mishaps = r.mishaps /\ g.kind = r.kind /\ g.size = r.size
      /\ g.source = r.source /\ g.taken = r.taken /\ g.count = r.count
  BY <1>1, <1>2 DEF Wrote, Operation, InLoop
<1> QED
  BY <1>1, <1>3

\* What has been moved is in its place after the write of n more pieces.
LEMMA WrittenInPlace ==
  ASSUME NEW r \in Operation, r.at <= Len(r.dest), NEW n \in 0..Len(r.chunk),
         r.at <= r.taken, r.taken <= r.size, r.chunk = Slice(r.at, r.taken),
         \A i \in 1..r.at : r.dest[i] = i - 1,
         Len(r.dest) = r.at \/ (r.kind = "NfsClient::Put" /\ Len(r.dest) <= r.size)
  PROVE  /\ r.at + n <= r.taken /\ (n = Len(r.chunk) => r.at + n = r.taken)
         /\ \A i \in 1..(r.at + n) : Written(r, n)[i] = i - 1
         /\ \/ Len(Written(r, n)) = r.at + n
            \/ r.kind = "NfsClient::Put" /\ Len(Written(r, n)) <= r.size
<1>0. /\ r.at \in Nat /\ r.taken \in Nat /\ r.size \in Nat /\ Len(r.dest) \in Nat
  BY OperationParts
<1>1. /\ Len(r.chunk) = r.taken - r.at
      /\ \A i \in 1..Len(r.chunk) : r.chunk[i] = r.at + i - 1
  <2>1. /\ Len(Slice(r.at, r.taken)) = r.taken - r.at
        /\ \A i \in 1..Len(Slice(r.at, r.taken)) : Slice(r.at, r.taken)[i] = r.at + i - 1
    BY <1>0, SliceFromTo, Zenon
  <2> QED
    BY <2>1, Zenon
<1>2. r.at + n <= r.taken /\ (n = Len(r.chunk) => r.at + n = r.taken)
  <2>1. n \in Nat /\ n <= Len(r.chunk) /\ Len(r.chunk) \in Nat
    BY <1>0, <1>1
  <2>2. Len(r.chunk) = r.taken - r.at
    BY <1>1
  <2> QED
    BY <1>0, <2>1, <2>2
<1>3. /\ Len(Written(r, n)) = IF r.at + n < Len(r.dest) THEN Len(r.dest) ELSE r.at + n
      /\ \A i \in 1..Len(Written(r, n)) :
           Written(r, n)[i] = IF r.at < i /\ i <= r.at + n THEN r.chunk[i - r.at] ELSE r.dest[i]
  BY WrittenIs
<1>4. ASSUME NEW i \in 1..(r.at + n) PROVE Written(r, n)[i] = i - 1
  <2>1. i \in 1..Len(Written(r, n))
    BY <1>0, <1>1, <1>3
  <2>2. CASE r.at < i
    <3>1. i - r.at \in 1..Len(r.chunk)
      <4>1. r.at \in Nat /\ Len(r.chunk) \in Nat
        BY <1>0, <1>1
      <4> QED
        BY <2>2, <4>1
    <3>2. r.chunk[i - r.at] = r.at + (i - r.at) - 1
      BY <1>0, <1>1, <3>1
    <3> QED
      BY <1>0, <1>1, <1>3, <2>1, <2>2, <3>2
  <2>3. CASE i <= r.at
    <3>1. ~(r.at < i) /\ i \in 1..r.at
      BY <1>0, <2>3
    <3>2. Written(r, n)[i] = r.dest[i]
      BY <1>3, <2>1, <3>1
    <3> QED
      BY <3>1, <3>2
  <2> QED
    BY <1>0, <1>1, <2>2, <2>3
<1>5. \/ Len(Written(r, n)) = r.at + n
      \/ r.kind = "NfsClient::Put" /\ Len(Written(r, n)) <= r.size
  BY <1>0, <1>1, <1>2, <1>3
<1> QED
  BY <1>2, <1>4, <1>5

\* All of the chunk is written, or a failure is taken for that.
LEMMA WroteFine ==
  ASSUME NEW d, NEW t, NEW r, Fine(r, d, t), r.pc = "write", NEW n \in 0..Len(r.chunk),
         n = Len(r.chunk) \/ ~Sound(r)
  PROVE  Fine(Wrote(r, n), d, t)
<1> DEFINE g == Wrote(r, n)
<1>1. r \in Operation /\ r.at <= Len(r.dest)
  BY DEF Fine, Kept, InLoop
<1>2. /\ g \in Operation /\ g.pc = "add" /\ g.at = r.at + n /\ g.chunk = <<>>
      /\ g.dest = Written(r, n) /\ g.at <= Len(g.dest)
      /\ g.mishaps = r.mishaps /\ g.kind = r.kind /\ g.size = r.size
      /\ g.source = r.source /\ g.taken = r.taken /\ g.count = r.count
  BY <1>1, WroteIs
<1> HIDE DEF g
<1>3. Sound(g) <=> Sound(r)
  BY <1>2 DEF Sound
<1>4. Kept(g) /\ Waiting(g) /\ Explained(g)
  BY <1>2 DEF Fine, Kept, Waiting, Explained, InLoop
<1>5. Content(g) /\ Counters(g, d, t)
  <2>1. CASE ~Sound(r)
    BY <1>3, <2>1 DEF Content, Counters
  <2>2. CASE Sound(r)
    <3>1. /\ r.at <= r.taken /\ r.taken <= r.size /\ r.source = r.size
          /\ r.chunk = Slice(r.at, r.taken)
          /\ \A i \in 1..r.at : r.dest[i] = i - 1
          /\ Len(r.dest) = r.at \/ (r.kind = "NfsClient::Put" /\ Len(r.dest) <= r.size)
          /\ n = Len(r.chunk)
      BY <2>2 DEF Fine, Content, InLoop
    <3>2. /\ r.at + n = r.taken
          /\ \A i \in 1..(r.at + n) : Written(r, n)[i] = i - 1
          /\ \/ Len(Written(r, n)) = r.at + n
             \/ r.kind = "NfsClient::Put" /\ Len(Written(r, n)) <= r.size
      BY <1>1, <3>1, WrittenInPlace
    <3>3. <<>> = Slice(r.taken, r.taken)
      <4>1. r.taken \in Nat /\ r.taken <= r.taken
        BY <1>1, OperationParts
      <4> QED
        BY <4>1, SliceFromTo, Zenon
    <3>4. Content(g)
      BY <1>2, <3>1, <3>2, <3>3, OperationParts DEF Content
    <3>5. Counters(g, d, t)
      BY <1>1, <1>2, <2>2, <3>1, OperationParts DEF Fine, Counters, InLoop
    <3> QED
      BY <3>4, <3>5
  <2> QED
    BY <2>1, <2>2
<1> QED
  BY <1>2, <1>4, <1>5 DEF Fine, g

\* SFTPClient::Put writes a part of the chunk and keeps the rest.
LEMMA WroteRestFine ==
  ASSUME NEW d, NEW t, NEW r, Fine(r, d, t), r.pc = "write", r.kind = "SFTPClient::Put",
         NEW n \in 1..Len(r.chunk) - 1
  PROVE  Fine([Wrote(r, n) EXCEPT !.count = n,
                                  !.chunk = SubSeq(r.chunk, n + 1, Len(r.chunk))], d, t)
<1> DEFINE h == Wrote(r, n)
           rest == SubSeq(r.chunk, n + 1, Len(r.chunk))
           g == [h EXCEPT !.count = n, !.chunk = rest]
<1>1. r \in Operation /\ r.at <= Len(r.dest)
  BY DEF Fine, Kept, InLoop
<1>2. r.chunk \in Seq(Int) /\ Len(r.chunk) \in Nat /\ r.at \in Nat /\ r.taken \in Nat /\ n \in Nat
      /\ n \in 0..Len(r.chunk)
  BY <1>1, OperationParts
<1>3. /\ h \in Operation /\ h.pc = "add" /\ h.at = r.at + n
      /\ h.dest = Written(r, n) /\ h.at <= Len(h.dest)
      /\ h.mishaps = r.mishaps /\ h.kind = r.kind /\ h.size = r.size
      /\ h.source = r.source /\ h.taken = r.taken
  BY <1>1, <1>2, WroteIs
<1>4. /\ rest \in Seq(Int) /\ Len(rest) = Len(r.chunk) - n
      /\ \A i \in 1..Len(rest) : rest[i] = r.chunk[n + i]
  <2>1. \A i \in (n + 1)..Len(r.chunk) : r.chunk[i] \in Int
    BY <1>2, ElementOfSeq
  <2>2. /\ rest \in Seq(Int)
        /\ Len(rest) = IF n + 1 <= Len(r.chunk) THEN Len(r.chunk) - (n + 1) + 1 ELSE 0
        /\ \A i \in 1..(Len(r.chunk) - (n + 1) + 1) : rest[i] = r.chunk[(n + 1) + i - 1]
    BY <1>2, <2>1, SubSeqProperties
  <2> HIDE DEF rest
  <2>3. Len(rest) = Len(r.chunk) - n
    BY <1>2, <2>2
  <2>4. ASSUME NEW i \in 1..Len(rest) PROVE rest[i] = r.chunk[n + i]
    <3>1. i \in 1..(Len(r.chunk) - (n + 1) + 1) /\ (n + 1) + i - 1 = n + i
      BY <1>2, <2>3
    <3> QED
      BY <2>2, <3>1
  <2> QED
    BY <2>2, <2>3, <2>4
<1> HIDE DEF h, rest
<1>5. /\ g \in Operation /\ g.pc = "add" /\ g.at = r.at + n /\ g.chunk = rest
      /\ g.dest = Written(r, n) /\ g.at <= Len(g.dest)
      /\ g.mishaps = r.mishaps /\ g.kind = r.kind /\ g.size = r.size
      /\ g.source = r.source /\ g.taken = r.taken
  BY <1>2, <1>3, <1>4 DEF Operation
<1> HIDE DEF g
<1>6. Sound(g) <=> Sound(r)
  BY <1>5 DEF Sound
<1>7. Kept(g) /\ Waiting(g) /\ Explained(g) /\ Counters(g, d, t)
  BY <1>5 DEF Fine, Kept, Waiting, Explained, Counters, InLoop, Copies
<1>8. Content(g)
  <2> SUFFICES ASSUME Sound(r) PROVE Content(g)
    BY <1>6 DEF Content
  <2>1. /\ r.at <= r.taken /\ r.taken <= r.size /\ r.source = r.size
        /\ r.chunk = Slice(r.at, r.taken)
        /\ \A i \in 1..r.at : r.dest[i] = i - 1
        /\ Len(r.dest) = r.at \/ (r.kind = "NfsClient::Put" /\ Len(r.dest) <= r.size)
    BY DEF Fine, Content, InLoop
  <2>2. /\ r.at + n <= r.taken
        /\ \A i \in 1..(r.at + n) : Written(r, n)[i] = i - 1
        /\ \/ Len(Written(r, n)) = r.at + n
           \/ r.kind = "NfsClient::Put" /\ Len(Written(r, n)) <= r.size
    BY <1>1, <1>2, <2>1, WrittenInPlace
  <2>3. rest = Slice(r.at + n, r.taken)
    <3>1. /\ Len(r.chunk) = r.taken - r.at
          /\ \A i \in 1..Len(r.chunk) : r.chunk[i] = r.at + i - 1
      <4>1. /\ Len(Slice(r.at, r.taken)) = r.taken - r.at
            /\ \A i \in 1..Len(Slice(r.at, r.taken)) : Slice(r.at, r.taken)[i] = r.at + i - 1
        BY <1>2, <2>1, SliceFromTo, Zenon
      <4> QED
        BY <2>1, <4>1, Zenon
    <3>2. Len(rest) = IF r.at + n < r.taken THEN r.taken - (r.at + n) ELSE 0
      <4>1. Len(rest) = (r.taken - r.at) - n
        BY <1>4, <3>1, Zenon
      <4>2. r.at \in Nat /\ r.taken \in Nat /\ n \in Nat /\ r.at + n <= r.taken
        BY <1>2, <2>2, Zenon
      <4> QED
        BY <4>1, <4>2
    <3>3. ASSUME NEW i \in 1..Len(rest) PROVE rest[i] = (r.at + n) + i - 1
      <4>1. n + i \in 1..Len(r.chunk)
        BY <1>2, <1>4
      <4> QED
        <5>1. rest[i] = r.at + (n + i) - 1
          BY <1>4, <3>1, <4>1, Zenon
        <5>2. r.at \in Nat /\ n \in Nat /\ i \in Int
          BY <1>2
        <5> QED
          BY <5>1, <5>2
    <3>4. r.at + n \in Nat
      BY <1>2
    <3> QED
      BY <1>2, <1>4, <3>2, <3>3, <3>4, SliceEqual
  <2> QED
    BY <1>5, <2>1, <2>2, <2>3 DEF Content, Copies
<1> QED
  BY <1>5, <1>7, <1>8 DEF Fine, g, h, rest

-------------------------------------------------------------------------------
(* The steps.                                                              *)

\* An operation that only changes its own record.
LEMMA AloneStep ==
  ASSUME LoopsInv, NEW a \in Actors, NEW r, Becomes(a, r),
         UNCHANGED <<bytes_to_download, bytes_transfered>>,
         Fine(r, bytes_to_download, bytes_transfered)
  PROVE  LoopsInv'
<1>1. DOMAIN op' = Actors /\ \A b \in Actors : op'[b] = IF b = a THEN r ELSE op[b]
  BY DEF LoopsInv, Becomes
<1>2. ASSUME NEW b \in Actors PROVE Fine(op'[b], bytes_to_download', bytes_transfered')
  <2>1. Fine(op'[b], bytes_to_download, bytes_transfered)
    BY <1>1 DEF LoopsInv
  <2> QED
    BY <2>1
<1> QED
  BY <1>1, <1>2 DEF LoopsInv

\* An operation that writes a counter.
LEMMA CountingStep ==
  ASSUME LoopsInv, NEW a \in Actors, NEW r, BecomesCounting(a, r),
         bytes_to_download' \in Nat, bytes_transfered' \in Nat,
         Fine(r, bytes_to_download', bytes_transfered')
  PROVE  LoopsInv'
<1>1. DOMAIN op' = Actors /\ \A b \in Actors : op'[b] = IF b = a THEN r ELSE Disturbed(op[b])
  BY DEF BecomesCounting
<1>2. ASSUME NEW b \in Actors PROVE Fine(op'[b], bytes_to_download', bytes_transfered')
  <2>1. CASE b = a
    BY <1>1, <2>1
  <2>2. CASE b # a
    <3>1. Fine(op[b], bytes_to_download, bytes_transfered)
      BY DEF LoopsInv
    <3>2. Fine(Disturbed(op[b]), bytes_to_download', bytes_transfered')
      BY <3>1, DisturbedFine
    <3> QED
      BY <1>1, <2>2, <3>2
  <2> QED
    BY <2>1, <2>2
<1> QED
  BY <1>1, <1>2 DEF LoopsInv

\* A new operation.
LEMMA StartStep == ASSUME LoopsInv, NEW a \in Actors, Start(a) PROVE LoopsInv'
<1>1. PICK kind \in Offered[a], n \in Sizes \cup {0}, old \in Sizes \cup {0} :
        /\ old > 0 => kind = "NfsClient::Put"
        /\ Becomes(a, [Idle EXCEPT !.pc = "announce", !.kind = kind, !.size = n, !.source = n,
                                   !.dest = [i \in 1..old |-> OLD]])
  BY DEF Start
<1> DEFINE before == [i \in 1..old |-> OLD]
           r == [Idle EXCEPT !.pc = "announce", !.kind = kind, !.size = n, !.source = n,
                             !.dest = before]
<1>2. n \in Nat /\ old \in Nat /\ kind \in Copies \cup Gets \cup Puts
  BY LoopsAssumption
<1>3. before \in Seq(Int) /\ Len(before) = old /\ (old = 0 => before = <<>>)
  <2>1. before \in [1..old -> Int]
    BY <1>2 DEF OLD
  <2>2. before \in Seq(Int) /\ Len(before) = old
    BY <1>2, <2>1
  <2> HIDE DEF before
  <2> QED
    BY <2>2, EmptySeq
<1> HIDE DEF before
<1>4. /\ r \in Operation /\ r.pc = "announce" /\ r.kind = kind /\ r.taken = 0 /\ r.at = 0
      /\ r.chunk = <<>> /\ r.source = r.size /\ r.mishaps = {} /\ r.dest = before
  BY <1>2, <1>3, EmptySeq DEF Idle, Operation
<1> HIDE DEF r
<1>5. Kept(r) /\ Waiting(r) /\ Content(r) /\ Explained(r)
  BY <1>1, <1>2, <1>3, <1>4 DEF Kept, Waiting, Content, Explained, InLoop
<1>6. Counters(r, bytes_to_download, bytes_transfered)
  BY <1>4 DEF Counters, InLoop
<1>7. Fine(r, bytes_to_download, bytes_transfered)
  BY <1>4, <1>5, <1>6 DEF Fine
<1>8. Becomes(a, r) /\ UNCHANGED <<bytes_to_download, bytes_transfered>>
  BY <1>1 DEF Start, r, before
<1> QED
  BY <1>7, <1>8, AloneStep

\* The size goes to bytes_to_download.
LEMMA AnnounceStep == ASSUME LoopsInv, NEW a \in Actors, Announce(a) PROVE LoopsInv'
<1> DEFINE r == op[a]
           g == [r EXCEPT !.pc = "open"]
<1>1. /\ r \in Operation /\ Kept(r) /\ Waiting(r) /\ r.pc = "announce"
  BY DEF LoopsInv, Fine, Announce
<1>2. /\ BecomesCounting(a, g) /\ bytes_to_download' = r.size
      /\ bytes_transfered' = bytes_transfered
  BY DEF Announce
<1> HIDE DEF r
<1>3. /\ g \in Operation /\ g.pc = "open" /\ g.kind = r.kind /\ g.size = r.size
      /\ g.source = r.source /\ g.taken = r.taken /\ g.at = r.at /\ g.chunk = r.chunk
      /\ g.dest = r.dest /\ g.mishaps = r.mishaps
  BY <1>1 DEF Operation
<1> HIDE DEF g
<1>4. Kept(g) /\ Waiting(g) /\ Content(g) /\ Explained(g)
  BY <1>1, <1>3 DEF Kept, Waiting, Content, Explained, InLoop
<1>5. Counters(g, bytes_to_download', bytes_transfered')
  BY <1>2, <1>3 DEF Counters, InLoop
<1>6. /\ Fine(g, bytes_to_download', bytes_transfered')
      /\ bytes_to_download' \in Nat /\ bytes_transfered' \in Nat
  BY <1>1, <1>2, <1>3, <1>4, <1>5, OperationParts DEF Fine, LoopsInv
<1> QED
  BY <1>2, <1>6, CountingStep

\* The files are open and bytes_transfered is 0; if none is there, BaseClient::Get is
\* the only one to go on.
LEMMA EnterLoop ==
  ASSUME LoopsInv, NEW a \in Actors, NEW g, BecomesCounting(a, g), bytes_transfered' = 0,
         UNCHANGED bytes_to_download, op[a].pc = "open",
         NEW m \in SUBSET {"old_tail", "open"},
         g = [op[a] EXCEPT !.pc = "read", !.mishaps = op[a].mishaps \cup m],
         "old_tail" \in m \/ Len(op[a].dest) <= op[a].size,
         "open" \in m => op[a].kind = "BaseClient::Get"
  PROVE  LoopsInv'
<1> DEFINE r == op[a]
<1>1. r \in Operation /\ Kept(r) /\ Waiting(r) /\ r.pc = "open"
      /\ Counters(r, bytes_to_download, bytes_transfered)
  BY DEF LoopsInv, Fine
<1>2. /\ g = [r EXCEPT !.pc = "read", !.mishaps = r.mishaps \cup m]
      /\ "old_tail" \in m \/ Len(r.dest) <= r.size
      /\ "open" \in m => r.kind = "BaseClient::Get"
  OBVIOUS
<1> HIDE DEF r
<1>3. /\ g \in Operation /\ g.pc = "read" /\ g.kind = r.kind /\ g.size = r.size
      /\ g.source = r.source /\ g.taken = r.taken /\ g.at = r.at /\ g.chunk = r.chunk
      /\ g.dest = r.dest /\ g.mishaps = r.mishaps \cup m
  <2>1. r.mishaps \cup m \in SUBSET Mishaps
    BY <1>1, OperationParts DEF Mishaps
  <2> QED
    BY <1>1, <1>2, <2>1 DEF Operation, InLoop
<1>4. r.size \in Nat /\ Len(r.dest) \in Nat /\ Len(<<>>) = 0
  BY <1>1, OperationParts, EmptySeq
<1>5. Kept(g) /\ Waiting(g) /\ Explained(g)
  BY <1>1, <1>2, <1>3, <1>4 DEF Kept, Waiting, Explained, InLoop
<1>6. Content(g)
  <2> SUFFICES ASSUME Sound(g) PROVE Content(g)
    BY DEF Content
  <2>1. /\ g.at = 0 /\ g.taken = 0 /\ g.chunk = <<>> /\ g.source = g.size /\ g.pc = "read"
        /\ g.kind # "NfsClient::Put" => g.dest = <<>>
    BY <1>1, <1>3 DEF Waiting
  <2>2. Len(g.dest) = 0 \/ (g.kind = "NfsClient::Put" /\ Len(g.dest) <= g.size)
    BY <1>2, <1>3, <1>4, <2>1, HiddenFailures DEF Sound
  <2>3. Slice(0, 0) = <<>>
    <3>1. 0 \in Nat /\ 0 <= 0
      OBVIOUS
    <3> QED
      BY <3>1, SliceFromTo, Zenon
  <2> QED
    BY <1>3, <1>4, <2>1, <2>2, <2>3 DEF Content
<1>7. Counters(g, bytes_to_download', bytes_transfered')
  <2>1. Sound(g) => Sound(r)
    BY <1>3 DEF Sound
  <2> QED
    BY <1>1, <1>3, <2>1 DEF Counters, Waiting, InLoop
<1>8. /\ Fine(g, bytes_to_download', bytes_transfered')
      /\ bytes_to_download' \in Nat /\ bytes_transfered' \in Nat
  BY <1>3, <1>5, <1>6, <1>7 DEF Fine, LoopsInv
<1> QED
  BY <1>8, CountingStep

\* Both files open: NfsClient::Put may have an old file that is too long.
LEMMA OpenStep == ASSUME LoopsInv, NEW a \in Actors, Open(a) PROVE LoopsInv'
<1>1. op[a] \in Operation /\ op[a].pc = "open"
  BY DEF LoopsInv, Fine, Open
<1> DEFINE g == [op[a] EXCEPT !.pc = "read"]
           h == IF Len(op[a].dest) > op[a].size THEN Mishap(g, "old_tail") ELSE g
<1>2. g.dest = op[a].dest /\ g.size = op[a].size
  BY <1>1 DEF Operation
<1>3. BecomesCounting(a, h) /\ bytes_transfered' = 0 /\ UNCHANGED bytes_to_download
  BY <1>2 DEF Open
<1>4. CASE Len(op[a].dest) > op[a].size
  <2>1. h = [op[a] EXCEPT !.pc = "read", !.mishaps = op[a].mishaps \cup {"old_tail"}]
    BY <1>1, <1>4 DEF Mishap, Operation
  <2> HIDE DEF h
  <2>2. {"old_tail"} \in SUBSET {"old_tail", "open"} /\ "open" \notin {"old_tail"}
    OBVIOUS
  <2> QED
    BY <1>1, <1>3, <2>1, <2>2, EnterLoop
<1>5. CASE ~(Len(op[a].dest) > op[a].size)
  <2>1. h = [op[a] EXCEPT !.pc = "read", !.mishaps = op[a].mishaps \cup {}]
    BY <1>1, <1>5 DEF Operation
  <2>2. Len(op[a].dest) <= op[a].size
    BY <1>1, <1>5, OperationParts
  <2> HIDE DEF h
  <2>3. {} \in SUBSET {"old_tail", "open"}
    OBVIOUS
  <2> QED
    BY <1>1, <1>3, <2>1, <2>2, <2>3, EnterLoop
<1> QED
  BY <1>4, <1>5

\* A file does not open.
LEMMA OpenFailsStep == ASSUME LoopsInv, NEW a \in Actors, OpenFails(a) PROVE LoopsInv'
<1> DEFINE r == Mishap(op[a], "open")
<1>1. /\ op[a] \in Operation /\ Kept(op[a]) /\ Waiting(op[a])
      /\ Fine(op[a], bytes_to_download, bytes_transfered)
      /\ bytes_to_download \in Nat /\ UNCHANGED bytes_to_download
  BY DEF LoopsInv, Fine, OpenFails
<1>2. /\ r \in Operation /\ r.mishaps = op[a].mishaps \cup {"open"} /\ r.pc = op[a].pc
      /\ r.kind = op[a].kind
  BY <1>1 DEF Mishap, Operation, Mishaps
<1>3. \/ /\ r.pc \in {"announce", "open"}
         /\ Becomes(a, Returned(r, 0))
         /\ UNCHANGED bytes_transfered
      \/ /\ r.pc = "open" /\ r.kind = "BaseClient::Get"
         /\ BecomesCounting(a, [r EXCEPT !.pc = "read"])
         /\ bytes_transfered' = 0
      \/ /\ r.pc = "open" /\ r.kind = "WebDAVClient::Put"
         /\ BecomesCounting(a, [r EXCEPT !.pc = "undefined"])
         /\ bytes_transfered' = 0
  BY DEF OpenFails
<1>4. CASE /\ r.pc \in {"announce", "open"}
           /\ Becomes(a, Returned(r, 0))
           /\ UNCHANGED bytes_transfered
  <2> HIDE DEF r
  <2>1. r.kind \in Copies \cup Gets \cup Puts
    BY <1>1, <1>2, <1>4 DEF Kept
  <2>2. Fine(Returned(r, 0), bytes_to_download, bytes_transfered)
    BY <1>2, <2>1, GivesUp
  <2> QED
    BY <1>1, <1>4, <2>2, AloneStep
<1>5. CASE /\ r.pc = "open" /\ r.kind = "BaseClient::Get"
           /\ BecomesCounting(a, [r EXCEPT !.pc = "read"])
           /\ bytes_transfered' = 0
  <2>1. [r EXCEPT !.pc = "read"] =
          [op[a] EXCEPT !.pc = "read", !.mishaps = op[a].mishaps \cup {"open"}]
    BY <1>1 DEF Mishap, Operation
  <2>2. Len(op[a].dest) <= op[a].size
    <3>1. op[a].dest = <<>> /\ op[a].size \in Nat
      BY <1>1, <1>2, <1>5, OperationParts DEF Waiting
    <3> QED
      BY <3>1, EmptySeq
  <2>3. {"open"} \in SUBSET {"old_tail", "open"}
    OBVIOUS
  <2> HIDE DEF r
  <2> DEFINE g == [r EXCEPT !.pc = "read"]
  <2>4. g = [op[a] EXCEPT !.pc = "read", !.mishaps = op[a].mishaps \cup {"open"}]
        /\ BecomesCounting(a, g)
    BY <1>5, <2>1
  <2> HIDE DEF g
  <2> QED
    BY <1>1, <1>2, <1>5, <2>2, <2>3, <2>4, EnterLoop
<1>6. CASE /\ r.pc = "open" /\ r.kind = "WebDAVClient::Put"
           /\ BecomesCounting(a, [r EXCEPT !.pc = "undefined"])
           /\ bytes_transfered' = 0
  <2> DEFINE g == [r EXCEPT !.pc = "undefined"]
  <2> HIDE DEF r
  <2>1. g \in Operation /\ g.pc = "undefined" /\ g.kind = "WebDAVClient::Put"
    BY <1>2, <1>6 DEF Operation
  <2>2. BecomesCounting(a, g)
    BY <1>6
  <2> HIDE DEF g
  <2>3. Kept(g) /\ Waiting(g) /\ Content(g) /\ Explained(g)
    BY <2>1 DEF Kept, Waiting, Content, Explained, InLoop, Copies, Puts
  <2>4. Counters(g, bytes_to_download', bytes_transfered')
    BY <2>1 DEF Counters, InLoop
  <2> QED
    BY <1>1, <1>6, <2>1, <2>2, <2>3, <2>4, CountingStep DEF Fine
<1> QED
  BY <1>3, <1>4, <1>5, <1>6

\* A mishap that makes the loop answer with success all the same: nothing is claimed of
\* its destination any more.
LEMMA Unsound ==
  ASSUME NEW d, NEW t, NEW g \in Operation, ~Sound(g), Kept(g), g.pc \in InLoop
  PROVE  Fine(g, d, t)
BY DEF Fine, Waiting, Content, Counters, Explained, InLoop

\* Somebody else changes the source.
LEMMA SourceChangesStep == ASSUME LoopsInv, NEW a \in Actors, SourceChanges(a) PROVE LoopsInv'
<1>1. PICK n \in Sizes : Becomes(a, Mishap([op[a] EXCEPT !.source = n], "changed"))
  BY DEF SourceChanges
<1> DEFINE r == op[a]
           g == Mishap([r EXCEPT !.source = n], "changed")
<1>2. /\ r \in Operation /\ Kept(r) /\ r.pc = "read" /\ r.kind \in Copies \cup {"WebDAVClient::Put"}
      /\ n \in Nat /\ Becomes(a, g) /\ UNCHANGED <<bytes_to_download, bytes_transfered>>
  BY <1>1, LoopsAssumption DEF LoopsInv, Fine, SourceChanges
<1> HIDE DEF r
<1>3. /\ g \in Operation /\ g.pc = "read" /\ g.kind = r.kind /\ g.mishaps = r.mishaps \cup {"changed"}
      /\ g.at = r.at /\ g.dest = r.dest
  BY <1>2 DEF Mishap, Operation, Mishaps
<1> HIDE DEF g
<1>4. Kept(g) /\ ~Sound(g) /\ g.pc \in InLoop
  <2>1. "changed" \in Hidden(r.kind)
    BY <1>2, HiddenFailures
  <2>2. ~Sound(g)
    BY <1>3, <2>1 DEF Sound
  <2>3. Kept(g) /\ g.pc \in InLoop
    BY <1>2, <1>3 DEF Kept, InLoop
  <2> QED
    BY <2>2, <2>3
<1>5. Fine(g, bytes_to_download, bytes_transfered)
  BY <1>3, <1>4, Unsound
<1> QED
  BY <1>2, <1>5, AloneStep

\* A read that succeeds, or a loop that has nothing left to read.
LEMMA ReadStep == ASSUME LoopsInv, NEW a \in Actors, Read(a) PROVE LoopsInv'
<1> DEFINE r == op[a]
<1>1. /\ Fine(r, bytes_to_download, bytes_transfered) /\ r.pc = "read"
      /\ UNCHANGED <<bytes_to_download, bytes_transfered>>
      /\ IF NothingRemains(r) THEN Becomes(a, [r EXCEPT !.pc = "end"])
         ELSE \E n \in Amounts(r) : Becomes(a, Took(r, n))
  BY DEF LoopsInv, Read
<1>2. r \in Operation
  BY <1>1 DEF Fine
<1> HIDE DEF r
<1>3. CASE NothingRemains(r)
  <2> DEFINE g == [r EXCEPT !.pc = "end"]
  <2>1. /\ g \in Operation /\ g.pc = "end" /\ g.kind = r.kind /\ g.mishaps = r.mishaps
        /\ g.at = r.at /\ g.dest = r.dest /\ g.taken = r.taken /\ g.size = r.size
        /\ g.source = r.source /\ g.chunk = r.chunk
    BY <1>2 DEF Operation, InLoop
  <2>2. Becomes(a, g)
    BY <1>1, <1>3
  <2> HIDE DEF g
  <2>3. Kept(g) /\ Waiting(g) /\ Explained(g)
    BY <1>1, <2>1 DEF Fine, Kept, Waiting, Explained, InLoop
  <2>4. Sound(g) => Sound(r)
    BY <2>1 DEF Sound
  <2>5. Content(g)
    BY <1>1, <1>3, <2>1, <2>4 DEF Fine, Content, NothingRemains, InLoop
  <2>6. Counters(g, bytes_to_download, bytes_transfered)
    BY <1>3, <2>1 DEF Counters, NothingRemains, Copies
  <2>7. Fine(g, bytes_to_download, bytes_transfered)
    BY <2>1, <2>3, <2>5, <2>6 DEF Fine
  <2> QED
    BY <1>1, <2>2, <2>7, AloneStep
<1>4. CASE ~NothingRemains(r)
  <2>1. PICK n \in Amounts(r) : Becomes(a, Took(r, n))
    BY <1>1, <1>4
  <2>2. n \in Nat
    BY <1>2, AmountsAre
  <2>3. Fine(Took(r, n), bytes_to_download, bytes_transfered)
    BY <1>1, <2>2, TookFine
  <2> QED
    BY <1>1, <2>1, <2>3, AloneStep
<1> QED
  BY <1>3, <1>4

\* A read that fails.
LEMMA ReadFailsStep == ASSUME LoopsInv, NEW a \in Actors, ReadFails(a) PROVE LoopsInv'
<1> DEFINE r == Mishap(op[a], "read")
<1>1. /\ Fine(op[a], bytes_to_download, bytes_transfered) /\ r.pc = "read"
      /\ UNCHANGED <<bytes_to_download, bytes_transfered>>
      /\ Becomes(a, IF r.kind = "BaseClient::Get" THEN Returned(r, 0) ELSE Took(r, 0))
  BY DEF LoopsInv, ReadFails
<1>2. op[a] \in Operation
  BY <1>1 DEF Fine
<1>3. r.pc = op[a].pc /\ r.mishaps = op[a].mishaps \cup {"read"}
  BY <1>2 DEF Mishap, Operation
<1>4. Fine(r, bytes_to_download, bytes_transfered)
  <2>1. "read" \in Mishaps /\ op[a].pc \in InLoop
    BY <1>1, <1>3 DEF Mishaps, InLoop
  <2> QED
    BY <1>1, <2>1, MishapFine
<1> HIDE DEF r
<1>5. CASE r.kind = "BaseClient::Get"
  <2>1. r \in Operation /\ r.kind \in Copies \cup Gets \cup Puts
    BY <1>4, <1>5 DEF Fine, Gets
  <2>2. Fine(Returned(r, 0), bytes_to_download, bytes_transfered)
    BY <1>3, <2>1, GivesUp
  <2> QED
    BY <1>1, <1>5, <2>2, AloneStep
<1>6. CASE r.kind # "BaseClient::Get"
  <2>1. Fine(Took(r, 0), bytes_to_download, bytes_transfered)
    BY <1>1, <1>3, <1>4, <1>6, TookFine
  <2> QED
    BY <1>1, <1>6, <2>1, AloneStep
<1> QED
  BY <1>5, <1>6

\* An error page, or a body that ends early.
LEMMA BadAnswerStep == ASSUME LoopsInv, NEW a \in Actors, BadAnswer(a) PROVE LoopsInv'
<1> DEFINE r == op[a]
<1>1. /\ r \in Operation /\ Kept(r) /\ r.pc = "read" /\ r.kind = "BaseClient::Get"
      /\ UNCHANGED <<bytes_to_download, bytes_transfered>>
      /\ \/ /\ r.taken = 0 /\ "open" \notin r.mishaps
            /\ Becomes(a, Mishap([r EXCEPT !.pc = "end", !.dest = <<PAGE>>], "status"))
         \/ Becomes(a, Mishap([r EXCEPT !.pc = "end"], "early_end"))
  BY DEF LoopsInv, Fine, BadAnswer
<1> HIDE DEF r
<1>2. CASE Becomes(a, Mishap([r EXCEPT !.pc = "end"], "early_end"))
  <2> DEFINE g == Mishap([r EXCEPT !.pc = "end"], "early_end")
  <2>1. /\ g \in Operation /\ g.pc = "end" /\ g.kind = "BaseClient::Get" /\ g.at = r.at
        /\ g.mishaps = r.mishaps \cup {"early_end"} /\ g.dest = r.dest
    BY <1>1 DEF Mishap, Operation, Mishaps, InLoop
  <2> HIDE DEF g
  <2>2. Kept(g) /\ ~Sound(g) /\ g.pc \in InLoop
    BY <1>1, <2>1, HiddenFailures DEF Kept, Sound, InLoop, Copies, Gets
  <2> QED
    BY <1>1, <1>2, <2>1, <2>2, Unsound, AloneStep DEF g
<1>3. CASE /\ r.taken = 0
           /\ Becomes(a, Mishap([r EXCEPT !.pc = "end", !.dest = <<PAGE>>], "status"))
  <2> DEFINE page == <<PAGE>>
             g == Mishap([r EXCEPT !.pc = "end", !.dest = page], "status")
  <2>1. page \in Seq(Int) /\ Len(page) = 1
    BY DEF PAGE
  <2>2. Becomes(a, g)
    BY <1>3
  <2> HIDE DEF page
  <2>3. /\ g \in Operation /\ g.pc = "end" /\ g.kind = "BaseClient::Get" /\ g.at = r.at
        /\ g.mishaps = r.mishaps \cup {"status"} /\ g.dest = page
    BY <1>1, <2>1 DEF Mishap, Operation, Mishaps, InLoop
  <2> HIDE DEF g
  <2>4. Kept(g) /\ ~Sound(g) /\ g.pc \in InLoop
    BY <1>1, <1>3, <2>1, <2>3, HiddenFailures DEF Kept, Sound, InLoop, Copies, Gets
  <2> QED
    BY <1>1, <2>2, <2>3, <2>4, Unsound, AloneStep
<1> QED
  BY <1>1, <1>2, <1>3


\* The chunk is written, or there is no file to write it to.
LEMMA WriteStep == ASSUME LoopsInv, NEW a \in Actors, Write(a) PROVE LoopsInv'
<1> DEFINE r == op[a]
           n == IF "open" \in r.mishaps THEN 0 ELSE Len(r.chunk)
<1>1. /\ Fine(r, bytes_to_download, bytes_transfered) /\ r.pc = "write" /\ Becomes(a, Wrote(r, n))
      /\ UNCHANGED <<bytes_to_download, bytes_transfered>>
  BY DEF LoopsInv, Write
<1> HIDE DEF r
<1>2. r \in Operation /\ Kept(r) /\ Len(r.chunk) \in Nat
  BY <1>1, OperationParts DEF Fine
<1>3. "open" \in r.mishaps => ~Sound(r)
  BY <1>1, <1>2, HiddenFailures DEF Kept, Sound, InLoop
<1>4. n \in 0..Len(r.chunk) /\ (n = Len(r.chunk) \/ ~Sound(r))
  BY <1>2, <1>3
<1> HIDE DEF n
<1>5. Fine(Wrote(r, n), bytes_to_download, bytes_transfered)
  BY <1>1, <1>4, WroteFine
<1> QED
  BY <1>1, <1>5, AloneStep

\* SFTPClient::Put writes a part of the chunk.
LEMMA WriteRestStep == ASSUME LoopsInv, NEW a \in Actors, WriteRest(a) PROVE LoopsInv'
<1> DEFINE r == op[a]
           g(n) == [Wrote(r, n) EXCEPT !.count = n, !.chunk = SubSeq(r.chunk, n + 1, Len(r.chunk))]
<1>1. PICK n \in 1..Len(r.chunk) - 1 : Becomes(a, g(n))
  BY DEF WriteRest
<1>2. /\ Fine(r, bytes_to_download, bytes_transfered) /\ r.pc = "write"
      /\ r.kind = "SFTPClient::Put" /\ UNCHANGED <<bytes_to_download, bytes_transfered>>
  BY DEF LoopsInv, WriteRest
<1> HIDE DEF r
<1>3. Fine(g(n), bytes_to_download, bytes_transfered)
  BY <1>2, WroteRestFine
<1> HIDE DEF g
<1> QED
  BY <1>1, <1>2, <1>3, AloneStep

\* A part of the chunk is lost: FS::Copy sees it and fails, the others do not.
LEMMA ShortWriteStep == ASSUME LoopsInv, NEW a \in Actors, ShortWrite(a) PROVE LoopsInv'
<1> DEFINE r == op[a]
<1>1. PICK n \in 1..Len(r.chunk) - 1 : Becomes(a, WroteShort(r, n))
  BY DEF ShortWrite
<1>2. /\ r \in Operation /\ Kept(r) /\ r.pc = "write"
      /\ r.kind \notin {"SFTPClient::Put", "WebDAVClient::Put"}
      /\ UNCHANGED <<bytes_to_download, bytes_transfered>>
  BY DEF LoopsInv, Fine, ShortWrite
<1> DEFINE h == Wrote(r, n)
           g == Mishap(h, "short_write")
<1>3. Becomes(a, IF r.kind \in Copies THEN Returned(g, 0) ELSE g)
  BY <1>1 DEF WroteShort
<1> HIDE DEF r
<1>4. n \in 0..Len(r.chunk) /\ r.at <= Len(r.dest)
  BY <1>2, OperationParts DEF Kept, InLoop
<1>5. /\ h \in Operation /\ h.pc = "add" /\ h.at <= Len(h.dest) /\ h.mishaps = r.mishaps
      /\ h.kind = r.kind
  BY <1>2, <1>4, WroteIs
<1> HIDE DEF h
<1>6. /\ g \in Operation /\ g.pc = "add" /\ g.at = h.at /\ g.dest = h.dest
      /\ g.mishaps = r.mishaps \cup {"short_write"} /\ g.kind = r.kind
  BY <1>5 DEF Mishap, Operation, Mishaps
<1> HIDE DEF g
<1>7. r.kind \in Copies \cup Gets \cup {"SmbClient::Put", "NfsClient::Put"}
  BY <1>2 DEF Kept, Puts
<1>8. CASE r.kind \in Copies
  <2>1. Fine(Returned(g, 0), bytes_to_download, bytes_transfered)
    BY <1>6, <1>8, GivesUp
  <2> QED
    BY <1>2, <1>3, <1>8, <2>1, AloneStep
<1>9. CASE r.kind \notin Copies
  <2>1. "short_write" \in Hidden(r.kind)
    BY <1>7, <1>9, HiddenFailures
  <2>2. ~Sound(g)
    BY <1>6, <2>1 DEF Sound
  <2>3. Kept(g) /\ g.pc \in InLoop
    BY <1>2, <1>5, <1>6, <1>7 DEF Kept, InLoop
  <2>4. Fine(g, bytes_to_download, bytes_transfered)
    BY <1>6, <2>2, <2>3, Unsound
  <2> QED
    BY <1>2, <1>3, <1>9, <2>4, AloneStep
<1> QED
  BY <1>8, <1>9

\* Nothing of the chunk is written.
LEMMA WriteFailsStep == ASSUME LoopsInv, NEW a \in Actors, WriteFails(a) PROVE LoopsInv'
<1> DEFINE r == op[a]
           g == Mishap(r, "failed_write")
<1>1. /\ Fine(r, bytes_to_download, bytes_transfered) /\ g.pc = "write"
      /\ UNCHANGED <<bytes_to_download, bytes_transfered>>
      /\ Becomes(a, IF g.kind \in Copies \cup {"NfsClient::Put"} THEN Returned(g, 0)
                    ELSE IF g.kind = "SFTPClient::Put" THEN [g EXCEPT !.pc = "end"]
                    ELSE Wrote(g, 0))
  BY DEF LoopsInv, WriteFails
<1> HIDE DEF r
<1>2. r \in Operation /\ Kept(r)
  BY <1>1 DEF Fine
<1>3. /\ g \in Operation /\ g.mishaps = r.mishaps \cup {"failed_write"} /\ g.pc = r.pc
      /\ g.kind = r.kind /\ g.at = r.at /\ g.dest = r.dest
  BY <1>2 DEF Mishap, Operation, Mishaps
<1>4. g.kind \in Copies \cup Gets \cup Puts /\ ~Sound(g)
  BY <1>1, <1>2, <1>3 DEF Kept, Sound
<1>5. CASE g.kind \in Copies \cup {"NfsClient::Put"}
  <2> HIDE DEF g
  <2>1. Fine(Returned(g, 0), bytes_to_download, bytes_transfered)
    BY <1>3, <1>4, GivesUp
  <2> QED
    BY <1>1, <1>5, <2>1, AloneStep
<1>6. CASE g.kind = "SFTPClient::Put"
  <2> DEFINE h == [g EXCEPT !.pc = "end"]
  <2>1. g.kind \notin Copies \cup {"NfsClient::Put"}
    BY <1>6 DEF Copies
  <2> HIDE DEF g
  <2>2. /\ h \in Operation /\ h.pc = "end" /\ h.mishaps = g.mishaps /\ h.kind = g.kind
        /\ h.at = g.at /\ h.dest = g.dest
    BY <1>3 DEF Operation, InLoop
  <2>3. Becomes(a, h)
    BY <1>1, <1>6, <2>1
  <2> HIDE DEF h
  <2>4. Kept(h) /\ ~Sound(h) /\ h.pc \in InLoop
    BY <1>1, <1>2, <1>3, <1>4, <1>6, <2>1, <2>2 DEF Kept, Sound, InLoop, Puts
  <2>5. Fine(h, bytes_to_download, bytes_transfered)
    BY <2>2, <2>4, Unsound
  <2> QED
    BY <1>1, <2>3, <2>5, AloneStep
<1>7. CASE g.kind \notin Copies \cup {"NfsClient::Put", "SFTPClient::Put"}
  <2>1. Fine(g, bytes_to_download, bytes_transfered)
    <3>1. "failed_write" \in Mishaps /\ "failed_write" # "open" /\ r.pc \in InLoop
      BY <1>1, <1>3 DEF Mishaps, InLoop
    <3> QED
      BY <1>1, <1>3, <1>7, <3>1, MishapFine
  <2> HIDE DEF g
  <2>2. 0 \in 0..Len(g.chunk)
    BY <1>3, OperationParts
  <2>3. Fine(Wrote(g, 0), bytes_to_download, bytes_transfered)
    BY <1>1, <1>4, <2>1, <2>2, WroteFine
  <2> QED
    BY <1>1, <1>7, <2>3, AloneStep
<1> QED
  BY <1>5, <1>6, <1>7

\* The counter is read ...
LEMMA LoadStep == ASSUME LoopsInv, NEW a \in Actors, Load(a) PROVE LoopsInv'
<1> DEFINE r == op[a]
           sum == bytes_transfered + r.count
           g == [r EXCEPT !.pc = "store", !.register = sum]
<1>1. /\ Fine(r, bytes_to_download, bytes_transfered) /\ r.pc = "add" /\ Becomes(a, g)
      /\ UNCHANGED <<bytes_to_download, bytes_transfered>> /\ bytes_transfered \in Nat
  BY DEF LoopsInv, Load
<1> HIDE DEF r
<1>2. r \in Operation /\ sum \in Nat
  BY <1>1, OperationParts DEF Fine
<1>3. sum = bytes_transfered + r.count
  OBVIOUS
<1> HIDE DEF sum
<1>4. /\ g \in Operation /\ g.pc = "store" /\ g.register = sum /\ g.kind = r.kind
      /\ g.mishaps = r.mishaps /\ g.at = r.at /\ g.dest = r.dest /\ g.taken = r.taken
      /\ g.size = r.size /\ g.source = r.source /\ g.chunk = r.chunk /\ g.count = r.count
  BY <1>2 DEF Operation, InLoop
<1> HIDE DEF g
<1>5. Kept(g) /\ Waiting(g) /\ Explained(g)
  BY <1>1, <1>4 DEF Fine, Kept, Waiting, Explained, InLoop
<1>6. Sound(g) => Sound(r)
  BY <1>4 DEF Sound
<1>7. Content(g)
  BY <1>1, <1>4, <1>6 DEF Fine, Content, InLoop
<1>8. Counters(g, bytes_to_download, bytes_transfered)
  BY <1>1, <1>3, <1>4, <1>6 DEF Fine, Counters, InLoop
<1>9. Fine(g, bytes_to_download, bytes_transfered)
  BY <1>4, <1>5, <1>7, <1>8 DEF Fine
<1> QED
  BY <1>1, <1>9, AloneStep

\* ... and the sum is stored.
LEMMA StoreStep == ASSUME LoopsInv, NEW a \in Actors, Store(a) PROVE LoopsInv'
<1> DEFINE r == op[a]
           to == IF r.kind \in Copies THEN "test" ELSE IF r.chunk # <<>> THEN "write" ELSE "read"
           reg == IF r.kind \in Copies THEN r.register ELSE 0
           g == [r EXCEPT !.count = 0, !.register = reg, !.pc = to]
<1>1. /\ Fine(r, bytes_to_download, bytes_transfered) /\ r.pc = "store"
      /\ bytes_transfered' = r.register /\ bytes_to_download' = bytes_to_download
      /\ bytes_to_download \in Nat
  BY DEF LoopsInv, Store
<1>2. BecomesCounting(a, g)
  <2>1. BecomesCounting(a,
          [r EXCEPT !.count = 0, !.register = IF r.kind \in Copies THEN @ ELSE 0, !.pc = to])
    BY DEF Store
  <2>2. r \in Operation
    BY <1>1 DEF Fine
  <2>3. [r EXCEPT !.count = 0, !.register = IF r.kind \in Copies THEN @ ELSE 0, !.pc = to] = g
    BY <2>2 DEF Operation
  <2> QED
    BY <2>1, <2>3
<1> HIDE DEF r
<1>3. r \in Operation /\ reg \in Nat /\ to \in {"test", "write", "read"} /\ r.register \in Nat
  BY <1>1, OperationParts DEF Fine
<1>4. /\ r.kind \in Copies => to = "test" /\ reg = r.register
      /\ r.kind \notin Copies => to = IF r.chunk # <<>> THEN "write" ELSE "read"
  OBVIOUS
<1> HIDE DEF to, reg
<1>5. /\ g \in Operation /\ g.pc = to /\ g.register = reg /\ g.kind = r.kind
      /\ g.mishaps = r.mishaps /\ g.at = r.at /\ g.dest = r.dest /\ g.taken = r.taken
      /\ g.size = r.size /\ g.source = r.source /\ g.chunk = r.chunk
  BY <1>3 DEF Operation, InLoop
<1> HIDE DEF g
<1>6. Kept(g) /\ Waiting(g) /\ Explained(g)
  BY <1>1, <1>3, <1>4, <1>5 DEF Fine, Kept, Waiting, Explained, InLoop
<1>7. Sound(g) => Sound(r)
  BY <1>5 DEF Sound
<1>8. Content(g)
  <2> SUFFICES ASSUME Sound(r) PROVE Content(g)
    BY <1>7 DEF Content
  <2>1. /\ r.at <= r.taken /\ r.chunk = Slice(r.at, r.taken) /\ r.at \in Nat /\ r.taken \in Nat
        /\ r.kind \in Copies => r.at = r.taken
    BY <1>1, <1>3, OperationParts DEF Fine, Content, InLoop
  <2>2. r.chunk = <<>> <=> r.at = r.taken
    <3>1. Slice(r.at, r.taken) = <<>> <=> r.at = r.taken
      BY <2>1, SliceFromTo, Zenon
    <3> QED
      BY <2>1, <3>1, Zenon
  <2>3. g.pc # "end" /\ (g.pc \in {"read", "test"} => g.at = g.taken)
    BY <1>3, <1>4, <1>5, <2>1, <2>2
  <2> QED
    BY <1>1, <1>3, <1>5, <2>3 DEF Fine, Content, InLoop
<1>9. Counters(g, bytes_to_download', bytes_transfered')
  BY <1>1, <1>3, <1>4, <1>5, <1>7 DEF Fine, Counters, InLoop
<1>10. /\ Fine(g, bytes_to_download', bytes_transfered')
       /\ bytes_to_download' \in Nat /\ bytes_transfered' \in Nat
  BY <1>1, <1>3, <1>5, <1>6, <1>8, <1>9 DEF Fine
<1> QED
  BY <1>2, <1>10, CountingStep

\* The loop condition of a copy: a sound copy leaves the loop only with everything.
LEMMA TestStep == ASSUME LoopsInv, NEW a \in Actors, Test(a) PROVE LoopsInv'
<1> DEFINE r == op[a]
<1>1. PICK now \in {r.register, bytes_transfered} :
        Becomes(a, [r EXCEPT !.pc = IF GoesOn(now) THEN "read" ELSE "end", !.register = 0])
  BY DEF Test
<1>2. /\ Fine(r, bytes_to_download, bytes_transfered) /\ r.pc = "test"
      /\ UNCHANGED <<bytes_to_download, bytes_transfered>>
  BY DEF LoopsInv, Test
<1> DEFINE to == IF GoesOn(now) THEN "read" ELSE "end"
           g == [r EXCEPT !.pc = to, !.register = 0]
<1>3. Becomes(a, g)
  BY <1>1
<1> HIDE DEF r
<1>4. r \in Operation /\ to \in {"read", "end"}
  BY <1>2 DEF Fine
<1>5. to = "end" => ~(now < bytes_to_download)
  BY DEF GoesOn
<1> HIDE DEF to
<1>6. /\ g \in Operation /\ g.pc = to /\ g.kind = r.kind
      /\ g.mishaps = r.mishaps /\ g.at = r.at /\ g.dest = r.dest /\ g.taken = r.taken
      /\ g.size = r.size /\ g.source = r.source /\ g.chunk = r.chunk
  BY <1>4 DEF Operation, InLoop
<1> HIDE DEF g
<1>7. Kept(g) /\ Waiting(g) /\ Explained(g)
  BY <1>2, <1>4, <1>6 DEF Fine, Kept, Waiting, Explained, InLoop
<1>8. Sound(g) => Sound(r)
  BY <1>6 DEF Sound
<1>9. Content(g) /\ Counters(g, bytes_to_download, bytes_transfered)
  <2>1. CASE ~Sound(r)
    BY <1>8, <2>1 DEF Content, Counters
  <2>2. CASE Sound(r)
    <3>1. /\ r.kind \in Copies /\ r.at = r.taken /\ r.taken <= r.size
          /\ bytes_to_download = r.size /\ bytes_transfered = r.at /\ now = r.at
          /\ r.at \in Nat /\ r.size \in Nat
      BY <1>2, <1>4, <2>2, OperationParts DEF Fine, Kept, Content, Counters, InLoop
    <3>2. to = "end" => r.taken = r.size
      BY <1>5, <3>1
    <3>3. Content(g)
      BY <1>2, <1>4, <1>6, <2>2, <3>1, <3>2 DEF Fine, Content, InLoop
    <3>4. Counters(g, bytes_to_download, bytes_transfered)
      BY <1>4, <1>6, <3>1 DEF Counters, InLoop
    <3> QED
      BY <3>3, <3>4
  <2> QED
    BY <2>1, <2>2
<1>10. Fine(g, bytes_to_download, bytes_transfered)
  BY <1>6, <1>7, <1>9 DEF Fine
<1> QED
  BY <1>2, <1>3, <1>10, AloneStep

\* A loop that ends soundly has moved everything, the others have met a hidden failure.
LEMMA EndExplained ==
  ASSUME NEW d, NEW t, NEW r, Fine(r, d, t), r.pc = "end",
         r.kind = "WebDAVClient::Put" => "failed_write" \notin r.mishaps
  PROVE  Whole(r) \/ r.mishaps \cap Hidden(r.kind) # {}
<1>1. r \in Operation /\ Kept(r)
  BY DEF Fine
<1>2. CASE Sound(r)
  <2>1. /\ r.at \in Nat /\ r.size \in Nat /\ Len(r.dest) \in Nat /\ r.dest \in Seq(Int)
    BY <1>1, OperationParts
  <2>2. /\ r.at = r.size
        /\ \A i \in 1..r.at : r.dest[i] = i - 1
        /\ Len(r.dest) = r.at \/ (r.kind = "NfsClient::Put" /\ Len(r.dest) <= r.size)
    BY <1>2 DEF Fine, Content, InLoop
  <2>3. r.kind = "NfsClient::Put" => r.at <= Len(r.dest)
    BY <1>1 DEF Kept, InLoop
  <2>4. Len(r.dest) = IF 0 < r.size THEN r.size - 0 ELSE 0
    BY <2>1, <2>2, <2>3
  <2>5. \A i \in 1..Len(r.dest) : r.dest[i] = 0 + i - 1
    BY <2>1, <2>2, <2>4
  <2>6. 0 \in Nat
    OBVIOUS
  <2>7. r.dest = Slice(0, r.size)
    BY <2>1, <2>4, <2>5, <2>6, SliceEqual, Zenon
  <2> QED
    BY <2>7 DEF Whole
<1>3. CASE ~Sound(r)
  <2>1. "failed_write" \in r.mishaps => "failed_write" \in Hidden(r.kind)
    BY <1>1, HiddenFailures DEF Kept, InLoop, Gets, Puts
  <2> QED
    BY <1>3, <2>1 DEF Sound
<1> QED
  BY <1>2, <1>3

\* The loop is over: fclose may lose what is in its buffer.
LEMMA EndStep == ASSUME LoopsInv, NEW a \in Actors, End(a) PROVE LoopsInv'
<1> DEFINE r == op[a]
           shorter == SubSeq(r.dest, 1, Len(r.dest) - 1)
           h == [r EXCEPT !.dest = shorter]
<1>1. /\ Fine(r, bytes_to_download, bytes_transfered) /\ r.pc = "end"
      /\ UNCHANGED <<bytes_to_download, bytes_transfered>>
      /\ r.kind = "WebDAVClient::Put" => "failed_write" \notin r.mishaps
      /\ r \in Operation /\ Kept(r)
  BY DEF LoopsInv, Fine, End
<1>2. \/ Becomes(a, Returned(r, 1))
      \/ /\ r.kind \in Copies \cup Gets /\ r.dest # <<>>
         /\ Becomes(a, Mishap(Returned(h, 1), "close"))
  <2>1. [r EXCEPT !.dest = SubSeq(@, 1, Len(@) - 1)] = h
    BY <1>1 DEF Operation
  <2> QED
    BY <2>1 DEF End
<1> HIDE DEF r
<1>3. r.kind \in Copies \cup Gets \cup Puts
  BY <1>1 DEF Kept
<1>4. CASE Becomes(a, Returned(r, 1))
  <2>1. Whole(r) \/ r.mishaps \cap Hidden(r.kind) # {}
    BY <1>1, EndExplained
  <2>2. Fine(Returned(r, 1), bytes_to_download, bytes_transfered)
    BY <1>1, <1>3, <2>1, Succeeds
  <2> QED
    BY <1>1, <1>4, <2>2, AloneStep
<1>5. CASE /\ r.kind \in Copies \cup Gets /\ r.dest # <<>>
           /\ Becomes(a, Mishap(Returned(h, 1), "close"))
  <2> DEFINE g == Mishap(Returned(h, 1), "close")
  <2>1. shorter \in Seq(Int)
    <3>1. r.dest \in Seq(Int) /\ Len(r.dest) \in Nat
      BY <1>1, OperationParts
    <3>2. \A i \in 1..Len(r.dest) - 1 : r.dest[i] \in Int
      BY <3>1, ElementOfSeq
    <3> QED
      BY <3>1, <3>2, SubSeqProperties
  <2> HIDE DEF shorter
  <2>2. h \in Operation /\ h.mishaps = r.mishaps /\ h.kind = r.kind
    BY <1>1, <2>1 DEF Operation
  <2> HIDE DEF h
  <2>3. /\ g \in Operation /\ g.pc = "done" /\ g.result = 1 /\ g.kind = r.kind
        /\ g.mishaps = r.mishaps \cup {"close"}
    BY <2>2, EmptySeq DEF Mishap, Returned, Operation, Mishaps
  <2> HIDE DEF g
  <2>4. "close" \in g.mishaps \cap Hidden(g.kind)
    BY <1>5, <2>3, HiddenFailures
  <2>5. Kept(g) /\ Waiting(g) /\ Content(g) /\ Explained(g)
    BY <1>3, <2>3, <2>4 DEF Kept, Waiting, Content, Explained, InLoop
  <2>6. Counters(g, bytes_to_download, bytes_transfered)
    BY <2>3 DEF Counters, InLoop
  <2>7. Fine(g, bytes_to_download, bytes_transfered)
    BY <2>3, <2>5, <2>6 DEF Fine
  <2>8. Becomes(a, g)
    BY <1>5 DEF g
  <2> QED
    BY <1>1, <2>7, <2>8, AloneStep
<1> QED
  BY <1>2, <1>4, <1>5

\* The WebDAV server refuses the file.
LEMMA PutRefusedStep == ASSUME LoopsInv, NEW a \in Actors, PutRefused(a) PROVE LoopsInv'
<1> DEFINE r == op[a]
           g == Mishap(Returned(r, 0), "status")
<1>1. /\ r \in Operation /\ r.kind = "WebDAVClient::Put" /\ Becomes(a, g)
      /\ UNCHANGED <<bytes_to_download, bytes_transfered>>
  BY DEF LoopsInv, Fine, PutRefused
<1> HIDE DEF r
<1>2. /\ g \in Operation /\ g.pc = "done" /\ g.result = 0 /\ g.kind = "WebDAVClient::Put"
      /\ g.mishaps = r.mishaps \cup {"status"}
  BY <1>1, EmptySeq DEF Mishap, Returned, Operation, Mishaps
<1> HIDE DEF g
<1>3. Kept(g) /\ Waiting(g) /\ Content(g) /\ Explained(g)
  BY <1>2 DEF Kept, Waiting, Content, Explained, InLoop, Puts, Copies
<1>4. Counters(g, bytes_to_download, bytes_transfered)
  BY <1>2 DEF Counters, InLoop
<1> QED
  BY <1>1, <1>2, <1>3, <1>4, AloneStep DEF Fine

-------------------------------------------------------------------------------
(* The theorems.                                                           *)

\* Before anything is moved.
LEMMA InvariantAtFirst == Init => LoopsInv
<1> SUFFICES ASSUME Init PROVE LoopsInv
  OBVIOUS
<1>1. /\ Idle \in Operation /\ Idle.pc = "idle" /\ Idle.kind = "none"
      /\ Idle.mishaps = {}
  BY EmptySeq DEF Idle, Operation
<1>2. op = [a \in Actors |-> Idle] /\ bytes_to_download = 0 /\ bytes_transfered = 0
  BY DEF Init
<1> HIDE DEF Idle
<1>3. Kept(Idle) /\ Waiting(Idle) /\ Content(Idle) /\ Explained(Idle)
  BY <1>1 DEF Kept, Waiting, Content, Explained, InLoop
<1>4. Counters(Idle, 0, 0)
  BY <1>1 DEF Counters, InLoop
<1> QED
  BY <1>1, <1>2, <1>3, <1>4 DEF LoopsInv, Fine

\* Every step keeps the invariant.
LEMMA InvariantIsKept == LoopsInv /\ [Next]_vars => LoopsInv'
<1> SUFFICES ASSUME LoopsInv, [Next]_vars PROVE LoopsInv'
  OBVIOUS
<1>1. CASE UNCHANGED vars
  BY <1>1 DEF vars, LoopsInv
<1>2. ASSUME NEW a \in Actors, Start(a) \/ SourceChanges(a) \/ Thread(a) PROVE LoopsInv'
  <2>1. CASE Start(a) \/ SourceChanges(a)
    BY <2>1, StartStep, SourceChangesStep
  <2>2. CASE Announce(a) \/ Open(a) \/ OpenFails(a)
    BY <2>2, AnnounceStep, OpenStep, OpenFailsStep
  <2>3. CASE Read(a) \/ ReadFails(a) \/ BadAnswer(a)
    BY <2>3, ReadStep, ReadFailsStep, BadAnswerStep
  <2>4. CASE Write(a) \/ WriteRest(a) \/ ShortWrite(a) \/ WriteFails(a)
    BY <2>4, WriteStep, WriteRestStep, ShortWriteStep, WriteFailsStep
  <2>5. CASE Load(a) \/ Store(a) \/ Test(a)
    BY <2>5, LoadStep, StoreStep, TestStep
  <2>6. CASE End(a) \/ PutRefused(a)
    BY <2>6, EndStep, PutRefusedStep
  <2> QED
    BY <1>2, <2>1, <2>2, <2>3, <2>4, <2>5, <2>6 DEF Thread, Loop
<1> QED
  BY <1>1, <1>2 DEF Next

\* The invariant holds in every reachable state.
THEOREM LoopsInvariant == Spec => []LoopsInv
BY InvariantAtFirst, InvariantIsKept, PTL DEF Spec

\* A loop that returns success has moved the whole file, unless one of the failures it
\* does not look at (no result of fclose, of fwrite or of the server, counters written
\* by another operation) has happened; and it fails only for a reason.
THEOREM ResultIsExplained == Spec => []ResultExplained
<1>1. LoopsInv => ResultExplained
  BY DEF LoopsInv, Fine, Explained, ResultExplained
<1> QED
  BY <1>1, LoopsInvariant, PTL

-------------------------------------------------------------------------------
(***************************************************************************)
(* Extraction: the loops over an archive, for any number of archives and   *)
(* entries, any sizes and any buffer.                                      *)
(***************************************************************************)

\* What the callbacks know of the archive is not more than there is of it.
Positions ==
  /\ real \in Nat
  /\ data \in [size : Nat, offset : Nat]
  /\ data.size <= real
  /\ position \in Nat
  /\ last \in [at : Nat, from : Nat, n : Nat]

ArchiveInv == Positions /\ MisreadExplained

\* A failure outside those three has its message as soon as it is there.
Reported == ~status_message => lost \subseteq {"no size", "misread", "close"}

\* Nothing is read or lost before the first archive.
LEMMA ArchiveInit ==
  ASSUME ExtractionInit PROVE ArchiveInv /\ Reported
  BY DEF ExtractionInit, ArchiveInv, Positions, MisreadExplained, Reported, NoRead

\* A read takes bytes of the archive and moves both positions by as many.
LEMMA ArchiveRead ==
  ASSUME ArchiveInv, ReadRemoteArchive
  PROVE  ArchiveInv'
<1> USE DEF ArchiveInv, Positions
<1> DEFINE n == IF data.size - data.offset < Transfer THEN data.size - data.offset ELSE Transfer
<1>1. n \in Nat /\ n > 0 /\ n <= data.size - data.offset
  <2>1. n > 0
    BY DEF ReadRemoteArchive
  <2>2. data.size \in Nat /\ data.offset \in Nat /\ Transfer \in Nat
    BY ExtractionAssumption
  <2> QED
    BY <2>1, <2>2
<1>2. /\ last' = [at |-> position, from |-> data.offset, n |-> n]
      /\ data' = [data EXCEPT !.offset = @ + n]
      /\ position' = position + n
      /\ shifted' = shifted /\ real' = real
      /\ position # data.offset => "shifted" \in misread'
      /\ misread \subseteq misread'
  BY DEF ReadRemoteArchive, Callback, Advanced
<1> HIDE DEF n
<1>3. Positions'
  BY <1>1, <1>2
<1>4. /\ data'.offset = data.offset + n
      /\ last'.from = data.offset /\ last'.at = position /\ last'.n = n
  BY <1>1, <1>2
<1> QED
  BY <1>1, <1>2, <1>3, <1>4 DEF MisreadExplained

\* Of the other callbacks only a skip parts the two positions.
LEMMA ArchiveStep ==
  ASSUME ArchiveInv, [ExtractionNext]_extractionVars
  PROVE  ArchiveInv'
<1> USE DEF ArchiveInv, Positions, MisreadExplained
<1>1. CASE UNCHANGED <<real, data, position, last, shifted, misread>>
  BY <1>1
<1>2. CASE OpenArchive
  <2>1. CASE ExtractFails("open") /\ UNCHANGED archive
    BY <1>1, <2>1 DEF archive
  <2>2. CASE ~(ExtractFails("open") /\ UNCHANGED archive)
    <3> PICK size \in ArchiveSizes, known \in BOOLEAN :
          real' = size /\ data' = [size |-> IF known THEN size ELSE 0, offset |-> 0]
      BY <1>2, <2>2 DEF OpenArchive
    <3>1. position' = 0 /\ last' = [at |-> 0, from |-> 0, n |-> 0]
      BY <1>2, <2>2 DEF OpenArchive, NoRead
    <3>2. size \in Nat
      BY ExtractionAssumption
    <3> QED
      BY <3>1, <3>2
  <2> QED
    BY <2>1, <2>2
<1>3. CASE ReadRemoteArchive
  BY <1>3, ArchiveRead
<1>4. CASE SkipRemoteArchive
  <2> PICK request \in 1..(real + Transfer - position) :
        /\ data' = [data EXCEPT !.offset = @ + request - 1]
        /\ position' = position + request
    BY <1>4 DEF SkipRemoteArchive
  <2>1. request \in Nat \ {0}
    BY ExtractionAssumption
  <2>2. UNCHANGED <<real, last, misread>> /\ shifted'
    BY <1>4 DEF SkipRemoteArchive, Callback
  <2> QED
    BY <2>1, <2>2
<1>5. CASE SeekRemoteArchive
  <2> PICK offset \in (0..real) \cup {data.size - 1} :
        data' = [data EXCEPT !.offset = offset] /\ position' = offset
    BY <1>5 DEF SeekRemoteArchive
  <2>1. offset \in Nat
    BY <1>5 DEF SeekRemoteArchive, Callback
  <2>2. UNCHANGED <<real, last, misread>>
    BY <1>5 DEF SeekRemoteArchive, Callback
  <2> QED
    BY <2>1, <2>2
<1> QED
  BY <1>1, <1>2, <1>3, <1>4, <1>5
  DEF ExtractionNext, ExtractionThread, extractionVars, archive, Cancel,
      Finish, ExtractReturns, EntryFails, NextHeader,
      EndMisread, DataFails, DataEnds, ReadBehindEnd

\* Every failure that loses an entry comes with its message, except the three.
LEMMA ReportedStep ==
  ASSUME Reported, [ExtractionNext]_extractionVars
  PROVE  Reported'
<1> USE DEF Reported
<1>1. CASE UNCHANGED <<status_message, lost>>
  BY <1>1
<1>2. CASE OpenArchive
  <2>1. CASE ExtractFails("open")
    BY <2>1 DEF ExtractFails, Lost
  <2>2. CASE ~ExtractFails("open")
    <3>1. lost' \subseteq lost \cup {"no size"} /\ status_message' = status_message
      BY <1>2, <2>2 DEF OpenArchive
    <3> QED
      BY <3>1
  <2> QED
    BY <2>1, <2>2
<1>3. CASE EntryFails
  BY <1>3 DEF EntryFails, ExtractFails, Lost
<1>4. CASE EndMisread
  BY <1>4 DEF EndMisread, Lost
<1>5. CASE DataFails
  BY <1>5 DEF DataFails, EntryLost, Lost
<1>6. CASE DataEnds
  BY <1>6 DEF DataEnds
<1> QED
  BY <1>1, <1>2, <1>3, <1>4, <1>5, <1>6
  DEF ExtractionNext, ExtractionThread, extractionVars, thread, Cancel,
      Finish, ExtractReturns, NextHeader, Callback,
      ReadRemoteArchive, ReadBehindEnd, SkipRemoteArchive,
      SeekRemoteArchive

\* libarchive gets the bytes of its position, unless it has skipped since it last sought,
\* and none behind those of the archive: ReadRemoteArchive and its two fellows.
THEOREM ArchiveBytes == ExtractionSpec => []MisreadExplained
<1>1. ExtractionInit => ArchiveInv
  BY ArchiveInit
<1>2. ArchiveInv /\ [ExtractionNext]_extractionVars => ArchiveInv'
  BY ArchiveStep
<1>3. ArchiveInv => MisreadExplained
  BY DEF ArchiveInv
<1> QED
  BY <1>1, <1>2, <1>3, PTL DEF ExtractionSpec

\* Extractions that end without a message and without Cancel have lost an entry only to
\* an unknown size, bytes from the wrong place, or a file that failed to close.
THEOREM ExtractionIsReported == ExtractionSpec => []ExtractedUnlessReported
<1>1. ExtractionInit => Reported
  BY ArchiveInit
<1>2. Reported /\ [ExtractionNext]_extractionVars => Reported'
  BY ReportedStep
<1>3. Reported => ExtractedUnlessReported
  BY DEF Reported, ExtractedUnlessReported
<1> QED
  BY <1>1, <1>2, <1>3, PTL DEF ExtractionSpec

===============================================================================
