--------------------------- MODULE LocalPasteProofs ---------------------------
(***************************************************************************)
(* Proofs about LocalPaste, for any trees and any selection: which files a *)
(* copy or a move can lose or leave out, and what it may overwrite.        *)
(***************************************************************************)
EXTENDS LocalPaste, SequenceTheorems, TLAPS

-------------------------------------------------------------------------------
(* The inductive invariant.                                                *)

\* CopyOrMove, or CopyOrMoveLocalFile below it, works on entry.
FileSteps == {"file", "poll", "transfer", "copy"}
Handling == pc \in {"enter"} \cup FileSteps
Walking == pc \in {"enter", "walk"} \cup FileSteps

\* The entries listed and not taken yet, in all folders being walked.
InFrames(fs) == {x \in Entries : \E i \in 1..Len(fs) : x \in fs[i]}
Disjoint(fs) == \A i, j \in 1..Len(fs) : i # j => fs[i] \cap fs[j] = {}

Pending == InFrames(frames) \cup (IF Handling THEN {entry} ELSE {})

\* None of the entries lies in another.
Antichain(P) == \A x, y \in P : x \in Above[y] => x = y

\* The walk takes each entry once, and finds it at its source.
WalkOnce ==
  /\ Disjoint(frames)
  /\ Handling => entry \notin InFrames(frames)
  /\ Antichain(Pending)
  /\ \A x \in Pending : source[x] /\ item \in Above[x]
  /\ pc \in FileSteps => Kind[entry] # "folder"
  /\ frames # <<>> => Walking

\* The selected entries not begun are all different, and at their sources.
ItemsLeft ==
  /\ \A i, j \in 1..Len(items) : items[i] = items[j] => i = j
  /\ \A i \in 1..Len(items) : source[items[i]]
  /\ pc \notin {"items", "done"} => \A i \in 1..Len(items) : items[i] # item

\* A folder stays as long as anything in it.
FoldersStay == \A e \in Entries : \A a \in Above[e] : source[e] => source[a]

\* The walk has done with e.
Settled(e) == dest[e] = "copy" \/ e \in declined \cup cut \/ Unlisted(e)

\* The walk is still to come to e, or has done with it.
Ahead(e) == \E x \in Pending : x \in Above[e]
Covered(e) == Settled(e) \/ Ahead(e)

\* As long as nothing stops the walk of the item, it leaves out no file in it.
ItemCovered ==
  ~stopped /\ result # 0 /\ (Walking \/ pc \in {"returned", "remove"}) =>
    \A e \in Entries : Kind[e] = "file" /\ item \in Above[e] => Covered(e)

\* As long as nothing has failed, no file of the selection is left out.
AllCovered ==
  ~stopped /\ ~status_message =>
    \A e \in Entries : Kind[e] = "file" =>
      Covered(e) \/ \E j \in 1..Len(items) : items[j] \in Above[e]

\* A stop is remembered, and for the paste threads lasts; a failure is reported.
Ends ==
  /\ stop_activity => stopped
  /\ handler # "web" => stopped = stop_activity
  /\ pc # "returned" => result = 1
  /\ pc = "returned" /\ result = 0 => status_message
  /\ pc = "returned" /\ result = 2 => stopped
  /\ pc = "remove" => handler = "web" \/ (handler = "move" /\ Kind[item] = "folder")
  /\ pc = "done" => items = <<>> \/ stopped \/ status_message

\* A file at the destination has been asked about before it is touched.
AskedFirst ==
  /\ pc = "poll" => dest[entry] = "other file"
  /\ pc = "transfer" => /\ ~FolderThere
                        /\ FileThere => overwrite_type = "ALL" \/ entry \in accepted
  /\ pc = "copy" => dest[entry] \in {"part", "absent"}

PasteInv ==
  /\ TypeOK
  /\ WalkOnce
  /\ ItemsLeft
  /\ FoldersStay
  /\ LossExplained
  /\ ItemCovered
  /\ AllCovered
  /\ Ends
  /\ AskedFirst

-------------------------------------------------------------------------------
(* Trees.                                                                  *)

\* An entry and the folders it lies in.
LEMMA TreeFacts ==
  /\ \A e \in Entries : e \in Above[e] /\ Above[e] \subseteq Entries
  /\ \A e \in Entries : \A a \in Above[e] : Above[a] \subseteq Above[e]
  /\ \A e \in Entries : \A a \in Above[e] :
       a # e => Kind[a] = "folder" /\ \E c \in Children(a) : c \in Above[e]
  /\ \A r \in Roots : Above[r] = {r}
  /\ \A e \in Entries : \E r \in Roots : r \in Above[e]
  /\ Roots \subseteq Entries /\ \A r \in Roots : r \notin Hidden
<1>1. Selection \in Seq(Entries \ Hidden) /\ Roots = {Selection[i] : i \in 1..Len(Selection)}
  BY LocalPasteAssumption DEF Roots
<1>2. Roots \subseteq Entries /\ \A r \in Roots : r \notin Hidden
  BY <1>1
<1>3. \A e \in Entries : e \in Above[e] /\ Above[e] \subseteq Entries
  BY LocalPasteAssumption
<1>4. \A e \in Entries : \A a \in Above[e] : a # e => Kind[a] = "folder"
  BY LocalPasteAssumption DEF Children
<1> QED
  BY <1>2, <1>3, <1>4, LocalPasteAssumption

\* What is directly in a folder.
LEMMA ChildFacts ==
  ASSUME NEW d \in Entries, NEW c \in Children(d)
  PROVE  /\ c \in Entries \ Roots /\ Kind[d] = "folder"
         /\ Above[c] = {c} \cup Above[d] /\ c \notin Above[d] /\ d \in Above[c] /\ c # d
<1>1. c \in Entries \ Roots /\ Parent[c] = d
  BY DEF Children
<1>2. d \in Above[d]
  BY TreeFacts
<1> QED
  BY <1>1, <1>2, LocalPasteAssumption

\* Nothing lies in a file or a link.
LEMMA NothingBelow ==
  ASSUME NEW a \in Entries, Kind[a] # "folder", NEW e \in Entries, a \in Above[e]
  PROVE  a = e
BY TreeFacts

\* A folder among entries none of which lies in another can be replaced by some of
\* what it holds.
LEMMA ReplaceByChildren ==
  ASSUME NEW P \in SUBSET Entries, Antichain(P), NEW d \in P, NEW C \in SUBSET Children(d)
  PROVE  Antichain((P \ {d}) \cup C) /\ C \cap P = {}
<1>1. \A c \in C : /\ c \in Entries /\ Above[c] = {c} \cup Above[d]
                   /\ c \notin Above[d] /\ d \in Above[c] /\ c # d
  BY ChildFacts
<1>2. ASSUME NEW c \in C, NEW y \in P
      PROVE  c \notin Above[y] \/ y = d
  <2>1. c \in Above[y] => d \in Above[y]
    BY <1>1, TreeFacts
  <2> QED
    BY <2>1 DEF Antichain
<1>3. C \cap P = {}
  <2>1. ASSUME NEW c \in C, c \in P
        PROVE  FALSE
    BY <1>1, <2>1 DEF Antichain
  <2> QED
    BY <2>1
<1>4. ASSUME NEW x \in (P \ {d}) \cup C, NEW y \in (P \ {d}) \cup C, x \in Above[y]
      PROVE  x = y
  <2>1. CASE x \in P /\ y \in P
    BY <1>4, <2>1 DEF Antichain
  <2>2. CASE x \in C /\ y \in P \ {d}
    BY <1>2, <1>4, <2>2
  <2>3. CASE x \in P \ {d} /\ y \in C
    BY <1>1, <1>4, <2>3 DEF Antichain
  <2>4. CASE x \in C /\ y \in C
    BY <1>1, <1>4, <2>4
  <2> QED
    BY <1>3, <2>1, <2>2, <2>3, <2>4
<1> QED
  BY <1>3, <1>4 DEF Antichain

-------------------------------------------------------------------------------
(* The folders being walked.                                               *)

FrameType == Seq(SUBSET (Entries \ Roots))

LEMMA NoFrames == InFrames(<<>>) = {} /\ Disjoint(<<>>)
BY DEF InFrames, Disjoint

\* A folder is entered.
LEMMA FrameAdded ==
  ASSUME NEW fs \in FrameType, NEW S \in SUBSET (Entries \ Roots),
         Disjoint(fs), S \cap InFrames(fs) = {}
  PROVE  /\ Append(fs, S) \in FrameType /\ Append(fs, S) # <<>>
         /\ InFrames(Append(fs, S)) = InFrames(fs) \cup S
         /\ Disjoint(Append(fs, S))
<1> DEFINE gs == Append(fs, S)
<1>1. /\ gs \in FrameType /\ Len(fs) \in Nat /\ Len(gs) = Len(fs) + 1
      /\ \A i \in 1..Len(fs) : gs[i] = fs[i]
      /\ gs[Len(fs) + 1] = S
  BY DEF FrameType
<1>2. gs # <<>>
  BY <1>1, EmptySeq DEF FrameType
<1>3. \A i \in 1..Len(fs) : fs[i] \subseteq Entries \ Roots /\ fs[i] \subseteq InFrames(fs)
  BY DEF FrameType, InFrames
<1> HIDE DEF gs
<1>4. \A i \in 1..Len(gs) : i \in 1..Len(fs) \/ i = Len(fs) + 1
  BY <1>1
<1>5. 1..Len(fs) \subseteq 1..Len(gs) /\ Len(fs) + 1 \in 1..Len(gs)
  BY <1>1
<1>6. InFrames(gs) = InFrames(fs) \cup S
  <2>1. \A x \in Entries : x \in InFrames(gs) => x \in InFrames(fs) \cup S
    BY <1>1, <1>4 DEF InFrames
  <2>2. \A x \in InFrames(fs) \cup S : x \in InFrames(gs)
    BY <1>1, <1>5 DEF InFrames
  <2>3. InFrames(gs) \subseteq Entries
    BY DEF InFrames
  <2> QED
    BY <2>1, <2>2, <2>3
<1>7. ASSUME NEW i \in 1..Len(gs), NEW j \in 1..Len(gs), i # j
      PROVE  gs[i] \cap gs[j] = {}
  <2>1. CASE i \in 1..Len(fs) /\ j \in 1..Len(fs)
    BY <1>1, <1>7, <2>1 DEF Disjoint
  <2>2. CASE i = Len(fs) + 1 /\ j \in 1..Len(fs)
    BY <1>1, <1>3, <2>2
  <2>3. CASE j = Len(fs) + 1 /\ i \in 1..Len(fs)
    BY <1>1, <1>3, <2>3
  <2> QED
    BY <1>4, <1>7, <2>1, <2>2, <2>3
<1> QED
  BY <1>1, <1>2, <1>6, <1>7 DEF Disjoint, gs

\* An entry is taken from the innermost folder.
LEMMA FrameTaken ==
  ASSUME NEW fs \in FrameType, fs # <<>>, Disjoint(fs), NEW e \in fs[Len(fs)]
  PROVE  LET gs == [fs EXCEPT ![Len(fs)] = fs[Len(fs)] \ {e}]
         IN /\ gs \in FrameType /\ gs # <<>>
            /\ InFrames(gs) = InFrames(fs) \ {e}
            /\ Disjoint(gs)
            /\ e \in InFrames(fs) /\ e \in Entries \ Roots
<1> DEFINE n == Len(fs)
           gs == [fs EXCEPT ![n] = fs[n] \ {e}]
<1>1. n \in Nat /\ n \in 1..n /\ fs[n] \subseteq Entries \ Roots
  BY EmptySeq DEF FrameType
<1>2. /\ gs \in FrameType /\ Len(gs) = n
      /\ \A i \in 1..n : gs[i] = IF i = n THEN fs[n] \ {e} ELSE fs[i]
  BY <1>1, ExceptSeq DEF FrameType
<1> HIDE DEF gs
<1>3. gs # <<>>
  BY <1>1, <1>2
<1>4. e \in InFrames(fs) /\ e \in Entries \ Roots
  BY <1>1 DEF InFrames
<1>5. InFrames(gs) = InFrames(fs) \ {e}
  <2>1. ASSUME NEW x \in InFrames(gs)
        PROVE  x \in InFrames(fs) /\ x # e
    <3>1. PICK i \in 1..n : x \in Entries /\ x \in gs[i]
      BY <1>2 DEF InFrames
    <3> QED
      BY <1>1, <1>2, <3>1 DEF InFrames, Disjoint
  <2>2. ASSUME NEW x \in InFrames(fs), x # e
        PROVE  x \in InFrames(gs)
    BY <1>2, <2>2 DEF InFrames
  <2> QED
    BY <2>1, <2>2
<1>6. \A i \in 1..n : gs[i] \subseteq fs[i]
  BY <1>2
<1>7. Disjoint(gs)
  BY <1>2, <1>6 DEF Disjoint
<1> QED
  BY <1>2, <1>3, <1>4, <1>5, <1>7 DEF gs

\* The innermost folder is left.
LEMMA FrameLeft ==
  ASSUME NEW fs \in FrameType, fs # <<>>, Disjoint(fs)
  PROVE  LET gs == SubSeq(fs, 1, Len(fs) - 1)
         IN /\ gs \in FrameType /\ Len(gs) = Len(fs) - 1
            /\ InFrames(gs) \subseteq InFrames(fs)
            /\ fs[Len(fs)] = {} => InFrames(gs) = InFrames(fs)
            /\ Disjoint(gs)
<1> DEFINE n == Len(fs) - 1
           gs == SubSeq(fs, 1, n)
<1>1. n \in Nat /\ Len(fs) = n + 1 /\ \A i \in 1..n : fs[i] \in SUBSET (Entries \ Roots)
  BY EmptySeq DEF FrameType
<1> HIDE DEF n
<1>2. gs \in FrameType /\ Len(gs) = n /\ \A i \in 1..n : gs[i] = fs[i]
  BY <1>1, SubSeqProperties DEF FrameType
<1> HIDE DEF gs
<1>3. InFrames(gs) \subseteq InFrames(fs)
  BY <1>1, <1>2 DEF InFrames
<1>4. ASSUME fs[Len(fs)] = {}, NEW x \in InFrames(fs)
      PROVE  x \in InFrames(gs)
  <2>1. PICK i \in 1..Len(fs) : x \in fs[i]
    BY DEF InFrames
  <2>2. i \in 1..n
    BY <1>1, <1>4, <2>1
  <2> QED
    BY <1>2, <2>1, <2>2 DEF InFrames
<1>5. Disjoint(gs)
  BY <1>1, <1>2 DEF Disjoint
<1> QED
  BY <1>1, <1>2, <1>3, <1>4, <1>5 DEF gs, n

-------------------------------------------------------------------------------
(* What the steps have in common.                                          *)

\* No file or link is lost as long as only what has reached its destination
\* leaves its source, and what has stays.
LEMMA LossKept ==
  ASSUME LossExplained,
         \A e \in Entries : Kind[e] # "folder" =>
           \/ source'[e] = source[e] /\ (dest[e] = "copy" => dest'[e] = "copy")
           \/ source'[e] \/ dest'[e] = "copy" \/ e \in cut',
         declined \subseteq declined', unread \subseteq unread', cut \subseteq cut',
         handler' = handler,
         stopped => stopped'
  PROVE  LossExplained'
<1> SUFFICES ASSUME NEW e \in Entries, Lost(e)'
             PROVE  \/ e \in declined'
                    \/ Unlisted(e)'
                    \/ e \in cut'
                    \/ Kind[e] = "link" /\ (e \notin Roots \/ handler' = "web")
                    \/ handler' = "web" /\ stopped'
  BY DEF LossExplained
<1>1. CASE e \in cut'
  BY <1>1
<1>2. CASE e \notin cut'
  <2>1. Lost(e)
    BY <1>2 DEF Lost
  <2>2. Unlisted(e) => Unlisted(e)'
    BY DEF Unlisted
  <2> QED
    BY <2>1, <2>2 DEF LossExplained
<1> QED
  BY <1>1, <1>2

\* A folder is removed only once it is empty.
LEMMA FoldersKept ==
  ASSUME FoldersStay, NEW x \in Entries, source \in [Entries -> BOOLEAN],
         source' = [source EXCEPT ![x] = FALSE],
         \A c \in Children(x) : ~source[c]
  PROVE  FoldersStay'
<1> SUFFICES ASSUME NEW e \in Entries, NEW a \in Above[e], source'[e]
             PROVE  source'[a]
  BY DEF FoldersStay
<1>1. a \in Entries /\ e # x /\ source[e]
  BY TreeFacts
<1>2. source[a]
  BY <1>1 DEF FoldersStay
<1>3. a # x
  <2>1. SUFFICES ASSUME a = x
                 PROVE  FALSE
    OBVIOUS
  <2>2. PICK c \in Children(x) : c \in Above[e]
    BY <1>1, <2>1, TreeFacts
  <2>3. source[c]
    BY <1>1, <2>2 DEF FoldersStay
  <2> QED
    BY <2>2, <2>3
<1> QED
  BY <1>1, <1>2, <1>3

\* The selected entries not begun stay at their sources while another item is
\* worked on.
LEMMA ItemsKept ==
  ASSUME TypeOK, ItemsLeft, pc \notin {"items", "done"}, NEW x \in Entries, item \in Above[x],
         source' = source \/ source' = [source EXCEPT ![x] = FALSE],
         UNCHANGED <<items, item>>
  PROVE  ItemsLeft'
<1>1. \A i \in 1..Len(items) : items[i] \in Roots /\ items[i] # item /\ source[items[i]]
  BY DEF TypeOK, ItemsLeft
<1>2. \A i \in 1..Len(items) : items[i] # x
  BY <1>1, TreeFacts
<1>3. \A i \in 1..Len(items) : source'[items[i]]
  BY <1>1, <1>2, TreeFacts DEF TypeOK
<1> QED
  BY <1>1, <1>3 DEF ItemsLeft

\* What was covered stays so, unless there was a stop or a reported failure.
LEMMA CoverKept ==
  ASSUME ItemCovered, AllCovered, UNCHANGED <<items, item>>,
         ~stopped' => ~stopped, ~status_message' => ~status_message,
         \/ \A e \in Entries : Kind[e] = "file" /\ Covered(e) => Covered(e)'
         \/ stopped'
         \/ result' = 0 /\ status_message',
         result' # 0 /\ ~stopped' /\ (Walking' \/ pc' \in {"returned", "remove"}) =>
           result # 0 /\ (Walking \/ pc \in {"returned", "remove"})
  PROVE  ItemCovered' /\ AllCovered'
<1>1. ItemCovered'
  <2> SUFFICES ASSUME ~stopped', result' # 0, Walking' \/ pc' \in {"returned", "remove"},
                      NEW e \in Entries, Kind[e] = "file", item \in Above[e]
               PROVE  Covered(e)'
    BY DEF ItemCovered
  <2>1. Covered(e)
    BY DEF ItemCovered
  <2> QED
    BY <2>1
<1>2. AllCovered'
  <2> SUFFICES ASSUME ~stopped', ~status_message', NEW e \in Entries, Kind[e] = "file"
               PROVE  Covered(e)' \/ \E j \in 1..Len(items) : items[j] \in Above[e]
    BY DEF AllCovered
  <2>1. Covered(e) \/ \E j \in 1..Len(items) : items[j] \in Above[e]
    BY DEF AllCovered
  <2> QED
    BY <2>1
<1> QED
  BY <1>1, <1>2

\* The call for entry, or a folder's loop, returns.
LEMMA ReturnShape ==
  ASSUME TypeOK, WalkOnce, NEW r, Return(r), UNCHANGED item,
         \A x \in InFrames(frames) : source'[x] = source[x]
  PROVE  /\ WalkOnce'
         /\ Pending' \subseteq Pending
         /\ pc' \in {"walk", "returned"} /\ frames' \in FrameType
         /\ pc' = "walk" => r # 0 /\ result' = result /\ frames' # <<>>
         /\ pc' = "returned" => frames' = <<>> /\ result' = r
         /\ entry' = item
         /\ r # 0 => Pending' = InFrames(frames)
<1>1. /\ entry' = item
      /\ \/ /\ r # 0 /\ frames # <<>>
            /\ pc' = "walk" /\ frames' = frames /\ result' = result
         \/ /\ ~(r # 0 /\ frames # <<>>)
            /\ pc' = "returned" /\ frames' = <<>> /\ result' = r
  BY DEF Return
<1>2. frames \in FrameType /\ <<>> \in FrameType
  BY DEF TypeOK, FrameType
<1>3. Pending' = InFrames(frames')
  BY <1>1 DEF Pending, Handling, FileSteps
<1>4. InFrames(frames') \subseteq InFrames(frames) /\ Disjoint(frames')
  BY <1>1, NoFrames DEF WalkOnce
<1>5. r # 0 => InFrames(frames') = InFrames(frames)
  BY <1>1
<1>6. InFrames(frames) \subseteq Pending
  BY DEF Pending
<1>7. Antichain(Pending')
  BY <1>3, <1>4, <1>6 DEF WalkOnce, Antichain
<1>8. \A x \in Pending' : source'[x] /\ item' \in Above[x]
  BY <1>3, <1>4, <1>6 DEF WalkOnce
<1>9. /\ ~Handling' /\ pc' \notin FileSteps /\ (frames' # <<>> => Walking')
  BY <1>1 DEF Handling, Walking, FileSteps
<1>10. WalkOnce'
  BY <1>4, <1>7, <1>8, <1>9 DEF WalkOnce
<1> QED
  BY <1>1, <1>2, <1>3, <1>4, <1>5, <1>6, <1>10

\* A call of CopyOrMove returns: the whole invariant.
LEMMA AfterReturn ==
  ASSUME PasteInv, NEW r \in {0, 1}, Return(r), Walking,
         UNCHANGED <<setup, stops, items, item, unread>>,
         source' = source \/ (/\ Handling /\ Kind[entry] # "folder" /\ (dest'[entry] = "copy" \/ entry \in cut')
                              /\ source' = [source EXCEPT ![entry] = FALSE]),
         dest' = dest \/ (/\ pc = "transfer" \/ pc = "copy"
                          /\ dest' = [dest EXCEPT ![entry] = "copy"]),
         status_message' \in BOOLEAN, status_message => status_message', r = 0 => status_message',
         declined \subseteq declined', declined' \subseteq Entries, cut \subseteq cut',
         cut' \subseteq Entries, accepted' \subseteq Entries,
         r = 1 => stopped \/ (/\ Handling /\ Kind[entry] # "folder"
                              /\ Kind[entry] = "file" =>
                                   dest'[entry] = "copy" \/ entry \in declined' \cup cut')
  PROVE  PasteInv'
<1>1. /\ TypeOK /\ WalkOnce /\ ItemsLeft /\ FoldersStay /\ LossExplained /\ ItemCovered
      /\ AllCovered /\ Ends /\ AskedFirst
  BY DEF PasteInv
<1>2. /\ UNCHANGED <<handler, overwrite_type, stop_activity, stopped, items, item, unread>>
      /\ source \in [Entries -> BOOLEAN] /\ dest \in [Entries -> Held]
      /\ item \in Roots /\ item \in Entries /\ entry \in Entries /\ frames \in FrameType
      /\ stopped \in BOOLEAN /\ status_message \in BOOLEAN
  BY <1>1, TreeFacts DEF setup, stops, TypeOK, FrameType
<1>3. Handling => entry \notin InFrames(frames) /\ source[entry] /\ item \in Above[entry]
  BY <1>1 DEF WalkOnce, Pending
<1>4. \A x \in InFrames(frames) : source'[x] = source[x]
  <2>1. InFrames(frames) \subseteq Entries
    BY DEF InFrames
  <2> QED
    BY <1>2, <1>3, <2>1
<1>5. /\ WalkOnce'
      /\ Pending' \subseteq Pending
      /\ pc' \in {"walk", "returned"} /\ frames' \in FrameType
      /\ pc' = "walk" => r # 0 /\ result' = result /\ frames' # <<>>
      /\ pc' = "returned" => frames' = <<>> /\ result' = r
      /\ entry' = item
      /\ r # 0 => Pending' = InFrames(frames)
  BY <1>1, <1>2, <1>4, ReturnShape
<1>6. source' \in [Entries -> BOOLEAN] /\ dest' \in [Entries -> Held]
  <2>1. "copy" \in Held
    BY DEF Held
  <2> QED
    BY <1>2, <2>1
<1>7. TypeOK'
  <2>1. /\ handler' \in Handlers /\ overwrite_type' \in {"NONE", "PROMPT", "ALL"}
        /\ stop_activity' \in BOOLEAN /\ stopped' \in BOOLEAN
        /\ items' \in Seq(Roots) /\ item' \in Roots /\ unread' \subseteq Entries
    BY <1>1, <1>2 DEF TypeOK
  <2>2. pc' \in Steps /\ (pc' = "walk" => frames' # <<>>) /\ (pc' = "returned" => frames' = <<>>)
    BY <1>5 DEF Steps
  <2>3. result' \in {0, 1, 2}
    BY <1>1, <1>5 DEF TypeOK
  <2>4. entry' \in Entries /\ frames' \in Seq(SUBSET (Entries \ Roots))
    BY <1>2, <1>5 DEF FrameType
  <2> QED
    BY <1>6, <2>1, <2>2, <2>3, <2>4 DEF TypeOK
<1>8. ItemsLeft'
  <2>1. pc \notin {"items", "done"} /\ pc' \notin {"items", "done"}
    BY <1>5 DEF Walking, FileSteps
  <2>2. CASE source' = source
    BY <1>1, <1>2, <2>1, <2>2 DEF ItemsLeft
  <2>3. CASE Handling /\ source' = [source EXCEPT ![entry] = FALSE]
    BY <1>1, <1>2, <1>3, <2>1, <2>3, ItemsKept
  <2> QED
    BY <2>2, <2>3
<1>9. FoldersStay'
  <2>1. CASE source' = source
    BY <1>1, <2>1 DEF FoldersStay
  <2>2. CASE Kind[entry] # "folder" /\ source' = [source EXCEPT ![entry] = FALSE]
    <3>1. Children(entry) = {}
      BY <1>2, <2>2, ChildFacts
    <3> QED
      BY <1>1, <1>2, <2>2, <3>1, FoldersKept
  <2> QED
    BY <2>1, <2>2
<1>10. LossExplained'
  <2>1. \A e \in Entries :
          \/ source'[e] = source[e] /\ (dest[e] = "copy" => dest'[e] = "copy")
          \/ source'[e] \/ dest'[e] = "copy" \/ e \in cut'
    BY <1>2
  <2> QED
    BY <1>1, <1>2, <2>1, LossKept
<1>11. \A e \in Entries : Settled(e) => Settled(e)'
  <2>1. \A e \in Entries : dest[e] = "copy" => dest'[e] = "copy"
    BY <1>2
  <2>2. \A e \in Entries : Unlisted(e) <=> Unlisted(e)'
    BY <1>2 DEF Unlisted
  <2> QED
    BY <2>1, <2>2 DEF Settled
<1>12. \/ \A e \in Entries : Kind[e] = "file" /\ Covered(e) => Covered(e)'
       \/ stopped'
       \/ result' = 0 /\ status_message'
  <2>1. CASE r = 0
    BY <1>5, <2>1
  <2>2. CASE r = 1 /\ ~stopped
    <3>1. /\ Handling /\ Kind[entry] # "folder"
          /\ Kind[entry] = "file" => dest'[entry] = "copy" \/ entry \in declined' \cup cut'
          /\ Pending' = InFrames(frames)
      BY <1>5, <2>2
    <3>2. ASSUME NEW e \in Entries, Kind[e] = "file", Ahead(e)
          PROVE  Covered(e)'
      <4>1. PICK x \in Pending : x \in Above[e]
        BY <3>2 DEF Ahead
      <4>2. CASE x \in InFrames(frames)
        BY <3>1, <4>1, <4>2 DEF Covered, Ahead
      <4>3. CASE x = entry
        <5>1. entry = e
          BY <1>2, <3>1, <4>1, <4>3, NothingBelow
        <5> QED
          BY <3>1, <3>2, <5>1 DEF Covered, Settled
      <4> QED
        BY <4>1, <4>2, <4>3 DEF Pending
    <3> QED
      BY <1>11, <3>2 DEF Covered
  <2>3. CASE r = 1 /\ stopped
    BY <1>2, <2>3
  <2> QED
    BY <2>1, <2>2, <2>3
<1>13. ItemCovered' /\ AllCovered'
  <2>1. result = 1
    BY <1>1 DEF Ends, Walking, FileSteps
  <2> QED
    BY <1>1, <1>2, <1>12, <2>1, CoverKept
<1>14. Ends'
  <2>1. result = 1
    BY <1>1 DEF Ends, Walking, FileSteps
  <2> QED
    BY <1>1, <1>2, <1>5, <2>1 DEF Ends
<1>15. AskedFirst'
  BY <1>5 DEF AskedFirst
<1> QED
  BY <1>5, <1>7, <1>8, <1>9, <1>10, <1>13, <1>14, <1>15 DEF PasteInv

\* What FileReturns makes of the result of CopyOrMoveLocalFile.
LEMMA FileResult ==
  ASSUME TypeOK, NEW r \in {0, 1}, FileReturns(r)
  PROVE  \E q \in {0, 1} :
           /\ Return(q) /\ (q = 0 => status_message') /\ (Kind[entry] # "link" => q = r)
           /\ (status_message => status_message') /\ status_message' \in BOOLEAN
           /\ accepted' \subseteq Entries
<1> DEFINE failed == IF Kind[entry] = "link" THEN r # 0 ELSE r = 0
<1>1. /\ status_message' = (status_message \/ failed) /\ accepted' = {}
      /\ Return(IF failed THEN 0 ELSE 1)
  BY DEF FileReturns
<1>2. failed \in BOOLEAN /\ status_message \in BOOLEAN
  BY DEF TypeOK
<1>3. Kind[entry] # "link" => (failed <=> r = 0)
  OBVIOUS
<1> HIDE DEF failed
<1>4. CASE failed
  <2>1. status_message' = TRUE /\ Return(0)
    BY <1>1, <1>4
  <2> QED
    BY <1>1, <1>3, <1>4, <2>1
<1>5. CASE ~failed
  <2>1. status_message' = status_message /\ Return(1)
    BY <1>1, <1>2, <1>5
  <2> QED
    BY <1>1, <1>2, <1>3, <1>5, <2>1
<1> QED
  BY <1>4, <1>5

\* CopyOrMoveLocalFile returns.
LEMMA AfterFile ==
  ASSUME PasteInv, NEW r \in {0, 1}, FileReturns(r), pc \in FileSteps,
         UNCHANGED <<setup, stops, items, item, unread>>,
         source' = source \/ (/\ dest'[entry] = "copy" \/ entry \in cut'
                              /\ source' = [source EXCEPT ![entry] = FALSE]),
         dest' = dest \/ (/\ pc = "transfer" \/ pc = "copy"
                          /\ dest' = [dest EXCEPT ![entry] = "copy"]),
         declined' = declined \/ declined' = declined \cup {entry},
         cut' = cut \/ cut' = cut \cup {entry},
         r = 1 => dest'[entry] = "copy" \/ entry \in declined' \cup cut'
  PROVE  PasteInv'
<1>1. TypeOK /\ Kind[entry] # "folder" /\ Handling /\ Walking /\ entry \in Entries
      /\ declined \subseteq Entries /\ cut \subseteq Entries
  BY DEF PasteInv, WalkOnce, TypeOK, Handling, Walking
<1>2. PICK q \in {0, 1} :
           /\ Return(q) /\ (q = 0 => status_message') /\ (Kind[entry] # "link" => q = r)
           /\ (status_message => status_message') /\ status_message' \in BOOLEAN
           /\ accepted' \subseteq Entries
  BY <1>1, FileResult
<1>3. q = 1 => (Kind[entry] = "file" => dest'[entry] = "copy" \/ entry \in declined' \cup cut')
  BY <1>2
<1>4. /\ declined \subseteq declined' /\ declined' \subseteq Entries
      /\ cut \subseteq cut' /\ cut' \subseteq Entries
  BY <1>1
<1> QED
  BY <1>1, <1>2, <1>3, <1>4, AfterReturn

-------------------------------------------------------------------------------
(* The actions.                                                            *)

\* EnterFile, and the steps of CopyOrMoveLocalFile up to its return.
LEMMA StaysAtEntry ==
  ASSUME PasteInv, Handling, pc' \in FileSteps, Kind[entry] # "folder",
         UNCHANGED <<source, setup, stops, walk, status_message, declined, unread, cut>>,
         accepted' \subseteq Entries,
         dest' = dest \/ \E held \in {"part", "absent"} : dest' = [dest EXCEPT ![entry] = held],
         AskedFirst'
  PROVE  PasteInv'
<1>1. /\ TypeOK /\ WalkOnce /\ ItemsLeft /\ FoldersStay /\ LossExplained /\ ItemCovered
      /\ AllCovered /\ Ends
  BY DEF PasteInv
<1>2. /\ UNCHANGED <<source, handler, overwrite_type, stop_activity, stopped, items, item, frames,
                     entry, result, status_message, declined, unread, cut>>
      /\ dest \in [Entries -> Held] /\ entry \in Entries
  BY <1>1 DEF setup, stops, walk, TypeOK
<1>3. pc' \in Steps /\ pc' \notin {"walk", "returned", "items", "done", "remove"}
      /\ Handling' /\ Walking' /\ Walking
  BY DEF Handling, Walking, FileSteps, Steps
<1>4. dest' \in [Entries -> Held]
  <2>1. "part" \in Held /\ "absent" \in Held
    BY DEF Held
  <2> QED
    BY <1>2, <2>1
<1>5. TypeOK'
  BY <1>1, <1>2, <1>3, <1>4 DEF TypeOK
<1>6. Pending' = Pending
  BY <1>2, <1>3 DEF Pending
<1>7. WalkOnce'
  BY <1>1, <1>2, <1>3, <1>6 DEF WalkOnce, Antichain
<1>8. ItemsLeft'
  BY <1>1, <1>2 DEF ItemsLeft, Handling, FileSteps
<1>9. FoldersStay'
  BY <1>1, <1>2 DEF FoldersStay
<1>10. source[entry] /\ entry \in Pending
  BY <1>1 DEF WalkOnce, Pending
<1>11. \A e \in Entries : e # entry => dest'[e] = dest[e]
  BY <1>2
<1>12. LossExplained'
  BY <1>1, <1>2, <1>10, <1>11, LossKept
<1>13. ASSUME NEW e \in Entries, Covered(e)
       PROVE  Covered(e)'
  <2>1. Ahead(e) => Ahead(e)'
    BY <1>6 DEF Ahead
  <2>2. CASE e = entry
    <3>1. Ahead(e)
      BY <1>10, <2>2, TreeFacts DEF Ahead
    <3> QED
      BY <2>1, <3>1 DEF Covered
  <2>3. CASE e # entry
    <3>1. Settled(e) => Settled(e)'
      BY <1>2, <1>11, <2>3 DEF Settled, Unlisted
    <3> QED
      BY <1>13, <2>1, <3>1 DEF Covered
  <2> QED
    BY <2>2, <2>3
<1>14. ItemCovered' /\ AllCovered'
  BY <1>1, <1>2, <1>3, <1>13, CoverKept
<1>15. Ends'
  BY <1>1, <1>2, <1>3 DEF Ends, Handling, FileSteps
<1> QED
  BY <1>5, <1>7, <1>8, <1>9, <1>12, <1>14, <1>15 DEF PasteInv

\* EnterFolder: what is listed stands for the folder.
LEMMA EnterFolderStep == PasteInv /\ EnterFolder => PasteInv'
<1> SUFFICES ASSUME PasteInv, EnterFolder
             PROVE  PasteInv'
  OBVIOUS
<1>1. /\ TypeOK /\ WalkOnce /\ ItemsLeft /\ FoldersStay /\ LossExplained /\ ItemCovered
      /\ AllCovered /\ Ends
  BY DEF PasteInv
<1>2. /\ UNCHANGED <<source, handler, overwrite_type, stop_activity, stopped, items, item, result,
                     status_message, declined, accepted, cut>>
      /\ pc = "enter" /\ pc' = "walk" /\ entry' = item /\ Kind[entry] = "folder"
      /\ dest' = [dest EXCEPT ![entry] = IF @ = "absent" THEN "folder" ELSE @]
      /\ dest \in [Entries -> Held] /\ entry \in Entries /\ item \in Entries /\ frames \in FrameType
  BY <1>1, TreeFacts DEF EnterFolder, setup, stops, TypeOK, FrameType
<1>3. PICK S \in {Listed(entry), {}} :
        /\ frames' = Append(frames, S)
        /\ \/ S = Listed(entry) /\ unread' = unread
           \/ S = {} /\ unread' = unread \cup {entry}
  BY DEF EnterFolder
<1>4. S \in SUBSET Children(entry) /\ \A c \in S : source[c]
  BY <1>3 DEF Listed
<1>5. /\ Handling /\ entry \in Pending /\ Pending = InFrames(frames) \cup {entry}
      /\ entry \notin InFrames(frames) /\ Pending \in SUBSET Entries
  BY <1>1, <1>2 DEF Handling, Pending, WalkOnce, InFrames
<1>6. Antichain((Pending \ {entry}) \cup S) /\ S \cap Pending = {}
  BY <1>1, <1>4, <1>5, ReplaceByChildren DEF WalkOnce
<1>7. /\ frames' \in FrameType /\ frames' # <<>>
      /\ InFrames(frames') = InFrames(frames) \cup S
      /\ Disjoint(frames')
  <2>1. S \in SUBSET (Entries \ Roots)
    BY <1>4 DEF Children
  <2>2. Disjoint(frames) /\ S \cap InFrames(frames) = {}
    BY <1>1, <1>5, <1>6 DEF WalkOnce
  <2> QED
    BY <1>2, <1>3, <2>1, <2>2, FrameAdded
<1>8. ~Handling' /\ Walking' /\ Walking /\ pc' \notin FileSteps
  BY <1>2 DEF Handling, Walking, FileSteps
<1>9. Pending' = InFrames(frames) \cup S /\ Pending' = (Pending \ {entry}) \cup S
  BY <1>5, <1>7, <1>8 DEF Pending
<1>10. \A c \in S : item \in Above[c]
  BY <1>1, <1>2, <1>4, <1>5, ChildFacts DEF WalkOnce
<1>11. WalkOnce'
  <2>1. \A x \in Pending' : source'[x] /\ item' \in Above[x]
    BY <1>1, <1>2, <1>4, <1>5, <1>9, <1>10 DEF WalkOnce
  <2>2. Antichain(Pending')
    BY <1>6, <1>9
  <2> QED
    BY <1>7, <1>8, <2>1, <2>2 DEF WalkOnce
<1>12. dest' \in [Entries -> Held] /\ \A e \in Entries : dest[e] = "copy" => dest'[e] = "copy"
  <2>1. "folder" \in Held /\ dest[entry] \in Held
    BY <1>2 DEF Held
  <2> QED
    BY <1>2, <2>1
<1>13. unread \subseteq unread' /\ unread' \subseteq Entries
  BY <1>1, <1>2, <1>3 DEF TypeOK
<1>14. TypeOK'
  <2>1. pc' \in Steps /\ entry' \in Entries /\ frames' \in Seq(SUBSET (Entries \ Roots))
    BY <1>2, <1>7 DEF Steps, FrameType
  <2> QED
    BY <1>1, <1>2, <1>7, <1>12, <1>13, <2>1 DEF TypeOK
<1>15. ItemsLeft'
  BY <1>1, <1>2 DEF ItemsLeft
<1>16. FoldersStay'
  BY <1>1, <1>2 DEF FoldersStay
<1>17. LossExplained'
  BY <1>1, <1>2, <1>12, <1>13, LossKept
<1>18. \A e \in Entries : Settled(e) => Settled(e)'
  BY <1>2, <1>12, <1>13 DEF Settled, Unlisted
<1>19. ASSUME NEW e \in Entries, Kind[e] = "file", Covered(e), ~stopped
       PROVE  Covered(e)'
  <2>1. CASE Settled(e)
    BY <1>18, <2>1 DEF Covered
  <2>2. CASE \E x \in InFrames(frames) : x \in Above[e]
    BY <1>9, <2>2 DEF Covered, Ahead
  <2>3. CASE entry \in Above[e]
    <3>1. e # entry
      BY <1>2, <1>19
    <3>2. CASE entry \in unread'
      BY <2>3, <3>1, <3>2 DEF Covered, Settled, Unlisted
    <3>3. CASE S = Listed(entry)
      <4>1. PICK c \in Children(entry) : c \in Above[e]
        BY <1>2, <2>3, <3>1, TreeFacts
      <4>2. c \in Entries
        BY DEF Children
      <4>3. CASE c \in Hidden
        <5>1. Unlisted(e)'
          BY <4>1, <4>3 DEF Unlisted
        <5> QED
          BY <5>1 DEF Covered, Settled
      <4>4. CASE ~source[c]
        <5>1. ~source[e]
          BY <1>1, <4>1, <4>4 DEF FoldersStay
        <5>2. Settled(e)
          BY <1>1, <1>19, <5>1 DEF LossExplained, Lost, Settled
        <5> QED
          BY <1>18, <5>2 DEF Covered
      <4>5. CASE c \notin Hidden /\ source[c]
        <5>1. c \in S
          BY <3>3, <4>5 DEF Listed
        <5> QED
          BY <1>9, <4>1, <5>1 DEF Covered, Ahead
      <4> QED
        BY <4>3, <4>4, <4>5
    <3> QED
      BY <1>3, <3>2, <3>3
  <2> QED
    BY <1>5, <1>19, <2>1, <2>2, <2>3 DEF Covered, Ahead
<1>20. ItemCovered' /\ AllCovered'
  <2>1. stopped \in BOOLEAN
    BY <1>1 DEF TypeOK
  <2>2. \/ \A e \in Entries : Kind[e] = "file" /\ Covered(e) => Covered(e)'
        \/ stopped'
    BY <1>2, <1>19
  <2> QED
    BY <1>1, <1>2, <1>8, <2>2, CoverKept
<1>21. Ends' /\ AskedFirst'
  BY <1>1, <1>2 DEF Ends, AskedFirst
<1> QED
  BY <1>11, <1>14, <1>15, <1>16, <1>17, <1>20, <1>21 DEF PasteInv

\* WalkFile and WalkFolder: the entry taken from the list is under way.
LEMMA TakeStep ==
  ASSUME PasteInv, NEW e \in Entries, WalkFile(e) \/ WalkFolder(e)
  PROVE  PasteInv'
<1>1. /\ TypeOK /\ WalkOnce /\ ItemsLeft /\ FoldersStay /\ LossExplained /\ ItemCovered
      /\ AllCovered /\ Ends
  BY DEF PasteInv
<1>2. /\ UNCHANGED <<source, handler, overwrite_type, stop_activity, stopped, items, item, result,
                     status_message, declined, accepted, unread, cut>>
      /\ pc = "walk" /\ e \in frames[Len(frames)] /\ entry' = e
      /\ frames' = [frames EXCEPT ![Len(frames)] = frames[Len(frames)] \ {e}]
      /\ dest \in [Entries -> Held] /\ frames \in FrameType /\ frames # <<>>
  BY <1>1 DEF WalkFile, WalkFolder, Left, Innermost, trees, setup, stops, notes, TypeOK, FrameType
<1>3. /\ \/ pc' = "file" /\ Kind[e] = "file" /\ dest' = dest
         \/ pc' = "enter" /\ dest' = [dest EXCEPT ![e] = IF @ = "absent" THEN "folder" ELSE @]
  BY DEF WalkFile, WalkFolder, trees
<1>4. /\ frames' \in FrameType /\ frames' # <<>>
      /\ InFrames(frames') = InFrames(frames) \ {e}
      /\ Disjoint(frames')
      /\ e \in InFrames(frames)
  BY <1>1, <1>2, FrameTaken DEF WalkOnce
<1>5. Handling' /\ Walking' /\ Walking /\ ~Handling
  BY <1>2, <1>3 DEF Handling, Walking, FileSteps
<1>6. Pending' = Pending /\ Pending = InFrames(frames)
  BY <1>2, <1>4, <1>5 DEF Pending
<1>7. WalkOnce'
  <2>1. entry' \notin InFrames(frames')
    BY <1>2, <1>4
  <2>2. pc' \in FileSteps => Kind[entry'] # "folder"
    BY <1>2, <1>3 DEF FileSteps
  <2>3. \A x \in Pending' : source'[x] /\ item' \in Above[x]
    BY <1>1, <1>2, <1>6 DEF WalkOnce
  <2>4. Antichain(Pending')
    BY <1>1, <1>6 DEF WalkOnce
  <2> QED
    BY <1>4, <1>5, <2>1, <2>2, <2>3, <2>4 DEF WalkOnce
<1>8. dest' \in [Entries -> Held] /\ \A x \in Entries : dest[x] = "copy" => dest'[x] = "copy"
  <2>1. "folder" \in Held /\ dest[e] \in Held
    BY <1>2 DEF Held
  <2> QED
    BY <1>2, <1>3, <2>1
<1>9. TypeOK'
  <2>1. pc' \in Steps /\ pc' \notin {"walk", "returned"} /\ entry' \in Entries
        /\ frames' \in Seq(SUBSET (Entries \ Roots))
    BY <1>2, <1>3, <1>4 DEF Steps, FrameType
  <2> QED
    BY <1>1, <1>2, <1>8, <2>1 DEF TypeOK
<1>10. ItemsLeft' /\ FoldersStay'
  BY <1>1, <1>2 DEF ItemsLeft, FoldersStay
<1>11. LossExplained'
  BY <1>1, <1>2, <1>8, LossKept
<1>12. \A x \in Entries : Covered(x) => Covered(x)'
  <2>1. \A x \in Entries : Settled(x) => Settled(x)'
    BY <1>2, <1>8 DEF Settled, Unlisted
  <2>2. \A x \in Entries : Ahead(x) => Ahead(x)'
    BY <1>6 DEF Ahead
  <2> QED
    BY <2>1, <2>2 DEF Covered
<1>13. ItemCovered' /\ AllCovered'
  BY <1>1, <1>2, <1>5, <1>12, CoverKept
<1>14. Ends' /\ AskedFirst'
  BY <1>1, <1>2, <1>3 DEF Ends, AskedFirst
<1> QED
  BY <1>7, <1>9, <1>10, <1>11, <1>13, <1>14 DEF PasteInv


\* The calls of CopyOrMove that return without a transfer.
LEMMA EarlyReturns ==
  ASSUME PasteInv,
         EnterStopped \/ EnterFolderFails \/ \E e \in Entries : WalkFolderFails(e)
  PROVE  PasteInv'
<1>1. TypeOK /\ (stop_activity => stopped) /\ declined \subseteq Entries /\ accepted \subseteq Entries /\ cut \subseteq Entries
      /\ status_message \in BOOLEAN
  BY DEF PasteInv, Ends, TypeOK
<1>2. CASE EnterStopped
  <2>1. /\ Return(1) /\ Walking /\ stopped
        /\ UNCHANGED <<setup, stops, items, item, unread, cut, source, dest, status_message, declined,
                       accepted>>
    BY <1>1, <1>2 DEF EnterStopped, Walking, trees, notes
  <2> QED
    BY <1>1, <2>1, AfterReturn
<1>3. CASE EnterFolderFails \/ \E e \in Entries : WalkFolderFails(e)
  <2>1. /\ Return(0) /\ Walking /\ status_message' = TRUE
        /\ UNCHANGED <<setup, stops, items, item, unread, cut, source, dest, declined, accepted>>
    BY <1>3 DEF EnterFolderFails, WalkFolderFails, Walking, trees
  <2> QED
    BY <1>1, <2>1, AfterReturn
<1> QED
  BY <1>2, <1>3

\* The ends of CopyOrMoveLocalFile.
LEMMA FileEnds ==
  ASSUME PasteInv,
         \/ DontOverwrite \/ FileOverFolder \/ AnswerNo \/ Rename \/ TransferFails
         \/ EndCopy \/ CopyFails \/ CopyCut \/ ReadlinkFails
  PROVE  PasteInv'
<1>1. dest \in [Entries -> Held] /\ entry \in Entries
  BY DEF PasteInv, TypeOK
<1>2. CASE DontOverwrite \/ AnswerNo
  <2>1. /\ FileReturns(1) /\ pc \in FileSteps /\ declined' = declined \cup {entry}
        /\ UNCHANGED <<setup, stops, items, item, unread, cut, source, dest>>
    BY <1>2 DEF DontOverwrite, AnswerNo, FileSteps, trees
  <2>2. entry \in declined'
    BY <2>1
  <2> QED
    BY <2>1, <2>2, AfterFile
<1>3. CASE FileOverFolder \/ TransferFails \/ CopyFails
  <2>1. /\ FileReturns(0) /\ pc \in FileSteps
        /\ UNCHANGED <<setup, stops, items, item, unread, cut, source, dest, declined>>
    BY <1>3 DEF FileOverFolder, TransferFails, CopyFails, CopyReturns, FileSteps, trees
  <2> QED
    BY <2>1, AfterFile
<1>4. CASE Rename \/ EndCopy
  <2>1. /\ FileReturns(1) /\ pc \in {"transfer", "copy"}
        /\ dest' = [dest EXCEPT ![entry] = "copy"]
        /\ source' = source \/ source' = [source EXCEPT ![entry] = FALSE]
        /\ UNCHANGED <<setup, stops, items, item, unread, cut, declined>>
    BY <1>4 DEF Rename, EndCopy
  <2>2. dest'[entry] = "copy" /\ pc \in FileSteps
    BY <1>1, <2>1 DEF FileSteps
  <2> QED
    BY <2>1, <2>2, AfterFile
<1>5. CASE CopyCut \/ ReadlinkFails
  <2>1. /\ FileReturns(1) /\ pc \in {"transfer", "copy"}
        /\ cut' = cut \cup {entry}
        /\ source' = source \/ source' = [source EXCEPT ![entry] = FALSE]
        /\ UNCHANGED <<dest, setup, stops, items, item, unread, declined>>
    BY <1>5 DEF CopyCut, ReadlinkFails, CopiesNotWhole
  <2>2. entry \in cut' /\ pc \in FileSteps
    BY <2>1 DEF FileSteps
  <2> QED
    BY <2>1, <2>2, AfterFile
<1> QED
  BY <1>2, <1>3, <1>4, <1>5

\* The steps up to the transfer of a file.
LEMMA FileGoesOn ==
  ASSUME PasteInv, EnterFile \/ Prompt \/ MayTransfer \/ AnswerYes \/ BeginCopy
  PROVE  PasteInv'
<1>1. /\ TypeOK /\ dest \in [Entries -> Held] /\ entry \in Entries /\ accepted \subseteq Entries
      /\ pc \in FileSteps => Kind[entry] # "folder"
      /\ pc = "poll" => dest[entry] = "other file"
  BY DEF PasteInv, TypeOK, WalkOnce, AskedFirst
<1>2. CASE EnterFile
  <2>1. /\ Handling /\ pc' = "file" /\ Kind[entry] # "folder"
        /\ UNCHANGED <<source, setup, stops, walk, status_message, declined, unread, cut, accepted, dest>>
    BY <1>2 DEF EnterFile, Handling, trees, notes
  <2>2. AskedFirst'
    BY <2>1 DEF AskedFirst
  <2>3. pc' \in FileSteps
    BY <2>1 DEF FileSteps
  <2> QED
    BY <1>1, <2>1, <2>2, <2>3, StaysAtEntry
<1>3. CASE Prompt
  <2>1. /\ pc = "file" /\ pc' = "poll" /\ dest[entry] = "other file" /\ entry' = entry
        /\ UNCHANGED <<source, setup, stops, walk, status_message, declined, unread, cut, accepted, dest>>
    BY <1>3 DEF Prompt, FileThere, trees, notes, walk
  <2>2. AskedFirst'
    BY <2>1 DEF AskedFirst
  <2>3. pc' \in FileSteps /\ Handling /\ pc \in FileSteps
    BY <2>1 DEF FileSteps, Handling
  <2> QED
    BY <1>1, <2>1, <2>2, <2>3, StaysAtEntry
<1>4. CASE MayTransfer
  <2>1. /\ pc = "file" /\ pc' = "transfer" /\ entry' = entry /\ overwrite_type' = overwrite_type
        /\ dest[entry] \notin {"other folder", "folder"}
        /\ dest[entry] = "other file" => overwrite_type = "ALL"
        /\ UNCHANGED <<source, setup, stops, walk, status_message, declined, unread, cut, accepted, dest>>
    BY <1>4 DEF MayTransfer, FileThere, FolderThere, trees, notes, walk, setup
  <2>2. AskedFirst'
    BY <2>1 DEF AskedFirst, FileThere, FolderThere
  <2>3. pc' \in FileSteps /\ Handling /\ pc \in FileSteps
    BY <2>1 DEF FileSteps, Handling
  <2> QED
    BY <1>1, <2>1, <2>2, <2>3, StaysAtEntry
<1>5. CASE AnswerYes
  <2>1. /\ pc = "poll" /\ pc' = "transfer" /\ entry' = entry
        /\ accepted' = accepted \cup {entry}
        /\ UNCHANGED <<source, setup, stops, walk, status_message, declined, unread, cut, dest>>
    BY <1>5 DEF AnswerYes, trees, walk
  <2>2. AskedFirst'
    BY <1>1, <2>1 DEF AskedFirst, FileThere, FolderThere
  <2>3. pc' \in FileSteps /\ Handling /\ pc \in FileSteps
    BY <2>1 DEF FileSteps, Handling
  <2> QED
    BY <1>1, <2>1, <2>2, <2>3, StaysAtEntry
<1>6. CASE BeginCopy
  <2>1. /\ pc = "transfer" /\ pc' = "copy" /\ entry' = entry
        /\ dest' = [dest EXCEPT ![entry] = IF Kind[entry] = "link" THEN "absent" ELSE "part"]
        /\ UNCHANGED <<source, setup, stops, walk, status_message, declined, unread, cut, accepted>>
    BY <1>6 DEF BeginCopy, walk, notes
  <2>2. \E held \in {"part", "absent"} : dest' = [dest EXCEPT ![entry] = held]
    <3>1. CASE Kind[entry] = "link"
      BY <2>1, <3>1
    <3>2. CASE Kind[entry] # "link"
      BY <2>1, <3>2
    <3> QED
      BY <3>1, <3>2
  <2>3. AskedFirst'
    BY <1>1, <2>1, <2>2 DEF AskedFirst
  <2>4. pc' \in FileSteps /\ Handling /\ pc \in FileSteps
    BY <2>1 DEF FileSteps, Handling
  <2> QED
    BY <1>1, <2>1, <2>2, <2>3, <2>4, StaysAtEntry
<1> QED
  BY <1>2, <1>3, <1>4, <1>5, <1>6

\* The end of a folder's list, or of its walk after a stop.
LEMMA LeaveFolderStep == PasteInv /\ LeaveFolder => PasteInv'
<1> SUFFICES ASSUME PasteInv, LeaveFolder
             PROVE  PasteInv'
  OBVIOUS
<1>1. /\ TypeOK /\ WalkOnce /\ ItemsLeft /\ FoldersStay /\ LossExplained /\ ItemCovered
      /\ AllCovered /\ Ends
  BY DEF PasteInv
<1>2. /\ UNCHANGED <<source, dest, handler, overwrite_type, stop_activity, stopped, items, item,
                     entry, status_message, declined, accepted, unread, cut>>
      /\ pc = "walk" /\ frames \in FrameType /\ frames # <<>>
      /\ frames' = SubSeq(frames, 1, Len(frames) - 1)
      /\ frames[Len(frames)] = {} \/ stop_activity
      /\ \/ pc' = "walk" /\ result' = result /\ Len(frames) > 1
         \/ /\ pc' = "returned" /\ ~(Len(frames) > 1)
            /\ result' = IF frames[Len(frames)] = {} THEN 1 ELSE 2
  BY <1>1 DEF LeaveFolder, Innermost, trees, setup, stops, notes, TypeOK, FrameType
<1>3. /\ frames' \in FrameType /\ Len(frames') = Len(frames) - 1
      /\ InFrames(frames') \subseteq InFrames(frames)
      /\ frames[Len(frames)] = {} => InFrames(frames') = InFrames(frames)
      /\ Disjoint(frames')
  BY <1>1, <1>2, FrameLeft DEF WalkOnce
<1>4. Len(frames) \in Nat /\ Len(frames) > 0
  BY <1>2, EmptySeq DEF FrameType
<1>5. /\ pc' = "walk" => frames' # <<>>
      /\ pc' = "returned" => frames' = <<>>
  <2>1. Len(frames') = 0 <=> frames' = <<>>
    BY <1>3, EmptySeq DEF FrameType
  <2>2. /\ pc' = "walk" => Len(frames) > 1
        /\ pc' = "returned" => ~(Len(frames) > 1)
    BY <1>2
  <2> QED
    BY <1>3, <1>4, <2>1, <2>2
<1>6. ~Handling /\ ~Handling' /\ Walking /\ pc' \notin FileSteps /\ (pc' = "walk" => Walking')
  BY <1>2 DEF Handling, Walking, FileSteps
<1>7. Pending = InFrames(frames) /\ Pending' = InFrames(frames')
  BY <1>6 DEF Pending
<1>8. result = 1 /\ result' \in {1, 2} /\ (result' = 2 => stopped)
  BY <1>1, <1>2 DEF Ends
<1>9. TypeOK'
  <2>1. pc' \in Steps /\ frames' \in Seq(SUBSET (Entries \ Roots)) /\ result' \in {0, 1, 2}
    BY <1>2, <1>3, <1>8 DEF Steps, FrameType
  <2> QED
    BY <1>1, <1>2, <1>5, <2>1 DEF TypeOK
<1>10. WalkOnce'
  <2>1. Antichain(Pending')
    BY <1>1, <1>3, <1>7 DEF WalkOnce, Antichain
  <2>2. \A x \in Pending' : source'[x] /\ item' \in Above[x]
    BY <1>1, <1>2, <1>3, <1>7 DEF WalkOnce
  <2> QED
    BY <1>2, <1>3, <1>5, <1>6, <2>1, <2>2 DEF WalkOnce
<1>11. ItemsLeft' /\ FoldersStay'
  BY <1>1, <1>2 DEF ItemsLeft, FoldersStay
<1>12. LossExplained'
  BY <1>1, <1>2, LossKept
<1>13. (\A e \in Entries : Covered(e) => Covered(e)') \/ stopped'
  <2>1. CASE frames[Len(frames)] = {}
    <3>1. Pending' = Pending
      BY <1>3, <1>7, <2>1
    <3>2. \A e \in Entries : Covered(e) => Covered(e)'
      BY <1>2, <3>1 DEF Covered, Settled, Ahead, Unlisted
    <3> QED
      BY <3>2
  <2>2. CASE frames[Len(frames)] # {}
    BY <1>1, <1>2, <2>2 DEF Ends
  <2> QED
    BY <2>1, <2>2
<1>14. ItemCovered' /\ AllCovered'
  BY <1>1, <1>2, <1>6, <1>8, <1>13, CoverKept
<1>15. Ends' /\ AskedFirst'
  <2>1. pc' \in {"walk", "returned"} /\ (pc' # "returned" => result' = 1)
    BY <1>2, <1>8
  <2>2. pc' = "returned" /\ result' = 0 => status_message'
    BY <1>8
  <2>3. (stop_activity' => stopped') /\ (handler' # "web" => stopped' = stop_activity')
    BY <1>1, <1>2 DEF Ends
  <2>4. pc' = "returned" /\ result' = 2 => stopped'
    BY <1>2, <1>8
  <2> QED
    BY <2>1, <2>2, <2>3, <2>4 DEF Ends, AskedFirst
<1> QED
  BY <1>9, <1>10, <1>11, <1>12, <1>14, <1>15 DEF PasteInv

\* Between the items nothing is being walked.
LEMMA NothingPending ==
  ASSUME WalkOnce, ~Walking
  PROVE  frames = <<>> /\ Pending = {} /\ ~Handling
<1>1. frames = <<>> /\ ~Handling
  BY DEF WalkOnce, Handling, Walking
<1> QED
  BY <1>1, NoFrames DEF Pending

\* The next selected entry is begun.
LEMMA NextItemStep == PasteInv /\ NextItem => PasteInv'
<1> SUFFICES ASSUME PasteInv, NextItem
             PROVE  PasteInv'
  OBVIOUS
<1>1. /\ TypeOK /\ WalkOnce /\ ItemsLeft /\ FoldersStay /\ LossExplained /\ ItemCovered
      /\ AllCovered /\ Ends
  BY DEF PasteInv
<1>2. /\ UNCHANGED <<source, dest, handler, overwrite_type, stop_activity, stopped, frames, result,
                     status_message, declined, accepted, unread, cut>>
      /\ pc = "items" /\ pc' = "enter" /\ items \in Seq(Roots) /\ items # <<>>
      /\ items' = Tail(items) /\ item' = Head(items) /\ entry' = Head(items)
  BY <1>1 DEF NextItem, trees, setup, stops, notes, TypeOK
<1>3. /\ Len(items) \in Nat /\ items' \in Seq(Roots) /\ Len(items') = Len(items) - 1
      /\ \A i \in 1..Len(items') : items'[i] = items[i + 1]
      /\ 1 \in 1..Len(items) /\ item' = items[1] /\ item' \in Roots /\ item' \in Entries
  BY <1>2, HeadTailProperties, EmptySeq, TreeFacts
<1>4. ~Walking /\ Handling' /\ Walking' /\ pc' \notin FileSteps
  BY <1>2 DEF Walking, Handling, FileSteps
<1>5. frames = <<>> /\ frames' = <<>> /\ Pending = {}
  BY <1>1, <1>2, <1>4, NothingPending
<1>6. Pending' = {item'} /\ InFrames(frames') = {} /\ Disjoint(frames')
  BY <1>2, <1>4, <1>5, NoFrames DEF Pending
<1>7. source'[item'] /\ item' \in Above[item']
  BY <1>1, <1>2, <1>3, TreeFacts DEF ItemsLeft
<1>8. TypeOK'
  <2>1. pc' \in Steps /\ pc' \notin {"walk", "returned"} /\ entry' \in Entries
    BY <1>2, <1>3 DEF Steps
  <2> QED
    BY <1>1, <1>2, <1>3, <2>1 DEF TypeOK
<1>9. WalkOnce'
  BY <1>4, <1>5, <1>6, <1>7 DEF WalkOnce, Antichain
<1>10. ItemsLeft'
  <2>1. \A i \in 1..Len(items') : i + 1 \in 1..Len(items) /\ i + 1 # 1
    BY <1>3
  <2>2. \A i \in 1..Len(items') : source'[items'[i]] /\ items'[i] # item'
    BY <1>1, <1>2, <1>3, <2>1 DEF ItemsLeft
  <2>3. ASSUME NEW i \in 1..Len(items'), NEW j \in 1..Len(items'), items'[i] = items'[j]
        PROVE  i = j
    <3>1. i + 1 = j + 1
      BY <1>1, <1>3, <2>1, <2>3 DEF ItemsLeft
    <3> QED
      BY <3>1
  <2> QED
    BY <2>2, <2>3 DEF ItemsLeft
<1>11. FoldersStay'
  BY <1>1, <1>2 DEF FoldersStay
<1>12. LossExplained'
  BY <1>1, <1>2, LossKept
<1>13. \A e \in Entries : item' \in Above[e] => Covered(e)'
  BY <1>6 DEF Covered, Ahead
<1>14. ItemCovered'
  BY <1>13 DEF ItemCovered
<1>15. AllCovered'
  <2> SUFFICES ASSUME ~stopped, ~status_message, NEW e \in Entries, Kind[e] = "file"
               PROVE  Covered(e)' \/ \E j \in 1..Len(items') : items'[j] \in Above[e]
    BY <1>2 DEF AllCovered
  <2>1. Covered(e) \/ \E j \in 1..Len(items) : items[j] \in Above[e]
    BY <1>1 DEF AllCovered
  <2>2. CASE Covered(e)
    <3>1. Settled(e)
      BY <1>5, <2>2 DEF Covered, Ahead
    <3>2. Settled(e)'
      BY <1>2, <3>1 DEF Settled, Unlisted
    <3> QED
      BY <3>2 DEF Covered
  <2>3. ASSUME NEW j \in 1..Len(items), items[j] \in Above[e]
        PROVE  Covered(e)' \/ \E i \in 1..Len(items') : items'[i] \in Above[e]
    <3>1. CASE j = 1
      BY <1>3, <1>13, <2>3, <3>1
    <3>2. CASE j # 1
      <4>1. j - 1 \in 1..Len(items') /\ items'[j - 1] = items[j]
        BY <1>3, <3>2
      <4> QED
        BY <2>3, <4>1
    <3> QED
      BY <3>1, <3>2
  <2> QED
    BY <2>1, <2>2, <2>3
<1>16. Ends' /\ AskedFirst'
  BY <1>1, <1>2 DEF Ends, AskedFirst
<1> QED
  BY <1>8, <1>9, <1>10, <1>11, <1>12, <1>14, <1>15, <1>16 DEF PasteInv

\* The steps of the thread's loop between the items.
LEMMA LoopStep ==
  ASSUME PasteInv, pc \in {"items", "returned", "remove"}, pc' \in {"items", "remove", "done"},
         UNCHANGED <<trees, setup, stops, items, item, frames, entry, declined, accepted, unread, cut>>,
         result' = 1, status_message' \in BOOLEAN, status_message => status_message',
         pc' = "remove" => /\ pc = "returned" /\ result # 0
                           /\ handler = "web" \/ (handler = "move" /\ Kind[item] = "folder"),
         pc' = "items" => pc # "items",
         pc' = "done" => items = <<>> \/ stopped \/ status_message'
  PROVE  PasteInv'
<1>1. /\ TypeOK /\ WalkOnce /\ ItemsLeft /\ FoldersStay /\ LossExplained /\ ItemCovered
      /\ AllCovered /\ Ends
  BY DEF PasteInv
<1>2. UNCHANGED <<source, dest, handler, overwrite_type, stop_activity, stopped, items, item, frames,
                  entry, declined, accepted, unread, cut>>
  BY DEF trees, setup, stops
<1>3. ~Walking /\ ~Walking' /\ ~Handling' /\ pc' \notin FileSteps
  BY DEF Walking, Handling, FileSteps
<1>4. frames = <<>> /\ frames' = <<>> /\ Pending = {}
  BY <1>1, <1>2, <1>3, NothingPending
<1>5. Pending' = {} /\ InFrames(frames') = {} /\ Disjoint(frames')
  BY <1>3, <1>4, NoFrames DEF Pending
<1>6. TypeOK'
  <2>1. pc' \in Steps /\ pc' \notin {"walk", "returned"} /\ result' \in {0, 1, 2}
    BY DEF Steps
  <2> QED
    BY <1>1, <1>2, <2>1 DEF TypeOK
<1>7. WalkOnce'
  BY <1>3, <1>4, <1>5 DEF WalkOnce, Antichain
<1>8. ItemsLeft' /\ FoldersStay'
  BY <1>1, <1>2 DEF ItemsLeft, FoldersStay
<1>9. LossExplained'
  BY <1>1, <1>2, LossKept
<1>10. \A e \in Entries : Covered(e) => Covered(e)'
  BY <1>2, <1>4, <1>5 DEF Covered, Settled, Ahead, Unlisted
<1>11. ItemCovered' /\ AllCovered'
  <2>1. ~status_message' => ~status_message
    OBVIOUS
  <2>2. Walking' \/ pc' \in {"returned", "remove"} =>
          result # 0 /\ (Walking \/ pc \in {"returned", "remove"})
    BY <1>3
  <2> QED
    BY <1>1, <1>2, <1>10, <2>1, <2>2, CoverKept
<1>12. Ends'
  <2>1. (stop_activity' => stopped') /\ (handler' # "web" => stopped' = stop_activity')
    BY <1>1, <1>2 DEF Ends
  <2>2. pc' = "remove" => handler' = "web" \/ (handler' = "move" /\ Kind[item'] = "folder")
    BY <1>2
  <2>3. pc' = "done" => items' = <<>> \/ stopped' \/ status_message'
    BY <1>2
  <2> QED
    BY <2>1, <2>2, <2>3 DEF Ends
<1>13. AskedFirst'
  BY DEF AskedFirst
<1> QED
  BY <1>6, <1>7, <1>8, <1>9, <1>11, <1>12, <1>13 DEF PasteInv

LEMMA LoopSteps ==
  ASSUME PasteInv, Finish \/ Returned \/ RemoveEnds \/ RemoveFails
  PROVE  PasteInv'
<1>1. TypeOK /\ Ends /\ status_message \in BOOLEAN /\ handler \in {"copy", "move", "web"}
      /\ item \in Entries /\ Kind[item] \in {"file", "folder", "link"}
  BY LocalPasteAssumption, TreeFacts DEF PasteInv, TypeOK
<1>2. CASE Finish
  <2>1. /\ pc = "items" /\ pc' = "done" /\ result' = result /\ status_message' = status_message
        /\ UNCHANGED <<trees, setup, stops, items, item, frames, entry, declined, accepted, unread, cut>>
        /\ items = <<>> \/ stop_activity
    BY <1>2 DEF Finish, walk, notes
  <2>2. result' = 1 /\ (items = <<>> \/ stopped)
    BY <1>1, <2>1 DEF Ends
  <2> QED
    BY <1>1, <2>1, <2>2, LoopStep
<1>3. CASE Returned
  <2>1. /\ pc = "returned" /\ result' = 1
        /\ status_message' = (status_message \/ (handler = "web" /\ result = 0))
        /\ UNCHANGED <<trees, setup, stops, items, item, frames, entry, declined, accepted, unread, cut>>
        /\ pc' = IF handler = "copy" \/ (Kind[item] = "file") THEN "items"
                 ELSE IF handler = "move" /\ (result = 0 \/ stop_activity) THEN "done"
                 ELSE IF handler = "move" /\ Kind[item] = "link" THEN "items"
                 ELSE IF handler = "web" /\ result = 0 THEN "items"
                 ELSE "remove"
    BY <1>3 DEF Returned, ItemDone
  <2>2. pc' \in {"items", "remove", "done"}
    BY <2>1
  <2>3. pc' = "remove" => /\ result # 0
                          /\ handler = "web" \/ (handler = "move" /\ Kind[item] = "folder")
    BY <1>1, <2>1
  <2>4. pc' = "done" => stopped \/ status_message
    BY <1>1, <2>1 DEF Ends
  <2>5. status_message' \in BOOLEAN /\ (status_message => status_message')
    BY <1>1, <2>1
  <2> QED
    BY <2>1, <2>2, <2>3, <2>4, <2>5, LoopStep
<1>4. CASE RemoveEnds \/ RemoveFails
  <2>1. /\ pc = "remove" /\ pc' = "items" /\ result' = result
        /\ status_message' = status_message \/ status_message' = TRUE
        /\ UNCHANGED <<trees, setup, stops, items, item, frames, entry, declined, accepted, unread, cut>>
    BY <1>4 DEF RemoveEnds, RemoveFails, walk, notes
  <2>2. result' = 1 /\ status_message' \in BOOLEAN /\ (status_message => status_message')
    BY <1>1, <2>1 DEF Ends
  <2> QED
    BY <2>1, <2>2, LoopStep
<1> QED
  BY <1>2, <1>3, <1>4

\* FS::RmRecursive after a move: what it removes has been moved, or was declined,
\* not seen, a link, or the walk was stopped for someone else.
LEMMA RemoveStep ==
  ASSUME PasteInv, NEW e \in Entries, Remove(e)
  PROVE  PasteInv'
<1>1. /\ TypeOK /\ WalkOnce /\ ItemsLeft /\ FoldersStay /\ LossExplained /\ ItemCovered
      /\ AllCovered /\ Ends
  BY DEF PasteInv
<1>2. /\ UNCHANGED <<dest, handler, overwrite_type, stop_activity, stopped, pc, items, item, frames,
                     entry, result, status_message, declined, accepted, unread, cut>>
      /\ pc = "remove" /\ ~stop_activity /\ source[e] /\ item \in Above[e]
      /\ \A c \in Children(e) : ~source[c]
      /\ source' = [source EXCEPT ![e] = FALSE] /\ source \in [Entries -> BOOLEAN]
      /\ item \in Roots /\ item \in Entries
  BY <1>1, TreeFacts DEF Remove, setup, stops, walk, notes, TypeOK
<1>3. ~Walking /\ ~Walking' /\ ~Handling' /\ pc' \notin FileSteps
  BY <1>2 DEF Walking, Handling, FileSteps
<1>4. frames = <<>> /\ frames' = <<>> /\ Pending = {}
  BY <1>1, <1>2, <1>3, NothingPending
<1>5. Pending' = {} /\ InFrames(frames') = {} /\ Disjoint(frames')
  BY <1>3, <1>4, NoFrames DEF Pending
<1>6. source' \in [Entries -> BOOLEAN]
  BY <1>2
<1>7. TypeOK'
  BY <1>1, <1>2, <1>6 DEF TypeOK
<1>8. WalkOnce'
  BY <1>3, <1>4, <1>5 DEF WalkOnce, Antichain
<1>9. ItemsLeft'
  BY <1>1, <1>2, ItemsKept
<1>10. FoldersStay'
  BY <1>1, <1>2, FoldersKept
<1>11. LossExplained'
  <2> SUFFICES ASSUME NEW x \in Entries, Kind[x] # "folder", ~source'[x], dest[x] # "copy"
               PROVE  \/ x \in declined
                      \/ Unlisted(x)
                      \/ x \in cut
                      \/ Kind[x] = "link" /\ (x \notin Roots \/ handler = "web")
                      \/ handler = "web" /\ stopped
    BY <1>2 DEF LossExplained, Lost, Unlisted
  <2>1. CASE x # e
    <3>1. Lost(x)
      BY <1>2, <2>1 DEF Lost
    <3> QED
      BY <1>1, <3>1 DEF LossExplained
  <2>2. CASE x = e /\ Kind[e] = "link"
    <3>1. e \in Roots => item = e
      BY <1>2, TreeFacts
    <3>2. handler = "web" \/ Kind[item] = "folder"
      BY <1>1, <1>2 DEF Ends
    <3> QED
      BY <2>2, <3>1, <3>2
  <2>3. CASE x = e /\ Kind[e] = "file" /\ ~stopped
    <3>1. result # 0
      BY <1>1, <1>2 DEF Ends
    <3>2. Covered(e)
      BY <1>1, <1>2, <2>3, <3>1 DEF ItemCovered
    <3> QED
      BY <1>4, <2>3, <3>2 DEF Covered, Ahead, Settled
  <2>4. CASE stopped
    BY <1>1, <1>2, <2>4 DEF Ends
  <2> QED
    BY <2>1, <2>2, <2>3, <2>4, LocalPasteAssumption
<1>12. \A x \in Entries : Covered(x) => Covered(x)'
  BY <1>2, <1>4, <1>5 DEF Covered, Settled, Ahead, Unlisted
<1>13. ItemCovered' /\ AllCovered'
  BY <1>1, <1>2, <1>3, <1>12, CoverKept
<1>14. Ends' /\ AskedFirst'
  BY <1>1, <1>2 DEF Ends, AskedFirst
<1> QED
  BY <1>7, <1>8, <1>9, <1>10, <1>11, <1>13, <1>14 DEF PasteInv

\* A stop, the reset of a stop, or nothing.
LEMMA OthersStep ==
  ASSUME PasteInv, Cancel \/ Relaunch \/ UNCHANGED vars
  PROVE  PasteInv'
<1>1. /\ TypeOK /\ WalkOnce /\ ItemsLeft /\ FoldersStay /\ LossExplained /\ ItemCovered
      /\ AllCovered /\ Ends /\ AskedFirst
  BY DEF PasteInv
<1>2. UNCHANGED <<source, dest, handler, overwrite_type, pc, items, item, frames, entry, result,
                  status_message, declined, accepted, unread, cut>>
  BY DEF Cancel, Relaunch, vars, trees, setup, walk, notes
<1>3. /\ stop_activity \in BOOLEAN /\ stopped \in BOOLEAN
      /\ \/ stop_activity' = TRUE /\ stopped' = TRUE
         \/ stop_activity' = FALSE /\ stopped' = stopped /\ handler = "web"
         \/ stop_activity' = stop_activity /\ stopped' = stopped
  BY <1>1 DEF Cancel, Relaunch, vars, stops, TypeOK
<1>4. TypeOK'
  BY <1>1, <1>2, <1>3 DEF TypeOK
<1>5. /\ Pending' = Pending /\ (Walking <=> Walking') /\ (Handling <=> Handling')
  BY <1>2 DEF Pending, Walking, Handling
<1>6. WalkOnce'
  BY <1>1, <1>2, <1>5 DEF WalkOnce, Antichain
<1>7. ItemsLeft' /\ FoldersStay'
  BY <1>1, <1>2 DEF ItemsLeft, FoldersStay
<1>8. stopped => stopped'
  BY <1>3
<1>9. LossExplained'
  BY <1>1, <1>2, <1>8, LossKept
<1>10. \A e \in Entries : Covered(e) => Covered(e)'
  BY <1>2, <1>5 DEF Covered, Settled, Ahead, Unlisted
<1>11. ItemCovered' /\ AllCovered'
  BY <1>1, <1>2, <1>5, <1>8, <1>10, CoverKept
<1>12. Ends'
  <2>1. stop_activity' => stopped'
    BY <1>1, <1>3 DEF Ends
  <2>2. handler' # "web" => stopped' = stop_activity'
    BY <1>1, <1>2, <1>3 DEF Ends
  <2> QED
    BY <1>1, <1>2, <1>8, <2>1, <2>2 DEF Ends
<1>13. AskedFirst'
  BY <1>1, <1>2 DEF AskedFirst, FileThere, FolderThere
<1> QED
  BY <1>4, <1>6, <1>7, <1>9, <1>11, <1>12, <1>13 DEF PasteInv

LEMMA PasteInit == Init => PasteInv
<1> SUFFICES ASSUME Init
             PROVE  PasteInv
  OBVIOUS
<1>1. /\ Selection \in Seq(Roots) /\ Selection[1] \in Roots
      /\ \A r \in Roots : \E i \in 1..Len(Selection) : r = Selection[i]
      /\ \A i \in 1..Len(Selection) : Selection[i] \in Roots
      /\ \A i, j \in 1..Len(Selection) : Selection[i] = Selection[j] => i = j
  <2>1. Selection \in Seq(Entries \ Hidden) /\ Selection # <<>> /\ Len(Selection) \in Nat
        /\ DOMAIN Selection = 1..Len(Selection)
    BY LocalPasteAssumption
  <2>2. \A i \in 1..Len(Selection) : Selection[i] \in Roots
    BY <2>1 DEF Roots
  <2>3. 1 \in 1..Len(Selection)
    BY <2>1, EmptySeq
  <2>4. Selection \in Seq(Roots)
    BY <2>1, <2>2
  <2>5. \A r \in Roots : \E i \in 1..Len(Selection) : r = Selection[i]
    BY <2>1 DEF Roots
  <2>6. \A i, j \in 1..Len(Selection) : Selection[i] = Selection[j] => i = j
    BY <2>1, LocalPasteAssumption
  <2> QED
    BY <2>2, <2>3, <2>4, <2>5, <2>6
<1>2. /\ source = [e \in Entries |-> TRUE] /\ pc = "items" /\ items = Selection
      /\ item = Selection[1] /\ entry = item /\ frames = <<>> /\ result = 1
      /\ status_message = FALSE /\ declined = {} /\ accepted = {} /\ unread = {}
      /\ cut = {}
      /\ stopped = stop_activity /\ stop_activity \in BOOLEAN
      /\ handler \in Handlers
  BY DEF Init
<1>3. dest \in [Entries -> Held] /\ overwrite_type \in {"NONE", "PROMPT", "ALL"}
  BY DEF Init, Held
<1>4. TypeOK
  <2>1. frames \in Seq(SUBSET (Entries \ Roots)) /\ item \in Roots /\ entry \in Entries
        /\ pc \in Steps /\ items \in Seq(Roots)
    BY <1>1, <1>2, TreeFacts DEF Steps
  <2>2. source \in [Entries -> BOOLEAN]
    BY <1>2
  <2> QED
    BY <1>2, <1>3, <2>1, <2>2 DEF TypeOK
<1>5. ~Handling /\ ~Walking /\ pc \notin FileSteps
  BY <1>2 DEF Handling, Walking, FileSteps
<1>6. Pending = {} /\ InFrames(frames) = {} /\ Disjoint(frames)
  BY <1>2, <1>5, NoFrames DEF Pending
<1>7. WalkOnce
  BY <1>2, <1>5, <1>6 DEF WalkOnce, Antichain
<1>8. ItemsLeft
  BY <1>1, <1>2, TreeFacts DEF ItemsLeft
<1>9. FoldersStay /\ LossExplained
  BY <1>2, TreeFacts DEF FoldersStay, LossExplained, Lost
<1>10. ItemCovered
  BY <1>2, <1>5 DEF ItemCovered
<1>11. AllCovered
  <2> SUFFICES ASSUME NEW e \in Entries
               PROVE  \E j \in 1..Len(items) : items[j] \in Above[e]
    BY DEF AllCovered
  <2>1. PICK r \in Roots : r \in Above[e]
    BY TreeFacts
  <2>2. PICK i \in 1..Len(Selection) : r = Selection[i]
    BY <1>1
  <2> QED
    BY <1>2, <2>1, <2>2
<1>12. Ends /\ AskedFirst
  BY <1>2 DEF Ends, AskedFirst
<1> QED
  BY <1>4, <1>7, <1>8, <1>9, <1>10, <1>11, <1>12 DEF PasteInv

LEMMA PasteStep == PasteInv /\ [Next]_vars => PasteInv'
<1> SUFFICES ASSUME PasteInv, [Next]_vars
             PROVE  PasteInv'
  OBVIOUS
<1>1. CASE NextItem
  BY <1>1, NextItemStep
<1>2. CASE Finish \/ Returned \/ RemoveEnds \/ RemoveFails
  BY <1>2, LoopSteps
<1>3. CASE EnterStopped \/ EnterFolderFails \/ \E e \in Entries : WalkFolderFails(e)
  BY <1>3, EarlyReturns
<1>4. CASE EnterFolder
  BY <1>4, EnterFolderStep
<1>5. CASE LeaveFolder
  BY <1>5, LeaveFolderStep
<1>6. CASE \E e \in Entries : WalkFile(e) \/ WalkFolder(e)
  BY <1>6, TakeStep
<1>7. CASE EnterFile \/ Prompt \/ MayTransfer \/ AnswerYes \/ BeginCopy
  BY <1>7, FileGoesOn
<1>8. CASE \/ DontOverwrite \/ FileOverFolder \/ AnswerNo \/ Rename \/ TransferFails
           \/ EndCopy \/ CopyFails \/ CopyCut \/ ReadlinkFails
  BY <1>8, FileEnds
<1>9. CASE \E e \in Entries : Remove(e)
  BY <1>9, RemoveStep
<1>10. CASE Cancel \/ Relaunch \/ UNCHANGED vars
  BY <1>10, OthersStep
<1> QED
  BY <1>1, <1>2, <1>3, <1>4, <1>5, <1>6, <1>7, <1>8, <1>9, <1>10 DEF Next, Thread, User

-------------------------------------------------------------------------------
(* The theorems.                                                           *)

\* The walk takes each entry once, loses sight of no file without a stop or a
\* reported failure, and asks before it touches a file (CopyOrMove).  A failure is
\* reported when a call returns it; a copy that is not whole and returns success is
\* kept in cut.
THEOREM PasteInvariant == Spec => []PasteInv
<1> QED
  BY PasteInit, PasteStep, PTL DEF Spec

\* Type correctness of the paste thread and of the web server's move.
THEOREM TypeCorrect == Spec => []TypeOK
<1>1. PasteInv => TypeOK
  BY DEF PasteInv
<1> QED
  BY <1>1, PasteInvariant, PTL

\* No move of any trees loses a file, whatever fails and whenever it is cancelled,
\* other than in the cases LossExplained names (CopyOrMove and FS::RmRecursive).
THEOREM LossIsExplained == Spec => []LossExplained
<1>1. PasteInv => LossExplained
  BY DEF PasteInv
<1> QED
  BY <1>1, PasteInvariant, PTL

\* A copy or move of any trees that ends without a reported failure and without a
\* stop has transferred every file it listed.
THEOREM CompleteOrReported == Spec => []CompleteUnlessReported
<1>1. PasteInv => CompleteUnlessReported
  <2> SUFFICES ASSUME PasteInv, pc = "done", ~status_message, ~stopped,
                      NEW e \in Entries, Kind[e] = "file", ~Unlisted(e), e \notin declined \cup cut
               PROVE  dest[e] = "copy"
    BY DEF CompleteUnlessReported
  <2>1. ~Walking
    BY DEF Walking, FileSteps
  <2>2. Pending = {}
    BY <2>1, NothingPending DEF PasteInv
  <2>3. items = <<>>
    BY DEF PasteInv, Ends
  <2>4. Covered(e)
    BY <2>3 DEF PasteInv, AllCovered
  <2> QED
    BY <2>2, <2>4 DEF Covered, Ahead, Settled
<1> QED
  BY <1>1, PasteInvariant, PTL

\* What one step may do to a destination.
Kept ==
  \A e \in Entries :
    /\ dest[e] = "other file" /\ dest'[e] # "other file" =>
         overwrite_type = "ALL" \/ e \in accepted
    /\ dest[e] \in {"folder", "other folder"} => dest'[e] = dest[e]

\* In a copy or move of any trees a file that was at a destination is overwritten
\* only if the mode says so or the user agreed to that very file, and a folder
\* there is never replaced (CopyOrMoveLocalFile).
THEOREM OthersAreKept == Spec => OthersKept
<1>1. PasteInv /\ [Next]_vars => Kept
  <2> SUFFICES ASSUME PasteInv, [Next]_vars
               PROVE  Kept
    OBVIOUS
  <2>1. dest \in [Entries -> Held] /\ AskedFirst
    BY DEF PasteInv, TypeOK
  <2>2. CASE dest' = dest
    BY <2>2 DEF Kept
  <2>3. ASSUME NEW x \in Entries,
               dest' = [dest EXCEPT ![x] = IF @ = "absent" THEN "folder" ELSE @]
        PROVE  Kept
    BY <2>1, <2>3 DEF Kept
  <2>4. CASE EnterFolder
    BY <2>3, <2>4 DEF EnterFolder, PasteInv, TypeOK
  <2>5. CASE \E e \in Entries : WalkFolder(e)
    BY <2>3, <2>5 DEF WalkFolder
  <2>6. CASE Rename \/ BeginCopy
    <3>1. /\ pc = "transfer" /\ entry \in Entries
          /\ \A e \in Entries : e # entry => dest'[e] = dest[e]
      BY <2>1, <2>6 DEF Rename, BeginCopy, PasteInv, TypeOK
    <3>2. /\ dest[entry] \notin {"folder", "other folder"}
          /\ dest[entry] = "other file" => overwrite_type = "ALL" \/ entry \in accepted
      BY <2>1, <3>1 DEF AskedFirst, FolderThere, FileThere
    <3> QED
      BY <3>1, <3>2 DEF Kept
  <2>7. CASE EndCopy
    <3>1. /\ pc = "copy" /\ \A e \in Entries : e # entry => dest'[e] = dest[e]
      BY <2>1, <2>7 DEF EndCopy
    <3>2. dest[entry] \in {"part", "absent"}
      BY <2>1, <3>1 DEF AskedFirst
    <3> QED
      BY <3>1, <3>2 DEF Kept
  <2>8. CASE \/ NextItem \/ Finish \/ EnterStopped \/ EnterFile \/ EnterFolderFails
             \/ LeaveFolder \/ \E e \in Entries : WalkFile(e) \/ WalkFolderFails(e) \/ Remove(e)
             \/ Prompt \/ DontOverwrite \/ FileOverFolder \/ MayTransfer \/ TransferFails
             \/ CopyFails \/ CopyCut \/ ReadlinkFails \/ Returned \/ RemoveEnds \/ RemoveFails \/ AnswerYes \/ AnswerNo
             \/ Cancel \/ Relaunch \/ UNCHANGED vars
    <3>1. dest' = dest
      BY <2>8
      DEF NextItem, Finish, EnterStopped, EnterFile, EnterFolderFails, LeaveFolder, WalkFile,
          WalkFolderFails, Remove, Prompt, DontOverwrite, FileOverFolder, MayTransfer,
          TransferFails, CopyFails, CopyReturns, CopyCut, ReadlinkFails, CopiesNotWhole, Returned, ItemDone, RemoveEnds, RemoveFails,
          AnswerYes, AnswerNo, Cancel, Relaunch, vars, trees
    <3> QED
      BY <2>2, <3>1
  <2> QED
    BY <2>4, <2>5, <2>6, <2>7, <2>8 DEF Next, Thread, User
<1>2. Spec => [][Kept]_vars
  BY <1>1, PasteInvariant, PTL DEF Spec
<1> QED
  BY <1>2 DEF OthersKept, Kept
===============================================================================
