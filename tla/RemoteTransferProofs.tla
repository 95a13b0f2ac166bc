------------------------- MODULE RemoteTransferProofs -------------------------
(***************************************************************************)
(* Proofs about RemoteTransfer, for any tree, selection, locked folders    *)
(* and depth: what a walk that ends without a message has dealt with, and  *)
(* what it has left alone, whatever the server lists.                      *)
(***************************************************************************)
EXTENDS RemoteTransfer, SequenceTheorems, TLAPS

-------------------------------------------------------------------------------
(* The inductive invariant.                                                *)

Paths == Seq(STRING) \ {<<>>}
EntryType == [path : Paths, dir : BOOLEAN]
Frame == [path : Paths, left : SUBSET EntryType]

\* p is below a folder whose listing was another's; only a client that uses the
\* server's directory (astray) gets there.
Below(p, listedWrong, astray) ==
  astray /\ \E directory \in listedWrong : Under(directory, p)

\* A folder is one of the tree, or the walk has gone astray above it.
SoundFolder(path, listedWrong, astray) ==
  /\ path \in Dirs \/ Below(path, listedWrong, astray)
  /\ InSelection(path)

\* An entry is in its folder, and is what the listing says it is unless the
\* walk is astray.
SoundEntry(entry, directory, listedWrong, astray) ==
  /\ Front(entry.path) = directory
  /\ \/ entry.path \in IF entry.dir THEN Dirs ELSE Files
     \/ Below(entry.path, listedWrong, astray)

SoundFrame(frame, listedWrong, astray) ==
  /\ SoundFolder(frame.path, listedWrong, astray)
  /\ \A entry \in frame.left : SoundEntry(entry, frame.path, listedWrong, astray)

\* The calls under way are a chain of folders.
SoundStack(calls, listedWrong, astray) ==
  /\ calls \in Seq(Frame)
  /\ \A i \in 1..Len(calls) : SoundFrame(calls[i], listedWrong, astray)
  /\ \A i \in 2..Len(calls) : Front(calls[i].path) = calls[i - 1].path

\* What a removed folder had in it is gone, and only the walk has removed files.
TreeKept ==
  /\ \A directory \in Dirs \ dirs : \A p \in dirs \cup files : ~Under(directory, p)
  /\ Files \subseteq files \cup moved \cup Hidden

\* Nothing more to do with f, or it is in what the calls and the thread have yet
\* to do.
Dealt(f) ==
  \/ f \in moved \cup kept \cup partial
  \/ f \in Hidden \ ShownFiles
  \/ \E directory \in unread \cup partial : Under(directory, f)

Ahead(f, calls, selected) ==
  \/ \E j \in 1..Len(selected) : IsPrefix(selected[j], f)
  \/ \E i \in 1..Len(calls) : \E entry \in calls[i].left : IsPrefix(entry.path, f)

NothingForgotten ==
  ~stop /\ ~status =>
    \A f \in Files : InSelection(f) => Dealt(f) \/ Ahead(f, stack, items)

\* A selected folder that is still there is yet to be removed.
FolderAhead(folder, calls, selected) ==
  \/ \E j \in 1..Len(selected) : selected[j] = folder
  \/ calls # <<>> /\ calls[1].path = folder

FoldersAhead ==
  kind = "remove" /\ client \in {"smb", "nfs"} /\ ~stop /\ ~status =>
    \A i \in 1..Len(Selection) :
      Selection[i] \in dirs => FolderAhead(Selection[i], stack, items)

\* The thread is between two items, or in a folder.
Place ==
  /\ pc \in {"next", "walk", "done", "crashed"}
  /\ pc \in {"next", "done"} => stack = <<>>
  /\ pc = "walk" => stack # <<>>
  /\ pc = "done" => items = <<>>

Typed ==
  /\ kind \in {"download", "upload", "copy", "remove"}
  /\ client \in {"ftp", "sftp", "smb", "nfs", "webdav"} /\ mode \in {"prompt", "none", "all"}
  /\ locked \subseteq Dirs /\ dirs \subseteq Dirs /\ files \subseteq Files /\ dest \subseteq Files
  /\ cwd \in Dirs \cup {<<>>} /\ connected \in BOOLEAN
  /\ stop \in BOOLEAN /\ status \in BOOLEAN
  /\ moved \subseteq Files /\ kept \subseteq Files /\ unread \subseteq Paths
  /\ partial \subseteq Paths

\* What holds whatever becomes of the calls.
TreeInv ==
  /\ Typed
  /\ items \in Seq(Dirs \cup Files) /\ IsSuffix(items, Selection)
  /\ TreeKept
  /\ OnlySelection

WalkInv ==
  /\ TreeInv
  /\ Place
  /\ SoundStack(stack, unread, UsesCwd)
  /\ NothingForgotten
  /\ FoldersAhead

-------------------------------------------------------------------------------
(* Paths.                                                                  *)

\* A prefix agrees with the longer path wherever it has a name.
LEMMA PrefixElements ==
  ASSUME NEW S, NEW s \in Seq(S), NEW t \in Seq(S)
  PROVE  IsPrefix(s, t) <=> Len(s) <= Len(t) /\ \A i \in 1..Len(s) : s[i] = t[i]
<1>1. Len(s) \in Nat /\ Len(t) \in Nat
  OBVIOUS
<1>2. CASE Len(s) <= Len(t)
  <2>1. SubSeq(s, 1, Len(s)) = s
    BY SubSeqFull
  <2>2. \A i \in 1..Len(s) : t[i] \in S
    BY <1>1, <1>2
  <2>3. /\ SubSeq(t, 1, Len(s)) \in Seq(S) /\ Len(SubSeq(t, 1, Len(s))) = Len(s)
        /\ \A i \in 1..Len(s) : SubSeq(t, 1, Len(s))[i] = t[i]
    BY <1>1, <2>2, SubSeqProperties
  <2>4. s = SubSeq(t, 1, Len(s)) <=> \A i \in 1..Len(s) : s[i] = t[i]
    BY <2>3, SeqEqual
  <2> QED
    BY <1>2, <2>1, <2>4 DEF IsPrefix
<1> QED
  BY <1>2 DEF IsPrefix

\* A strict prefix is shorter.
LEMMA UnderIsShorter ==
  ASSUME NEW S, NEW s \in Seq(S), NEW t \in Seq(S)
  PROVE  /\ Under(s, t) <=> IsPrefix(s, t) /\ Len(s) < Len(t)
         /\ IsPrefix(s, t) <=> Under(s, t) \/ s = t
<1>1. Len(s) \in Nat /\ Len(t) \in Nat
  OBVIOUS
<1>2. IsPrefix(s, t) /\ Len(s) = Len(t) => s = t
  BY PrefixElements, SeqEqual
<1>3. IsPrefix(s, s)
  BY <1>1, PrefixElements
<1> QED
  BY <1>1, <1>2, <1>3, PrefixElements DEF Under, IsStrictPrefix

\* A prefix of a prefix is one, and a strict one if either is.
LEMMA PrefixTransitive ==
  ASSUME NEW S, NEW s \in Seq(S), NEW t \in Seq(S), NEW u \in Seq(S)
  PROVE  /\ IsPrefix(s, t) /\ IsPrefix(t, u) => IsPrefix(s, u)
         /\ IsPrefix(s, t) /\ Under(t, u) => Under(s, u)
         /\ Under(s, t) /\ IsPrefix(t, u) => Under(s, u)
<1>1. Len(s) \in Nat /\ Len(t) \in Nat /\ Len(u) \in Nat
  OBVIOUS
<1>2. ASSUME IsPrefix(s, t), IsPrefix(t, u)
      PROVE  IsPrefix(s, u)
  <2>1. Len(s) <= Len(t) /\ \A i \in 1..Len(s) : s[i] = t[i]
    BY <1>2, PrefixElements
  <2>2. Len(t) <= Len(u) /\ \A i \in 1..Len(t) : t[i] = u[i]
    BY <1>2, PrefixElements
  <2>3. Len(s) <= Len(u) /\ \A i \in 1..Len(s) : s[i] = u[i]
    BY <1>1, <2>1, <2>2
  <2> QED
    BY <2>3, PrefixElements
<1>3. /\ IsPrefix(s, t) => Len(s) <= Len(t)
      /\ IsPrefix(t, u) => Len(t) <= Len(u)
  BY PrefixElements
<1>4. /\ Under(s, t) <=> IsPrefix(s, t) /\ Len(s) < Len(t)
      /\ Under(t, u) <=> IsPrefix(t, u) /\ Len(t) < Len(u)
      /\ Under(s, u) <=> IsPrefix(s, u) /\ Len(s) < Len(u)
  BY UnderIsShorter
<1> QED
  BY <1>1, <1>2, <1>3, <1>4

\* A path without its last name.
LEMMA FrontOfPath ==
  ASSUME NEW S, NEW p \in Seq(S), p # <<>>
  PROVE  /\ Front(p) \in Seq(S) /\ Len(Front(p)) = Len(p) - 1 /\ Last(p) \in S
         /\ \A i \in 1..Len(p) - 1 : Front(p)[i] = p[i]
         /\ Under(Front(p), p)
<1>1. Len(p) \in Nat /\ Len(p) > 0
  BY EmptySeq
<1> DEFINE n == Len(p) - 1
<1>2. /\ n \in Nat /\ n + 1 = Len(p) /\ Front(p) = SubSeq(p, 1, n)
      /\ \A i \in 1..n : p[i] \in S
  BY <1>1 DEF Front
<1> HIDE DEF n
<1>3. /\ Front(p) \in Seq(S) /\ Len(Front(p)) = n
      /\ \A i \in 1..n : Front(p)[i] = p[i]
  BY <1>2, SubSeqProperties
<1>4. /\ Len(Front(p)) <= Len(p) /\ Len(Front(p)) < Len(p)
      /\ \A i \in 1..Len(Front(p)) : Front(p)[i] = p[i]
  BY <1>1, <1>2, <1>3
<1>5. Under(Front(p), p)
  <2>1. IsPrefix(Front(p), p)
    BY <1>3, <1>4, PrefixElements
  <2> QED
    BY <1>3, <1>4, <2>1, UnderIsShorter
<1>6. Last(p) \in S
  BY <1>1 DEF Last
<1> QED
  BY <1>3, <1>5, <1>6 DEF n

\* A name put behind a path.
LEMMA AppendToPath ==
  ASSUME NEW S, NEW path \in Seq(S), NEW name \in S
  PROVE  /\ Append(path, name) \in Seq(S) /\ Append(path, name) # <<>>
         /\ Len(Append(path, name)) = Len(path) + 1
         /\ Front(Append(path, name)) = path /\ Last(Append(path, name)) = name
<1>1. /\ Append(path, name) \in Seq(S) /\ Len(path) \in Nat
      /\ Len(Append(path, name)) = Len(path) + 1
      /\ \A i \in 1..Len(path) : Append(path, name)[i] = path[i]
      /\ Append(path, name)[Len(path) + 1] = name
  OBVIOUS
<1>2. Append(path, name) # <<>>
  BY <1>1, EmptySeq
<1>6. Len(Append(path, name)) - 1 = Len(path)
  BY <1>1
<1>3. /\ Front(Append(path, name)) \in Seq(S)
      /\ Len(Front(Append(path, name))) = Len(path)
      /\ \A i \in 1..Len(path) : Front(Append(path, name))[i] = Append(path, name)[i]
  BY <1>1, <1>2, <1>6, FrontOfPath
<1>4. Front(Append(path, name)) = path
  BY <1>1, <1>3, SeqEqual
<1>5. Last(Append(path, name)) = name
  BY <1>1 DEF Last
<1> QED
  BY <1>1, <1>2, <1>4, <1>5

\* What is directly below a folder is the folder's path with a name behind it.
LEMMA ChildPath ==
  ASSUME NEW S, NEW directory \in Seq(S), NEW p \in Seq(S),
         Under(directory, p), Len(p) = Len(directory) + 1
  PROVE  Append(directory, Last(p)) = p
<1>1. Len(p) \in Nat /\ Len(directory) \in Nat
  OBVIOUS
<1>2. p # <<>> /\ Last(p) \in S /\ Last(p) = p[Len(p)]
  BY <1>1, EmptySeq DEF Last
<1>3. \A i \in 1..Len(directory) : directory[i] = p[i]
  BY PrefixElements, UnderIsShorter
<1>4. /\ Append(directory, Last(p)) \in Seq(S) /\ Len(Append(directory, Last(p))) = Len(p)
      /\ \A i \in 1..Len(p) : Append(directory, Last(p))[i] = p[i]
  BY <1>1, <1>2, <1>3
<1> QED
  BY <1>4, SeqEqual

\* The entry of a folder that leads to a path below it.
LEMMA EntryTowards ==
  ASSUME NEW S, NEW directory \in Seq(S), NEW f \in Seq(S), Under(directory, f)
  PROVE  LET c == SubSeq(f, 1, Len(directory) + 1)
         IN /\ c \in Seq(S) /\ Len(c) = Len(directory) + 1
            /\ Under(directory, c) /\ IsPrefix(c, f)
            /\ c = f \/ Len(directory) + 1 \in 1..Len(f) - 1
<1> DEFINE n == Len(directory) + 1
           c == SubSeq(f, 1, n)
<1>1. Len(f) \in Nat /\ Len(directory) \in Nat /\ Len(directory) < Len(f)
  BY UnderIsShorter
<1>2. \A i \in 1..n : f[i] \in S
  BY <1>1
<1>3. c \in Seq(S) /\ Len(c) = n /\ \A i \in 1..n : c[i] = f[i]
  BY <1>1, <1>2, SubSeqProperties
<1> HIDE DEF c
<1>4. \A i \in 1..Len(directory) : directory[i] = f[i]
  BY PrefixElements, UnderIsShorter
<1>5. IsPrefix(c, f)
  BY <1>1, <1>3, PrefixElements
<1>6. IsPrefix(directory, c)
  BY <1>1, <1>3, <1>4, PrefixElements
<1>7. Under(directory, c)
  BY <1>1, <1>3, <1>6, UnderIsShorter
<1>8. c = f \/ n \in 1..Len(f) - 1
  <2>1. CASE n = Len(f)
    BY <1>3, <2>1, SeqEqual
  <2>2. CASE n # Len(f)
    BY <1>1, <2>2
  <2> QED
    BY <2>1, <2>2
<1> QED
  BY <1>3, <1>5, <1>7, <1>8 DEF c

\* Every path of the tree is one, and nothing is below a file.
LEMMA TreePaths ==
  /\ Dirs \subseteq Paths /\ Files \subseteq Paths
  /\ \A f \in Files, p \in Dirs \cup Files : IsPrefix(f, p) => f = p
  /\ \A p \in Dirs, f \in Files : IsPrefix(p, f) => Under(p, f)
<1>1. Dirs \subseteq Paths /\ Files \subseteq Paths
  BY WalkAssumption DEF Paths
<1>2. ASSUME NEW f \in Files, NEW p \in Dirs \cup Files, IsPrefix(f, p)
      PROVE  f = p
  <2>1. f \in Seq(STRING) /\ p \in Seq(STRING) /\ f # <<>>
    BY WalkAssumption
  <2>2. SUFFICES ASSUME f # p
                 PROVE  FALSE
    OBVIOUS
  <2>3. Len(f) \in Nat /\ Len(p) \in Nat /\ Len(f) # 0 /\ Len(f) < Len(p)
    BY <1>2, <2>1, <2>2, UnderIsShorter, EmptySeq
  <2>4. SubSeq(p, 1, Len(f)) = f
    BY <1>2, <2>1, SubSeqFull DEF IsPrefix
  <2>5. Len(f) \in 1..Len(p) - 1
    BY <2>3
  <2>6. f \in Dirs
    BY <2>4, <2>5, WalkAssumption
  <2> QED
    BY <2>6, WalkAssumption
<1>3. ASSUME NEW p \in Dirs, NEW f \in Files, IsPrefix(p, f)
      PROVE  Under(p, f)
  BY <1>3, WalkAssumption DEF Under, IsStrictPrefix
<1> QED
  BY <1>1, <1>2, <1>3

-------------------------------------------------------------------------------
(* The calls under way.                                                    *)

\* The caller's calls, and the call itself.
LEMMA CallsParts ==
  ASSUME NEW calls \in Seq(Frame), calls # <<>>
  PROVE  /\ Front(calls) \in Seq(Frame) /\ Len(Front(calls)) = Len(calls) - 1
         /\ Len(calls) \in Nat /\ Len(calls) > 0
         /\ \A i \in 1..Len(calls) - 1 : Front(calls)[i] = calls[i]
         /\ Last(calls) = calls[Len(calls)] /\ Last(calls) \in Frame
<1>1. Len(calls) \in Nat /\ Len(calls) > 0
  BY EmptySeq
<1> QED
  BY <1>1, FrontOfPath DEF Last

\* A call more.
LEMMA CallAdded ==
  ASSUME NEW calls \in Seq(Frame), NEW frame \in Frame
  PROVE  /\ Append(calls, frame) \in Seq(Frame) /\ Append(calls, frame) # <<>>
         /\ Len(calls) \in Nat /\ Len(Append(calls, frame)) = Len(calls) + 1
         /\ \A i \in 1..Len(calls) : Append(calls, frame)[i] = calls[i]
         /\ Append(calls, frame)[Len(calls) + 1] = frame
         /\ Last(Append(calls, frame)) = frame /\ Front(Append(calls, frame)) = calls
<1>1. Len(calls) \in Nat
  OBVIOUS
<1> QED
  BY <1>1, AppendToPath

\* Folders listed wrongly only become more.
LEMMA SoundMore ==
  ASSUME NEW listedWrong, NEW more, listedWrong \subseteq more, NEW astray,
         NEW calls, SoundStack(calls, listedWrong, astray)
  PROVE  SoundStack(calls, more, astray)
<1>1. ASSUME NEW p, Below(p, listedWrong, astray)
      PROVE  Below(p, more, astray)
  BY <1>1 DEF Below
<1>2. ASSUME NEW frame, SoundFrame(frame, listedWrong, astray)
      PROVE  SoundFrame(frame, more, astray)
  BY <1>1, <1>2 DEF SoundFrame, SoundFolder, SoundEntry
<1> QED
  BY <1>2 DEF SoundStack

\* No call is under way.
LEMMA SoundEmpty ==
  ASSUME NEW listedWrong, NEW astray
  PROVE  SoundStack(<<>>, listedWrong, astray)
BY EmptySeq DEF SoundStack

\* A call returns.
LEMMA SoundReturn ==
  ASSUME NEW listedWrong, NEW astray, NEW calls, calls # <<>>,
         SoundStack(calls, listedWrong, astray)
  PROVE  SoundStack(Front(calls), listedWrong, astray)
<1>1. calls \in Seq(Frame)
  BY DEF SoundStack
<1>2. /\ Front(calls) \in Seq(Frame) /\ Len(Front(calls)) = Len(calls) - 1
      /\ Len(calls) \in Nat /\ Len(calls) > 0
      /\ \A i \in 1..Len(calls) - 1 : Front(calls)[i] = calls[i]
  BY <1>1, CallsParts
<1>3. \A i \in 1..Len(Front(calls)) : SoundFrame(Front(calls)[i], listedWrong, astray)
  BY <1>2 DEF SoundStack
<1>4. \A i \in 2..Len(Front(calls)) : Front(Front(calls)[i].path) = Front(calls)[i - 1].path
  <2>1. TAKE i \in 2..Len(Front(calls))
  <2>2. i \in 2..Len(calls) /\ i \in 1..Len(calls) - 1 /\ i - 1 \in 1..Len(calls) - 1
    BY <1>2
  <2>3. Front(calls[i].path) = calls[i - 1].path
    BY <2>2 DEF SoundStack
  <2> QED
    BY <1>2, <2>2, <2>3
<1> QED
  BY <1>2, <1>3, <1>4 DEF SoundStack

\* A folder of the last call is entered.
LEMMA SoundCall ==
  ASSUME NEW listedWrong, NEW astray, NEW calls, NEW frame \in Frame,
         SoundStack(calls, listedWrong, astray), SoundFrame(frame, listedWrong, astray),
         calls # <<>> => Front(frame.path) = Last(calls).path
  PROVE  SoundStack(Append(calls, frame), listedWrong, astray)
<1> DEFINE longer == Append(calls, frame)
<1>1. calls \in Seq(Frame)
  BY DEF SoundStack
<1>2. /\ longer \in Seq(Frame) /\ Len(calls) \in Nat /\ Len(longer) = Len(calls) + 1
      /\ \A i \in 1..Len(calls) : longer[i] = calls[i]
      /\ longer[Len(calls) + 1] = frame
  BY <1>1, CallAdded
<1> HIDE DEF longer
<1>3. \A i \in 1..Len(longer) : SoundFrame(longer[i], listedWrong, astray)
  <2>1. TAKE i \in 1..Len(longer)
  <2>2. CASE i \in 1..Len(calls)
    BY <1>2, <2>2 DEF SoundStack
  <2>3. CASE i = Len(calls) + 1
    BY <1>2, <2>3
  <2> QED
    BY <1>2, <2>2, <2>3
<1>4. \A i \in 2..Len(longer) : Front(longer[i].path) = longer[i - 1].path
  <2>1. TAKE i \in 2..Len(longer)
  <2>2. CASE i \in 2..Len(calls)
    <3>1. i \in 1..Len(calls) /\ i - 1 \in 1..Len(calls)
      BY <1>2, <2>2
    <3>2. Front(calls[i].path) = calls[i - 1].path
      BY <2>2 DEF SoundStack
    <3> QED
      BY <1>2, <3>1, <3>2
  <2>3. CASE i = Len(calls) + 1
    <3>1. i - 1 = Len(calls) /\ Len(calls) \in 1..Len(calls)
      BY <1>2, <2>1, <2>3
    <3>2. calls # <<>>
      BY <1>2, <3>1
    <3>3. Last(calls) = calls[Len(calls)]
      BY DEF Last
    <3>4. longer[i] = frame /\ longer[i - 1] = calls[Len(calls)]
      BY <1>2, <2>3, <3>1
    <3> QED
      BY <3>2, <3>3, <3>4
  <2> QED
    BY <1>2, <2>1, <2>2, <2>3
<1> QED
  BY <1>2, <1>3, <1>4 DEF SoundStack, longer

\* The calls once the loop of the last one has taken an entry.
AfterTake(calls, entry) ==
  Append(Front(calls), [Last(calls) EXCEPT !.left = @ \ {entry}])

\* Taking an entry leaves the folder and the other entries.
LEMMA FrameAfterTake ==
  ASSUME NEW frame \in Frame, NEW entry
  PROVE  /\ [frame EXCEPT !.left = @ \ {entry}] \in Frame
         /\ [frame EXCEPT !.left = @ \ {entry}].path = frame.path
         /\ [frame EXCEPT !.left = @ \ {entry}].left = frame.left \ {entry}
BY DEF Frame

\* The loop of the last call takes an entry.
LEMMA SoundTake ==
  ASSUME NEW listedWrong, NEW astray, NEW calls, calls # <<>>, NEW entry,
         SoundStack(calls, listedWrong, astray)
  PROVE  /\ SoundStack(AfterTake(calls, entry), listedWrong, astray)
         /\ Last(AfterTake(calls, entry)).path = Last(calls).path
         /\ AfterTake(calls, entry) # <<>>
         /\ AfterTake(calls, entry)[1].path = calls[1].path
<1> DEFINE frame == [Last(calls) EXCEPT !.left = @ \ {entry}]
<1>1. calls \in Seq(Frame)
  BY DEF SoundStack
<1>2. /\ Front(calls) \in Seq(Frame) /\ Len(Front(calls)) = Len(calls) - 1
      /\ Len(calls) \in Nat /\ Len(calls) > 0
      /\ \A i \in 1..Len(calls) - 1 : Front(calls)[i] = calls[i]
      /\ Last(calls) = calls[Len(calls)] /\ Last(calls) \in Frame
  BY <1>1, CallsParts
<1>3. frame \in Frame /\ frame.path = Last(calls).path /\ frame.left = Last(calls).left \ {entry}
  BY <1>2, FrameAfterTake
<1>4. SoundFrame(Last(calls), listedWrong, astray)
  BY <1>2 DEF SoundStack
<1> HIDE DEF frame
<1>5. SoundFrame(frame, listedWrong, astray)
  BY <1>3, <1>4 DEF SoundFrame
<1>6. SoundStack(Front(calls), listedWrong, astray)
  BY SoundReturn
<1>7. ASSUME Front(calls) # <<>>
      PROVE  Front(frame.path) = Last(Front(calls)).path
  <2>1. /\ Last(Front(calls)) = Front(calls)[Len(Front(calls))]
        /\ Len(Front(calls)) > 0
    BY <1>2, <1>7, CallsParts
  <2>2. Len(calls) \in 2..Len(calls) /\ Len(calls) - 1 \in 1..Len(calls) - 1
    BY <1>2, <2>1
  <2>3. Front(calls[Len(calls)].path) = calls[Len(calls) - 1].path
    BY <2>2 DEF SoundStack
  <2>4. Last(Front(calls)) = calls[Len(calls) - 1]
    BY <1>2, <2>1, <2>2
  <2> QED
    BY <1>2, <1>3, <2>3, <2>4
<1>8. SoundStack(Append(Front(calls), frame), listedWrong, astray)
  BY <1>3, <1>5, <1>6, <1>7, SoundCall
<1>9. AfterTake(calls, entry) = Append(Front(calls), frame)
  BY DEF AfterTake, frame
<1>10. /\ Append(Front(calls), frame) # <<>> /\ Last(Append(Front(calls), frame)) = frame
       /\ \A i \in 1..Len(calls) - 1 : Append(Front(calls), frame)[i] = calls[i]
       /\ Append(Front(calls), frame)[Len(calls) - 1 + 1] = frame
  BY <1>2, <1>3, CallAdded
<1>11. Append(Front(calls), frame)[1].path = calls[1].path
  <2>1. CASE Len(calls) = 1
    <3>1. Append(Front(calls), frame)[1] = frame
      BY <1>10, <2>1
    <3> QED
      BY <1>2, <1>3, <2>1, <3>1
  <2>2. CASE Len(calls) # 1
    <3>1. 1 \in 1..Len(calls) - 1
      BY <1>2, <2>2
    <3> QED
      BY <1>10, <3>1
  <2> QED
    BY <2>1, <2>2
<1> QED
  BY <1>3, <1>8, <1>9, <1>10, <1>11

-------------------------------------------------------------------------------
(* What is still to do.                                                    *)

\* A call whose loop is done takes nothing with it.
LEMMA AheadReturn ==
  ASSUME NEW f, NEW selected, NEW calls \in Seq(Frame), calls # <<>>, Last(calls).left = {},
         Ahead(f, calls, selected)
  PROVE  Ahead(f, Front(calls), selected)
<1>1. /\ Len(Front(calls)) = Len(calls) - 1 /\ Len(calls) \in Nat /\ Len(calls) > 0
      /\ \A i \in 1..Len(calls) - 1 : Front(calls)[i] = calls[i]
      /\ Last(calls) = calls[Len(calls)]
  BY CallsParts
<1>2. ASSUME NEW i \in 1..Len(calls), NEW entry \in calls[i].left, IsPrefix(entry.path, f)
      PROVE  Ahead(f, Front(calls), selected)
  <2>1. i # Len(calls)
    BY <1>1, <1>2
  <2>2. i \in 1..Len(Front(calls)) /\ Front(calls)[i] = calls[i]
    BY <1>1, <2>1
  <2> QED
    BY <1>2, <2>2 DEF Ahead
<1> QED
  BY <1>2 DEF Ahead

\* A call more takes nothing away.
LEMMA AheadCall ==
  ASSUME NEW f, NEW selected, NEW calls \in Seq(Frame), NEW frame \in Frame
  PROVE  /\ Ahead(f, calls, selected) => Ahead(f, Append(calls, frame), selected)
         /\ \A entry \in frame.left :
              IsPrefix(entry.path, f) => Ahead(f, Append(calls, frame), selected)
<1> DEFINE longer == Append(calls, frame)
<1>1. /\ Len(calls) \in Nat /\ Len(longer) = Len(calls) + 1
      /\ \A i \in 1..Len(calls) : longer[i] = calls[i]
      /\ longer[Len(calls) + 1] = frame
  BY CallAdded
<1> HIDE DEF longer
<1>2. 1..Len(calls) \subseteq 1..Len(longer) /\ Len(calls) + 1 \in 1..Len(longer)
  BY <1>1
<1>3. ASSUME NEW i \in 1..Len(calls), NEW entry \in calls[i].left, IsPrefix(entry.path, f)
      PROVE  Ahead(f, longer, selected)
  <2>1. i \in 1..Len(longer) /\ entry \in longer[i].left
    BY <1>1, <1>2
  <2> QED
    BY <1>3, <2>1 DEF Ahead
<1>4. ASSUME NEW entry \in frame.left, IsPrefix(entry.path, f)
      PROVE  Ahead(f, longer, selected)
  BY <1>1, <1>2, <1>4 DEF Ahead
<1> QED
  BY <1>3, <1>4 DEF Ahead, longer

\* Taking an entry takes away only what it leads to.
LEMMA AheadTake ==
  ASSUME NEW f, NEW selected, NEW calls \in Seq(Frame), calls # <<>>, NEW entry,
         Ahead(f, calls, selected), ~IsPrefix(entry.path, f)
  PROVE  Ahead(f, AfterTake(calls, entry), selected)
<1> DEFINE frame == [Last(calls) EXCEPT !.left = @ \ {entry}]
<1>1. /\ Front(calls) \in Seq(Frame) /\ Len(Front(calls)) = Len(calls) - 1
      /\ Len(calls) \in Nat /\ Len(calls) > 0
      /\ \A i \in 1..Len(calls) - 1 : Front(calls)[i] = calls[i]
      /\ Last(calls) = calls[Len(calls)] /\ Last(calls) \in Frame
  BY CallsParts
<1>2. frame \in Frame /\ frame.left = Last(calls).left \ {entry}
  BY <1>1, FrameAfterTake
<1>3. AfterTake(calls, entry) = Append(Front(calls), frame)
  BY DEF AfterTake
<1> HIDE DEF frame
<1>4. /\ Ahead(f, Front(calls), selected) => Ahead(f, AfterTake(calls, entry), selected)
      /\ \A e \in frame.left : IsPrefix(e.path, f) => Ahead(f, AfterTake(calls, entry), selected)
  <2>1. Front(calls) \in Seq(Frame) /\ frame \in Frame
    BY <1>1, <1>2
  <2>2. /\ Ahead(f, Front(calls), selected) => Ahead(f, Append(Front(calls), frame), selected)
        /\ \A e \in frame.left :
             IsPrefix(e.path, f) => Ahead(f, Append(Front(calls), frame), selected)
    BY ONLY <2>1, AheadCall
  <2> QED
    BY ONLY <1>3, <2>2
<1>5. ASSUME NEW i \in 1..Len(calls), NEW e \in calls[i].left, IsPrefix(e.path, f)
      PROVE  Ahead(f, AfterTake(calls, entry), selected)
  <2>1. CASE i = Len(calls)
    <3>1. e \in frame.left
      BY <1>1, <1>2, <1>5, <2>1
    <3> QED
      BY <1>4, <1>5, <3>1
  <2>2. CASE i # Len(calls)
    <3>1. i \in 1..Len(Front(calls)) /\ Front(calls)[i] = calls[i]
      BY <1>1, <2>2
    <3>2. Ahead(f, Front(calls), selected)
      BY <1>5, <3>1 DEF Ahead
    <3> QED
      BY <1>4, <3>2
  <2> QED
    BY <2>1, <2>2
<1>6. (\E j \in 1..Len(selected) : IsPrefix(selected[j], f)) => Ahead(f, Front(calls), selected)
  BY DEF Ahead
<1> QED
  BY <1>4, <1>5, <1>6 DEF Ahead

\* The next item taken, only what it leads to is taken away.
LEMMA AheadTail ==
  ASSUME NEW f, NEW S, NEW selected \in Seq(S), selected # <<>>, NEW calls,
         Ahead(f, calls, selected), ~IsPrefix(Head(selected), f)
  PROVE  Ahead(f, calls, Tail(selected))
<1>1. /\ Len(selected) \in Nat /\ Len(Tail(selected)) = Len(selected) - 1
      /\ Head(selected) = selected[1]
      /\ \A i \in 1..Len(Tail(selected)) : Tail(selected)[i] = selected[i + 1]
  BY HeadTailProperties
<1>2. ASSUME NEW j \in 1..Len(selected), IsPrefix(selected[j], f)
      PROVE  Ahead(f, calls, Tail(selected))
  <2>1. j # 1
    BY <1>1, <1>2
  <2>2. j - 1 \in 1..Len(Tail(selected)) /\ Tail(selected)[j - 1] = selected[j]
    BY <1>1, <2>1
  <2> QED
    BY <1>2, <2>2 DEF Ahead
<1> QED
  BY <1>2 DEF Ahead

\* The next item taken, only the folder it names is taken away.
LEMMA FolderAheadTail ==
  ASSUME NEW folder, NEW S, NEW selected \in Seq(S), selected # <<>>, NEW calls,
         FolderAhead(folder, calls, selected), Head(selected) # folder
  PROVE  FolderAhead(folder, calls, Tail(selected))
<1>1. /\ Len(selected) \in Nat /\ Len(Tail(selected)) = Len(selected) - 1
      /\ Head(selected) = selected[1]
      /\ \A i \in 1..Len(Tail(selected)) : Tail(selected)[i] = selected[i + 1]
  BY HeadTailProperties
<1>2. ASSUME NEW j \in 1..Len(selected), selected[j] = folder
      PROVE  FolderAhead(folder, calls, Tail(selected))
  <2>1. j # 1
    BY <1>1, <1>2
  <2>2. j - 1 \in 1..Len(Tail(selected)) /\ Tail(selected)[j - 1] = selected[j]
    BY <1>1, <2>1
  <2> QED
    BY <1>2, <2>2 DEF FolderAhead
<1> QED
  BY <1>2 DEF FolderAhead

\* What is left of the selection stays its end.
LEMMA SuffixTail ==
  ASSUME NEW S, NEW s \in Seq(S), s # <<>>, NEW t \in Seq(S), IsSuffix(s, t)
  PROVE  IsSuffix(Tail(s), t)
<1>1. /\ Tail(s) \in Seq(S) /\ Len(Tail(s)) = Len(s) - 1
      /\ \A i \in 1..Len(Tail(s)) : Tail(s)[i] = s[i + 1]
      /\ Len(s) \in Nat /\ Len(s) > 0 /\ Len(t) \in Nat
  BY HeadTailProperties, EmptySeq
<1>2. /\ Reverse(s) \in Seq(S) /\ Len(Reverse(s)) = Len(s)
      /\ \A i \in 1..Len(s) : Reverse(s)[i] = s[Len(s) - i + 1]
  BY <1>1 DEF Reverse
<1>3. /\ Reverse(t) \in Seq(S) /\ Len(Reverse(t)) = Len(t)
  BY <1>1 DEF Reverse
<1>4. /\ Reverse(Tail(s)) \in Seq(S) /\ Len(Reverse(Tail(s))) = Len(s) - 1
      /\ \A i \in 1..Len(s) - 1 : Reverse(Tail(s))[i] = Tail(s)[Len(s) - 1 - i + 1]
  BY <1>1 DEF Reverse
<1>5. \A i \in 1..Len(s) - 1 : Reverse(Tail(s))[i] = Reverse(s)[i]
  <2>1. TAKE i \in 1..Len(s) - 1
  <2>2. /\ Len(s) - i \in 1..Len(Tail(s)) /\ Len(s) - 1 - i + 1 = Len(s) - i
        /\ Len(s) - i + 1 \in 1..Len(s) /\ i \in 1..Len(s)
    BY <1>1
  <2> QED
    BY <1>1, <1>2, <1>4, <2>2
<1>6. IsPrefix(Reverse(Tail(s)), Reverse(s))
  BY <1>1, <1>2, <1>4, <1>5, PrefixElements
<1>7. IsPrefix(Reverse(s), Reverse(t))
  BY DEF IsSuffix
<1>8. IsPrefix(Reverse(Tail(s)), Reverse(t))
  BY <1>2, <1>3, <1>4, <1>6, <1>7, PrefixTransitive
<1> QED
  BY <1>8 DEF IsSuffix

-------------------------------------------------------------------------------
(* What the ends of a call leave.                                          *)

\* A failure is reported, and all calls return.
LEMMA AfterFail ==
  ASSUME TreeInv', Fail
  PROVE  WalkInv'
<1>1. stack' = <<>> /\ pc' = "next" /\ status' = TRUE
  BY DEF Fail
<1>2. Place'
  BY <1>1 DEF Place
<1>3. SoundStack(<<>>, unread', UsesCwd')
  BY SoundEmpty
<1>4. SoundStack(stack, unread, UsesCwd)'
  BY <1>1, <1>3
<1>5. NothingForgotten' /\ FoldersAhead'
  BY <1>1 DEF NothingForgotten, FoldersAhead
<1> QED
  BY <1>2, <1>4, <1>5 DEF WalkInv

\* A call returns to a caller that has everything else ahead of it.
LEMMA AfterSucceed ==
  ASSUME TreeInv', NEW calls, Succeed(calls),
         SoundStack(calls, unread', UsesCwd'),
         ~stop' /\ ~status' =>
           \A f \in Files : InSelection(f) => Dealt(f)' \/ Ahead(f, calls, items'),
         kind' = "remove" /\ client' \in {"smb", "nfs"} /\ ~stop' /\ ~status' =>
           \A i \in 1..Len(Selection) :
             Selection[i] \in dirs' => FolderAhead(Selection[i], calls, items')
  PROVE  WalkInv'
<1>1. stack' = calls /\ pc' = IF calls = <<>> THEN "next" ELSE "walk"
  BY DEF Succeed
<1>2. Place'
  BY <1>1 DEF Place
<1>3. SoundStack(stack, unread, UsesCwd)'
  BY <1>1
<1>4. NothingForgotten'
  BY <1>1 DEF NothingForgotten
<1>5. FoldersAhead'
  BY <1>1 DEF FoldersAhead
<1> QED
  BY <1>2, <1>3, <1>4, <1>5 DEF WalkInv

-------------------------------------------------------------------------------
(* A folder is entered.                                                    *)

\* A file that is still to be dealt with would be shown by a listing.
LEMMA ShownUnlessDealt ==
  ASSUME TreeInv, NEW f \in Files, ~Dealt(f)
  PROVE  f \in files /\ f \in ShownFiles
<1>1. f \notin moved /\ f \notin Hidden \ ShownFiles
  BY DEF Dealt
<1>2. CASE f \in Hidden
  BY <1>1, <1>2 DEF ShownFiles
<1>3. CASE f \notin Hidden
  BY <1>1, <1>3 DEF ShownFiles, TreeInv, TreeKept
<1> QED
  BY <1>2, <1>3

\* The listing of a folder leads to each of these below it.
LEMMA ListingLeadsTo ==
  ASSUME TreeInv, NEW path \in Paths, NEW f \in Files, ~Dealt(f), Under(path, f)
  PROVE  \E p \in Children(path) : Append(path, Last(p)) = p /\ IsPrefix(p, f)
<1> DEFINE n == Len(path) + 1
           c == SubSeq(f, 1, n)
<1>1. path \in Seq(STRING) /\ f \in Seq(STRING) /\ f \in Paths
  BY TreePaths DEF Paths
<1>2. /\ c \in Seq(STRING) /\ Len(c) = n
      /\ Under(path, c) /\ IsPrefix(c, f)
      /\ c = f \/ n \in 1..Len(f) - 1
  BY <1>1, EntryTowards
<1>3. f \in files /\ f \in ShownFiles
  BY ShownUnlessDealt
<1>4. c = f \/ c \in Dirs
  BY <1>2, WalkAssumption
<1> HIDE DEF c
<1>5. c = f \/ c \in dirs
  <2>1. CASE c \in Dirs \ dirs
    <3>1. Under(c, f)
      BY <1>2, <2>1, TreePaths
    <3> QED
      BY <1>3, <2>1, <3>1 DEF TreeInv, TreeKept
  <2> QED
    BY <1>4, <2>1
<1>6. c \in Children(path)
  BY <1>2, <1>3, <1>5 DEF Children
<1>7. Append(path, Last(c)) = c
  BY <1>1, <1>2, ChildPath
<1> QED
  BY <1>2, <1>6, <1>7

\* A folder whose listing is its own has the entries it lists; another's entries
\* are below a folder that was listed wrongly.
LEMMA ListedEntries ==
  ASSUME TreeInv, NEW path \in Paths, NEW wrong,
         ListedDirectory(path) # path => path \in wrong
  PROVE  /\ Entries(path) \subseteq EntryType
         /\ \A entry \in Entries(path) : SoundEntry(entry, path, wrong, UsesCwd)
<1>1. ListedDirectory(path) # path => UsesCwd
  BY DEF ListedDirectory
<1>2. ASSUME NEW p \in Children(ListedDirectory(path))
      PROVE  /\ [path |-> Append(path, Last(p)), dir |-> p \in dirs] \in EntryType
             /\ SoundEntry([path |-> Append(path, Last(p)), dir |-> p \in dirs],
                           path, wrong, UsesCwd)
  <2>1. p \in dirs \cup files
    BY <1>2 DEF Children, ShownFiles
  <2>2. p \in dirs => p \in Dirs
    BY DEF TreeInv, Typed
  <2>3. p \notin dirs => p \in Files
    BY <2>1 DEF TreeInv, Typed
  <2>4. p \in Seq(STRING) /\ p # <<>> /\ path \in Seq(STRING)
    BY <2>2, <2>3, TreePaths DEF Paths
  <2>5. Last(p) \in STRING
    BY <2>4, FrontOfPath
  <2>6. /\ Append(path, Last(p)) \in Seq(STRING) /\ Append(path, Last(p)) # <<>>
        /\ Front(Append(path, Last(p))) = path
    BY <2>4, <2>5, AppendToPath
  <2>7. Under(path, Append(path, Last(p)))
    BY <2>6, FrontOfPath
  <2>8. [path |-> Append(path, Last(p)), dir |-> p \in dirs] \in EntryType
    BY <2>6 DEF EntryType, Paths
  <2>9. CASE ListedDirectory(path) = path
    <3>1. Under(path, p) /\ Len(p) = Len(path) + 1
      BY <1>2, <2>9 DEF Children
    <3>2. Append(path, Last(p)) = p
      BY <2>4, <3>1, ChildPath
    <3>3. p \in IF p \in dirs THEN Dirs ELSE Files
      BY <2>2, <2>3
    <3> QED
      BY <2>6, <2>8, <3>2, <3>3 DEF SoundEntry
  <2>10. CASE ListedDirectory(path) # path
    <3>1. Below(Append(path, Last(p)), wrong, UsesCwd)
      BY <1>1, <2>7, <2>10 DEF Below
    <3> QED
      BY <2>6, <2>8, <3>1 DEF SoundEntry
  <2> QED
    BY <2>9, <2>10
<1> QED
  BY <1>2 DEF Entries

\* What is known when a call for path is about to be made: calls and selected
\* have everything else ahead.
Before(path, calls, selected) ==
  /\ path \in Paths /\ InSelection(path)
  /\ SoundStack(calls, unread, UsesCwd)
  /\ ~stop /\ ~status =>
       \A f \in Files : InSelection(f) =>
         Dealt(f) \/ Ahead(f, calls, selected) \/ IsPrefix(path, f)
  /\ kind = "remove" /\ client \in {"smb", "nfs"} /\ ~stop /\ ~status =>
       \A i \in 1..Len(Selection) :
         Selection[i] \in dirs =>
           \/ FolderAhead(Selection[i], calls, selected)
           \/ calls = <<>> /\ path = Selection[i]

\* EnterFolder keeps the invariant.
LEMMA EnterFolderStep ==
  ASSUME TreeInv, NEW path, NEW calls, NEW selected, Before(path, calls, selected),
         SoundFolder(path, unread, UsesCwd), calls # <<>> => Front(path) = Last(calls).path,
         items' = selected, selected \in Seq(Dirs \cup Files), IsSuffix(selected, Selection),
         EnterFolder(path, calls), UNCHANGED <<setup, trees, connected, moved, kept, stop>>
  PROVE  WalkInv'
<1> DEFINE listed == ListedDirectory(path)
<1>1. PICK read \in {TRUE, FALSE}, left \in SUBSET Entries(path) :
        /\ unread' = IF read /\ listed = path THEN unread ELSE unread \cup {path}
        /\ partial' = IF read /\ left # Entries(path) THEN partial \cup {path} ELSE partial
        /\ \/ /\ stack' = Append(calls, [path |-> path, left |-> left])
              /\ pc' = "walk"
              /\ status' = (status \/ (~read /\ client = "smb"))
           \/ /\ kind = "download"
              /\ Fail
  BY DEF EnterFolder
<1> DEFINE frame == [path |-> path, left |-> left]
<1>2. path \in Paths /\ InSelection(path) /\ calls \in Seq(Frame)
  BY DEF Before, SoundStack
<1>3. /\ UNCHANGED <<kind, client, mode, locked, dirs, files, dest, connected, moved, kept, stop>>
      /\ unread \subseteq unread' /\ UsesCwd' = UsesCwd /\ ShownFiles' = ShownFiles
      /\ partial \subseteq partial' /\ partial' \subseteq partial \cup {path}
  BY <1>1 DEF setup, trees, UsesCwd, ShownFiles
<1>4. TreeInv'
  <2>1. cwd' \in Dirs \cup {<<>>}
    BY DEF EnterFolder, ListedDirectory, Enterable, TreeInv, Typed
  <2>2. unread' \subseteq Paths /\ partial' \subseteq Paths
    BY <1>1, <1>2, <1>3 DEF TreeInv, Typed
  <2>3. status' \in BOOLEAN
    BY <1>1 DEF Fail, TreeInv, Typed
  <2>4. Typed'
    BY <1>3, <2>1, <2>2, <2>3 DEF TreeInv, Typed
  <2>5. TreeKept' /\ OnlySelection'
    BY <1>2, <1>3 DEF TreeInv, TreeKept, OnlySelection
  <2> QED
    BY <2>4, <2>5 DEF TreeInv
<1>5. CASE Fail
  BY <1>4, <1>5, AfterFail
<1>6. CASE stack' = Append(calls, frame) /\ pc' = "walk"
           /\ status' = (status \/ (~read /\ client = "smb"))
  <2>1. listed # path => path \in unread'
    BY <1>1
  <2>2. /\ Entries(path) \subseteq EntryType
        /\ \A entry \in Entries(path) : SoundEntry(entry, path, unread', UsesCwd)
    BY <1>2, <2>1, ListedEntries
  <2>3. frame \in Frame /\ frame.path = path /\ frame.left = left
    BY <1>2, <2>2 DEF Frame
  <2> HIDE DEF frame
  <2>4. SoundFolder(path, unread', UsesCwd)
    BY <1>3 DEF SoundFolder, Below
  <2>5. SoundFrame(frame, unread', UsesCwd)
    BY <2>2, <2>3, <2>4 DEF SoundFrame
  <2>6. SoundStack(calls, unread', UsesCwd)
    BY <1>3, SoundMore DEF Before
  <2>7. SoundStack(Append(calls, frame), unread', UsesCwd)
    BY <2>3, <2>5, <2>6, SoundCall
  <2>8. SoundStack(stack, unread, UsesCwd)'
    BY <1>3, <1>6, <2>7
  <2>9. /\ Append(calls, frame) # <<>>
        /\ Len(calls) \in Nat
        /\ \A i \in 1..Len(calls) : Append(calls, frame)[i] = calls[i]
        /\ Append(calls, frame)[Len(calls) + 1] = frame
    BY <1>2, <2>3, CallAdded
  <2>10. Place'
    BY <1>6, <2>9 DEF Place
  <2>13. ~stop' /\ ~status' => ~stop /\ ~status
    <3>1. status = TRUE => status' = TRUE
      BY <1>6
    <3>2. status \in BOOLEAN
      BY DEF TreeInv, Typed
    <3>3. stop' = stop
      BY <1>3
    <3> QED
      BY ONLY <3>1, <3>2, <3>3
  <2>11. NothingForgotten'
    <3>1. SUFFICES ASSUME ~stop', ~status', NEW f \in Files, InSelection(f), ~Dealt(f)'
                   PROVE  Ahead(f, stack', items')
      BY DEF NothingForgotten
    <3>2. ~Dealt(f) /\ ~stop /\ ~status
      <4>1. ~Dealt(f)
        BY <1>3, <3>1 DEF Dealt
      <4> QED
        BY <2>13, <3>1, <4>1
    <3>3. Ahead(f, calls, selected) \/ IsPrefix(path, f)
      BY <3>1, <3>2 DEF Before
    <3>4. CASE Ahead(f, calls, selected)
      <4>1. Ahead(f, Append(calls, frame), selected)
        BY <1>2, <2>3, <3>4, AheadCall
      <4> QED
        BY <1>6, <4>1
    <3>5. CASE IsPrefix(path, f)
      <4>1. path \in Seq(STRING) /\ f \in Seq(STRING)
        BY <1>2, TreePaths DEF Paths
      <4>2. Under(path, f)
        <5>1. CASE path \in Dirs
          BY <3>5, <5>1, TreePaths
        <5>2. CASE Below(path, unread, UsesCwd)
          <6>1. PICK directory \in unread : Under(directory, path)
            BY <5>2 DEF Below
          <6>2. directory \in Seq(STRING)
            BY DEF TreeInv, Typed, Paths
          <6>3. Under(directory, f)
            BY <3>5, <4>1, <6>1, <6>2, PrefixTransitive
          <6> QED
            BY <3>2, <6>3 DEF Dealt
        <5> QED
          BY <5>1, <5>2 DEF SoundFolder
      <4>3. path \notin unread' \cup partial'
        BY <3>1, <4>2 DEF Dealt
      <4>4. left = Entries(path) /\ listed = path
        BY <1>1, <4>3
      <4>5. PICK p \in Children(path) : Append(path, Last(p)) = p /\ IsPrefix(p, f)
        BY <1>2, <3>2, <4>2, ListingLeadsTo
      <4>6. [path |-> p, dir |-> p \in dirs] \in frame.left
        BY <2>3, <4>4, <4>5 DEF Entries
      <4>7. Ahead(f, Append(calls, frame), selected)
        BY <1>2, <2>3, <4>5, <4>6, AheadCall
      <4> QED
        BY <1>6, <4>7
    <3> QED
      BY <3>3, <3>4, <3>5
  <2>12. FoldersAhead'
    <3>1. SUFFICES ASSUME kind = "remove", client \in {"smb", "nfs"}, ~stop, ~status,
                          NEW i \in 1..Len(Selection), Selection[i] \in dirs
                   PROVE  FolderAhead(Selection[i], stack', items')
      BY <1>3, <2>13, Zenon DEF FoldersAhead
    <3>2. CASE FolderAhead(Selection[i], calls, selected)
      <4>1. CASE calls # <<>> /\ calls[1].path = Selection[i]
        <5>1. 1 \in 1..Len(calls)
          BY <1>2, <4>1, EmptySeq
        <5> QED
          BY <1>6, <2>9, <4>1, <5>1 DEF FolderAhead
      <4> QED
        BY <3>2, <4>1 DEF FolderAhead
    <3>3. CASE calls = <<>> /\ path = Selection[i]
      <4>1. Len(calls) = 0
        BY <3>3
      <4>2. Append(calls, frame)[1] = frame
        BY <2>9, <4>1
      <4> QED
        BY <1>6, <2>3, <2>9, <3>3, <4>2 DEF FolderAhead
    <3> QED
      BY <3>1, <3>2, <3>3 DEF Before
  <2> QED
    BY <1>4, <2>8, <2>10, <2>11, <2>12 DEF WalkInv
<1> QED
  BY <1>1, <1>5, <1>6

-------------------------------------------------------------------------------
(* A file is done.                                                         *)

\* What DoFile may do: it fails, or the file is transferred, removed or kept;
\* only the file itself is touched.
LEMMA FileOutcome ==
  ASSUME TreeInv, NEW path, NEW calls, DoFile(path, calls)
  PROVE  /\ Fail \/ (Succeed(calls) /\ path \in moved' \cup kept' \cup partial')
         /\ dirs' = dirs /\ connected' \in BOOLEAN /\ status' \in BOOLEAN
         /\ files' \subseteq files /\ files \subseteq files' \cup moved'
         /\ dest' \subseteq Files
         /\ moved \subseteq moved' /\ moved' \subseteq moved \cup {path} /\ moved' \subseteq Files
         /\ kept \subseteq kept' /\ kept' \subseteq kept \cup {path} /\ kept' \subseteq Files
         /\ partial \subseteq partial' /\ partial' \subseteq partial \cup {path}
<1>1. /\ files \subseteq Files /\ dest \subseteq Files /\ moved \subseteq Files /\ kept \subseteq Files
      /\ connected \in BOOLEAN /\ status \in BOOLEAN
  BY DEF TreeInv, Typed
<1>2. Fail => status' \in BOOLEAN
  BY DEF Fail
<1>3. Succeed(calls) => status' \in BOOLEAN
  BY <1>1 DEF Succeed
<1>4. CASE DeleteFile(path, calls)
  BY <1>1, <1>2, <1>3, <1>4 DEF DeleteFile
<1>5. CASE FirstCommandFails
  BY <1>1, <1>2, <1>5 DEF FirstCommandFails, trees
<1>6. CASE KeepFile(path, calls)
  <2>1. path \in dest
    BY <1>6 DEF KeepFile, Seen
  <2> QED
    BY <1>1, <1>3, <1>6, <2>1 DEF KeepFile, trees
<1>7. CASE TransferFile(path, calls)
  BY <1>1, <1>2, <1>3, <1>7 DEF TransferFile
<1> QED
  BY <1>4, <1>5, <1>6, <1>7 DEF DoFile

\* DoFile keeps the invariant.
LEMMA DoFileStep ==
  ASSUME TreeInv, NEW path, NEW calls, NEW selected, Before(path, calls, selected),
         path \in Files \/ Below(path, unread, UsesCwd),
         calls = <<>> => path \in Files,
         items' = selected, selected \in Seq(Dirs \cup Files), IsSuffix(selected, Selection),
         DoFile(path, calls), UNCHANGED <<setup, cwd, unread, stop>>
  PROVE  WalkInv'
<1>1. /\ Fail \/ (Succeed(calls) /\ path \in moved' \cup kept' \cup partial')
      /\ dirs' = dirs /\ connected' \in BOOLEAN /\ status' \in BOOLEAN
      /\ files' \subseteq files /\ files \subseteq files' \cup moved'
      /\ dest' \subseteq Files
      /\ moved \subseteq moved' /\ moved' \subseteq moved \cup {path} /\ moved' \subseteq Files
      /\ kept \subseteq kept' /\ kept' \subseteq kept \cup {path} /\ kept' \subseteq Files
      /\ partial \subseteq partial' /\ partial' \subseteq partial \cup {path}
  BY FileOutcome
<1>2. /\ UNCHANGED <<kind, client, mode, locked, cwd, unread, stop>>
      /\ UsesCwd' = UsesCwd /\ ShownFiles' \subseteq ShownFiles
  BY <1>1 DEF setup, UsesCwd, ShownFiles
<1>3. path \in Paths /\ InSelection(path)
  BY DEF Before
<1>4. TreeInv'
  <2>1. files' \subseteq Files
    BY <1>1 DEF TreeInv, Typed
  <2>2. Typed'
    BY <1>1, <1>2, <1>3, <2>1 DEF TreeInv, Typed
  <2>3. TreeKept'
    BY <1>1 DEF TreeInv, TreeKept
  <2>4. OnlySelection'
    <3>1. \A p \in moved' \cup kept' \cup partial' : InSelection(p)
      BY <1>1, <1>3 DEF TreeInv, OnlySelection
    <3>2. \A p \in (Dirs \cup Files) \ (dirs' \cup files' \cup Hidden) : InSelection(p)
      BY <1>1, <3>1 DEF TreeInv, OnlySelection
    <3> QED
      BY <3>1, <3>2 DEF OnlySelection
  <2> QED
    BY <2>2, <2>3, <2>4 DEF TreeInv
<1>5. CASE Fail
  BY <1>4, <1>5, AfterFail
<1>6. CASE Succeed(calls) /\ path \in moved' \cup kept' \cup partial'
  <2>1. SoundStack(calls, unread', UsesCwd')
    BY <1>2 DEF Before
  <2>2. status' = status
    BY <1>6 DEF Succeed
  <2>3. ASSUME ~stop', ~status', NEW f \in Files, InSelection(f)
        PROVE  Dealt(f)' \/ Ahead(f, calls, items')
    <3>1. Dealt(f) => Dealt(f)'
      BY <1>1, <1>2 DEF Dealt
    <3>2. ~stop /\ ~status
      BY <1>2, <2>2, <2>3
    <3>3. CASE IsPrefix(path, f)
      <4>1. CASE path \in Files
        <5>1. path = f
          BY <3>3, <4>1, TreePaths
        <5> QED
          BY <1>6, <5>1 DEF Dealt
      <4>2. CASE Below(path, unread, UsesCwd)
        <5>1. PICK directory \in unread : Under(directory, path)
          BY <4>2 DEF Below
        <5>2. directory \in Seq(STRING) /\ path \in Seq(STRING) /\ f \in Seq(STRING)
          BY <1>3, TreePaths DEF TreeInv, Typed, Paths
        <5>3. Under(directory, f)
          BY <3>3, <5>1, <5>2, PrefixTransitive
        <5> QED
          BY <3>1, <5>3 DEF Dealt
      <4> QED
        BY <4>1, <4>2
    <3> QED
      BY <2>3, <3>1, <3>2, <3>3 DEF Before
  <2>4. ASSUME kind' = "remove" /\ client' \in {"smb", "nfs"}, ~stop', ~status',
               NEW i \in 1..Len(Selection), Selection[i] \in dirs'
        PROVE  FolderAhead(Selection[i], calls, items')
    <3>1. /\ kind = "remove" /\ client \in {"smb", "nfs"} /\ ~stop /\ ~status
          /\ Selection[i] \in dirs
      BY <1>1, <1>2, <2>2, <2>4
    <3>2. ~(calls = <<>> /\ path = Selection[i])
      BY <3>1, WalkAssumption DEF TreeInv, Typed
    <3> QED
      BY <3>1, <3>2 DEF Before
  <2> QED
    BY <1>4, <1>6, <2>1, <2>3, <2>4, AfterSucceed
<1> QED
  BY <1>1, <1>5, <1>6

-------------------------------------------------------------------------------
(* The actions.                                                            *)

\* An item is one of the selection.
LEMMA ItemIsSelected ==
  ASSUME TreeInv, items # <<>>
  PROVE  /\ Head(items) \in Dirs \cup Files /\ Head(items) \in Paths
         /\ InSelection(Head(items))
         /\ Tail(items) \in Seq(Dirs \cup Files) /\ IsSuffix(Tail(items), Selection)
<1> DEFINE n == Len(items)
           m == Len(Selection)
<1>1. /\ items \in Seq(Dirs \cup Files) /\ IsSuffix(items, Selection)
      /\ Selection \in Seq(Dirs \cup Files)
  BY WalkAssumption DEF TreeInv
<1>2. n \in Nat /\ n > 0 /\ m \in Nat /\ Head(items) = items[1]
  BY <1>1, EmptySeq
<1>3. /\ Reverse(items) \in Seq(Dirs \cup Files) /\ Len(Reverse(items)) = n
      /\ Reverse(items)[n] = items[1]
  <2>1. n \in 1..n /\ n - n + 1 = 1
    BY <1>2
  <2> QED
    BY <1>1, <1>2, <2>1 DEF Reverse
<1>4. /\ Reverse(Selection) \in Seq(Dirs \cup Files) /\ Len(Reverse(Selection)) = m
      /\ \A i \in 1..m : Reverse(Selection)[i] = Selection[m - i + 1]
  BY <1>1, <1>2 DEF Reverse
<1>5. n <= m /\ Reverse(items)[n] = Reverse(Selection)[n]
  <2>1. IsPrefix(Reverse(items), Reverse(Selection))
    BY <1>1 DEF IsSuffix
  <2>2. n \in 1..n
    BY <1>2
  <2>3. /\ Len(Reverse(items)) <= Len(Reverse(Selection))
        /\ \A i \in 1..Len(Reverse(items)) : Reverse(items)[i] = Reverse(Selection)[i]
    BY <1>3, <1>4, <2>1, PrefixElements
  <2> QED
    BY <1>3, <1>4, <2>2, <2>3
<1>6. m - n + 1 \in 1..m /\ n \in 1..m
  BY <1>2, <1>5
<1>7. Head(items) = Selection[m - n + 1]
  BY <1>2, <1>3, <1>4, <1>5, <1>6
<1>8. Head(items) \in Dirs \cup Files
  BY <1>1, <1>6, <1>7
<1>9. Head(items) \in Paths
  BY <1>8, TreePaths
<1>10. IsPrefix(Head(items), Head(items))
  BY <1>9, UnderIsShorter DEF Paths
<1>11. InSelection(Head(items))
  BY <1>6, <1>7, <1>10 DEF InSelection
<1>12. Tail(items) \in Seq(Dirs \cup Files) /\ IsSuffix(Tail(items), Selection)
  BY <1>1, HeadTailProperties, SuffixTail
<1> QED
  BY <1>8, <1>9, <1>11, <1>12

\* What is below the selection is of the selection.
LEMMA BelowSelection ==
  ASSUME NEW p \in Seq(STRING), NEW q \in Seq(STRING), InSelection(p), Under(p, q)
  PROVE  InSelection(q)
<1>1. PICK i \in 1..Len(Selection) : IsPrefix(Selection[i], p)
  BY DEF InSelection
<1>2. Selection[i] \in Seq(STRING)
  BY WalkAssumption
<1>3. Under(Selection[i], q)
  BY <1>1, <1>2, PrefixTransitive
<1>4. IsPrefix(Selection[i], q)
  BY <1>3 DEF Under, IsStrictPrefix
<1> QED
  BY <1>4 DEF InSelection

\* The invariant with the trees and the history as they were.
LEMMA TreeUnchanged ==
  ASSUME TreeInv, UNCHANGED <<setup, trees, server, history>>,
         items' \in Seq(Dirs \cup Files), IsSuffix(items', Selection),
         stop' \in BOOLEAN, status' \in BOOLEAN
  PROVE  TreeInv'
<1>1. UNCHANGED <<kind, client, mode, locked, dirs, files, dest, cwd, connected,
                  moved, kept, unread, partial>>
  BY DEF setup, trees, server, history
<1>2. Typed'
  BY <1>1 DEF TreeInv, Typed
<1>3. TreeKept' /\ OnlySelection'
  BY <1>1 DEF TreeInv, TreeKept, OnlySelection
<1> QED
  BY <1>2, <1>3 DEF TreeInv

\* Ping: the thread gives up with a message.
LEMMA PingStep == WalkInv /\ Ping => WalkInv'
<1> SUFFICES ASSUME WalkInv, Ping
             PROVE  WalkInv'
  OBVIOUS
<1>1. /\ items' = <<>> /\ status' = TRUE /\ pc' = pc /\ stack' = stack /\ stop' = stop
      /\ UNCHANGED <<setup, trees, server, history>> /\ UNCHANGED <<kind, client, unread>>
  BY DEF Ping, setup, history
<1>2. IsSuffix(<<>>, Selection) /\ <<>> \in Seq(Dirs \cup Files)
  <2>1. Reverse(<<>>) = <<>>
    BY DEF Reverse
  <2>2. /\ Selection \in Seq(Dirs \cup Files) /\ Len(Selection) \in Nat
    BY WalkAssumption
  <2>3. Reverse(Selection) \in Seq(Dirs \cup Files)
    BY <2>2 DEF Reverse
  <2>4. IsPrefix(<<>>, Reverse(Selection))
    <3>1. /\ <<>> \in Seq(Dirs \cup Files) /\ Len(<<>>) = 0 /\ Len(Reverse(Selection)) \in Nat
          /\ Len(<<>>) <= Len(Reverse(Selection))
          /\ \A i \in 1..Len(<<>>) : <<>>[i] = Reverse(Selection)[i]
      BY <2>3
    <3> QED
      BY ONLY <2>3, <3>1, PrefixElements
  <2> QED
    BY <2>1, <2>4 DEF IsSuffix
<1>3. TreeInv'
  BY <1>1, <1>2, TreeUnchanged DEF WalkInv, TreeInv, Typed
<1>4. Place'
  BY <1>1 DEF WalkInv, Place, Ping
<1>5. SoundStack(stack, unread, UsesCwd)'
  BY <1>1 DEF WalkInv, UsesCwd
<1>6. NothingForgotten' /\ FoldersAhead'
  BY <1>1 DEF NothingForgotten, FoldersAhead
<1> QED
  BY <1>3, <1>4, <1>5, <1>6 DEF WalkInv

\* NextItem: everything but the item is still ahead.
LEMMA NextItemStep == WalkInv /\ NextItem => WalkInv'
<1> SUFFICES ASSUME WalkInv, NextItem
             PROVE  WalkInv'
  OBVIOUS
<1> DEFINE path == Head(items)
           rest == Tail(items)
<1>1. /\ pc = "next" /\ items # <<>> /\ items' = rest
      /\ UNCHANGED <<setup, stop>>
      /\ \/ /\ stop /\ (path \in Dirs \/ kind # "remove")
            /\ Succeed(<<>>)
            /\ UNCHANGED <<trees, server, history>>
         \/ /\ path \in Dirs /\ ~stop
            /\ EnterFolder(path, <<>>)
            /\ UNCHANGED <<trees, connected, moved, kept>>
         \/ /\ path \in Files
            /\ DoFile(path, <<>>)
            /\ UNCHANGED <<cwd, unread>>
  BY DEF NextItem
<1>2. TreeInv /\ stack = <<>>
  BY <1>1 DEF WalkInv, Place
<1>3. /\ path \in Dirs \cup Files /\ path \in Paths /\ InSelection(path)
      /\ rest \in Seq(Dirs \cup Files) /\ IsSuffix(rest, Selection)
  BY <1>1, <1>2, ItemIsSelected
<1>4. items \in Seq(Dirs \cup Files)
  BY <1>2 DEF TreeInv
<1>5. Before(path, <<>>, rest)
  <2>1. ASSUME ~stop, ~status, NEW f \in Files, InSelection(f)
        PROVE  Dealt(f) \/ Ahead(f, <<>>, rest) \/ IsPrefix(path, f)
    <3>1. Dealt(f) \/ Ahead(f, <<>>, items)
      BY <1>2, <2>1 DEF WalkInv, NothingForgotten
    <3> QED
      BY <1>1, <1>4, <3>1, AheadTail
  <2>2. ASSUME kind = "remove" /\ client \in {"smb", "nfs"}, ~stop, ~status,
               NEW i \in 1..Len(Selection), Selection[i] \in dirs
        PROVE  FolderAhead(Selection[i], <<>>, rest) \/ path = Selection[i]
    <3>1. FolderAhead(Selection[i], <<>>, items)
      BY <1>2, <2>2 DEF WalkInv, FoldersAhead
    <3> QED
      BY <1>1, <1>4, <3>1, FolderAheadTail
  <2>3. SoundStack(<<>>, unread, UsesCwd)
    BY SoundEmpty
  <2> QED
    BY <1>3, <2>1, <2>2, <2>3 DEF Before
<1> HIDE DEF path, rest
<1>6. CASE stop /\ Succeed(<<>>) /\ UNCHANGED <<trees, server, history>>
  <2>1. stop' /\ status' = status
    BY <1>1, <1>6 DEF Succeed
  <2>2. TreeInv'
    BY <1>1, <1>2, <1>3, <1>6, <2>1, TreeUnchanged DEF TreeInv, Typed
  <2>3. SoundStack(<<>>, unread', UsesCwd')
    BY SoundEmpty
  <2> QED
    BY <1>6, <2>1, <2>2, <2>3, AfterSucceed
<1>7. CASE path \in Dirs /\ EnterFolder(path, <<>>) /\ UNCHANGED <<trees, connected, moved, kept>>
  <2>1. SoundFolder(path, unread, UsesCwd)
    BY <1>3, <1>7 DEF SoundFolder
  <2> QED
    BY <1>1, <1>2, <1>3, <1>5, <1>7, <2>1, EnterFolderStep
<1>8. CASE path \in Files /\ DoFile(path, <<>>) /\ UNCHANGED <<cwd, unread>>
  BY <1>1, <1>2, <1>3, <1>5, <1>8, DoFileStep
<1> QED
  BY <1>1, <1>6, <1>7, <1>8

\* DoEntry: everything but what the entry leads to is still ahead.
LEMMA DoEntryStep == WalkInv /\ DoEntry => WalkInv'
<1> SUFFICES ASSUME WalkInv, DoEntry
             PROVE  WalkInv'
  OBVIOUS
<1>1. pc = "walk" /\ ~stop /\ UNCHANGED <<setup, items, stop>>
  BY DEF DoEntry
<1>2. PICK entry \in Last(stack).left :
        \/ /\ Fail
           /\ UNCHANGED <<trees, server, history>>
        \/ /\ StackOverflow
           /\ UNCHANGED <<trees, server, history>>
        \/ /\ entry.dir
           /\ EnterFolder(entry.path, AfterTake(stack, entry))
           /\ UNCHANGED <<trees, connected, moved, kept>>
        \/ /\ ~entry.dir
           /\ DoFile(entry.path, AfterTake(stack, entry))
           /\ UNCHANGED <<cwd, unread>>
  BY DEF DoEntry, Top, Take, AfterTake
<1>3. /\ TreeInv /\ stack # <<>> /\ stack \in Seq(Frame)
      /\ SoundStack(stack, unread, UsesCwd)
      /\ items \in Seq(Dirs \cup Files) /\ IsSuffix(items, Selection)
  BY <1>1 DEF WalkInv, Place, SoundStack, TreeInv
<1>4. PICK calls : calls = AfterTake(stack, entry)
  OBVIOUS
<1>5. /\ SoundStack(calls, unread, UsesCwd) /\ calls # <<>>
      /\ Last(calls).path = Last(stack).path /\ calls[1].path = stack[1].path
  BY <1>3, <1>4, SoundTake
<1>6. /\ Last(stack) \in Frame /\ SoundFrame(Last(stack), unread, UsesCwd)
  BY <1>3, CallsParts DEF SoundStack
<1>7. /\ entry.path \in Paths /\ entry.dir \in BOOLEAN /\ Last(stack).path \in Paths
      /\ Front(entry.path) = Last(stack).path
      /\ \/ entry.path \in IF entry.dir THEN Dirs ELSE Files
         \/ Below(entry.path, unread, UsesCwd)
      /\ InSelection(Last(stack).path)
  BY <1>6 DEF Frame, EntryType, SoundFrame, SoundEntry, SoundFolder
<1>8. InSelection(entry.path)
  <2>1. /\ entry.path \in Seq(STRING) /\ entry.path # <<>>
        /\ Last(stack).path \in Seq(STRING)
    BY <1>7 DEF Paths
  <2>2. Under(Last(stack).path, entry.path)
    BY <1>7, <2>1, FrontOfPath
  <2> QED
    BY <1>7, <2>1, <2>2, BelowSelection
<1>9. Before(entry.path, calls, items)
  <2>1. ASSUME ~stop, ~status, NEW f \in Files, InSelection(f)
        PROVE  Dealt(f) \/ Ahead(f, calls, items) \/ IsPrefix(entry.path, f)
    <3>1. Dealt(f) \/ Ahead(f, stack, items)
      BY <2>1 DEF WalkInv, NothingForgotten
    <3> QED
      BY <1>3, <1>4, <3>1, AheadTake
  <2>2. ASSUME kind = "remove" /\ client \in {"smb", "nfs"}, ~stop, ~status,
               NEW i \in 1..Len(Selection), Selection[i] \in dirs
        PROVE  FolderAhead(Selection[i], calls, items)
    <3>1. FolderAhead(Selection[i], stack, items)
      BY <2>2 DEF WalkInv, FoldersAhead
    <3> QED
      BY <1>5, <3>1 DEF FolderAhead
  <2> QED
    BY <1>5, <1>7, <1>8, <2>1, <2>2 DEF Before
<1>10. CASE Fail /\ UNCHANGED <<trees, server, history>>
  <2>1. TreeInv'
    BY <1>1, <1>3, <1>10, TreeUnchanged DEF TreeInv, Typed, Fail
  <2> QED
    BY <1>10, <2>1, AfterFail
<1>11. CASE StackOverflow /\ UNCHANGED <<trees, server, history>>
  <2>1. pc' = "crashed" /\ UNCHANGED <<stack, status, items, stop, kind, client, dirs, files,
                                       moved, kept, unread, partial>>
    BY <1>1, <1>11 DEF StackOverflow, setup, trees, history
  <2>2. TreeInv'
    BY <1>1, <1>3, <1>11, <2>1, TreeUnchanged DEF TreeInv, Typed
  <2>3. Place'
    BY <2>1 DEF Place
  <2>4. SoundStack(stack, unread, UsesCwd)'
    BY <1>3, <2>1 DEF UsesCwd
  <2>5. NothingForgotten'
    BY <2>1 DEF WalkInv, NothingForgotten, Dealt, ShownFiles
  <2>6. FoldersAhead'
    BY <2>1 DEF WalkInv, FoldersAhead
  <2> QED
    BY <2>2, <2>3, <2>4, <2>5, <2>6 DEF WalkInv
<1>12. CASE entry.dir /\ EnterFolder(entry.path, calls) /\ UNCHANGED <<trees, connected, moved, kept>>
  <2>1. SoundFolder(entry.path, unread, UsesCwd)
    BY <1>7, <1>8, <1>12 DEF SoundFolder
  <2>2. Front(entry.path) = Last(calls).path
    BY <1>5, <1>7
  <2> QED
    BY <1>1, <1>3, <1>9, <1>12, <2>1, <2>2, EnterFolderStep
<1>13. CASE ~entry.dir /\ DoFile(entry.path, calls) /\ UNCHANGED <<cwd, unread>>
  <2>1. entry.path \in Files \/ Below(entry.path, unread, UsesCwd)
    BY <1>7, <1>13
  <2> QED
    BY <1>1, <1>3, <1>5, <1>9, <1>13, <2>1, DoFileStep
<1> QED
  BY <1>2, <1>4, <1>10, <1>11, <1>12, <1>13

\* StopFolder: only once the user has cancelled.
LEMMA StopFolderStep == WalkInv /\ StopFolder => WalkInv'
<1> SUFFICES ASSUME WalkInv, StopFolder
             PROVE  WalkInv'
  OBVIOUS
<1>1. /\ stop /\ stop' /\ Succeed(Front(stack)) /\ UNCHANGED <<items, stop, kind, client, unread>>
      /\ UNCHANGED <<setup, trees, server, history>> /\ status' = status /\ stack # <<>>
  BY DEF StopFolder, Succeed, setup, history, WalkInv, Place
<1>2. TreeInv'
  BY <1>1, TreeUnchanged DEF WalkInv, TreeInv, Typed
<1>3. SoundStack(Front(stack), unread, UsesCwd)
  BY <1>1, SoundReturn DEF WalkInv
<1>4. SoundStack(Front(stack), unread', UsesCwd')
  BY <1>1, <1>3 DEF UsesCwd
<1>5. PICK calls : calls = Front(stack)
  OBVIOUS
<1> QED
  BY <1>1, <1>2, <1>4, <1>5, AfterSucceed

\* LeaveFolder: the folder left has nothing more to do; if it is removed it was
\* empty, if not it is reported or its client does not report.
LEMMA LeaveFolderStep == WalkInv /\ LeaveFolder => WalkInv'
<1> SUFFICES ASSUME WalkInv, LeaveFolder
             PROVE  WalkInv'
  OBVIOUS
<1>1. /\ Last(stack).left = {}
      /\ UNCHANGED <<kind, client, mode, locked, files, dest, cwd, connected, items, stop,
                     moved, kept, unread, partial>>
      /\ UsesCwd' = UsesCwd /\ ShownFiles' = ShownFiles
  BY DEF LeaveFolder, Top, setup, server, history, UsesCwd, ShownFiles
<1>2. /\ TreeInv /\ stack # <<>> /\ stack \in Seq(Frame)
      /\ SoundStack(stack, unread, UsesCwd)
  BY DEF WalkInv, Place, SoundStack, LeaveFolder
<1>3. /\ Front(stack) \in Seq(Frame) /\ Len(Front(stack)) = Len(stack) - 1
      /\ Len(stack) \in Nat /\ Len(stack) > 0
      /\ \A i \in 1..Len(stack) - 1 : Front(stack)[i] = stack[i]
      /\ Last(stack) = stack[Len(stack)] /\ Last(stack) \in Frame
  BY <1>2, CallsParts
<1>4. SoundStack(Front(stack), unread', UsesCwd')
  <2>1. SoundStack(Front(stack), unread, UsesCwd)
    BY <1>2, SoundReturn
  <2> QED
    BY <1>1, <2>1
<1>5. Last(stack).path \in Paths /\ InSelection(Last(stack).path)
  BY <1>2, <1>3 DEF SoundStack, SoundFrame, SoundFolder, Frame
<1>6. ASSUME dirs' \subseteq dirs,
             \A p \in dirs \ dirs' :
               p = Last(stack).path /\ \A q \in dirs \cup files : ~Under(p, q),
             status' \in BOOLEAN
      PROVE  TreeInv'
  <2>1. Typed'
    BY <1>1, <1>2, <1>6 DEF TreeInv, Typed
  <2>2. TreeKept'
    BY <1>1, <1>2, <1>6 DEF TreeInv, TreeKept
  <2>3. OnlySelection'
    BY <1>1, <1>2, <1>5, <1>6 DEF TreeInv, OnlySelection
  <2> QED
    BY <1>1, <1>2, <2>1, <2>2, <2>3 DEF TreeInv
<1>7. ASSUME ~stop', ~status', status' = status, NEW f \in Files, InSelection(f)
      PROVE  Dealt(f)' \/ Ahead(f, Front(stack), items')
  <2>1. Dealt(f) \/ Ahead(f, stack, items)
    BY <1>1, <1>7 DEF WalkInv, NothingForgotten
  <2>2. Dealt(f) => Dealt(f)'
    BY <1>1 DEF Dealt
  <2>3. Ahead(f, stack, items) => Ahead(f, Front(stack), items)
    BY <1>1, <1>2, AheadReturn
  <2> QED
    BY <1>1, <2>1, <2>2, <2>3
<1>8. ASSUME NEW i \in 1..Len(Selection), Selection[i] # Last(stack).path,
             FolderAhead(Selection[i], stack, items)
      PROVE  FolderAhead(Selection[i], Front(stack), items)
  <2>1. CASE stack[1].path = Selection[i]
    <3>1. Len(stack) # 1
      BY <1>3, <1>8, <2>1
    <3>2. 1 \in 1..Len(stack) - 1 /\ Len(Front(stack)) # 0
      BY <1>3, <3>1
    <3>3. Front(stack) # <<>>
      BY <3>2
    <3> QED
      BY <1>3, <2>1, <3>2, <3>3 DEF FolderAhead
  <2> QED
    BY <1>8, <2>1 DEF FolderAhead
<1>9. PICK calls : calls = Front(stack)
  OBVIOUS
<1>10. CASE kind # "remove" /\ Succeed(Front(stack)) /\ UNCHANGED dirs
  <2>1. status' = status
    BY <1>10 DEF Succeed
  <2>2. TreeInv'
    BY <1>2, <1>6, <1>10, <2>1 DEF TreeInv, Typed
  <2> QED
    BY <1>1, <1>4, <1>7, <1>9, <1>10, <2>1, <2>2, AfterSucceed
<1>11. CASE /\ Last(stack).path \in dirs
            /\ \A p \in dirs \cup files : ~Under(Last(stack).path, p)
            /\ dirs' = dirs \ {Last(stack).path}
            /\ Succeed(Front(stack))
  <2>1. status' = status
    BY <1>11 DEF Succeed
  <2>2. TreeInv'
    BY <1>2, <1>6, <1>11, <2>1 DEF TreeInv, Typed
  <2>3. ASSUME kind' = "remove" /\ client' \in {"smb", "nfs"}, ~stop', ~status',
               NEW i \in 1..Len(Selection), Selection[i] \in dirs'
        PROVE  FolderAhead(Selection[i], Front(stack), items')
    <3>1. Selection[i] \in dirs /\ Selection[i] # Last(stack).path
      BY <1>11, <2>3
    <3>2. FolderAhead(Selection[i], stack, items)
      BY <1>1, <2>1, <2>3, <3>1 DEF WalkInv, FoldersAhead
    <3> QED
      BY <1>1, <1>8, <3>1, <3>2
  <2> QED
    BY <1>1, <1>4, <1>7, <1>9, <1>11, <2>1, <2>2, <2>3, AfterSucceed
<1>12. CASE NotRemoved /\ UNCHANGED dirs
  <2>1. CASE client \in {"smb", "nfs"}
    <3>1. Fail
      BY <1>12, <2>1 DEF NotRemoved
    <3>2. TreeInv'
      BY <1>6, <1>12, <3>1 DEF Fail
    <3> QED
      BY <3>1, <3>2, AfterFail
  <2>2. CASE client \notin {"smb", "nfs"}
    <3>1. Succeed(Front(stack))
      BY <1>12, <2>2 DEF NotRemoved
    <3>2. status' = status
      BY <3>1 DEF Succeed
    <3>3. TreeInv'
      BY <1>2, <1>6, <1>12, <3>2 DEF TreeInv, Typed
    <3>4. client' \notin {"smb", "nfs"}
      BY <1>1, <2>2
    <3> QED
      BY <1>1, <1>4, <1>7, <1>9, <3>1, <3>2, <3>3, <3>4, AfterSucceed
  <2> QED
    BY <2>1, <2>2
<1> QED
  BY <1>10, <1>11, <1>12 DEF LeaveFolder, Top

\* Finish, Cancel, Disconnect: the calls stay as they are.
LEMMA OtherSteps == WalkInv /\ (Finish \/ Cancel \/ Disconnect) => WalkInv'
<1> SUFFICES ASSUME WalkInv, Finish \/ Cancel \/ Disconnect
             PROVE  WalkInv'
  OBVIOUS
<1>1. /\ UNCHANGED <<kind, client, mode, locked, dirs, files, dest, cwd, items, stack, status,
                     moved, kept, unread, partial>>
      /\ UsesCwd' = UsesCwd /\ ShownFiles' = ShownFiles
      /\ stop' \in BOOLEAN /\ connected' \in BOOLEAN /\ (stop => stop' = TRUE)
      /\ pc' = pc \/ (pc = "next" /\ items = <<>> /\ pc' = "done")
  BY DEF Finish, Cancel, Disconnect, setup, trees, server, walk, history, UsesCwd, ShownFiles,
         WalkInv, TreeInv, Typed
<1>2. Typed'
  BY <1>1 DEF WalkInv, TreeInv, Typed
<1>3. TreeInv'
  BY <1>1, <1>2 DEF WalkInv, TreeInv, TreeKept, OnlySelection
<1>4. Place'
  BY <1>1 DEF WalkInv, Place
<1>5. SoundStack(stack, unread, UsesCwd)'
  BY <1>1 DEF WalkInv
<1>6. ~stop' => ~stop
  BY <1>1
<1>7. NothingForgotten'
  BY <1>1, <1>6 DEF WalkInv, NothingForgotten, Dealt
<1>8. FoldersAhead'
  BY <1>1, <1>6 DEF WalkInv, FoldersAhead
<1> QED
  BY <1>3, <1>4, <1>5, <1>7, <1>8 DEF WalkInv

-------------------------------------------------------------------------------
(* The theorems.                                                           *)

\* At first the whole selection is ahead.
LEMMA WalkInit == Init => WalkInv
<1> SUFFICES ASSUME Init
             PROVE  WalkInv
  OBVIOUS
<1>1. /\ dirs = Dirs /\ files \subseteq Files /\ Files \ Hidden \subseteq files
      /\ items = Selection /\ stack = <<>> /\ pc = "next"
      /\ moved = {} /\ kept = {} /\ unread = {} /\ partial = {} /\ cwd = <<>>
  BY DEF Init
<1>2. Selection \in Seq(Dirs \cup Files)
  BY WalkAssumption
<1>3. Typed
  <2>1. kind \in {"download", "upload", "copy", "remove"}
    BY DEF Init
  <2>2. client \in {"ftp", "sftp", "smb", "nfs", "webdav"}
    BY <2>1 DEF Init
  <2>3. mode \in {"prompt", "none", "all"}
    BY DEF Init
  <2>4. dest \subseteq Files
    BY DEF Init
  <2> QED
    BY <1>1, <2>1, <2>2, <2>3, <2>4 DEF Init, Typed
<1>4. IsSuffix(Selection, Selection)
  <2>1. Reverse(Selection) \in Seq(Dirs \cup Files)
    BY <1>2 DEF Reverse
  <2> QED
    BY <2>1, UnderIsShorter DEF IsSuffix
<1>5. TreeKept /\ OnlySelection
  BY <1>1 DEF TreeKept, OnlySelection
<1>6. Place
  BY <1>1 DEF Place
<1>7. SoundStack(stack, unread, UsesCwd)
  BY <1>1, SoundEmpty
<1>8. NothingForgotten
  BY <1>1 DEF NothingForgotten, InSelection, Ahead
<1>9. FoldersAhead
  BY <1>1 DEF FoldersAhead, FolderAhead
<1> QED
  BY <1>1, <1>2, <1>3, <1>4, <1>5, <1>6, <1>7, <1>8, <1>9 DEF WalkInv, TreeInv

\* Every step keeps the invariant.
LEMMA WalkStep == WalkInv /\ [Next]_vars => WalkInv'
<1> SUFFICES ASSUME WalkInv, [Next]_vars
             PROVE  WalkInv'
  OBVIOUS
<1>1. CASE Thread
  BY <1>1, PingStep, NextItemStep, DoEntryStep, StopFolderStep, LeaveFolderStep, OtherSteps
     DEF Thread
<1>2. CASE Cancel \/ Disconnect
  BY <1>2, OtherSteps
<1>3. CASE UNCHANGED vars
  BY <1>3 DEF vars, setup, trees, server, walk, history, WalkInv, TreeInv, Typed, TreeKept,
     OnlySelection, Place, UsesCwd, NothingForgotten, FoldersAhead, Dealt, ShownFiles
<1> QED
  BY <1>1, <1>2, <1>3 DEF Next

\* The invariant behind the theorems below: everything selected is dealt with or
\* still ahead of the calls under way (Download, Upload, CopyRemotePath, Rmdir).
THEOREM WalkInvariant == Spec => []WalkInv
BY WalkInit, WalkStep, PTL DEF Spec

\* The types hold, and the calls under way are a chain of folders (the recursion
\* of Download, Upload, CopyRemotePath and Rmdir).
THEOREM TypeCorrect == Spec => []TypeOK
<1>1. WalkInv => TypeOK
  <2> SUFFICES ASSUME WalkInv
               PROVE  TypeOK
    OBVIOUS
  <2>1. SoundStack(stack, unread, UsesCwd) /\ Len(stack) \in Nat
    BY DEF WalkInv, SoundStack
  <2>2. \A i \in 1..Len(stack) : \A entry \in stack[i].left : Front(entry.path) = stack[i].path
    BY <2>1 DEF SoundStack, SoundFrame, SoundEntry
  <2>3. \A i \in 1..Len(stack) : i > 1 => Front(stack[i].path) = stack[i - 1].path
    <3>1. TAKE i \in 1..Len(stack)
    <3>2. i > 1 => i \in 2..Len(stack)
      BY <2>1
    <3> QED
      BY <2>1, <3>2 DEF SoundStack
  <2> QED
    BY <2>2, <2>3 DEF WalkInv, TreeInv, Typed, Place, TypeOK
<1> QED
  BY <1>1, WalkInvariant, PTL

\* A walk that ends without a stop and without a message has dealt with every file
\* selected, for any tree and any listing order, but for what a Get, a Put or a
\* listing that returned 1 left out of its own file or folder (actions.cpp:
\* Download, Upload, CopyRemotePath; Rmdir of the clients).
THEOREM CompleteOrReported == Spec => []CompleteUnlessReported
<1>1. WalkInv => CompleteUnlessReported
  <2> SUFFICES ASSUME WalkInv, pc = "done", ~stop, ~status, NEW f \in Files, InSelection(f)
               PROVE  Dealt(f)
    BY DEF CompleteUnlessReported, Dealt
  <2>1. items = <<>> /\ stack = <<>>
    BY DEF WalkInv, Place
  <2>2. ~Ahead(f, <<>>, <<>>)
    BY DEF Ahead
  <2> QED
    BY <2>1, <2>2 DEF WalkInv, NothingForgotten
<1> QED
  BY <1>1, WalkInvariant, PTL

\* Whatever the FTP server lists and wherever the walk goes, nothing outside the
\* selection is removed or transferred (FtpClient::ListDir with a refused CWD).
THEOREM OnlySelectionTouched == Spec => []OnlySelection
<1>1. WalkInv => OnlySelection
  BY DEF WalkInv, TreeInv
<1> QED
  BY <1>1, WalkInvariant, PTL

\* With the SMB and NFS clients a selected folder that is still there after a removal
\* is reported (SmbClient::Rmdir, NfsClient::Rmdir).
THEOREM FolderGoneOrReported == Spec => []FolderGoneUnlessReported
<1>1. WalkInv => FolderGoneUnlessReported
  <2> SUFFICES ASSUME WalkInv, pc = "done", kind = "remove", client \in {"smb", "nfs"},
                      ~stop, ~status, NEW i \in 1..Len(Selection), Selection[i] \in dirs
               PROVE  FALSE
    BY DEF FolderGoneUnlessReported
  <2>1. items = <<>> /\ stack = <<>>
    BY DEF WalkInv, Place
  <2>2. ~FolderAhead(Selection[i], <<>>, <<>>)
    BY DEF FolderAhead
  <2> QED
    BY <2>1, <2>2 DEF WalkInv, FoldersAhead
<1> QED
  BY <1>1, WalkInvariant, PTL

\* Only a client that lists the server's current directory leaves the tree, and only
\* below a folder it could not enter (ftpclient.cpp:1708).
THEOREM AstrayIsBelowLocked == Spec => []AstrayOnlyBelowLocked
<1>1. WalkInv => AstrayOnlyBelowLocked
  <2> SUFFICES ASSUME WalkInv, NEW i \in 1..Len(stack), stack[i].path \notin Dirs
               PROVE  UsesCwd /\ \E directory \in unread : Under(directory, stack[i].path)
    BY DEF AstrayOnlyBelowLocked, Frames
  <2>1. SoundFolder(stack[i].path, unread, UsesCwd)
    BY DEF WalkInv, SoundStack, SoundFrame
  <2> QED
    BY <2>1 DEF SoundFolder, Below
<1> QED
  BY <1>1, WalkInvariant, PTL
===============================================================================
